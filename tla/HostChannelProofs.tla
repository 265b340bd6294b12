-------------------------- MODULE HostChannelProofs --------------------------
(***************************************************************************)
(* The control channel for any number of connections, calls and faults,    *)
(* and the exec sessions that use it.                                      *)
(***************************************************************************)
EXTENDS ExecSession, TLAPS

USE DEF Conns, None, Calling, Returned, SrvPhase, EntryState

\* The connections whose handler has registered, and is not over.
Registered == {"kicking", "serving", "leaving"}
Unminted   == {"none", "accepted"}
Unlisted   == Unminted \cup {"minted"}

\* A handler has a generation from the moment it is minted, and no other has it:
\* what unregister compares.
GenerationsDiffer ==
  /\ \A c \in Conns : srv[c] \in Unminted <=> gen[c] = 0
  /\ \A c \in Conns : gen[c] <= lastGen
  /\ \A c, d \in Conns : gen[c] = gen[d] /\ gen[c] # 0 => c = d

\* What was registered once is not registered again.
ReplacedForGood ==
  /\ \A c \in Conns : kicked[c] => srv[c] \notin Unlisted
  /\ \A d \in Conns : displaced[d] # None =>
       displaced[d] # hub /\ srv[displaced[d]] \notin Unlisted

\* A connection that is yet to be dialled has no handler.
DialledOnce == \A c \in Conns : sat[c] = "idle" => srv[c] = "none"

RegistryInv == DialledOnce /\ GenerationsDiffer /\ ReplacedForGood /\ PresenceIsServed

-----------------------------------------------------------------------------
(* Types.                                                                  *)

\* A handler's queue or a wire stays one when a request is added or taken away.
LEMMA QueueTypes ==
  ASSUME NEW S, NEW q \in Seq(S)
  PROVE  /\ \A r \in S : Append(q, r) \in Seq(S) /\ Len(Append(q, r)) = Len(q) + 1
         /\ q # <<>> => Head(q) \in S /\ Tail(q) \in Seq(S) /\ Len(Tail(q)) = Len(q) - 1
  OBVIOUS

LEMMA InitType == Init => TypeOK
  BY NumbersAssumption DEF Init, TypeOK

\* What the satellite's end of a connection does keeps the types.
LEMMA ClientType ==
  ASSUME TypeOK, NEW c \in Conns, Client(c) \/ Cut(c)
  PROVE  TypeOK'
<1>1. CASE Dial(c)
  BY <1>1 DEF TypeOK, Dial, hubVars, srvVars, wireVars, callVars, taskVars
<1>2. CASE SatelliteEnds(c)
  BY <1>2 DEF TypeOK, SatelliteEnds, hubVars, srvVars, wireVars, callVars, taskVars
<1>3. CASE HandleControlFrame(c)
  <2>1. Head(down[c]) \in Requests /\ Tail(down[c]) \in Seq(Requests)
    BY <1>3, QueueTypes DEF TypeOK, HandleControlFrame
  <2> QED BY <1>3, <2>1 DEF TypeOK, HandleControlFrame, hubVars, srvVars, callVars
<1>4. CASE Cut(c)
  BY <1>4, NumbersAssumption DEF TypeOK, Cut, Fault, hubVars, srvVars, callVars, taskVars
<1> QED BY <1>1, <1>2, <1>3, <1>4 DEF Client

\* What its handler does keeps the types.
LEMMA HandlerType ==
  ASSUME TypeOK, NEW c \in Conns, Handler(c)
  PROVE  TypeOK'
<1>1. CASE MintGeneration(c)
  <2>1. lastGen' \in Nat /\ gen' \in [Conns -> Nat]
    BY <1>1 DEF TypeOK, MintGeneration
  <2>2. srv' \in [Conns -> SrvPhase]
    BY <1>1 DEF TypeOK, MintGeneration
  <2> QED BY <1>1, <2>1, <2>2 DEF TypeOK, MintGeneration, wireVars, callVars, taskVars
<1>2. CASE InsertHandle(c)
  BY <1>2 DEF TypeOK, InsertHandle, wireVars, callVars, taskVars
<1>3. CASE KickReplaced(c)
  BY <1>3 DEF TypeOK, KickReplaced, hubVars, wireVars, callVars, taskVars
<1>4. CASE ForwardCtrl(c)
  <2>1. /\ Head(ctrl[c]) \in Requests /\ Tail(ctrl[c]) \in Seq(Requests)
        /\ Len(Tail(ctrl[c])) <= CtrlBuffer
    BY <1>4, QueueTypes, NumbersAssumption DEF TypeOK, ForwardCtrl
  <2>2. Append(down[c], Head(ctrl[c])) \in Seq(Requests)
    BY <2>1, QueueTypes DEF TypeOK
  <2>3. ctrl' \in [Conns -> Seq(Requests)] /\ \A d \in Conns : Len(ctrl'[d]) <= CtrlBuffer
    BY <1>4, <2>1 DEF TypeOK, ForwardCtrl
  <2>4. down' \in [Conns -> Seq(Requests)]
    BY <1>4, <2>2 DEF TypeOK, ForwardCtrl
  <2> QED BY <1>4, <2>3, <2>4 DEF TypeOK, ForwardCtrl, hubVars, srvVars, callVars, taskVars
<1>5. CASE CompleteProjectInit(c)
  <2>1. Head(back[c]) \in Requests /\ Tail(back[c]) \in Seq(Requests)
    BY <1>5, QueueTypes DEF TypeOK, CompleteProjectInit
  <2> QED BY <1>5, <2>1 DEF TypeOK, CompleteProjectInit, hubVars, srvVars, callVars, taskVars
<1>6. CASE HandlerBreaks(c)
  BY <1>6 DEF TypeOK, HandlerBreaks, hubVars, wireVars, callVars, taskVars
<1>7. CASE Unregister(c)
  <2>1. <<>> \in Seq(Requests) /\ Len(<<>>) = 0
    OBVIOUS
  <2>2. ctrl' \in [Conns -> Seq(Requests)] /\ \A d \in Conns : Len(ctrl'[d]) <= CtrlBuffer
    BY <1>7, <2>1, NumbersAssumption DEF TypeOK, Unregister
  <2>3. back' \in [Conns -> Seq(Requests)]
    BY <1>7, <2>1 DEF TypeOK, Unregister
  <2> QED BY <1>7, <2>2, <2>3 DEF TypeOK, Unregister, callVars, taskVars
<1> QED BY <1>1, <1>2, <1>3, <1>4, <1>5, <1>6, <1>7 DEF Handler

\* What a call and the task that serves it do keeps the types.
LEMMA CallType ==
  ASSUME TypeOK, NEW r \in Requests, Call(r) \/ Task(r)
  PROVE  TypeOK'
<1>1. CASE Open(r)
  <2>1. /\ pc' \in [Requests -> {"idle"} \cup Calling \cup Returned]
        /\ entry' \in [Requests -> EntryState]
    BY <1>1 DEF TypeOK, Open
  <2>2. chan' \in [Requests -> Conns \cup {None}]
    BY <1>1 DEF TypeOK, Open
  <2> QED BY <1>1, <2>1, <2>2 DEF TypeOK, Open, hubVars, srvVars, wireVars, taskVars
<1>2. CASE Send(r)
  <2>1. ctrl' \in [Conns -> Seq(Requests)] /\ \A d \in Conns : Len(ctrl'[d]) <= CtrlBuffer
    <3>1. CASE chan[r] \in Conns
      <4>1. /\ Append(ctrl[chan[r]], r) \in Seq(Requests)
            /\ Len(Append(ctrl[chan[r]], r)) <= CtrlBuffer
        BY <1>2, <3>1, QueueTypes, NumbersAssumption DEF TypeOK, Send
      <4> QED BY <1>2, <3>1, <4>1 DEF TypeOK, Send
    <3>2. CASE chan[r] \notin Conns
      BY <1>2, <3>2 DEF TypeOK, Send
    <3> QED BY <3>1, <3>2
  <2> QED BY <1>2, <2>1 DEF TypeOK, Send, hubVars, srvVars, wireVars, taskVars
<1>3. CASE SendFails(r)
  BY <1>3 DEF TypeOK, SendFails, Removed, hubVars, srvVars, wireVars, taskVars
<1>4. CASE Answered(r)
  BY <1>4 DEF TypeOK, Answered, hubVars, srvVars, wireVars, taskVars
<1>5. CASE GivesUp(r)
  BY <1>5 DEF TypeOK, GivesUp, Removed, hubVars, srvVars, wireVars, taskVars
<1>6. CASE Left(r)
  <2>1. faults' \in 0 .. MaxFaults
    BY <1>6, NumbersAssumption DEF TypeOK, Left, Fault
  <2>2. pc' \in [Requests -> {"idle"} \cup Calling \cup Returned]
    BY <1>6 DEF TypeOK, Left
  <2> QED BY <1>6, <2>1, <2>2 DEF TypeOK, Left, hubVars, srvVars, wireVars, taskVars
<1>7. CASE ProjectCreated(r)
  <2>1. back' \in [Conns -> Seq(Requests)]
    BY <1>7, QueueTypes DEF TypeOK, ProjectCreated
  <2> QED BY <1>7, <2>1 DEF TypeOK, ProjectCreated, hubVars, srvVars, callVars
<1>8. CASE ClaimExec(r)
  BY <1>8 DEF TypeOK, ClaimExec, hubVars, srvVars, wireVars, callVars
<1>9. CASE UpgradeLost(r)
  BY <1>9, NumbersAssumption DEF TypeOK, UpgradeLost, Fault, hubVars, srvVars, wireVars, callVars
<1>10. CASE Pair(r)
  BY <1>10 DEF TypeOK, Pair, hubVars, srvVars, wireVars, callVars
<1> QED BY <1>1, <1>2, <1>3, <1>4, <1>5, <1>6, <1>7, <1>8, <1>9, <1>10 DEF Call, Task

\* The control channel is well typed, and no channel holds more than CTRL_BUFFER
\* messages, for any number of connections, calls and faults.
THEOREM TypeCorrect == Spec => []TypeOK
<1>1. TypeOK /\ [Next]_channelVars => TypeOK'
  <2>1. ASSUME TypeOK, UNCHANGED channelVars PROVE TypeOK'
    BY <2>1 DEF TypeOK, channelVars, hubVars, srvVars, wireVars, callVars, taskVars
  <2> QED BY <2>1, ClientType, HandlerType, CallType DEF Next
<1> QED BY <1>1, InitType, PTL DEF Spec

-----------------------------------------------------------------------------
(* The registry.                                                           *)

registry == <<hub, lastGen, srv, gen, displaced, kicked>>

LEMMA InitRegistry == Init => RegistryInv
  BY DEF Init, RegistryInv, DialledOnce, GenerationsDiffer, ReplacedForGood, PresenceIsServed,
         Unminted, Unlisted

\* A step that neither dials nor touches the registry keeps the invariant.
LEMMA RegistryFrame ==
  ASSUME RegistryInv, UNCHANGED registry, \A c \in Conns : sat'[c] = "idle" => sat[c] = "idle"
  PROVE  RegistryInv'
  BY DEF registry, RegistryInv, DialledOnce, GenerationsDiffer, ReplacedForGood, PresenceIsServed

\* A dial, which gives the connection its handler.
LEMMA RegistryDial ==
  ASSUME TypeOK, RegistryInv, NEW c \in Conns, Dial(c)
  PROVE  RegistryInv'
<1>1. /\ srv[c] = "none" /\ srv' = [srv EXCEPT ![c] = "accepted"]
      /\ sat' = [sat EXCEPT ![c] = "up"]
      /\ UNCHANGED <<hub, lastGen, gen, displaced, kicked>>
  BY DEF Dial, RegistryInv, DialledOnce, hubVars
<1>2. DialledOnce'
  BY <1>1 DEF TypeOK, RegistryInv, DialledOnce
<1>3. GenerationsDiffer'
  BY <1>1 DEF TypeOK, RegistryInv, GenerationsDiffer, Unminted
<1>4. ReplacedForGood'
  BY <1>1 DEF TypeOK, RegistryInv, ReplacedForGood, Unlisted, Unminted
<1>5. PresenceIsServed'
  BY <1>1 DEF TypeOK, RegistryInv, PresenceIsServed
<1> QED BY <1>2, <1>3, <1>4, <1>5 DEF RegistryInv

\* The generation is new, whatever was registered before.
LEMMA RegistryMint ==
  ASSUME TypeOK, RegistryInv, NEW c \in Conns, MintGeneration(c)
  PROVE  RegistryInv'
<1>1. /\ srv[c] = "accepted" /\ srv' = [srv EXCEPT ![c] = "minted"]
      /\ lastGen' = lastGen + 1 /\ gen' = [gen EXCEPT ![c] = lastGen + 1]
      /\ UNCHANGED <<hub, displaced, kicked, sat>>
  BY DEF MintGeneration
<1>2. DialledOnce'
  BY <1>1 DEF TypeOK, RegistryInv, DialledOnce
<1>3. GenerationsDiffer'
  <2>1. \A d \in Conns : gen[d] <= lastGen /\ gen[d] # lastGen + 1
    BY DEF TypeOK, RegistryInv, GenerationsDiffer
  <2>2. \A d \in Conns : gen'[d] = IF d = c THEN lastGen + 1 ELSE gen[d]
    BY <1>1 DEF TypeOK
  <2>3. \A d \in Conns : srv'[d] \in Unminted <=> gen'[d] = 0
    BY <1>1, <2>2 DEF TypeOK, RegistryInv, GenerationsDiffer, Unminted
  <2>4. \A d \in Conns : gen'[d] <= lastGen'
    BY <1>1, <2>1, <2>2 DEF TypeOK
  <2>5. \A d, e \in Conns : gen'[d] = gen'[e] /\ gen'[d] # 0 => d = e
    BY <2>1, <2>2 DEF RegistryInv, GenerationsDiffer
  <2> QED BY <2>3, <2>4, <2>5 DEF GenerationsDiffer
<1>4. ReplacedForGood'
  BY <1>1 DEF TypeOK, RegistryInv, ReplacedForGood, Unlisted, Unminted
<1>5. PresenceIsServed'
  BY <1>1 DEF TypeOK, RegistryInv, PresenceIsServed
<1> QED BY <1>2, <1>3, <1>4, <1>5 DEF RegistryInv

\* The handle goes in, and the one it replaced has not been kicked yet.
LEMMA RegistryInsert ==
  ASSUME TypeOK, RegistryInv, NEW c \in Conns, InsertHandle(c)
  PROVE  RegistryInv'
<1>1. /\ srv[c] = "minted" /\ srv' = [srv EXCEPT ![c] = "kicking"]
      /\ hub' = c /\ displaced' = [displaced EXCEPT ![c] = hub]
      /\ UNCHANGED <<lastGen, gen, kicked, sat>>
  BY DEF InsertHandle
<1>2. DialledOnce'
  BY <1>1 DEF TypeOK, RegistryInv, DialledOnce
<1>3. GenerationsDiffer'
  BY <1>1 DEF TypeOK, RegistryInv, GenerationsDiffer, Unminted
<1>4. hub # None => hub \in Conns /\ srv[hub] \notin Unlisted
  BY DEF TypeOK, RegistryInv, PresenceIsServed, Unlisted, Unminted
<1>5. ReplacedForGood'
  <2>1. \A d \in Conns : kicked'[d] => srv'[d] \notin Unlisted
    BY <1>1 DEF TypeOK, RegistryInv, ReplacedForGood, Unlisted, Unminted
  <2>2. ASSUME NEW d \in Conns, displaced'[d] # None
        PROVE  displaced'[d] # hub' /\ srv'[displaced'[d]] \notin Unlisted
    <3>1. /\ displaced'[d] \in Conns /\ srv[displaced'[d]] \notin Unlisted
      BY <1>1, <1>4, <2>2 DEF TypeOK, RegistryInv, ReplacedForGood
    <3> QED BY <1>1, <3>1 DEF TypeOK, Unlisted, Unminted
  <2> QED BY <2>1, <2>2 DEF ReplacedForGood
<1>6. PresenceIsServed'
  <2>1. srv'[hub'] = "kicking" /\ ~kicked'[hub']
    BY <1>1 DEF TypeOK, RegistryInv, ReplacedForGood, Unlisted
  <2>2. ASSUME NEW e \in Conns, srv'[e] \in {"kicking", "serving"}, e # hub'
        PROVE  kicked'[e] \/ \E d \in Conns : srv'[d] = "kicking" /\ displaced'[d] = e
    <3>1. CASE e = hub
      BY <1>1, <3>1 DEF TypeOK
    <3>2. CASE e # hub
      <4>1. srv[e] \in {"kicking", "serving"}
        BY <1>1, <2>2 DEF TypeOK
      <4>2. CASE kicked[e]
        BY <1>1, <4>2
      <4>3. CASE \E d \in Conns : srv[d] = "kicking" /\ displaced[d] = e
        <5>1. PICK d \in Conns : srv[d] = "kicking" /\ displaced[d] = e
          BY <4>3
        <5>2. d # c
          BY <1>1, <5>1
        <5>3. srv'[d] = "kicking" /\ displaced'[d] = e
          BY <1>1, <5>1, <5>2 DEF TypeOK
        <5> QED BY <5>3
      <4> QED BY <3>2, <4>1, <4>2, <4>3 DEF RegistryInv, PresenceIsServed
    <3> QED BY <3>1, <3>2
  <2> QED BY <1>1, <2>1, <2>2 DEF PresenceIsServed
<1> QED BY <1>2, <1>3, <1>5, <1>6 DEF RegistryInv

\* The one it replaced is kicked; it is not the one that is registered.
LEMMA RegistryKick ==
  ASSUME TypeOK, RegistryInv, NEW c \in Conns, KickReplaced(c)
  PROVE  RegistryInv'
<1>1. /\ srv[c] = "kicking" /\ srv' = [srv EXCEPT ![c] = "serving"]
      /\ kicked' = IF displaced[c] = None THEN kicked ELSE [kicked EXCEPT ![displaced[c]] = TRUE]
      /\ UNCHANGED <<hub, lastGen, gen, displaced, sat>>
  BY DEF KickReplaced, hubVars
<1>2. DialledOnce'
  BY <1>1 DEF TypeOK, RegistryInv, DialledOnce
<1>3. GenerationsDiffer'
  BY <1>1 DEF TypeOK, RegistryInv, GenerationsDiffer, Unminted
<1>4. \A e \in Conns : kicked'[e] <=> kicked[e] \/ (displaced[c] # None /\ e = displaced[c])
  BY <1>1 DEF TypeOK
<1>5. ReplacedForGood'
  BY <1>1, <1>4 DEF TypeOK, RegistryInv, ReplacedForGood, Unlisted, Unminted
<1>6. PresenceIsServed'
  <2>1. hub # None => srv'[hub] \in {"kicking", "serving", "leaving"} /\ ~kicked'[hub]
    BY <1>1, <1>4 DEF TypeOK, RegistryInv, ReplacedForGood, PresenceIsServed
  <2>2. ASSUME NEW e \in Conns, srv'[e] \in {"kicking", "serving"}, e # hub
        PROVE  kicked'[e] \/ \E d \in Conns : srv'[d] = "kicking" /\ displaced'[d] = e
    <3>1. srv[e] \in {"kicking", "serving"}
      BY <1>1, <2>2 DEF TypeOK
    <3>2. CASE kicked[e]
      BY <1>4, <3>2
    <3>3. CASE \E d \in Conns : srv[d] = "kicking" /\ displaced[d] = e
      <4>1. PICK d \in Conns : srv[d] = "kicking" /\ displaced[d] = e
        BY <3>3
      <4>2. CASE d = c
        BY <1>4, <4>1, <4>2
      <4>3. CASE d # c
        <5>1. srv'[d] = "kicking" /\ displaced'[d] = e
          BY <1>1, <4>1, <4>3 DEF TypeOK
        <5> QED BY <5>1
      <4> QED BY <4>2, <4>3
    <3> QED BY <2>2, <3>1, <3>2, <3>3 DEF RegistryInv, PresenceIsServed
  <2> QED BY <1>1, <2>1, <2>2 DEF PresenceIsServed
<1> QED BY <1>2, <1>3, <1>5, <1>6 DEF RegistryInv

\* The loop ends.
LEMMA RegistryBreak ==
  ASSUME TypeOK, RegistryInv, NEW c \in Conns, HandlerBreaks(c)
  PROVE  RegistryInv'
<1>1. /\ srv[c] = "serving" /\ srv' = [srv EXCEPT ![c] = "leaving"]
      /\ UNCHANGED <<hub, lastGen, gen, displaced, kicked, sat>>
  BY DEF HandlerBreaks, hubVars
<1>2. DialledOnce'
  BY <1>1 DEF TypeOK, RegistryInv, DialledOnce
<1>3. GenerationsDiffer'
  BY <1>1 DEF TypeOK, RegistryInv, GenerationsDiffer, Unminted
<1>4. ReplacedForGood'
  BY <1>1 DEF TypeOK, RegistryInv, ReplacedForGood, Unlisted, Unminted
<1>5. PresenceIsServed'
  BY <1>1 DEF TypeOK, RegistryInv, PresenceIsServed
<1> QED BY <1>2, <1>3, <1>4, <1>5 DEF RegistryInv

\* A handler that returns takes its own registration, if it is still there.
LEMMA RegistryLeave ==
  ASSUME TypeOK, RegistryInv, NEW c \in Conns, Unregister(c)
  PROVE  RegistryInv'
<1>1. /\ srv[c] = "leaving" /\ srv' = [srv EXCEPT ![c] = "over"]
      /\ hub' = (IF hub # None /\ gen[hub] = gen[c] THEN None ELSE hub)
      /\ UNCHANGED <<lastGen, gen, displaced, kicked, sat>>
  BY DEF Unregister
<1>2. hub' = IF hub = c THEN None ELSE hub
  <2>1. gen[c] # 0
    BY <1>1 DEF RegistryInv, GenerationsDiffer, Unminted
  <2>2. hub # None /\ gen[hub] = gen[c] => hub = c
    BY <2>1 DEF TypeOK, RegistryInv, GenerationsDiffer
  <2> QED BY <1>1, <2>2 DEF TypeOK
<1>3. DialledOnce'
  BY <1>1 DEF TypeOK, RegistryInv, DialledOnce
<1>4. GenerationsDiffer'
  BY <1>1 DEF TypeOK, RegistryInv, GenerationsDiffer, Unminted
<1>5. ReplacedForGood'
  BY <1>1, <1>2 DEF TypeOK, RegistryInv, ReplacedForGood, Unlisted, Unminted
<1>6. PresenceIsServed'
  <2>1. hub' # None => srv'[hub'] \in {"kicking", "serving", "leaving"} /\ ~kicked'[hub']
    BY <1>1, <1>2 DEF TypeOK, RegistryInv, PresenceIsServed
  <2>2. ASSUME NEW e \in Conns, srv'[e] \in {"kicking", "serving"}, e # hub'
        PROVE  kicked'[e] \/ \E d \in Conns : srv'[d] = "kicking" /\ displaced'[d] = e
    <3>1. e # c /\ srv[e] \in {"kicking", "serving"} /\ e # hub
      BY <1>1, <1>2, <2>2 DEF TypeOK
    <3>2. \A d \in Conns : srv[d] = "kicking" => srv'[d] = "kicking"
      BY <1>1 DEF TypeOK
    <3> QED BY <1>1, <3>1, <3>2 DEF RegistryInv, PresenceIsServed
  <2> QED BY <2>1, <2>2 DEF PresenceIsServed
<1> QED BY <1>3, <1>4, <1>5, <1>6 DEF RegistryInv

\* Every step keeps the registry's invariant.
LEMMA RegistryStep ==
  ASSUME TypeOK, RegistryInv, [Next]_channelVars
  PROVE  RegistryInv'
<1>1. ASSUME NEW c \in Conns, Client(c) \/ Handler(c) \/ Cut(c) PROVE RegistryInv'
  <2>1. CASE SatelliteEnds(c) \/ HandleControlFrame(c) \/ Cut(c)
    <3>1. UNCHANGED registry /\ \A d \in Conns : sat'[d] = "idle" => sat[d] = "idle"
      BY <2>1 DEF TypeOK, SatelliteEnds, HandleControlFrame, Cut, registry, hubVars, srvVars
    <3> QED BY <3>1, RegistryFrame
  <2>2. CASE ForwardCtrl(c) \/ CompleteProjectInit(c)
    <3>1. UNCHANGED registry /\ UNCHANGED sat
      BY <2>2 DEF ForwardCtrl, CompleteProjectInit, registry, hubVars, srvVars
    <3> QED BY <3>1, RegistryFrame
  <2> QED BY <1>1, <2>1, <2>2, RegistryDial, RegistryMint, RegistryInsert, RegistryKick,
             RegistryBreak, RegistryLeave DEF Client, Handler
<1>2. ASSUME NEW r \in Requests, Call(r) \/ Task(r) PROVE RegistryInv'
  <2>1. UNCHANGED registry /\ UNCHANGED sat
    BY <1>2 DEF Call, Task, Open, Send, SendFails, Answered, GivesUp, Left, ProjectCreated,
                ClaimExec, UpgradeLost, Pair, registry, hubVars, srvVars
  <2> QED BY <2>1, RegistryFrame
<1>3. CASE UNCHANGED channelVars
  <2>1. UNCHANGED registry /\ UNCHANGED sat
    BY <1>3 DEF channelVars, registry, hubVars, srvVars
  <2> QED BY <2>1, RegistryFrame
<1> QED BY <1>1, <1>2, <1>3 DEF Next

\* The connection that is registered has a handler that serves it and was not told
\* to leave, and every other handler has been or is about to be, for any number
\* of connections, however their registrations and departures interleave.
THEOREM PresenceServed == Spec => []PresenceIsServed
<1>1. TypeOK /\ RegistryInv /\ [Next]_channelVars => RegistryInv'
  BY RegistryStep
<1>2. RegistryInv => PresenceIsServed
  BY DEF RegistryInv
<1> QED BY <1>1, <1>2, InitRegistry, TypeCorrect, PTL DEF Spec

-----------------------------------------------------------------------------
(* The nonces.                                                             *)

\* A step of a call keeps its nonce out of the map, unless it waits or was dropped.
LEMMA NonceCall ==
  ASSUME TypeOK, PendingIsAwaited, NEW r \in Requests, Call(r)
  PROVE  PendingIsAwaited'
<1>1. CASE Open(r)
  BY <1>1 DEF TypeOK, PendingIsAwaited, Open
<1>2. CASE Send(r)
  BY <1>2 DEF TypeOK, PendingIsAwaited, Send
<1>3. CASE SendFails(r) \/ GivesUp(r)
  <2>1. entry' = Removed(r) /\ \A q \in Requests : q # r => pc'[q] = pc[q]
    BY <1>3 DEF TypeOK, SendFails, GivesUp
  <2>2. \A q \in Requests : entry'[q] = "pending" => q # r /\ entry[q] = "pending"
    BY <2>1 DEF TypeOK, Removed
  <2> QED BY <2>1, <2>2 DEF PendingIsAwaited
<1>4. CASE Answered(r)
  BY <1>4 DEF TypeOK, PendingIsAwaited, Answered
<1>5. CASE Left(r)
  BY <1>5 DEF TypeOK, PendingIsAwaited, Left
<1> QED BY <1>1, <1>2, <1>3, <1>4, <1>5 DEF Call

\* Every other step only takes nonces out.
LEMMA NonceStep ==
  ASSUME TypeOK, PendingIsAwaited, [Next]_channelVars
  PROVE  PendingIsAwaited'
<1>1. ASSUME UNCHANGED pc, \A q \in Requests : entry'[q] = "pending" => entry[q] = "pending"
      PROVE  PendingIsAwaited'
  BY <1>1 DEF PendingIsAwaited
<1>2. ASSUME NEW c \in Conns, Client(c) \/ Handler(c) \/ Cut(c) PROVE PendingIsAwaited'
  <2>1. CASE CompleteProjectInit(c)
    <3>1. UNCHANGED pc /\ \A q \in Requests : entry'[q] = "pending" => entry[q] = "pending"
      BY <2>1 DEF TypeOK, CompleteProjectInit, callVars
    <3> QED BY <1>1, <3>1
  <2>2. CASE ~CompleteProjectInit(c)
    <3>1. UNCHANGED pc /\ UNCHANGED entry
      BY <1>2, <2>2 DEF Client, Handler, Dial, SatelliteEnds, HandleControlFrame, Cut,
           MintGeneration, InsertHandle, KickReplaced, ForwardCtrl, HandlerBreaks, Unregister,
           callVars
    <3> QED BY <1>1, <3>1
  <2> QED BY <2>1, <2>2
<1>3. ASSUME NEW r \in Requests, Task(r) PROVE PendingIsAwaited'
  <2>1. UNCHANGED pc /\ \A q \in Requests : entry'[q] = "pending" => entry[q] = "pending"
    BY <1>3 DEF TypeOK, Task, ProjectCreated, ClaimExec, UpgradeLost, Pair, callVars
  <2> QED BY <1>1, <2>1
<1>4. CASE UNCHANGED channelVars
  BY <1>1, <1>4 DEF channelVars, callVars
<1> QED BY <1>2, <1>3, <1>4, NonceCall DEF Next

\* A call that has returned leaves no nonce to be claimed, whichever way it
\* returned by and whatever raced it, unless it was dropped.
THEOREM NoncesRemoved == Spec => []PendingIsAwaited
<1>1. Init => PendingIsAwaited
  BY DEF Init, PendingIsAwaited
<1>2. TypeOK /\ PendingIsAwaited /\ [Next]_channelVars => PendingIsAwaited'
  BY NonceStep
<1> QED BY <1>1, <1>2, TypeCorrect, PTL DEF Spec

-----------------------------------------------------------------------------
(* The exec sessions leave the control channel what it is.                 *)

\* A step of the composition is a step of the control channel or leaves it alone.
LEMMA ExecStep == ExecNext => [Next]_channelVars
<1>1. ASSUME Channel PROVE Next
  BY <1>1 DEF Channel, Next, Call, Task, Execs
<1>2. ASSUME NEW r \in Execs, PairLink(r) \/ TakeBridge(r) \/ LeftLink(r) PROVE Next
  BY <1>2 DEF PairLink, TakeBridge, LeftLink, Next, Call, Task, Execs
<1> QED BY <1>1, <1>2 DEF ExecNext

\* A control channel whose calls run sessions is one: no link, pump, engine or
\* child reaches into the registry, the pending map or a control connection.
THEOREM SessionsKeepTheChannel == ExecSpec => Spec
<1>1. [ExecNext /\ faults' + severed' <= MaxFaults]_vars => [Next]_channelVars
  BY ExecStep DEF vars
<1>2. ExecInit => Init
  BY DEF ExecInit
<1> QED BY <1>1, <1>2, PTL DEF ExecSpec, Spec

\* So it keeps what the control channel promises.
THEOREM SessionsKeepItsPromises == ExecSpec => [](TypeOK /\ PresenceIsServed /\ PendingIsAwaited)
  BY SessionsKeepTheChannel, TypeCorrect, PresenceServed, NoncesRemoved, PTL

-----------------------------------------------------------------------------
(* Types of a session.                                                     *)

\* The part of ExecTypeOK a session's own steps can disturb.
SessionTypes ==
  /\ hold \in [Execs -> {"none", "shaking", "using", "over"}]
  /\ lines \in [Execs -> 0 .. MaxLines]
  /\ pump \in [Execs -> {"none", "up", "over"}]
  /\ wire \in [Execs -> {"up", "cut"}]
  /\ outward \in [Execs -> Seq(Frames)] /\ inward \in [Execs -> Seq(Frames)]
  /\ sess \in [Execs -> {"none", "spec", "pump", "feeding", "reaping", "ending", "over"}]
  /\ feed \in [Execs -> 0 .. LineSize]
  /\ severed \in Nat
  /\ stdin \in [Execs -> BOOLEAN]
  /\ inPipe \in [Execs -> 0 .. PipeCap] /\ outPipe \in [Execs -> 0 .. PipeCap]
  /\ child \in [Execs -> {"none", "alive", "mute", "dead"}]
  /\ owes \in [Execs -> 0 .. MaxReply]

\* A link's frames stay frames, whatever becomes of them.
LEMMA FrameTypes ==
  ASSUME SessionTypes, NEW r \in Execs, NEW f \in Frames
  PROVE  /\ ToSatellite(r, f) \in [Execs -> Seq(Frames)]
         /\ ToCaller(r, f) \in [Execs -> Seq(Frames)]
         /\ [outward EXCEPT ![r] = <<>>] \in [Execs -> Seq(Frames)]
         /\ [inward EXCEPT ![r] = <<>>] \in [Execs -> Seq(Frames)]
         /\ outward[r] # <<>> => [outward EXCEPT ![r] = Tail(@)] \in [Execs -> Seq(Frames)]
         /\ inward[r] # <<>> => [inward EXCEPT ![r] = Tail(@)] \in [Execs -> Seq(Frames)]
<1>1. outward \in [Execs -> Seq(Frames)] /\ inward \in [Execs -> Seq(Frames)]
  BY DEF SessionTypes
<1>2. Append(outward[r], f) \in Seq(Frames) /\ Append(inward[r], f) \in Seq(Frames)
  BY <1>1, QueueTypes
<1>3. <<>> \in Seq(Frames)
  OBVIOUS
<1>4. /\ outward[r] # <<>> => Tail(outward[r]) \in Seq(Frames)
      /\ inward[r] # <<>> => Tail(inward[r]) \in Seq(Frames)
  BY <1>1, QueueTypes
<1>5. ToSatellite(r, f) \in [Execs -> Seq(Frames)] /\ ToCaller(r, f) \in [Execs -> Seq(Frames)]
  BY <1>1, <1>2 DEF ToSatellite, ToCaller, Sent
<1> QED BY <1>1, <1>3, <1>4, <1>5

LEMMA InitSession == ExecInit => SessionTypes
  BY SizesAssumption DEF ExecInit, SessionTypes

\* What the pairing and the daemon's side do.
LEMMA DaemonSession ==
  ASSUME SessionTypes, NEW r \in Execs,
         PairLink(r) \/ TakeBridge(r) \/ LeftLink(r) \/ Daemon(r)
  PROVE  SessionTypes'
<1> USE SizesAssumption, FrameTypes DEF Frames
<1>1. CASE PairLink(r)
  BY <1>1 DEF SessionTypes, PairLink, childVars
<1>2. CASE TakeBridge(r)
  BY <1>2 DEF SessionTypes, TakeBridge, engineVars, childVars
<1>3. CASE LeftLink(r)
  BY <1>3 DEF SessionTypes, LeftLink, linkVars, engineVars, childVars
<1>4. CASE Started(r)
  <2>1. inward' \in [Execs -> Seq(Frames)]
    BY <1>4 DEF SessionTypes, Started
  <2> QED BY <1>4, <2>1 DEF SessionTypes, Started, engineVars, childVars
<1>5. CASE ConnectFails(r)
  BY <1>5 DEF SessionTypes, ConnectFails, engineVars, childVars
<1>6. CASE WriteLine(r)
  <2>1. lines' \in [Execs -> 0 .. MaxLines]
    BY <1>6 DEF SessionTypes, WriteLine
  <2> QED BY <1>6, <2>1 DEF SessionTypes, WriteLine, engineVars, childVars
<1>7. CASE ReadEnd(r)
  BY <1>7 DEF SessionTypes, ReadEnd, engineVars, childVars
<1>8. CASE LetGo(r)
  <2>1. outward' = outward \/ outward' = ToSatellite(r, "stdin_close")
    BY <1>8 DEF LetGo
  <2>2. outward' \in [Execs -> Seq(Frames)]
    <3>1. outward \in [Execs -> Seq(Frames)]
      BY DEF SessionTypes
    <3>2. ToSatellite(r, "stdin_close") \in [Execs -> Seq(Frames)]
      OBVIOUS
    <3> QED BY <2>1, <3>1, <3>2
  <2> QED BY <1>8, <2>2 DEF SessionTypes, LetGo, engineVars, childVars
<1>9. CASE PumpMirrorsClose(r)
  BY <1>9 DEF SessionTypes, PumpMirrorsClose, engineVars, childVars
<1>10. CASE PumpBreaks(r)
  BY <1>10 DEF SessionTypes, PumpBreaks, engineVars, childVars
<1> QED BY <1>1, <1>2, <1>3, <1>4, <1>5, <1>6, <1>7, <1>8, <1>9, <1>10 DEF Daemon

\* What the satellite's session does: a write goes where there is room.
LEMMA EngineSession ==
  ASSUME SessionTypes, NEW r \in Execs, Engine(r)
  PROVE  SessionTypes'
<1>zero. /\ 0 \in 0 .. LineSize /\ 0 \in 0 .. PipeCap /\ 0 \in 0 .. MaxReply
         /\ LineSize \in 0 .. LineSize
  BY SizesAssumption
<1>unit. /\ feed[r] > 0 => feed[r] - 1 \in 0 .. LineSize
         /\ inPipe[r] < PipeCap => inPipe[r] + 1 \in 0 .. PipeCap
  BY SizesAssumption DEF SessionTypes
<1>frames. {"started", "refused", "exit"} \subseteq Frames
  BY DEF Frames
<1>1. CASE ReadSpec(r)
  <2>1. outward' \in [Execs -> Seq(Frames)] /\ inward' \in [Execs -> Seq(Frames)]
    <3>1. /\ ToCaller(r, "refused") \in [Execs -> Seq(Frames)]
          /\ ToCaller(r, "started") \in [Execs -> Seq(Frames)]
      BY <1>frames, FrameTypes
    <3>2. /\ [outward EXCEPT ![r] = <<>>] \in [Execs -> Seq(Frames)]
          /\ outward[r] # <<>> => [outward EXCEPT ![r] = Tail(@)] \in [Execs -> Seq(Frames)]
      BY <1>frames, FrameTypes
    <3>3. outward[r] # <<>>
      BY <1>1 DEF ReadSpec
    <3> QED BY <1>1, <3>1, <3>2, <3>3 DEF ReadSpec
  <2>2. /\ sess' \in [Execs -> {"none", "spec", "pump", "feeding", "reaping", "ending", "over"}]
        /\ child' \in [Execs -> {"none", "alive", "mute", "dead"}] /\ stdin' \in [Execs -> BOOLEAN]
    BY <1>1 DEF SessionTypes, ReadSpec, childVars
  <2>3. UNCHANGED <<hold, lines, pump, wire, severed, feed, inPipe, outPipe, owes>>
    BY <1>1 DEF ReadSpec, daemonVars, childVars
  <2> QED BY <2>1, <2>2, <2>3 DEF SessionTypes
<1>2. CASE NoSpec(r)
  BY <1>2, <1>frames, FrameTypes DEF SessionTypes, NoSpec, daemonVars, childVars
<1>3. CASE TakeLine(r)
  <2>0. outward' \in [Execs -> Seq(Frames)]
    BY <1>3, <1>frames, FrameTypes DEF TakeLine
  <2>1. feed' \in [Execs -> 0 .. LineSize]
    BY <1>3, <1>zero DEF SessionTypes, TakeLine
  <2>2. sess' \in [Execs -> {"none", "spec", "pump", "feeding", "reaping", "ending", "over"}]
    BY <1>3 DEF SessionTypes, TakeLine
  <2>3. UNCHANGED <<hold, lines, pump, wire, severed, inward, stdin, inPipe, outPipe, child, owes>>
    BY <1>3 DEF TakeLine, daemonVars, childVars
  <2> QED BY <2>0, <2>1, <2>2, <2>3 DEF SessionTypes
<1>4. CASE FeedChild(r)
  <2>1. feed' \in [Execs -> 0 .. LineSize]
    <3>1. \/ feed' = [feed EXCEPT ![r] = 0]
          \/ feed[r] > 0 /\ feed' = [feed EXCEPT ![r] = @ - 1]
          \/ feed' = feed
      BY <1>4 DEF FeedChild
    <3>2. feed \in [Execs -> 0 .. LineSize]
      BY DEF SessionTypes
    <3> QED BY <1>zero, <1>unit, <3>1, <3>2
  <2>2. inPipe' \in [Execs -> 0 .. PipeCap]
    <3>1. \/ inPipe[r] < PipeCap /\ inPipe' = [inPipe EXCEPT ![r] = @ + 1]
          \/ inPipe' = inPipe
      BY <1>4 DEF FeedChild
    <3>2. inPipe \in [Execs -> 0 .. PipeCap]
      BY DEF SessionTypes
    <3> QED BY <1>unit, <3>1, <3>2
  <2> QED BY <1>4, <2>1, <2>2 DEF SessionTypes, FeedChild, daemonVars, linkVars
<1>5. CASE HalfClose(r)
  BY <1>5, <1>frames, FrameTypes DEF SessionTypes, HalfClose, daemonVars, engineVars
<1>6. CASE PumpOutput(r)
  <2>0. outPipe[r] > 0 => outPipe[r] - 1 \in 0 .. PipeCap
    BY SizesAssumption DEF SessionTypes
  <2>1. outPipe' \in [Execs -> 0 .. PipeCap]
    BY <1>6, <2>0 DEF SessionTypes, PumpOutput
  <2> QED BY <1>6, <2>1 DEF SessionTypes, PumpOutput, daemonVars, linkVars, engineVars
<1>7. CASE EngineBreaks(r)
  BY <1>7 DEF SessionTypes, EngineBreaks, daemonVars, linkVars, childVars
<1>8. CASE EndSession(r)
  <2>1. outward' \in [Execs -> Seq(Frames)] /\ inward' \in [Execs -> Seq(Frames)]
    BY <1>8, <1>frames, FrameTypes DEF EndSession
  <2>2. /\ inPipe' \in [Execs -> 0 .. PipeCap] /\ outPipe' \in [Execs -> 0 .. PipeCap]
        /\ owes' \in [Execs -> 0 .. MaxReply]
    BY <1>8, <1>zero DEF SessionTypes, EndSession
  <2> QED BY <1>8, <2>1, <2>2 DEF SessionTypes, EndSession, daemonVars
<1>9. CASE StdoutEnds(r)
  BY <1>9 DEF SessionTypes, StdoutEnds, daemonVars, linkVars, childVars
<1>10. CASE Reaped(r)
  BY <1>10 DEF SessionTypes, Reaped, daemonVars, linkVars, childVars
<1> QED BY <1>1, <1>2, <1>3, <1>4, <1>5, <1>6, <1>7, <1>8, <1>9, <1>10 DEF Engine

\* What the child and the network do.
LEMMA ChildSession ==
  ASSUME SessionTypes, NEW r \in Execs, Child(r) \/ Sever(r)
  PROVE  SessionTypes'
<1> USE SizesAssumption
<1>zero. 0 \in 0 .. PipeCap /\ 0 \in 0 .. MaxReply /\ MaxReply \in 0 .. MaxReply
  OBVIOUS
<1>1. CASE ChildReads(r)
  <2>1. inPipe' \in [Execs -> 0 .. PipeCap] /\ owes' \in [Execs -> 0 .. MaxReply]
    BY <1>1 DEF SessionTypes, ChildReads
  <2> QED BY <1>1, <2>1 DEF SessionTypes, ChildReads, daemonVars, linkVars, engineVars
<1>2. CASE ChildWrites(r)
  <2>1. /\ outPipe[r] < PipeCap => outPipe[r] + 1 \in 0 .. PipeCap
        /\ owes[r] > 0 => owes[r] - 1 \in 0 .. MaxReply
    BY DEF SessionTypes
  <2>2. outPipe' \in [Execs -> 0 .. PipeCap]
    BY <1>2, <2>1 DEF SessionTypes, ChildWrites
  <2>3. owes' \in [Execs -> 0 .. MaxReply]
    BY <1>2, <2>1 DEF SessionTypes, ChildWrites
  <2> QED BY <1>2, <2>2, <2>3 DEF SessionTypes, ChildWrites, daemonVars, linkVars, engineVars
<1>3. CASE ChildExits(r)
  <2>1. inPipe' \in [Execs -> 0 .. PipeCap] /\ owes' \in [Execs -> 0 .. MaxReply]
    BY <1>3, <1>zero DEF SessionTypes, ChildExits
  <2> QED BY <1>3, <2>1 DEF SessionTypes, ChildExits, daemonVars, linkVars, engineVars
<1>4. CASE ChildClosesStdout(r)
  <2>1. owes' \in [Execs -> 0 .. MaxReply]
    BY <1>4, <1>zero DEF SessionTypes, ChildClosesStdout
  <2>2. severed' \in Nat
    BY <1>4 DEF SessionTypes, ChildClosesStdout
  <2> QED BY <1>4, <2>1, <2>2 DEF SessionTypes, ChildClosesStdout, daemonVars, engineVars
<1>5. CASE Sever(r)
  <2>1. outward' \in [Execs -> Seq(Frames)] /\ inward' \in [Execs -> Seq(Frames)]
    <3>1. "line" \in Frames
      BY DEF Frames
    <3> QED BY <1>5, <3>1, FrameTypes DEF Sever
  <2>2. severed' \in Nat
    BY <1>5 DEF SessionTypes, Sever
  <2> QED BY <1>5, <2>1, <2>2 DEF SessionTypes, Sever, daemonVars, engineVars, childVars
<1> QED BY <1>1, <1>2, <1>3, <1>4, <1>5 DEF Child

\* A remote session is well typed for any sizes of lines, replies and pipes, and
\* nothing is ever written into a pipe beyond what it holds.
THEOREM SessionsTyped == ExecSpec => []ExecTypeOK
<1> DEFINE Step == ExecNext /\ faults' + severed' <= MaxFaults
           Within == TypeOK /\ SessionTypes /\ severed \in 0 .. MaxFaults
<1>1. ExecInit => Within
  BY InitType, InitSession, NumbersAssumption DEF ExecInit
<1>2. SessionTypes /\ [Step]_vars => SessionTypes'
  <2>1. ASSUME SessionTypes, UNCHANGED execVars PROVE SessionTypes'
    BY <2>1 DEF SessionTypes, execVars
  <2> QED BY <2>1, DaemonSession, EngineSession, ChildSession DEF ExecNext, vars
<1>3. TypeOK /\ SessionTypes /\ TypeOK' /\ SessionTypes' /\ severed \in 0 .. MaxFaults /\ [Step]_vars
        => (severed \in 0 .. MaxFaults)'
  <2>1. CASE UNCHANGED vars
    BY <2>1 DEF vars, execVars
  <2>2. ASSUME TypeOK', SessionTypes', faults' + severed' <= MaxFaults
        PROVE  (severed \in 0 .. MaxFaults)'
    <3>1. faults' \in 0 .. MaxFaults
      BY <2>2 DEF TypeOK
    <3>2. severed' \in Nat
      BY <2>2 DEF SessionTypes
    <3>3. severed' \in 0 .. MaxFaults
      <4>1. faults' + severed' <= MaxFaults
        BY <2>2
      <4>2. MaxFaults \in Nat
        BY NumbersAssumption
      <4>3. \A m, a, b \in Nat : a + b <= m => b \in 0 .. m
        OBVIOUS
      <4>4. faults' \in Nat
        BY <3>1, <4>2
      <4> QED BY <3>2, <4>1, <4>2, <4>3, <4>4
    <3> QED BY <3>3
  <2> QED BY <2>1, <2>2
<1>4. Within => ExecTypeOK
  BY DEF SessionTypes, ExecTypeOK
<1> QED BY <1>1, <1>2, <1>3, <1>4, SessionsKeepTheChannel, TypeCorrect, PTL DEF ExecSpec

=============================================================================
