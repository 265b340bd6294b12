------------------------- MODULE RetainedInputProofs -------------------------
(***************************************************************************)
(* What holds of RetainedInput for any lines and any bounds: its states    *)
(* are well typed; a line accepted behind a turn is parked only while      *)
(* something is under way whose end reaches the tap; parked lines go out   *)
(* in the order they were accepted, once in the life of a process and      *)
(* marked when repeated, and not again once a turn was reported for them;  *)
(* and, as long as no two turns meet, a turn is reported under the id of   *)
(* the line it ran, and what was queued is on disk until the vendor ran    *)
(* it.                                                                     *)
(***************************************************************************)
EXTENDS RetainedInput, FiniteSetTheorems, SequenceTheorems, TLAPS

Queues == [inFlight : Entry \union {NoLine}, parked : Seq(Entry)]
Events == [kind : {"text", "result"}, of : SUBSET Lines]
Report == [id : Lines \union {Vendor}, of : SUBSET Lines, life : 1 .. MaxLives, failed : BOOLEAN]

\* The parts of TypeOK that a step disturbs together.
LifeTypes ==
  /\ up \in {"live", "closed", "down"} /\ life \in 1 .. MaxLives
  /\ up # "live" => life < MaxLives

SubmitTypes ==
  /\ pc \in [Lines -> {"new", "direct", "claimed", "sent", "queued", "lost"}]
  /\ route \in [Lines -> Route] /\ was \in [Lines -> BOOLEAN]
  /\ asked \in Seq(Lines \X (1 .. MaxLives))

QueueTypes ==
  /\ queue \in Queues /\ disk \in Queues
  /\ writing \in Entry \union {NoLine} /\ (writing # NoLine => writing = queue.inFlight)
  /\ spent \in [faults : Nat, own : Nat]

IdTypes ==
  /\ active \in BOOLEAN /\ replay \in BOOLEAN /\ crossed \in BOOLEAN
  /\ pending \in Lines \union {NoId} /\ current \in Lines \union {NoId, Vendor}

ReportTypes ==
  /\ tapIn \in Nat /\ eventsIn \in Seq(Events)
  /\ pumping \in BOOLEAN /\ rows \subseteq Report

VendorTypes ==
  /\ stdin \in Seq(SUBSET Lines) /\ heard \in Seq(SUBSET Lines)
  /\ busy \in BOOLEAN /\ prompt \in SUBSET Lines

TypeInv ==
  LifeTypes /\ SubmitTypes /\ QueueTypes /\ IdTypes /\ ReportTypes /\ VendorTypes

-----------------------------------------------------------------------------

\* A line accepted behind a turn is an entry, and an entry delivers lines.
LEMMA Entries ==
  /\ \A l \in Lines, r \in Route : Parked(l, r) \in Entry
  /\ \A e \in Entry : e.id \in Lines /\ e.members \in SUBSET Lines
  /\ NoLine \notin Entry
<1>1. NoId \notin Lines
  BY LinesAssumption DEF NoId
<1> QED
  BY <1>1 DEF Parked, Entry, NoLine

LEMMA EmptyQueue == Empty \in Queues /\ Empty.inFlight = NoLine /\ Empty.parked = << >>
  BY EmptySeq DEF Empty, Queues

\* What is taken from the front is an entry, and entries are left.
LEMMA TakenBatch ==
  ASSUME NEW q \in Seq(Entry), q # << >>, NEW b \in Batches(q)
  PROVE  b.line \in Entry /\ b.rest \in Seq(Entry)
<1>1. q[1] \in Entry /\ Tail(q) \in Seq(Entry) /\ 1 \in DOMAIN q
  BY EmptySeq
<1>2. CASE ~q[1].note \/ q[1].frozen
  <2>1. Batches(q) = {[line |-> q[1], rest |-> Tail(q)]}
    BY <1>2 DEF Batches
  <2>2. b = [line |-> q[1], rest |-> Tail(q)]
    BY <2>1
  <2> QED
    BY <1>1, <2>2
<1>3. CASE ~(~q[1].note \/ q[1].frozen)
  <2>1. PICK n \in DOMAIN q :
           b = [line |-> [q[1] EXCEPT !.members = UNION {q[i].members : i \in 1 .. n}, !.frozen = TRUE,
                                      !.replayed = \E i \in 1 .. n : q[i].replayed],
                rest |-> SubSeq(q, n + 1, Len(q))]
    BY <1>3 DEF Batches
  <2>2. \A i \in 1 .. n : q[i] \in Entry
    OBVIOUS
  <2>3. UNION {q[i].members : i \in 1 .. n} \in SUBSET Lines
    BY <2>2 DEF Entry
  <2>4. b.line \in Entry
    BY <1>1, <2>1, <2>3 DEF Entry
  <2>5. b.rest \in Seq(Entry)
    BY <2>1, SubSeqProperties
  <2> QED
    BY <2>4, <2>5
<1> QED
  BY <1>2, <1>3

LEMMA TypeInit == Init => TypeInv
<1> SUFFICES ASSUME Init PROVE TypeInv
  OBVIOUS
<1>1. LifeTypes
  BY BoundsAssumption DEF Init, LifeTypes
<1>2. SubmitTypes
  BY EmptySeq DEF Init, SubmitTypes, Route
<1>3. QueueTypes
  BY EmptyQueue DEF Init, QueueTypes
<1>4. IdTypes /\ ReportTypes /\ VendorTypes
  BY EmptySeq DEF Init, IdTypes, ReportTypes, VendorTypes
<1> QED
  BY <1>1, <1>2, <1>3, <1>4 DEF TypeInv

\* What the vendor says keeps its shape; a result is one more for the tap.
LEMMA Emitted ==
  ASSUME ReportTypes, NEW kinds \in {{}, {"text"}, {"result"}}, NEW p \in SUBSET Lines, Emits(kinds, p)
  PROVE  tapIn' \in Nat /\ eventsIn' \in Seq(Events) /\ (kinds = {"result"} => tapIn' = tapIn + 1)
<1>1. /\ {"result"} \intersect {"result"} = {"result"} /\ {"text"} \intersect {"result"} = {}
      /\ {} \intersect {"result"} = {}
  OBVIOUS
<1>2. /\ Cardinality(kinds \intersect {"result"}) \in Nat
      /\ kinds = {"result"} => Cardinality(kinds \intersect {"result"}) = 1
  BY <1>1, FS_EmptySet, FS_Singleton
<1>3. tapIn' \in Nat /\ (kinds = {"result"} => tapIn' = tapIn + 1)
  BY <1>2 DEF Emits, ReportTypes
<1>4. eventsIn' \in Seq(Events)
  <2>1. CASE kinds = {}
    BY <2>1 DEF Emits, ReportTypes
  <2>2. CASE kinds # {}
    <3> DEFINE e == [kind |-> CHOOSE k \in kinds : TRUE, of |-> p]
    <3>1. (CHOOSE k \in kinds : TRUE) \in {"text", "result"}
      BY <2>2
    <3>2. e \in Events
      BY <3>1 DEF Events
    <3>3. eventsIn' = Append(eventsIn, e)
      BY <2>2 DEF Emits
    <3> QED
      BY <3>2, <3>3, AppendProperties DEF ReportTypes
  <2> QED
    BY <2>1, <2>2
<1> QED
  BY <1>3, <1>4

\* A turn opens on lines.
LEMMA VendorOpened ==
  ASSUME TypeInv, NEW p \in SUBSET Lines, VendorOpens(p)
  PROVE  /\ LifeTypes' /\ SubmitTypes' /\ ReportTypes' /\ busy' = TRUE /\ prompt' \in SUBSET Lines
         /\ UNCHANGED <<active, queue, idVars, disk, writing>>
<1>1. ReportTypes'
  BY Emitted DEF VendorOpens, TypeInv, ReportTypes, reportVars
<1> QED
  BY <1>1 DEF VendorOpens, TypeInv, LifeTypes, SubmitTypes, submitVars

\* The lines the vendor takes, and those it leaves.
LEMMA Taken ==
  ASSUME NEW s \in Seq(SUBSET Lines), s # << >>
  PROVE  /\ Head(s) \in SUBSET Lines /\ s[1] \in SUBSET Lines /\ Tail(s) \in Seq(SUBSET Lines)
         /\ UNION {s[i] : i \in DOMAIN s} \in SUBSET Lines
<1>1. \A i \in DOMAIN s : s[i] \in SUBSET Lines
  OBVIOUS
<1>2. 1 \in DOMAIN s
  BY EmptySeq
<1> QED
  BY <1>1, <1>2

\* The turn that is reported has an id.
LEMMA OpenedIsNamed ==
  ASSUME IdTypes
  PROVE  /\ Opened \in Lines \union {Vendor} /\ Unopened \in Lines \union {NoId}
         /\ NoId \notin Lines
  BY LinesAssumption DEF IdTypes, Opened, Unopened, NoId, Vendor

-----------------------------------------------------------------------------
(* Every step keeps the types.                                             *)

LEMMA ParkTypes ==
  ASSUME TypeInv, NEW l \in Lines, NEW r \in Routes[l], Park(l, r)
  PROVE  TypeInv'
<1>1. SubmitTypes'
  <2>1. r \in Route
    BY BoundsAssumption
  <2>2. pc' \in [Lines -> {"new", "direct", "claimed", "sent", "queued", "lost"}]
    BY DEF TypeInv, SubmitTypes, Park
  <2>3. route' \in [Lines -> Route] /\ was' = was
    BY <2>1 DEF TypeInv, SubmitTypes, Park
  <2>4. <<l, life>> \in Lines \X (1 .. MaxLives)
    BY DEF TypeInv, LifeTypes
  <2>5. asked' = asked \/ asked' = Append(asked, <<l, life>>)
    BY DEF Park
  <2> DEFINE S == Lines \X (1 .. MaxLives)
  <2>6. asked' \in Seq(S)
    <3>1. asked \in Seq(S) /\ <<l, life>> \in S
      BY <2>4 DEF TypeInv, SubmitTypes
    <3> HIDE DEF S
    <3>2. \A e \in S : Append(asked, e) \in Seq(S)
      BY <3>1, AppendProperties
    <3> QED
      BY <2>5, <3>1, <3>2
  <2> QED
    BY <2>2, <2>3, <2>6 DEF TypeInv, SubmitTypes
<1>2. QueueTypes'
  <2> DEFINE q == [queue EXCEPT !.parked = Append(@, Parked(l, r))]
  <2>1. Parked(l, r) \in Entry
    BY BoundsAssumption, Entries
  <2>2. queue.parked \in Seq(Entry) /\ queue.inFlight \in Entry \union {NoLine}
    BY DEF TypeInv, QueueTypes, Queues
  <2>3. Append(queue.parked, Parked(l, r)) \in Seq(Entry)
    BY <2>1, <2>2, AppendProperties
  <2>4. q \in Queues /\ q.inFlight = queue.inFlight
    BY <2>2, <2>3 DEF TypeInv, QueueTypes, Queues
  <2>5. /\ queue' = q \/ queue' = queue
        /\ disk' = q \/ disk' = disk
        /\ spent' \in [faults : Nat, own : Nat] /\ writing' = writing
    BY DEF TypeInv, QueueTypes, Park, Mirrors, MirrorFails
  <2> QED
    BY <2>4, <2>5 DEF TypeInv, QueueTypes
<1>3. LifeTypes' /\ IdTypes' /\ ReportTypes' /\ VendorTypes'
  BY DEF TypeInv, LifeTypes, IdTypes, ReportTypes, VendorTypes, Park, MaySubmit, idVars, streamVars, reportVars, vendorVars, pastVars
<1> QED
  BY <1>1, <1>2, <1>3 DEF TypeInv

LEMMA ClaimTypes ==
  ASSUME TypeInv, NEW l \in Lines, NEW r \in Routes[l], Claim(l, r)
  PROVE  TypeInv'
<1>1. SubmitTypes'
  BY DEF TypeInv, SubmitTypes, IdTypes, Claim
<1>2. IdTypes'
  BY DEF TypeInv, IdTypes, Claim, Meets
<1>3. LifeTypes' /\ QueueTypes' /\ ReportTypes' /\ VendorTypes'
  BY DEF TypeInv, LifeTypes, QueueTypes, ReportTypes, VendorTypes, Claim, MaySubmit, streamVars, reportVars, vendorVars, pastVars
<1> QED
  BY <1>1, <1>2, <1>3 DEF TypeInv

LEMMA SendTypes ==
  ASSUME TypeInv, NEW l \in Lines, Send(l)
  PROVE  TypeInv'
<1>1. SubmitTypes'
  BY DEF TypeInv, SubmitTypes, Send
<1>2. IdTypes'
  BY DEF TypeInv, IdTypes, Send, Meets, idVars, AtRest
<1>3. VendorTypes'
  BY AppendProperties DEF TypeInv, VendorTypes, Send
<1>4. LifeTypes' /\ QueueTypes' /\ ReportTypes'
  BY DEF TypeInv, LifeTypes, QueueTypes, ReportTypes, Send, streamVars, reportVars, pastVars
<1> QED
  BY <1>1, <1>2, <1>3, <1>4 DEF TypeInv

LEMMA SendFailsTypes ==
  ASSUME TypeInv, NEW l \in Lines, SendFails(l)
  PROVE  TypeInv'
<1>1. LifeTypes'
  BY DEF TypeInv, LifeTypes, SendFails
<1>2. SubmitTypes'
  BY DEF TypeInv, SubmitTypes, SendFails, pastVars
<1>3. IdTypes'
  BY DEF TypeInv, IdTypes, SubmitTypes, SendFails, pastVars
<1>4. QueueTypes' /\ ReportTypes' /\ VendorTypes'
  BY DEF TypeInv, QueueTypes, ReportTypes, VendorTypes, SendFails, streamVars, reportVars, vendorVars, pastVars
<1> QED
  BY <1>1, <1>2, <1>3, <1>4 DEF TypeInv

LEMMA RetireTypes ==
  ASSUME TypeInv, Retire
  PROVE  TypeInv'
<1>1. QueueTypes'
  BY EmptyQueue DEF TypeInv, QueueTypes, Retire, Boundary, Mirrors, MirrorFails
<1>2. IdTypes'
  BY DEF TypeInv, IdTypes, Retire, Boundary
<1>3. ReportTypes'
  BY DEF TypeInv, ReportTypes, Retire, Boundary, reportVars
<1>4. LifeTypes' /\ SubmitTypes' /\ VendorTypes'
  BY DEF TypeInv, LifeTypes, SubmitTypes, VendorTypes, Retire, Boundary, submitVars, vendorVars, pastVars
<1> QED
  BY <1>1, <1>2, <1>3, <1>4 DEF TypeInv

LEMMA AdvanceTypes ==
  ASSUME TypeInv, Advance
  PROVE  TypeInv'
<1>1. QueueTypes'
  <2>1. PICK b \in Batches(queue.parked) :
           /\ writing' = b.line /\ queue' = [inFlight |-> b.line, parked |-> b.rest] /\ Mirrors(queue')
    BY DEF Advance
  <2>2. queue.parked \in Seq(Entry) /\ queue.parked # << >>
    BY DEF TypeInv, QueueTypes, Queues, Advance
  <2>3. b.line \in Entry /\ b.rest \in Seq(Entry)
    BY <2>2, TakenBatch
  <2>4. queue' \in Queues /\ queue'.inFlight = b.line
    BY <2>1, <2>3 DEF Queues
  <2> QED
    BY <2>1, <2>3, <2>4 DEF TypeInv, QueueTypes, Mirrors
<1>2. IdTypes'
  <2>1. PICK b \in Batches(queue.parked) : active' = TRUE /\ pending' = b.line.id /\ Meets(pending # NoId)
    BY DEF Advance
  <2>2. queue.parked \in Seq(Entry) /\ queue.parked # << >>
    BY DEF TypeInv, QueueTypes, Queues, Advance
  <2>3. b.line.id \in Lines
    BY <2>2, TakenBatch, Entries
  <2> QED
    BY <2>1, <2>3 DEF TypeInv, IdTypes, Advance, Boundary, Meets
<1>3. ReportTypes'
  BY DEF TypeInv, ReportTypes, Advance, Boundary, reportVars
<1>4. LifeTypes' /\ SubmitTypes' /\ VendorTypes'
  BY DEF TypeInv, LifeTypes, SubmitTypes, VendorTypes, Advance, Boundary, submitVars, vendorVars, pastVars
<1> QED
  BY <1>1, <1>2, <1>3, <1>4 DEF TypeInv

LEMMA AdvanceRefusedTypes ==
  ASSUME TypeInv, AdvanceRefused
  PROVE  TypeInv'
<1>1. QueueTypes'
  BY DEF TypeInv, QueueTypes, AdvanceRefused, MirrorFails
<1>2. IdTypes'
  BY DEF TypeInv, IdTypes, AdvanceRefused, Boundary, Meets
<1>3. ReportTypes'
  BY DEF TypeInv, ReportTypes, AdvanceRefused, Boundary, reportVars
<1>4. LifeTypes' /\ SubmitTypes' /\ VendorTypes'
  BY DEF TypeInv, LifeTypes, SubmitTypes, VendorTypes, AdvanceRefused, Boundary, submitVars, vendorVars, pastVars
<1> QED
  BY <1>1, <1>2, <1>3, <1>4 DEF TypeInv

LEMMA TapWritesTypes ==
  ASSUME TypeInv, TapWrites
  PROVE  TypeInv'
<1>1. QueueTypes'
  BY DEF TypeInv, QueueTypes, TapWrites
<1>2. VendorTypes'
  BY Entries, AppendProperties DEF TypeInv, VendorTypes, QueueTypes, TapWrites
<1>3. LifeTypes' /\ SubmitTypes' /\ IdTypes' /\ ReportTypes'
  BY DEF TypeInv, LifeTypes, SubmitTypes, IdTypes, ReportTypes, TapWrites, submitVars, idVars, streamVars, reportVars, pastVars
<1> QED
  BY <1>1, <1>2, <1>3 DEF TypeInv

LEMMA PutBackTypes ==
  ASSUME TypeInv, PutBack
  PROVE  TypeInv'
<1>1. QueueTypes'
  <2>1. writing \in Entry /\ queue.parked \in Seq(Entry)
    BY DEF TypeInv, QueueTypes, Queues, PutBack
  <2>2. <<writing>> \o queue.parked \in Seq(Entry)
    BY <2>1, ConcatProperties
  <2>3. queue' \in Queues /\ writing' = NoLine /\ disk' \in {queue', disk}
    BY <2>2 DEF Queues, PutBack, Mirrors, MirrorFails
  <2>4. spent' \in [faults : Nat, own : Nat]
    BY DEF TypeInv, QueueTypes, PutBack, Mirrors, MirrorFails
  <2> QED
    BY <2>3, <2>4 DEF TypeInv, QueueTypes
<1>2. IdTypes'
  BY DEF TypeInv, IdTypes, PutBack
<1>3. LifeTypes' /\ SubmitTypes' /\ ReportTypes' /\ VendorTypes'
  BY DEF TypeInv, LifeTypes, SubmitTypes, ReportTypes, VendorTypes, PutBack, submitVars, streamVars, reportVars, vendorVars, pastVars
<1> QED
  BY <1>1, <1>2, <1>3 DEF TypeInv

LEMMA TurnTextTypes ==
  ASSUME TypeInv, TurnText
  PROVE  TypeInv'
<1>1. IdTypes'
  BY OpenedIsNamed DEF TypeInv, IdTypes, TurnText, OpensOwn, pastVars
<1>2. ReportTypes'
  BY DEF TypeInv, ReportTypes, TurnText, reportVars
<1>3. LifeTypes' /\ SubmitTypes' /\ QueueTypes' /\ VendorTypes'
  BY DEF TypeInv, LifeTypes, SubmitTypes, QueueTypes, VendorTypes, TurnText, submitVars, vendorVars, pastVars
<1> QED
  BY <1>1, <1>2, <1>3 DEF TypeInv

LEMMA TurnResultTypes ==
  ASSUME TypeInv, TurnResult
  PROVE  TypeInv'
<1>1. IdTypes'
  BY OpenedIsNamed DEF TypeInv, IdTypes, TurnResult, OpensOwn, pastVars
<1>2. ReportTypes'
  <2> DEFINE r == [id |-> Opened, of |-> Head(eventsIn).of, life |-> life, failed |-> FALSE]
  <2>1. Head(eventsIn) \in Events
    BY DEF TypeInv, ReportTypes, TurnResult
  <2>2. Head(eventsIn).of \in SUBSET Lines /\ life \in 1 .. MaxLives
    BY <2>1 DEF Events, TypeInv, LifeTypes
  <2>3. r \in Report
    BY <2>2, OpenedIsNamed DEF Report, TypeInv
  <2>4. rows' = rows \union {r} /\ eventsIn' = Tail(eventsIn) /\ eventsIn # << >>
        /\ UNCHANGED <<tapIn, pumping>>
    BY DEF TurnResult
  <2>5. eventsIn' \in Seq(Events)
    BY <2>4 DEF TypeInv, ReportTypes
  <2> HIDE DEF r
  <2> QED
    BY <2>3, <2>4, <2>5 DEF TypeInv, ReportTypes
<1>3. LifeTypes' /\ SubmitTypes' /\ QueueTypes' /\ VendorTypes'
  BY DEF TypeInv, LifeTypes, SubmitTypes, QueueTypes, VendorTypes, TurnResult, submitVars, vendorVars, pastVars
<1> QED
  BY <1>1, <1>2, <1>3 DEF TypeInv

LEMMA StreamClosesTypes ==
  ASSUME TypeInv, StreamCloses
  PROVE  TypeInv'
<1>1. IdTypes'
  BY DEF TypeInv, IdTypes, StreamCloses, pastVars
<1>2. ReportTypes'
  <2> DEFINE r == [id |-> Opened, of |-> {}, life |-> life, failed |-> TRUE]
  <2>1. r \in Report
    BY OpenedIsNamed DEF Report, TypeInv, LifeTypes
  <2>2. rows' \in {rows, rows \union {r}} /\ pumping' = FALSE /\ UNCHANGED <<tapIn, eventsIn>>
    BY DEF StreamCloses, streamVars
  <2> QED
    BY <2>1, <2>2 DEF TypeInv, ReportTypes
<1>3. LifeTypes' /\ SubmitTypes' /\ QueueTypes' /\ VendorTypes'
  BY DEF TypeInv, LifeTypes, SubmitTypes, QueueTypes, VendorTypes, StreamCloses, submitVars, vendorVars, pastVars
<1> QED
  BY <1>1, <1>2, <1>3 DEF TypeInv

LEMMA ReadsLineTypes ==
  ASSUME TypeInv, ReadsLine
  PROVE  TypeInv'
<1>1. Head(stdin) \in SUBSET Lines /\ Tail(stdin) \in Seq(SUBSET Lines)
  BY Taken DEF TypeInv, VendorTypes, ReadsLine
<1>2. VendorOpens(Head(stdin)) /\ stdin' = Tail(stdin) /\ UNCHANGED <<heard, crossed, spent>>
  BY DEF ReadsLine
<1> QED
  BY <1>1, <1>2, VendorOpened DEF TypeInv, QueueTypes, IdTypes, VendorTypes, idVars

LEMMA RereadsTypes ==
  ASSUME TypeInv, Rereads
  PROVE  TypeInv'
<1>1. /\ heard[1] \in SUBSET Lines /\ Tail(heard) \in Seq(SUBSET Lines)
      /\ UNION {heard[i] : i \in DOMAIN heard} \in SUBSET Lines
  BY Taken DEF TypeInv, VendorTypes, Rereads
<1>2. PICK p \in SUBSET Lines : VendorOpens(p)
  BY <1>1 DEF Rereads
<1>3. heard' \in Seq(SUBSET Lines) /\ UNCHANGED <<stdin, crossed, spent>>
  BY <1>1, EmptySeq DEF Rereads
<1> QED
  BY <1>2, <1>3, VendorOpened DEF TypeInv, QueueTypes, IdTypes, VendorTypes, idVars

LEMMA WakesItselfTypes ==
  ASSUME TypeInv, WakesItself
  PROVE  TypeInv'
<1>1. VendorOpens({}) /\ UNCHANGED <<stdin, heard>> /\ crossed' = TRUE
  BY DEF WakesItself, Meets
<1>2. spent' \in [faults : Nat, own : Nat]
  BY DEF TypeInv, QueueTypes, WakesItself
<1> QED
  BY <1>1, <1>2, VendorOpened DEF TypeInv, QueueTypes, IdTypes, VendorTypes, idVars

LEMMA HearsLineTypes ==
  ASSUME TypeInv, HearsLine
  PROVE  TypeInv'
<1>1. VendorTypes'
  <2>1. Head(stdin) \in SUBSET Lines /\ Tail(stdin) \in Seq(SUBSET Lines)
    BY Taken DEF TypeInv, VendorTypes, HearsLine
  <2>2. Append(heard, Head(stdin)) \in Seq(SUBSET Lines)
    BY <2>1, AppendProperties DEF TypeInv, VendorTypes
  <2> QED
    BY <2>1, <2>2 DEF TypeInv, VendorTypes, HearsLine
<1>2. LifeTypes' /\ SubmitTypes' /\ QueueTypes' /\ IdTypes' /\ ReportTypes'
  BY DEF TypeInv, LifeTypes, SubmitTypes, QueueTypes, IdTypes, ReportTypes, HearsLine, submitVars, idVars, streamVars, reportVars, pastVars
<1> QED
  BY <1>1, <1>2 DEF TypeInv

LEMMA EndsTypes ==
  ASSUME TypeInv, Ends
  PROVE  TypeInv'
<1>1. ReportTypes'
  <2>1. Emits({"result"}, prompt) /\ UNCHANGED reportVars
    BY DEF Ends
  <2>2. prompt \in SUBSET Lines
    BY DEF TypeInv, VendorTypes
  <2> QED
    BY <2>1, <2>2, Emitted DEF TypeInv, ReportTypes, reportVars
<1>2. VendorTypes'
  BY DEF TypeInv, VendorTypes, Ends
<1>3. LifeTypes' /\ SubmitTypes' /\ QueueTypes' /\ IdTypes'
  BY DEF TypeInv, LifeTypes, SubmitTypes, QueueTypes, IdTypes, Ends, submitVars, idVars, pastVars
<1> QED
  BY <1>1, <1>2, <1>3 DEF TypeInv

LEMMA ChildDiesTypes ==
  ASSUME TypeInv, ChildDies
  PROVE  TypeInv'
<1>1. LifeTypes'
  BY DEF TypeInv, LifeTypes, ChildDies
<1>2. VendorTypes'
  BY EmptySeq DEF TypeInv, VendorTypes, ChildDies, ChildEnds
<1>3. SubmitTypes' /\ QueueTypes' /\ IdTypes' /\ ReportTypes'
  BY DEF TypeInv, SubmitTypes, QueueTypes, IdTypes, ReportTypes, ChildDies, submitVars, idVars, streamVars, reportVars, pastVars
<1> QED
  BY <1>1, <1>2, <1>3 DEF TypeInv

LEMMA DaemonDiesTypes ==
  ASSUME TypeInv, DaemonDies
  PROVE  TypeInv'
<1>1. LifeTypes'
  BY DEF TypeInv, LifeTypes, DaemonDies
<1>2. SubmitTypes'
  BY DEF TypeInv, SubmitTypes, DaemonDies
<1>3. QueueTypes'
  BY EmptyQueue DEF TypeInv, QueueTypes, DaemonDies
<1>4. IdTypes'
  BY DEF TypeInv, IdTypes, DaemonDies
<1>5. ReportTypes'
  BY EmptySeq DEF TypeInv, ReportTypes, DaemonDies
<1>6. VendorTypes'
  BY EmptySeq DEF TypeInv, VendorTypes, DaemonDies, ChildEnds
<1> QED
  BY <1>1, <1>2, <1>3, <1>4, <1>5, <1>6 DEF TypeInv

LEMMA RestartTypes ==
  ASSUME TypeInv, Restart
  PROVE  TypeInv'
<1>1. LifeTypes'
  BY BoundsAssumption DEF TypeInv, LifeTypes, Restart
<1>2. SubmitTypes'
  BY DEF TypeInv, SubmitTypes, Restart, pastVars
<1>3. QueueTypes'
  <2> DEFINE q == disk.inFlight
  <2>1. disk.parked \in Seq(Entry) /\ q \in Entry \union {NoLine}
    BY DEF TypeInv, QueueTypes, Queues
  <2>2. ASSUME q # NoLine
        PROVE  /\ <<q>> \o disk.parked \in Seq(Entry)
               /\ <<[q EXCEPT !.replayed = TRUE]>> \o disk.parked \in Seq(Entry)
    <3>1. q \in Entry /\ [q EXCEPT !.replayed = TRUE] \in Entry
      BY <2>1, <2>2 DEF Entry
    <3> QED
      BY <2>1, <3>1, ConcatProperties
  <2>3. Loaded \in Seq(Entry)
    <3>1. CASE q = NoLine
      BY <2>1, <3>1 DEF Loaded, NoLine
    <3>2. CASE q # NoLine
      <4>1. Loaded \in {disk.parked, <<q>> \o disk.parked, <<[q EXCEPT !.replayed = TRUE]>> \o disk.parked}
        BY <3>2 DEF Loaded
      <4> QED
        BY <2>1, <2>2, <3>2, <4>1
    <3> QED
      BY <3>1, <3>2
  <2>4. queue' = [inFlight |-> NoLine, parked |-> Loaded] /\ writing' = NoLine
        /\ UNCHANGED <<disk, spent>>
    BY DEF Restart, pastVars
  <2> QED
    BY <2>3, <2>4 DEF TypeInv, QueueTypes, Queues
<1>4. IdTypes'
  BY DEF TypeInv, IdTypes, Restart, pastVars
<1>5. ReportTypes'
  BY EmptySeq DEF TypeInv, ReportTypes, Restart
<1>6. VendorTypes'
  BY EmptySeq DEF TypeInv, VendorTypes, Restart, ChildEnds
<1> QED
  BY <1>1, <1>2, <1>3, <1>4, <1>5, <1>6 DEF TypeInv

LEMMA TypeStep == TypeInv /\ [Next]_vars => TypeInv'
<1> SUFFICES ASSUME TypeInv, [Next]_vars PROVE TypeInv'
  OBVIOUS
<1>1. CASE Submits
  <2> PICK l \in Lines : (\E r \in Routes[l] : Park(l, r) \/ Claim(l, r)) \/ Send(l) \/ SendFails(l)
    BY <1>1 DEF Submits
  <2> QED
    BY ParkTypes, ClaimTypes, SendTypes, SendFailsTypes
<1>2. CASE Tap
  BY <1>2, RetireTypes, AdvanceTypes, AdvanceRefusedTypes, TapWritesTypes, PutBackTypes DEF Tap
<1>3. CASE Translator
  BY <1>3, TurnTextTypes, TurnResultTypes, StreamClosesTypes DEF Translator
<1>4. CASE VendorSteps \/ WakesItself
  BY <1>4, ReadsLineTypes, RereadsTypes, HearsLineTypes, EndsTypes, WakesItselfTypes DEF VendorSteps
<1>5. CASE ChildDies \/ DaemonDies \/ Restart
  BY <1>5, ChildDiesTypes, DaemonDiesTypes, RestartTypes
<1>6. CASE UNCHANGED vars
  BY <1>6 DEF TypeInv, LifeTypes, SubmitTypes, QueueTypes, IdTypes, ReportTypes, VendorTypes, vars,
              submitVars, idVars, streamVars, reportVars, vendorVars, pastVars
<1> QED
  BY <1>1, <1>2, <1>3, <1>4, <1>5, <1>6 DEF Next

LEMMA TypeInvariant == Spec => []TypeInv
<1> QED
  BY TypeInit, TypeStep, PTL DEF Spec

\* Every state of a session is well typed: what is on disk can always be loaded,
\* the line the tap is writing is the one recorded as in flight.
THEOREM TypeCorrect == Spec => []TypeOK
<1>1. TypeInv => TypeOK
  BY DEF TypeInv, LifeTypes, SubmitTypes, QueueTypes, IdTypes, ReportTypes, VendorTypes, TypeOK,
         Queues, Events, Report
<1> QED
  BY <1>1, TypeInvariant, PTL

-----------------------------------------------------------------------------
(* No line is parked behind nothing.                                       *)

\* The flag says that a result is to come.
ActiveMeansUnderWay == up = "live" /\ active => UnderWay

\* Accepted in this life and not handed out, no write of the mirror having failed.
Awaits(l, i) ==
  /\ up = "live" /\ spent.faults = 0
  /\ l \in queue.parked[i].members /\ <<l, life>> \in {asked[k] : k \in DOMAIN asked}

ParkedMeansActive == \A l \in Lines : \A i \in DOMAIN queue.parked : Awaits(l, i) => active

\* Nobody was accepted in a life to come.
AskedByNow == \A k \in DOMAIN asked : asked[k][2] <= life

AwaitInv == ActiveMeansUnderWay /\ ParkedMeansActive /\ AskedByNow

LEMMA AwaitInit == Init => AwaitInv
  BY DEF Init, AwaitInv, ActiveMeansUnderWay, ParkedMeansActive, AskedByNow, Empty

\* Steps that neither submit nor hand out, and leave something under way.
LEMMA StaysUnderWay ==
  ASSUME AwaitInv, UnderWay', UNCHANGED <<up, life, active, queue, asked, spent>>
  PROVE  AwaitInv'
  BY DEF AwaitInv, ActiveMeansUnderWay, ParkedMeansActive, AskedByNow, Awaits

\* What was accepted before is what was accepted, or one line more of this life.
LEMMA AskedMore ==
  ASSUME TypeInv, AskedByNow, NEW l \in Lines,
         asked' \in {asked, Append(asked, <<l, life>>)}, life' = life
  PROVE  AskedByNow'
<1>1. asked \in Seq(Lines \X (1 .. MaxLives)) /\ life \in Nat
  BY DEF TypeInv, SubmitTypes, LifeTypes
<1>2. CASE asked' = asked
  BY <1>2 DEF AskedByNow
<1>3. CASE asked' = Append(asked, <<l, life>>)
  <2>1. SUFFICES ASSUME NEW k \in DOMAIN asked' PROVE asked'[k][2] <= life
    BY DEF AskedByNow
  <2>2. k \in 1 .. Len(asked) \/ k = Len(asked) + 1
    BY <1>1, <1>3
  <2>3. CASE k \in 1 .. Len(asked)
    <3>1. asked'[k] = asked[k] /\ k \in DOMAIN asked
      BY <1>1, <1>3, <2>3
    <3> QED
      BY <3>1 DEF AskedByNow
  <2>4. CASE k = Len(asked) + 1
    BY <1>1, <1>3, <2>4
  <2> QED
    BY <2>2, <2>3, <2>4
<1> QED
  BY <1>2, <1>3

LEMMA SubmitKeeps ==
  ASSUME TypeInv, AwaitInv, Submits
  PROVE  AwaitInv'
<1> PICK l \in Lines : (\E r \in Routes[l] : Park(l, r) \/ Claim(l, r)) \/ Send(l) \/ SendFails(l)
  BY DEF Submits
<1>1. ASSUME NEW r \in Routes[l], Park(l, r) PROVE AwaitInv'
  <2>1. active /\ active' /\ UNCHANGED <<up, life, tapIn, writing, stdin, heard, busy>>
    BY <1>1 DEF Park, vendorVars, streamVars
  <2>2. \A k \in Lines : pc[k] \in {"direct", "claimed"} => pc'[k] = pc[k]
    BY <1>1 DEF Park, MaySubmit, TypeInv, SubmitTypes
  <2>3. ActiveMeansUnderWay'
    BY <2>1, <2>2 DEF AwaitInv, ActiveMeansUnderWay, UnderWay
  <2>4. AskedByNow'
    BY <1>1, AskedMore DEF Park, AwaitInv
  <2> QED
    BY <2>1, <2>3, <2>4 DEF AwaitInv, ParkedMeansActive
<1>2. ASSUME NEW r \in Routes[l], Claim(l, r) PROVE AwaitInv'
  <2>1. active' = TRUE /\ pc'[l] = "claimed" /\ UNCHANGED <<asked, life>>
    BY <1>2 DEF Claim, TypeInv, SubmitTypes
  <2> QED
    BY <2>1 DEF AwaitInv, ActiveMeansUnderWay, ParkedMeansActive, AskedByNow, UnderWay
<1>3. CASE Send(l)
  <2>1. stdin' # << >> /\ UNCHANGED <<up, life, active, queue, asked, spent>>
    BY <1>3, AppendProperties DEF Send, TypeInv, VendorTypes
  <2> QED
    BY <2>1, StaysUnderWay DEF UnderWay
<1>4. CASE SendFails(l)
  BY <1>4 DEF SendFails, pastVars, AwaitInv, ActiveMeansUnderWay, ParkedMeansActive, AskedByNow, Awaits
<1> QED
  BY <1>1, <1>2, <1>3, <1>4

LEMMA TapKeeps ==
  ASSUME TypeInv, AwaitInv, Tap
  PROVE  AwaitInv'
<1>1. CASE Retire
  <2>1. active' = FALSE /\ queue'.parked = << >> /\ UNCHANGED <<asked, life>>
    BY <1>1, EmptyQueue DEF Retire, Boundary
  <2> QED
    BY <2>1 DEF AwaitInv, ActiveMeansUnderWay, ParkedMeansActive, AskedByNow
<1>2. CASE Advance
  <2>1. active' = TRUE /\ writing' # NoLine /\ UNCHANGED <<asked, life>>
    <3>1. PICK b \in Batches(queue.parked) : active' = TRUE /\ writing' = b.line
      BY <1>2 DEF Advance
    <3>2. queue.parked \in Seq(Entry) /\ queue.parked # << >>
      BY <1>2 DEF TypeInv, QueueTypes, Queues, Advance
    <3> QED
      BY <1>2, <3>1, <3>2, TakenBatch, Entries DEF Advance, Boundary
  <2> QED
    BY <2>1 DEF AwaitInv, ActiveMeansUnderWay, ParkedMeansActive, AskedByNow, UnderWay
<1>3. CASE AdvanceRefused
  <2>1. active' = FALSE /\ spent'.faults # 0 /\ UNCHANGED <<asked, life>>
    BY <1>3 DEF AdvanceRefused, Boundary, MirrorFails, TypeInv, QueueTypes
  <2> QED
    BY <2>1 DEF AwaitInv, ActiveMeansUnderWay, ParkedMeansActive, AskedByNow, Awaits
<1>4. CASE TapWrites
  <2>1. writing.members \in SUBSET Lines
    BY <1>4, Entries DEF TapWrites, TypeInv, QueueTypes
  <2>2. stdin' # << >> /\ UNCHANGED <<up, life, active, queue, asked, spent>>
    BY <1>4, <2>1, AppendProperties DEF TapWrites, TypeInv, VendorTypes
  <2> QED
    BY <2>2, StaysUnderWay DEF UnderWay
<1>5. CASE PutBack
  <2>1. up' # "live" /\ UNCHANGED <<asked, life>>
    BY <1>5 DEF PutBack
  <2> QED
    BY <2>1 DEF AwaitInv, ActiveMeansUnderWay, ParkedMeansActive, AskedByNow, Awaits
<1> QED
  BY <1>1, <1>2, <1>3, <1>4, <1>5 DEF Tap

LEMMA TranslatorKeeps ==
  ASSUME TypeInv, AwaitInv, Translator
  PROVE  AwaitInv'
<1>1. UNCHANGED <<up, life, pc, active, queue, writing, tapIn, stdin, heard, busy, asked, spent>>
  BY DEF Translator, TurnText, TurnResult, StreamCloses, submitVars, streamVars, vendorVars, pastVars
<1> QED
  BY <1>1 DEF AwaitInv, ActiveMeansUnderWay, ParkedMeansActive, AskedByNow, Awaits, UnderWay

LEMMA VendorKeeps ==
  ASSUME TypeInv, AwaitInv, VendorSteps \/ WakesItself
  PROVE  AwaitInv'
<1>1. CASE ReadsLine \/ Rereads
  <2>1. busy' /\ UNCHANGED <<up, life, active, queue, asked, spent>>
    BY <1>1 DEF ReadsLine, Rereads, VendorOpens
  <2> QED
    BY <2>1, StaysUnderWay DEF UnderWay
<1>2. CASE WakesItself
  <2>1. /\ busy' /\ UNCHANGED <<up, life, active, queue, asked>>
        /\ spent'.faults = spent.faults
    BY <1>2 DEF WakesItself, VendorOpens, TypeInv, QueueTypes
  <2> QED
    BY <2>1 DEF AwaitInv, ActiveMeansUnderWay, ParkedMeansActive, AskedByNow, Awaits, UnderWay
<1>3. CASE HearsLine
  <2>1. busy' /\ UNCHANGED <<up, life, active, queue, asked, spent>>
    BY <1>3 DEF HearsLine, pastVars
  <2> QED
    BY <2>1, StaysUnderWay DEF UnderWay
<1>4. CASE Ends
  <2>1. Emits({"result"}, prompt) /\ prompt \in SUBSET Lines /\ ReportTypes
    BY <1>4 DEF Ends, TypeInv, VendorTypes
  <2>2. tapIn' > 0
    BY <2>1, Emitted DEF ReportTypes
  <2>3. UNCHANGED <<up, life, active, queue, asked, spent>>
    BY <1>4 DEF Ends, pastVars
  <2> QED
    BY <2>2, <2>3, StaysUnderWay DEF UnderWay
<1> QED
  BY <1>1, <1>2, <1>3, <1>4 DEF VendorSteps

LEMMA DeathsKeep ==
  ASSUME TypeInv, AwaitInv, ChildDies \/ DaemonDies \/ Restart
  PROVE  AwaitInv'
<1>1. CASE ChildDies \/ DaemonDies
  <2>1. up' # "live" /\ UNCHANGED <<asked, life>>
    BY <1>1 DEF ChildDies, DaemonDies, pastVars
  <2> QED
    BY <2>1 DEF AwaitInv, ActiveMeansUnderWay, ParkedMeansActive, AskedByNow, Awaits
<1>2. CASE Restart
  <2>1. active' = FALSE /\ life' = life + 1 /\ asked' = asked /\ life \in Nat
        /\ asked \in Seq(Lines \X (1 .. MaxLives))
    BY <1>2 DEF Restart, pastVars, TypeInv, LifeTypes, SubmitTypes
  <2>2. \A k \in DOMAIN asked : asked[k][2] \in Nat /\ asked[k][2] <= life
    BY <2>1 DEF AwaitInv, AskedByNow
  <2>3. AskedByNow'
    BY <2>1, <2>2 DEF AskedByNow
  <2>4. \A l : <<l, life + 1>> \notin {asked[k] : k \in DOMAIN asked}
    BY <2>1, <2>2
  <2> QED
    BY <2>1, <2>3, <2>4 DEF AwaitInv, ActiveMeansUnderWay, ParkedMeansActive, Awaits
<1> QED
  BY <1>1, <1>2

LEMMA AwaitStep == TypeInv /\ AwaitInv /\ [Next]_vars => AwaitInv'
<1> SUFFICES ASSUME TypeInv, AwaitInv, [Next]_vars PROVE AwaitInv'
  OBVIOUS
<1>1. CASE UNCHANGED vars
  BY <1>1 DEF AwaitInv, ActiveMeansUnderWay, ParkedMeansActive, AskedByNow, Awaits, UnderWay, vars,
              submitVars, streamVars, vendorVars, pastVars
<1> QED
  BY <1>1, SubmitKeeps, TapKeeps, TranslatorKeeps, VendorKeeps, DeathsKeep DEF Next

\* A line accepted behind a turn is never parked behind nothing, however the
\* check, the end of that turn and the submissions around it are interleaved
\* (park_deferred_line against advance_deferred_queue).
THEOREM NeverParkedBehindNothing == Spec => []ParkedBehindSomething
<1>1. AwaitInv => ParkedBehindSomething
  BY DEF AwaitInv, ActiveMeansUnderWay, ParkedMeansActive, Awaits, ParkedBehindSomething
<1> QED
  BY <1>1, AwaitInit, AwaitStep, TypeInvariant, PTL DEF Spec

-----------------------------------------------------------------------------
(* What happens to the lines that were accepted: the file, the queue and   *)
(* what the tap wrote.                                                     *)

AskedLines == {asked[k][1] : k \in DOMAIN asked}

Handed == [line : Entry, life : 1 .. MaxLives]

\* An entry delivers the line that names its turn, and that one only unless it is
\* a batch of notifications; all are in L, of the lines accepted.
Good(L, e) ==
  e # NoLine => e.id \in e.members /\ (~e.note => e.members = {e.id}) /\ e.members \subseteq L
GoodQueue(L, q) == Good(L, q.inFlight) /\ \A i \in DOMAIN q.parked : Good(L, q.parked[i])

\* A line is accepted once, and what is kept of the lines is well formed.  The file
\* knows what the tap is writing.
AskedOnce ==
  \A k \in DOMAIN asked :
    /\ pc[asked[k][1]] = "queued"
    /\ \A m \in DOMAIN asked : asked[m][1] = asked[k][1] => m = k
AskedInv ==
  /\ AskedOnce
  /\ GoodQueue(AskedLines, queue) /\ GoodQueue(AskedLines, disk)
  /\ handed \in Seq(Handed) /\ \A i \in DOMAIN handed : Good(AskedLines, handed[i].line)
  /\ writing # NoLine => disk.inFlight = writing

-----------------------------------------------------------------------------
(* Sequences: one more at the end, one more in front, a batch taken off.   *)

LEMMA Appended ==
  ASSUME NEW S, NEW s \in Seq(S), NEW e \in S
  PROVE  /\ Append(s, e) \in Seq(S) /\ Len(Append(s, e)) = Len(s) + 1
         /\ DOMAIN Append(s, e) = DOMAIN s \union {Len(s) + 1}
         /\ Append(s, e)[Len(s) + 1] = e
         /\ \A i \in DOMAIN s : Append(s, e)[i] = s[i] /\ i < Len(s) + 1 /\ i # Len(s) + 1
  BY AppendProperties

LEMMA Prepended ==
  ASSUME NEW S, NEW s \in Seq(S), NEW e \in S
  PROVE  /\ <<e>> \o s \in Seq(S)
         /\ 1 \in DOMAIN (<<e>> \o s) /\ (<<e>> \o s)[1] = e
         /\ \A i \in DOMAIN (<<e>> \o s) : i # 1 => i > 1 /\ i - 1 \in DOMAIN s /\ (<<e>> \o s)[i] = s[i - 1]
  BY ConcatProperties

\* What a batch is made of: the first entries of the queue.
LEMMA BatchIs ==
  ASSUME NEW q \in Seq(Entry), q # << >>, NEW b \in Batches(q)
  PROVE  /\ b.line \in Entry /\ b.rest \in Seq(Entry) /\ 1 \in DOMAIN q
         /\ b.line.id = q[1].id /\ b.line.note = q[1].note /\ (b.line.note => b.line.frozen)
         /\ \E n \in DOMAIN q :
              /\ \A i \in DOMAIN b.rest : i + n \in DOMAIN q /\ b.rest[i] = q[i + n]
              /\ b.line.members = UNION {q[i].members : i \in 1 .. n}
              /\ \/ n = 1 /\ b.line = q[1]
                 \/ \A i \in 1 .. n : q[i].note /\ ~q[i].frozen
<1>1. q[1] \in Entry /\ Tail(q) \in Seq(Entry) /\ 1 \in DOMAIN q
  BY EmptySeq
<1>2. CASE ~q[1].note \/ q[1].frozen
  <2>1. b = [line |-> q[1], rest |-> Tail(q)]
    BY <1>2 DEF Batches
  <2>2. \A i \in DOMAIN Tail(q) : i + 1 \in DOMAIN q /\ Tail(q)[i] = q[i + 1]
    BY <1>1
  <2>3. UNION {q[i].members : i \in 1 .. 1} = q[1].members
    OBVIOUS
  <2> QED
    BY <1>1, <1>2, <2>1, <2>2, <2>3
<1>3. CASE ~(~q[1].note \/ q[1].frozen)
  <2>1. PICK n \in {m \in DOMAIN q : \A i \in 2 .. m : q[i].note /\ ~q[i].frozen} :
           b = [line |-> [q[1] EXCEPT !.members = UNION {q[i].members : i \in 1 .. n}, !.frozen = TRUE,
                                      !.replayed = \E i \in 1 .. n : q[i].replayed],
                rest |-> SubSeq(q, n + 1, Len(q))]
    BY <1>3 DEF Batches
  <2>2. \A i \in DOMAIN b.rest : i + n \in DOMAIN q /\ b.rest[i] = q[i + n]
    BY <2>1, SubSeqProperties
  <2>3. \A i \in 1 .. n : q[i].note /\ ~q[i].frozen
    BY <1>3, <2>1
  <2>4. /\ b.line.members = UNION {q[i].members : i \in 1 .. n}
        /\ b.line.id = q[1].id /\ b.line.note = q[1].note /\ b.line.frozen
    BY <1>1, <2>1 DEF Entry
  <2> QED
    BY <1>1, <2>2, <2>3, <2>4, TakenBatch
<1> QED
  BY <1>2, <1>3

\* A line that was accepted, handed over or lost stays so.
LEMMA PcStays ==
  ASSUME TypeInv, [Next]_vars
  PROVE  \A l \in Lines : pc[l] \in {"queued", "sent", "lost"} => pc'[l] = pc[l]
<1> USE DEF TypeInv, SubmitTypes
<1>1. CASE Submits
  <2> PICK l \in Lines : (\E r \in Routes[l] : Park(l, r) \/ Claim(l, r)) \/ Send(l) \/ SendFails(l)
    BY <1>1 DEF Submits
  <2>1. pc[l] \notin {"queued", "sent", "lost"} /\ \E x : pc' = [pc EXCEPT ![l] = x]
    BY DEF Park, Claim, Send, SendFails, MaySubmit
  <2> QED
    BY <2>1
<1>2. CASE Tap
  BY <1>2 DEF Tap, Retire, Advance, AdvanceRefused, TapWrites, PutBack, Boundary, submitVars
<1>3. CASE Translator
  BY <1>3 DEF Translator, TurnText, TurnResult, StreamCloses, submitVars
<1>4. CASE VendorSteps \/ WakesItself
  BY <1>4 DEF VendorSteps, ReadsLine, Rereads, WakesItself, VendorOpens, HearsLine, Ends, submitVars
<1>5. CASE ChildDies \/ DaemonDies \/ Restart
  BY <1>5 DEF ChildDies, DaemonDies, Restart, submitVars
<1>6. CASE UNCHANGED vars
  BY <1>6 DEF vars, submitVars
<1> QED
  BY <1>1, <1>2, <1>3, <1>4, <1>5, <1>6 DEF Next

\* The steps that touch the file, the queue or what was written.
Moves ==
  \/ \E l \in Lines, r \in Route : Park(l, r)
  \/ Retire \/ Advance \/ TapWrites \/ PutBack \/ DaemonDies \/ Restart

lineVars == <<asked, queue, disk, writing, handed>>

LEMMA OthersStay == [Next]_vars => Moves \/ UNCHANGED lineVars
<1> SUFFICES ASSUME [Next]_vars, ~Moves PROVE UNCHANGED lineVars
  OBVIOUS
<1> USE DEF lineVars
<1>1. CASE Submits
  <2> PICK l \in Lines : (\E r \in Routes[l] : Park(l, r) \/ Claim(l, r)) \/ Send(l) \/ SendFails(l)
    BY <1>1 DEF Submits
  <2>1. ASSUME NEW r \in Routes[l], Park(l, r) PROVE FALSE
    <3>1. r \in Route
      BY BoundsAssumption
    <3> QED
      BY <2>1, <3>1 DEF Moves
  <2> QED
    BY <2>1 DEF Claim, Send, SendFails, pastVars
<1>2. CASE AdvanceRefused
  BY <1>2 DEF AdvanceRefused, Boundary, MirrorFails
<1>3. CASE Translator
  BY <1>3 DEF Translator, TurnText, TurnResult, StreamCloses, pastVars
<1>4. CASE VendorSteps \/ WakesItself
  BY <1>4 DEF VendorSteps, ReadsLine, Rereads, WakesItself, VendorOpens, HearsLine, Ends, pastVars
<1>5. CASE ChildDies
  BY <1>5 DEF ChildDies, pastVars
<1>6. CASE UNCHANGED vars
  BY <1>6 DEF vars, pastVars
<1> QED
  BY <1>1, <1>2, <1>3, <1>4, <1>5, <1>6 DEF Next, Tap, Moves

\* What each of them makes of the queue and the file.
LEMMA ParkMoves ==
  ASSUME TypeInv, NEW l \in Lines, NEW r \in Route, Park(l, r)
  PROVE  LET q == [queue EXCEPT !.parked = Append(@, Parked(l, r))]
         IN  /\ pc[l] = "new" /\ UNCHANGED <<writing, handed>>
             /\ q.inFlight = queue.inFlight /\ q.parked = Append(queue.parked, Parked(l, r))
             /\ \/ UNCHANGED <<asked, queue, disk>>
                \/ /\ pc'[l] = "queued" /\ asked' = Append(asked, <<l, life>>)
                   /\ queue' = q /\ disk' \in {disk, q}
<1>1. queue \in [inFlight : Entry \union {NoLine}, parked : Seq(Entry)]
  BY DEF TypeInv, QueueTypes, Queues
<1> QED
  BY <1>1 DEF Park, MaySubmit, Mirrors, MirrorFails, TypeInv, SubmitTypes

LEMMA RetireMoves ==
  ASSUME Retire
  PROVE  /\ UNCHANGED <<asked, writing, handed>> /\ writing = NoLine
         /\ queue' \in {queue, Empty} /\ disk' \in {disk, Empty}
  BY DEF Retire, Boundary, Mirrors, MirrorFails

LEMMA AdvanceMoves ==
  ASSUME TypeInv, Advance
  PROVE  /\ UNCHANGED <<asked, handed>> /\ writing = NoLine
         /\ queue.parked \in Seq(Entry) /\ queue.parked # << >>
         /\ \E b \in Batches(queue.parked) :
              /\ writing' = b.line /\ queue' = [inFlight |-> b.line, parked |-> b.rest] /\ disk' = queue'
              /\ pending' = b.line.id
  BY DEF Advance, Boundary, Mirrors, TypeInv, QueueTypes, Queues

LEMMA PutBackMoves ==
  ASSUME TypeInv, PutBack
  PROVE  /\ UNCHANGED <<asked, handed>> /\ writing' = NoLine
         /\ writing \in Entry /\ writing = queue.inFlight /\ queue.parked \in Seq(Entry)
         /\ queue' = [inFlight |-> NoLine, parked |-> <<writing>> \o queue.parked]
         /\ disk' \in {queue', disk}
  BY DEF PutBack, Mirrors, MirrorFails, TypeInv, QueueTypes, Queues

LEMMA WritesMoves ==
  ASSUME TypeInv, TapWrites
  PROVE  /\ UNCHANGED <<asked, queue, disk>> /\ writing' = NoLine
         /\ writing \in Entry /\ writing = queue.inFlight /\ writing # NoLine
         /\ life \in 1 .. MaxLives /\ handed' = Append(handed, [line |-> writing, life |-> life])
         /\ [line |-> writing, life |-> life] \in Handed
  BY DEF TapWrites, TypeInv, QueueTypes, Queues, LifeTypes, Handed

\* What a restart makes of the line in flight.
LEMMA LoadedIs ==
  LET q == disk.inFlight
  IN  /\ q = NoLine => Loaded = disk.parked
      /\ q # NoLine /\ q.note => Loaded = <<[q EXCEPT !.replayed = TRUE]>> \o disk.parked
      /\ q # NoLine /\ ~q.note /\ (\E r \in rows : r.id = q.id) => Loaded = disk.parked
      /\ q # NoLine /\ ~q.note /\ ~(\E r \in rows : r.id = q.id) => Loaded = <<q>> \o disk.parked
<1> DEFINE q == disk.inFlight
           a == <<[q EXCEPT !.replayed = TRUE]>> \o disk.parked
           b == <<q>> \o disk.parked
           R == \E r \in rows : r.id = q.id
<1>1. Loaded = CASE q = NoLine -> disk.parked [] q.note -> a [] ~q.note /\ R -> disk.parked [] OTHER -> b
  BY Zenon DEF Loaded
<1>2. ~NoLine.note
  BY DEF NoLine
<1> HIDE DEF q, a, b, R
<1>3. /\ q = NoLine => Loaded = disk.parked
      /\ q # NoLine /\ q.note => Loaded = a
      /\ q # NoLine /\ ~q.note /\ R => Loaded = disk.parked
      /\ q # NoLine /\ ~q.note /\ ~R => Loaded = b
  BY <1>1, <1>2
<1> QED
  BY <1>3 DEF q, a, b, R

LEMMA RestartMoves ==
  ASSUME TypeInv, Restart
  PROVE  /\ UNCHANGED <<asked, handed, disk>> /\ writing' = NoLine
         /\ disk.parked \in Seq(Entry) /\ disk.inFlight \in Entry \union {NoLine}
         /\ queue' = [inFlight |-> NoLine, parked |-> Loaded] /\ NoLine \notin Entry
         /\ \/ Loaded = disk.parked
            \/ /\ disk.inFlight \in Entry
               /\ disk.inFlight.note \/ ~\E r \in rows : r.id = disk.inFlight.id
               /\ \E e \in Entry :
                    /\ Loaded = <<e>> \o disk.parked
                    /\ e.id = disk.inFlight.id /\ e.members = disk.inFlight.members
                    /\ e.note = disk.inFlight.note /\ e.frozen = disk.inFlight.frozen
                    /\ e.note => e.replayed
<1> DEFINE q == disk.inFlight
<1>1. disk.parked \in Seq(Entry) /\ q \in Entry \union {NoLine} /\ NoLine \notin Entry
  BY Entries DEF TypeInv, QueueTypes, Queues
<1>2. CASE q = NoLine
  BY <1>1, <1>2, LoadedIs DEF Restart, pastVars
<1>3. CASE q \in Entry
  <2>1. q # NoLine /\ [q EXCEPT !.replayed = TRUE] \in Entry
    BY <1>1, <1>3 DEF Entry
  <2> DEFINE e == [q EXCEPT !.replayed = TRUE]
  <2>2. e.id = q.id /\ e.members = q.members /\ e.note = q.note /\ e.frozen = q.frozen /\ e.replayed
    BY <1>3 DEF Entry
  <2>3. CASE q.note
    <3>1. Loaded = <<e>> \o disk.parked
      BY <2>1, <2>3, LoadedIs
    <3> HIDE DEF e
    <3> QED
      BY <1>1, <1>3, <2>1, <2>2, <2>3, <3>1 DEF Restart, pastVars, e
  <2>4. CASE ~q.note /\ \E r \in rows : r.id = q.id
    BY <1>1, <2>1, <2>4, LoadedIs DEF Restart, pastVars
  <2>5. CASE ~q.note /\ ~\E r \in rows : r.id = q.id
    <3>1. Loaded = <<q>> \o disk.parked
      BY <2>1, <2>5, LoadedIs
    <3> QED
      BY <1>1, <1>3, <2>5, <3>1 DEF Restart, pastVars
  <2> QED
    BY <2>3, <2>4, <2>5
<1> QED
  BY <1>1, <1>2, <1>3

-----------------------------------------------------------------------------
(* The lines accepted, and what is kept of them.                           *)

LEMMA AskedIs ==
  ASSUME TypeInv
  PROVE  \A k \in DOMAIN asked : asked[k][1] \in Lines
<1> DEFINE S == Lines \X (1 .. MaxLives)
<1>1. asked \in Seq(S) /\ \A p \in S : p[1] \in Lines
  BY DEF TypeInv, SubmitTypes
<1> HIDE DEF S
<1> QED
  BY <1>1

\* One more line is accepted.
LEMMA OneMoreAsked ==
  ASSUME TypeInv, NEW l \in Lines, asked' = Append(asked, <<l, life>>)
  PROVE  LET n == Len(asked) + 1
         IN  /\ DOMAIN (asked') = DOMAIN asked \union {n} /\ asked'[n][1] = l /\ n \notin DOMAIN asked
             /\ \A k \in DOMAIN asked : asked'[k] = asked[k] /\ k < n
             /\ AskedLines' = AskedLines \union {l}
<1>1. PICK S : S = Lines \X (1 .. MaxLives)
  OBVIOUS
<1>2. PICK e : e = <<l, life>>
  OBVIOUS
<1>3. asked \in Seq(S) /\ e \in S /\ e[1] = l
  BY <1>1, <1>2 DEF TypeInv, SubmitTypes, LifeTypes
<1>4. /\ DOMAIN Append(asked, e) = DOMAIN asked \union {Len(asked) + 1}
      /\ Append(asked, e)[Len(asked) + 1] = e
      /\ \A i \in DOMAIN asked : Append(asked, e)[i] = asked[i] /\ i < Len(asked) + 1 /\ i # Len(asked) + 1
  BY <1>3, Appended
<1>5. asked' = Append(asked, e)
  BY <1>2
<1>6. AskedLines' = AskedLines \union {l}
  BY <1>3, <1>4, <1>5 DEF AskedLines
<1> QED
  BY <1>3, <1>4, <1>5, <1>6

\* What was well formed stays so, as more lines are accepted.
LEMMA GoodStays ==
  ASSUME NEW L, NEW M, L \subseteq M
  PROVE  /\ \A e : Good(L, e) => Good(M, e)
         /\ \A q : GoodQueue(L, q) => GoodQueue(M, q)
<1>1. ASSUME NEW e, Good(L, e) PROVE Good(M, e)
  BY <1>1 DEF Good
<1>2. ASSUME NEW q, GoodQueue(L, q) PROVE GoodQueue(M, q)
  BY <1>1, <1>2 DEF GoodQueue
<1> QED
  BY <1>1, <1>2

LEMMA NoLineIsGood == \A L : Good(L, NoLine) /\ GoodQueue(L, Empty)
  BY DEF Good, GoodQueue, Empty

LEMMA AskedInit == Init => AskedInv
<1> SUFFICES ASSUME Init PROVE AskedInv
  OBVIOUS
<1>1. AskedOnce
  BY DEF Init, AskedOnce
<1>2. GoodQueue(AskedLines, queue) /\ GoodQueue(AskedLines, disk) /\ writing = NoLine
  BY NoLineIsGood DEF Init
<1>3. handed \in Seq(Handed) /\ \A i \in DOMAIN handed : Good(AskedLines, handed[i].line)
  BY EmptySeq DEF Init
<1> QED
  BY <1>1, <1>2, <1>3 DEF AskedInv

\* Once accepted, a line is not accepted again.
LEMMA AskedOnceStays ==
  ASSUME TypeInv, [Next]_vars, AskedOnce, asked' = asked
  PROVE  AskedOnce'
  BY PcStays, AskedIs DEF AskedOnce

LEMMA ParkKeepsAsked ==
  ASSUME TypeInv, AskedInv, [Next]_vars, NEW l \in Lines, NEW r \in Route, Park(l, r)
  PROVE  AskedInv'
<1> DEFINE q == [queue EXCEPT !.parked = Append(@, Parked(l, r))]
<1>1. /\ pc[l] = "new" /\ UNCHANGED <<writing, handed>>
      /\ q.inFlight = queue.inFlight /\ q.parked = Append(queue.parked, Parked(l, r))
      /\ \/ UNCHANGED <<asked, queue, disk>>
         \/ /\ pc'[l] = "queued" /\ asked' = Append(asked, <<l, life>>)
            /\ queue' = q /\ disk' \in {disk, q}
  BY ParkMoves
<1> HIDE DEF q
<1>2. CASE UNCHANGED <<asked, queue, disk>>
  BY <1>1, <1>2, GoodStays, AskedOnceStays DEF AskedInv, AskedLines
<1>3. CASE /\ pc'[l] = "queued" /\ asked' = Append(asked, <<l, life>>)
           /\ queue' = q /\ disk' \in {disk, q}
  <2>1. /\ DOMAIN (asked') = DOMAIN asked \union {Len(asked) + 1}
        /\ asked'[Len(asked) + 1][1] = l
        /\ \A k \in DOMAIN asked : asked'[k] = asked[k]
        /\ AskedLines' = AskedLines \union {l}
    BY <1>3, OneMoreAsked
  <2>2. AskedOnce'
    BY <1>1, <1>3, <2>1, PcStays, AskedIs DEF AskedInv, AskedOnce
  <2>3. Good(AskedLines', Parked(l, r)) /\ Parked(l, r) \in Entry
    <3>1. Good(AskedLines', Parked(l, r))
      BY <2>1 DEF Good, Parked
    <3> QED
      BY <3>1, Entries
  <2>4. queue.parked \in Seq(Entry)
    BY DEF TypeInv, QueueTypes, Queues
  <2>5. GoodQueue(AskedLines', q)
    <3>1. GoodQueue(AskedLines', queue)
      BY <2>1, GoodStays DEF AskedInv
    <3>2. \A i \in DOMAIN q.parked : i = Len(queue.parked) + 1 \/ i \in DOMAIN queue.parked
      BY <1>1, <2>3, <2>4, Appended
    <3>3. \A i \in DOMAIN queue.parked : q.parked[i] = queue.parked[i]
      BY <1>1, <2>3, <2>4, Appended
    <3>4. q.parked[Len(queue.parked) + 1] = Parked(l, r)
      BY <1>1, <2>3, <2>4, Appended
    <3> HIDE DEF q
    <3> QED
      BY <1>1, <1>3, <2>3, <3>1, <3>2, <3>3, <3>4 DEF GoodQueue
  <2>6. GoodQueue(AskedLines, disk)' /\ GoodQueue(AskedLines, queue)'
    BY <1>1, <1>3, <2>1, <2>5, GoodStays DEF AskedInv
  <2>7. \A i \in DOMAIN handed : Good(AskedLines', handed[i].line)
    BY <2>1, GoodStays DEF AskedInv
  <2>8. writing' # NoLine => disk'.inFlight = writing'
    BY <1>1, <1>3 DEF AskedInv, TypeInv, QueueTypes
  <2> QED
    BY <1>1, <2>2, <2>6, <2>7, <2>8 DEF AskedInv
<1> QED
  BY <1>1, <1>2, <1>3

LEMMA AdvanceKeepsAsked ==
  ASSUME TypeInv, AskedInv, [Next]_vars, Advance
  PROVE  AskedInv'
<1>1. PICK b \in Batches(queue.parked) :
         writing' = b.line /\ queue' = [inFlight |-> b.line, parked |-> b.rest] /\ disk' = queue'
  BY AdvanceMoves
<1>2. UNCHANGED <<asked, handed>> /\ queue.parked \in Seq(Entry) /\ queue.parked # << >>
  BY AdvanceMoves
<1> DEFINE p == queue.parked
<1>3. p \in Seq(Entry) /\ b \in Batches(p) /\ p # << >>
  BY <1>1, <1>2
<1> HIDE DEF p
<1>4. /\ b.line \in Entry /\ b.rest \in Seq(Entry) /\ 1 \in DOMAIN p
      /\ b.line.id = p[1].id /\ b.line.note = p[1].note /\ (b.line.note => b.line.frozen)
      /\ \E n \in DOMAIN p :
           /\ \A i \in DOMAIN b.rest : i + n \in DOMAIN p /\ b.rest[i] = p[i + n]
           /\ b.line.members = UNION {p[i].members : i \in 1 .. n}
           /\ \/ n = 1 /\ b.line = p[1]
              \/ \A i \in 1 .. n : p[i].note /\ ~p[i].frozen
  BY <1>3, BatchIs
<1>5. PICK n \in DOMAIN p :
           /\ \A i \in DOMAIN b.rest : i + n \in DOMAIN p /\ b.rest[i] = p[i + n]
           /\ b.line.members = UNION {p[i].members : i \in 1 .. n}
           /\ \/ n = 1 /\ b.line = p[1]
              \/ \A i \in 1 .. n : p[i].note /\ ~p[i].frozen
  BY <1>4
<1>6. \A i \in DOMAIN p : Good(AskedLines, p[i]) /\ p[i] \in Entry /\ p[i] # NoLine
  BY <1>3, Entries DEF AskedInv, GoodQueue, p
<1>7. 1 .. n \subseteq DOMAIN p /\ 1 \in 1 .. n /\ n \in DOMAIN p
  BY <1>3, <1>5
<1>8. Good(AskedLines, b.line)
  <2>1. CASE n = 1 /\ b.line = p[1]
    BY <1>6, <1>7, <2>1
  <2>2. CASE \A i \in 1 .. n : p[i].note /\ ~p[i].frozen
    <3>1. b.line.note /\ b.line.id \in p[1].members
      BY <1>4, <1>6, <1>7, <2>2 DEF Good
    <3>2. \A i \in 1 .. n : p[i].members \subseteq AskedLines
      BY <1>6, <1>7 DEF Good
    <3>3. b.line.members \subseteq AskedLines /\ b.line.id \in b.line.members
      BY <1>5, <1>7, <3>1, <3>2
    <3> QED
      BY <3>1, <3>3 DEF Good
  <2> QED
    BY <1>5, <2>1, <2>2
<1>9. GoodQueue(AskedLines, [inFlight |-> b.line, parked |-> b.rest])
  BY <1>4, <1>5, <1>6, <1>8 DEF GoodQueue
<1>10. GoodQueue(AskedLines, queue)' /\ GoodQueue(AskedLines, disk)'
  BY <1>1, <1>2, <1>9, GoodStays DEF AskedLines
<1>11. \A i \in DOMAIN handed : Good(AskedLines, handed[i].line)'
  BY <1>2, GoodStays DEF AskedInv, AskedLines
<1>12. disk'.inFlight = writing'
  BY <1>1
<1> QED
  BY <1>2, <1>10, <1>11, <1>12, AskedOnceStays DEF AskedInv

LEMMA PutBackKeepsAsked ==
  ASSUME TypeInv, AskedInv, [Next]_vars, PutBack
  PROVE  AskedInv'
<1> DEFINE p == queue.parked
           q == <<writing>> \o p
<1>1. /\ UNCHANGED <<asked, handed>> /\ writing' = NoLine
      /\ writing \in Entry /\ writing = queue.inFlight /\ p \in Seq(Entry)
      /\ queue' = [inFlight |-> NoLine, parked |-> q]
      /\ disk' \in {queue', disk}
  BY PutBackMoves
<1>2. \A i \in DOMAIN q : q[i] = writing \/ \E j \in DOMAIN p : q[i] = p[j]
  BY <1>1, Prepended
<1> HIDE DEF q
<1>3. \A i \in DOMAIN q : Good(AskedLines, q[i])
  BY <1>1, <1>2 DEF AskedInv, GoodQueue
<1>4. GoodQueue(AskedLines, [inFlight |-> NoLine, parked |-> q])
  BY <1>3, NoLineIsGood DEF GoodQueue
<1>5. /\ AskedLines' = AskedLines /\ GoodQueue(AskedLines, queue') /\ GoodQueue(AskedLines, disk')
      /\ handed' = handed
  BY <1>1, <1>4 DEF AskedLines, AskedInv
<1> QED
  BY <1>1, <1>5, AskedOnceStays DEF AskedInv

LEMMA WritesKeepsAsked ==
  ASSUME TypeInv, AskedInv, [Next]_vars, TapWrites
  PROVE  AskedInv'
<1> DEFINE e == [line |-> writing, life |-> life]
<1>1. UNCHANGED <<asked, queue, disk>> /\ writing' = NoLine /\ handed' = Append(handed, e) /\ e \in Handed
  BY WritesMoves
<1>2. handed \in Seq(Handed) /\ e.line = writing /\ writing = queue.inFlight
  BY WritesMoves DEF AskedInv
<1> HIDE DEF e
<1>3. /\ handed' \in Seq(Handed) /\ DOMAIN handed' = DOMAIN handed \union {Len(handed) + 1}
      /\ handed'[Len(handed) + 1] = e /\ \A i \in DOMAIN handed : handed'[i] = handed[i]
  BY <1>1, <1>2, Appended
<1>4. \A i \in DOMAIN handed' : Good(AskedLines, handed'[i].line)
  BY <1>2, <1>3 DEF AskedInv, GoodQueue
<1>5. GoodQueue(AskedLines, queue)' /\ GoodQueue(AskedLines, disk)' /\ \A i \in DOMAIN handed' : Good(AskedLines', handed'[i].line)
  BY <1>1, <1>4, GoodStays DEF AskedLines, AskedInv
<1> QED
  BY <1>1, <1>3, <1>5, AskedOnceStays DEF AskedInv

LEMMA RestartKeepsAsked ==
  ASSUME TypeInv, AskedInv, [Next]_vars, Restart
  PROVE  AskedInv'
<1>1. /\ UNCHANGED <<asked, handed, disk>> /\ writing' = NoLine
      /\ queue' = [inFlight |-> NoLine, parked |-> Loaded]
  BY RestartMoves
<1>2. \A i \in DOMAIN Loaded : Good(AskedLines, Loaded[i])
  <2>1. CASE Loaded = disk.parked
    BY <2>1 DEF AskedInv, GoodQueue
  <2>2. CASE /\ disk.inFlight \in Entry
             /\ \E e \in Entry :
                  /\ Loaded = <<e>> \o disk.parked
                  /\ e.id = disk.inFlight.id /\ e.members = disk.inFlight.members
                  /\ e.note = disk.inFlight.note
    <3>1. PICK e \in Entry :
                  /\ Loaded = <<e>> \o disk.parked
                  /\ e.id = disk.inFlight.id /\ e.members = disk.inFlight.members
                  /\ e.note = disk.inFlight.note
      BY <2>2
    <3>2. Good(AskedLines, e)
      BY <2>2, <3>1, Entries DEF Good, AskedInv, GoodQueue
    <3>3. disk.parked \in Seq(Entry)
      BY DEF TypeInv, QueueTypes, Queues
    <3>4. \A i \in DOMAIN Loaded : Loaded[i] = e \/ \E j \in DOMAIN disk.parked : Loaded[i] = disk.parked[j]
      BY <3>1, <3>3, Prepended
    <3> QED
      BY <3>2, <3>4 DEF AskedInv, GoodQueue
  <2> QED
    BY <2>1, <2>2, RestartMoves
<1>3. GoodQueue(AskedLines, [inFlight |-> NoLine, parked |-> Loaded])
  BY <1>2, NoLineIsGood DEF GoodQueue
<1>4. /\ AskedLines' = AskedLines /\ GoodQueue(AskedLines, queue') /\ GoodQueue(AskedLines, disk')
      /\ handed' = handed
  BY <1>1, <1>3 DEF AskedLines, AskedInv
<1> QED
  BY <1>1, <1>4, AskedOnceStays DEF AskedInv

LEMMA AskedStep == TypeInv /\ AskedInv /\ [Next]_vars => AskedInv'
<1> SUFFICES ASSUME TypeInv, AskedInv, [Next]_vars PROVE AskedInv'
  OBVIOUS
<1>1. CASE UNCHANGED lineVars
  BY <1>1, AskedOnceStays, GoodStays DEF AskedInv, lineVars, AskedLines
<1>2. CASE Retire \/ DaemonDies
  <2>1. /\ UNCHANGED <<asked, handed>> /\ queue' \in {queue, Empty} /\ disk' \in {disk, Empty}
        /\ writing' = NoLine
    BY <1>2, RetireMoves DEF DaemonDies
  <2> QED
    BY <2>1, AskedOnceStays, GoodStays, NoLineIsGood DEF AskedInv, AskedLines
<1>3. CASE \E l \in Lines, r \in Route : Park(l, r)
  BY <1>3, ParkKeepsAsked
<1> QED
  BY <1>1, <1>2, <1>3, OthersStay, AdvanceKeepsAsked, WritesKeepsAsked, PutBackKeepsAsked, RestartKeepsAsked DEF Moves

-----------------------------------------------------------------------------
(* The order of the lines.  A queue is sorted by when its lines were       *)
(* accepted, and no line that waits was overtaken before it went out.      *)

\* When each line was accepted.
Rank == [l \in AskedLines |-> Asked(l)]

\* Every line of e was accepted before every line of f; k ranks the lines.
Before(k, e, f) == \A a \in e.members, b \in f.members : k[a] < k[b]
Sorted(k, q) ==
  /\ \A i, j \in DOMAIN q.parked : i < j => Before(k, q.parked[i], q.parked[j])
  /\ \A j \in DOMAIN q.parked : Before(k, q.inFlight, q.parked[j])

\* No line of L was overtaken, in what was handed over, before it went out itself.
Followed(k, h, L) ==
  \A i \in DOMAIN h : \A a \in h[i].line.members, b \in L :
    k[b] < k[a] => \E j \in 1 .. i : b \in h[j].line.members

\* The lines a restart would queue: the line in flight only if it may not have run.
ToLoad ==
  (IF disk.inFlight.note \/ ~\E r \in rows : r.id = disk.inFlight.id THEN disk.inFlight.members ELSE {})
  \union UNION {disk.parked[i].members : i \in DOMAIN disk.parked}

OrderInv ==
  /\ Sorted(Rank, queue) /\ Sorted(Rank, disk)
  /\ Followed(Rank, handed, Held(queue)) /\ Followed(Rank, handed, ToLoad)
  /\ HandedInOrder

-----------------------------------------------------------------------------

\* A line that was accepted once has one rank.
LEMMA ChosenPlace ==
  ASSUME NEW s, NEW i \in DOMAIN s, \A j \in DOMAIN s : s[j][1] = s[i][1] => j = i
  PROVE  (CHOOSE j \in DOMAIN s : s[j][1] = s[i][1]) = i
  OBVIOUS

LEMMA RankIs ==
  ASSUME AskedOnce, NEW i \in DOMAIN asked
  PROVE  asked[i][1] \in AskedLines /\ Asked(asked[i][1]) = i /\ Rank[asked[i][1]] = i
<1>1. asked[i][1] \in AskedLines
  BY DEF AskedLines
<1>2. Asked(asked[i][1]) = i
  BY ChosenPlace DEF Asked, AskedOnce
<1> QED
  BY <1>1, <1>2 DEF Rank

LEMMA RankIsNext ==
  ASSUME AskedOnce', NEW i \in DOMAIN (asked')
  PROVE  asked'[i][1] \in AskedLines' /\ Rank'[asked'[i][1]] = i
<1>1. asked'[i][1] \in AskedLines'
  BY DEF AskedLines
<1>2. \A j \in DOMAIN (asked') : asked'[j][1] = asked'[i][1] => j = i
  BY DEF AskedOnce
<1>3. (CHOOSE j \in DOMAIN (asked') : asked'[j][1] = asked'[i][1]) = i
  BY <1>2, ChosenPlace
<1>4. Rank'[asked'[i][1]] = (CHOOSE j \in DOMAIN (asked') : asked'[j][1] = asked'[i][1])
  BY <1>1 DEF Rank, Asked
<1> QED
  BY <1>1, <1>3, <1>4

\* Ranks are kept, and a line accepted now comes after all others.
LEMMA RanksStay ==
  ASSUME TypeInv, AskedInv, [Next]_vars
  PROVE  /\ AskedLines \subseteq AskedLines'
         /\ \A l \in AskedLines : Rank'[l] = Rank[l]
         /\ \A l \in Lines : pc[l] = "new" => l \notin AskedLines
         /\ \A l \in Lines : asked' = Append(asked, <<l, life>>) =>
              l \in AskedLines' /\ \A k \in AskedLines : Rank'[k] < Rank'[l]
<1>1. AskedOnce /\ AskedOnce'
  BY AskedStep DEF AskedInv
<1>2. \A l \in Lines : pc[l] = "new" => l \notin AskedLines
  BY <1>1 DEF AskedOnce, AskedLines
<1>3. asked' = asked \/ \E l \in Lines : asked' = Append(asked, <<l, life>>)
  <2>1. CASE \E l \in Lines, r \in Route : Park(l, r)
    BY <2>1, ParkMoves
  <2>2. CASE Retire \/ Advance \/ TapWrites \/ PutBack \/ DaemonDies \/ Restart
    BY <2>2, RetireMoves, AdvanceMoves, WritesMoves, PutBackMoves, RestartMoves DEF DaemonDies
  <2> QED
    BY <2>1, <2>2, OthersStay DEF Moves, lineVars
<1>4. CASE asked' = asked
  <2>1. AskedLines' = AskedLines /\ Rank' = Rank
    BY <1>4 DEF AskedLines, Rank, Asked
  <2>2. ASSUME NEW l \in Lines, asked' = Append(asked, <<l, life>>) PROVE FALSE
    BY <1>4, <2>2, OneMoreAsked
  <2> QED
    BY <1>2, <2>1, <2>2
<1>5. ASSUME NEW l \in Lines, asked' = Append(asked, <<l, life>>)
      PROVE  /\ AskedLines \subseteq AskedLines'
             /\ \A k \in AskedLines : Rank'[k] = Rank[k]
             /\ l \in AskedLines' /\ \A k \in AskedLines : Rank'[k] < Rank'[l]
  <2> DEFINE n == Len(asked) + 1
  <2>1. /\ DOMAIN (asked') = DOMAIN asked \union {n} /\ asked'[n][1] = l /\ n \notin DOMAIN asked
        /\ \A k \in DOMAIN asked : asked'[k] = asked[k] /\ k < n
        /\ AskedLines' = AskedLines \union {l}
    BY <1>5, OneMoreAsked
  <2> HIDE DEF n
  <2>2. Rank'[l] = n
    BY <1>1, <2>1, RankIsNext
  <2>3. ASSUME NEW k \in AskedLines PROVE Rank'[k] = Rank[k] /\ Rank'[k] < n
    <3>1. PICK i \in DOMAIN asked : k = asked[i][1]
      BY DEF AskedLines
    <3>2. Rank[k] = i /\ i < n /\ asked'[i] = asked[i] /\ i \in DOMAIN (asked')
      BY <1>1, <2>1, <3>1, RankIs
    <3>3. Rank'[k] = i
      BY <1>1, <3>1, <3>2, RankIsNext
    <3> QED
      BY <3>2, <3>3
  <2> QED
    BY <2>1, <2>2, <2>3
<1> QED
  BY <1>2, <1>3, <1>4, <1>5

LEMMA RanksAreNumbers ==
  ASSUME TypeInv, AskedInv
  PROVE  \A l \in AskedLines : Rank[l] \in Nat /\ Rank[l] = Asked(l)
<1>1. DOMAIN asked \subseteq Nat
  <2> DEFINE S == Lines \X (1 .. MaxLives)
  <2>1. asked \in Seq(S)
    BY DEF TypeInv, SubmitTypes
  <2> HIDE DEF S
  <2> QED
    BY <2>1
<1> QED
  BY <1>1, RankIs DEF AskedInv, AskedLines

-----------------------------------------------------------------------------
(* Sorted queues stay sorted.                                              *)

\* The lines of a queue are lines accepted.
LEMMA HeldIs ==
  ASSUME NEW L, NEW q \in Queues, GoodQueue(L, q)
  PROVE  /\ Held(q) \subseteq L /\ q.inFlight.members \subseteq L
         /\ \A i \in DOMAIN q.parked : q.parked[i].members \subseteq L
<1>1. q.parked \in Seq(Entry) /\ NoLine.members = {}
  BY DEF Queues, NoLine
<1>2. q.inFlight.members \subseteq L
  BY <1>1 DEF GoodQueue, Good
<1>3. \A i \in DOMAIN q.parked : q.parked[i].members \subseteq L
  BY <1>1, Entries DEF GoodQueue, Good
<1> QED
  BY <1>2, <1>3 DEF Held

LEMMA RankedAlike ==
  ASSUME NEW L, NEW k, NEW m, \A l \in L : m[l] = k[l]
  PROVE  /\ \A q \in Queues : GoodQueue(L, q) /\ Sorted(k, q) => Sorted(m, q)
         /\ \A h, H : (\A i \in DOMAIN h : h[i].line.members \subseteq L) /\ H \subseteq L =>
              (Followed(k, h, H) <=> Followed(m, h, H))
<1>1. ASSUME NEW q \in Queues, GoodQueue(L, q), Sorted(k, q) PROVE Sorted(m, q)
  <2>1. /\ q.inFlight.members \subseteq L
        /\ \A i \in DOMAIN q.parked : q.parked[i].members \subseteq L
    BY <1>1, HeldIs
  <2> QED
    BY <1>1, <2>1 DEF Sorted, Before
<1>2. ASSUME NEW h, NEW H, \A i \in DOMAIN h : h[i].line.members \subseteq L, H \subseteq L
      PROVE  Followed(k, h, H) <=> Followed(m, h, H)
  <2>1. \A i \in DOMAIN h : \A a \in h[i].line.members, b \in H : m[a] = k[a] /\ m[b] = k[b]
    BY <1>2
  <2> QED
    BY <2>1 DEF Followed
<1> QED
  BY <1>1, <1>2

LEMMA SortedBatch ==
  ASSUME NEW k, NEW q \in Queues, q.parked # << >>, NEW b \in Batches(q.parked), Sorted(k, q)
  PROVE  LET n == [inFlight |-> b.line, parked |-> b.rest]
         IN  n \in Queues /\ Sorted(k, n) /\ Held(n) \subseteq Held(q)
<1> DEFINE p == q.parked
           n == [inFlight |-> b.line, parked |-> b.rest]
<1>1. p \in Seq(Entry) /\ p # << >> /\ b \in Batches(p)
  BY DEF Queues
<1>2. \A i, j \in DOMAIN p : i < j => Before(k, p[i], p[j])
  BY DEF Sorted
<1>3. \A i \in DOMAIN p : p[i].members \subseteq Held(q)
  BY DEF Held
<1> HIDE DEF p
<1>4. b.line \in Entry /\ b.rest \in Seq(Entry)
  BY <1>1, BatchIs
<1>5. PICK m \in DOMAIN p :
        /\ \A i \in DOMAIN b.rest : i + m \in DOMAIN p /\ b.rest[i] = p[i + m]
        /\ b.line.members = UNION {p[i].members : i \in 1 .. m}
  BY <1>1, BatchIs
<1>6. m \in Nat /\ 1 .. m \subseteq DOMAIN p /\ DOMAIN b.rest \subseteq Nat \ {0}
  BY <1>1, <1>4
<1>7. \A i, j \in DOMAIN b.rest : i < j => Before(k, b.rest[i], b.rest[j])
  BY <1>2, <1>5, <1>6
<1>8. \A j \in DOMAIN b.rest : Before(k, b.line, b.rest[j])
  <2>1. ASSUME NEW j \in DOMAIN b.rest, NEW a \in b.line.members PROVE \A c \in b.rest[j].members : k[a] < k[c]
    <3>1. PICK i \in 1 .. m : a \in p[i].members
      BY <1>5
    <3>2. i \in DOMAIN p /\ j + m \in DOMAIN p /\ i < j + m /\ b.rest[j] = p[j + m]
      BY <1>5, <1>6
    <3> QED
      BY <1>2, <3>1, <3>2 DEF Before
  <2> QED
    BY <2>1 DEF Before
<1>9. b.line.members \subseteq Held(q) /\ \A i \in DOMAIN b.rest : b.rest[i].members \subseteq Held(q)
  BY <1>3, <1>5, <1>6
<1>10. Held(n) \subseteq Held(q)
  BY <1>9 DEF Held
<1> QED
  BY <1>4, <1>7, <1>8, <1>10 DEF Sorted, Queues

LEMMA SortedPrepend ==
  ASSUME NEW k, NEW e \in Entry, NEW p \in Seq(Entry), Sorted(k, [inFlight |-> e, parked |-> p])
  PROVE  LET n == [inFlight |-> NoLine, parked |-> <<e>> \o p]
         IN  n \in Queues /\ Sorted(k, n) /\ Held(n) \subseteq Held([inFlight |-> e, parked |-> p])
<1> DEFINE s == <<e>> \o p
<1>1. /\ s \in Seq(Entry) /\ 1 \in DOMAIN s /\ s[1] = e
      /\ \A i \in DOMAIN s : i # 1 => i > 1 /\ i - 1 \in DOMAIN p /\ s[i] = p[i - 1]
  BY Prepended
<1> HIDE DEF s
<1>2. DOMAIN s \subseteq Nat
  BY <1>1
<1>3. \A i, j \in DOMAIN s : i < j => Before(k, s[i], s[j])
  <2> SUFFICES ASSUME NEW i \in DOMAIN s, NEW j \in DOMAIN s, i < j PROVE Before(k, s[i], s[j])
    OBVIOUS
  <2>1. j # 1 /\ j - 1 \in DOMAIN p /\ s[j] = p[j - 1]
    BY <1>1, <1>2
  <2>2. CASE i = 1
    BY <1>1, <2>1, <2>2 DEF Sorted
  <2>3. CASE i # 1
    <3>1. i - 1 \in DOMAIN p /\ s[i] = p[i - 1] /\ i - 1 < j - 1
      BY <1>1, <1>2, <2>3
    <3> QED
      BY <2>1, <3>1 DEF Sorted
  <2> QED
    BY <2>2, <2>3
<1>4. NoLine.members = {}
  BY DEF NoLine
<1>5. \A i \in DOMAIN s : s[i].members \subseteq e.members \union UNION {p[j].members : j \in DOMAIN p}
  BY <1>1
<1>6. Held([inFlight |-> NoLine, parked |-> s]) \subseteq Held([inFlight |-> e, parked |-> p])
  BY <1>4, <1>5 DEF Held
<1>7. Sorted(k, [inFlight |-> NoLine, parked |-> s])
  BY <1>3, <1>4 DEF Sorted, Before
<1> QED
  BY <1>1, <1>6, <1>7 DEF s, Queues

LEMMA SortedAppend ==
  ASSUME NEW k, NEW q \in Queues, NEW e \in Entry, Sorted(k, q),
         \A a \in Held(q), b \in e.members : k[a] < k[b],
         NEW n \in Queues, n.inFlight = q.inFlight, n.parked = Append(q.parked, e)
  PROVE  Sorted(k, n) /\ Held(n) \subseteq Held(q) \union e.members
<1> DEFINE p == q.parked
           s == n.parked
<1>1. p \in Seq(Entry) /\ \A i \in DOMAIN p : p[i].members \subseteq Held(q)
  BY DEF Queues, Held
<1>2. q.inFlight.members \subseteq Held(q)
  BY DEF Held
<1>3. /\ DOMAIN s = DOMAIN p \union {Len(p) + 1} /\ s[Len(p) + 1] = e
      /\ \A i \in DOMAIN p : s[i] = p[i] /\ i < Len(p) + 1 /\ i # Len(p) + 1
  BY <1>1, Appended
<1>4. /\ \A i, j \in DOMAIN p : i < j => Before(k, p[i], p[j])
      /\ \A j \in DOMAIN p : Before(k, q.inFlight, p[j])
  BY DEF Sorted
<1> HIDE DEF p, s
<1>5. \A i \in DOMAIN p : Before(k, p[i], e)
  BY <1>1 DEF Before
<1>6. Before(k, q.inFlight, e)
  BY <1>2 DEF Before
<1>7. Len(p) \in Nat /\ DOMAIN p \subseteq Nat
  BY <1>1
<1>8. \A i, j \in DOMAIN s : i < j => Before(k, s[i], s[j])
  BY <1>3, <1>4, <1>5, <1>7
<1>9. \A j \in DOMAIN s : Before(k, q.inFlight, s[j])
  BY <1>3, <1>4, <1>6
<1>10. Held(n) \subseteq Held(q) \union e.members
  <2>1. \A i \in DOMAIN s : s[i].members \subseteq Held(q) \union e.members
    BY <1>1, <1>3
  <2> QED
    BY <1>2, <2>1 DEF Held, s
<1> QED
  BY <1>8, <1>9, <1>10 DEF Sorted, s

LEMMA SortedEmpty == \A k : Sorted(k, Empty) /\ Held(Empty) = {}
  BY EmptySeq DEF Sorted, Before, Empty, Held, NoLine

LEMMA FollowedLess ==
  ASSUME NEW k, NEW h, NEW L, NEW M, L \subseteq M, Followed(k, h, M)
  PROVE  Followed(k, h, L)
  BY DEF Followed

-----------------------------------------------------------------------------
(* The tap hands the lines over in order.                                  *)

\* Which steps report a turn, and what they report.
LEMMA RowsAre ==
  ASSUME [Next]_vars
  PROVE  \/ rows' = rows
         \/ TurnResult /\ rows' = rows \union {[id |-> Opened, of |-> Head(eventsIn).of, life |-> life, failed |-> FALSE]}
         \/ StreamCloses /\ rows' = rows \union {[id |-> Opened, of |-> {}, life |-> life, failed |-> TRUE]}
<1>1. CASE Submits
  BY <1>1 DEF Submits, Park, Claim, Send, SendFails, reportVars
<1>2. CASE Tap
  BY <1>2 DEF Tap, Retire, Advance, AdvanceRefused, TapWrites, PutBack, Boundary, reportVars
<1>3. CASE Translator
  BY <1>3 DEF Translator, TurnText, TurnResult, StreamCloses, reportVars
<1>4. CASE VendorSteps \/ WakesItself
  BY <1>4 DEF VendorSteps, ReadsLine, Rereads, WakesItself, VendorOpens, HearsLine, Ends, reportVars
<1>5. CASE ChildDies \/ DaemonDies \/ Restart \/ UNCHANGED vars
  BY <1>5 DEF ChildDies, DaemonDies, Restart, reportVars, vars
<1> QED
  BY <1>1, <1>2, <1>3, <1>4, <1>5 DEF Next

\* Rows are only added.
LEMMA RowsStay == [Next]_vars => rows \subseteq rows'
  BY RowsAre

\* What a restart would queue is of the file, and no more of it later on.
LEMMA ToLoadIs ==
  /\ ToLoad \subseteq Held(disk)
  /\ [Next]_vars /\ disk' = disk => ToLoad' \subseteq ToLoad
  /\ ToLoad' \subseteq Held(disk')
<1>1. ToLoad \subseteq Held(disk)
  BY DEF ToLoad, Held
<1>2. ToLoad' \subseteq Held(disk')
  BY DEF ToLoad, Held
<1>3. ASSUME [Next]_vars, disk' = disk PROVE ToLoad' \subseteq ToLoad
  BY <1>3, RowsStay DEF ToLoad
<1> QED
  BY <1>1, <1>2, <1>3

\* All lines of the queue, the file and what was written are lines accepted.
LEMMA AllAsked ==
  ASSUME TypeInv, AskedInv
  PROVE  /\ queue \in Queues /\ disk \in Queues /\ Held(queue) \subseteq AskedLines /\ ToLoad \subseteq AskedLines
         /\ \A i \in DOMAIN handed : handed[i].line \in Entry /\ handed[i].line.members \subseteq AskedLines
<1>1. queue \in Queues /\ disk \in Queues
  BY DEF TypeInv, QueueTypes
<1>2. Held(queue) \subseteq AskedLines /\ Held(disk) \subseteq AskedLines
  BY <1>1, HeldIs DEF AskedInv
<1>3. ASSUME NEW i \in DOMAIN handed PROVE handed[i].line \in Entry /\ handed[i].line.members \subseteq AskedLines
  <2>1. handed[i] \in Handed /\ Good(AskedLines, handed[i].line)
    BY DEF AskedInv
  <2> QED
    BY <2>1, Entries DEF Good, Handed
<1> QED
  BY <1>1, <1>2, <1>3, ToLoadIs

\* Followed in the ranks of the next state.
LEMMA FollowedNow ==
  ASSUME TypeInv, AskedInv, OrderInv, [Next]_vars
  PROVE  /\ Sorted(Rank', queue) /\ Sorted(Rank', disk)
         /\ Followed(Rank', handed, Held(queue)) /\ Followed(Rank', handed, ToLoad)
<1>1. \A l \in AskedLines : Rank'[l] = Rank[l]
  BY RanksStay
<1>2. \A i \in DOMAIN handed : handed[i].line.members \subseteq AskedLines
  BY AllAsked
<1>3. /\ queue \in Queues /\ disk \in Queues /\ Held(queue) \subseteq AskedLines /\ ToLoad \subseteq AskedLines
      /\ GoodQueue(AskedLines, queue) /\ GoodQueue(AskedLines, disk)
  BY AllAsked DEF AskedInv
<1> QED
  BY <1>1, <1>2, <1>3, RankedAlike DEF OrderInv

\* Nothing was handed over.
LEMMA InOrderStays ==
  ASSUME TypeInv, AskedInv, HandedInOrder, [Next]_vars, handed' = handed
  PROVE  HandedInOrder'
<1>1. AskedInv'
  BY AskedStep
<1>2. TypeInv'
  BY TypeStep
<1>3. \A l \in AskedLines : Rank'[l] = Rank[l] /\ Rank[l] = Asked(l) /\ l \in AskedLines'
  BY RanksStay, RanksAreNumbers
<1>4. \A l \in AskedLines' : Rank'[l] = Asked(l)'
  BY DEF Rank
<1>5. \A i \in DOMAIN handed : \A l \in handed[i].line.members : Asked(l)' = Asked(l)
  BY <1>3, <1>4, AllAsked
<1> QED
  BY <1>5 DEF HandedInOrder

LEMMA ParkKeepsOrder ==
  ASSUME TypeInv, AskedInv, OrderInv, [Next]_vars, NEW l \in Lines, NEW r \in Route, Park(l, r)
  PROVE  OrderInv'
<1> DEFINE q == [queue EXCEPT !.parked = Append(@, Parked(l, r))]
<1>1. /\ pc[l] = "new" /\ UNCHANGED <<writing, handed>>
      /\ q.inFlight = queue.inFlight /\ q.parked = Append(queue.parked, Parked(l, r))
      /\ \/ UNCHANGED <<asked, queue, disk>>
         \/ /\ pc'[l] = "queued" /\ asked' = Append(asked, <<l, life>>)
            /\ queue' = q /\ disk' \in {disk, q}
  BY ParkMoves
<1>2. /\ Sorted(Rank', queue) /\ Sorted(Rank', disk)
      /\ Followed(Rank', handed, Held(queue)) /\ Followed(Rank', handed, ToLoad)
  BY FollowedNow
<1>3. HandedInOrder'
  BY <1>1, InOrderStays DEF OrderInv
<1>4. CASE UNCHANGED <<asked, queue, disk>>
  <2>1. ToLoad' \subseteq ToLoad /\ Rank' = Rank'
    BY <1>4, ToLoadIs
  <2>2. Followed(Rank', handed, ToLoad')
    BY <1>2, <2>1, FollowedLess
  <2> QED
    BY <1>1, <1>2, <1>3, <1>4, <2>2 DEF OrderInv
<1>5. CASE asked' = Append(asked, <<l, life>>) /\ queue' = q /\ disk' \in {disk, q}
  <2>1. \A k \in AskedLines : Rank'[k] < Rank'[l] /\ l \notin AskedLines
    BY <1>1, <1>5, RanksStay
  <2>2. Parked(l, r) \in Entry /\ Parked(l, r).members = {l}
    BY Entries DEF Parked
  <2>3. /\ queue \in Queues /\ disk \in Queues /\ Held(queue) \subseteq AskedLines /\ ToLoad \subseteq AskedLines
        /\ \A i \in DOMAIN handed : handed[i].line.members \subseteq AskedLines
    BY AllAsked
  <2>4. q \in Queues
    <3>1. TypeInv'
      BY TypeStep
    <3> QED
      BY <1>5, <3>1 DEF TypeInv, QueueTypes
  <2> HIDE DEF q
  <2>5. Sorted(Rank', q) /\ Held(q) \subseteq Held(queue) \union {l}
    <3>1. \A a \in Held(queue), b \in Parked(l, r).members : Rank'[a] < Rank'[b]
      BY <2>1, <2>2, <2>3
    <3> QED
      BY <1>1, <1>2, <2>2, <2>3, <2>4, <3>1, SortedAppend
  <2>6. Followed(Rank', handed, Held(queue) \union {l})
    <3>1. ASSUME NEW i \in DOMAIN handed, NEW a \in handed[i].line.members, Rank'[l] < Rank'[a]
          PROVE  FALSE
      <4>1. a \in AskedLines /\ Rank'[a] \in Nat /\ Rank'[l] \in Nat
        <5>1. TypeInv' /\ AskedInv'
          BY TypeStep, AskedStep
        <5>2. a \in AskedLines /\ a \in AskedLines' /\ l \in AskedLines' /\ Rank[a] \in Nat
          BY <1>5, <2>3, RanksStay, RanksAreNumbers
        <5>3. Rank'[a] \in Nat
          BY <5>2, RanksStay
        <5>4. PICK k \in DOMAIN (asked') : asked'[k][1] = l
          BY <1>5, OneMoreAsked
        <5>5. Rank'[l] = k
          BY <5>1, <5>4, RankIsNext DEF AskedInv
        <5>6. k \in Nat
          <6> DEFINE S == Lines \X (1 .. MaxLives)
          <6>1. asked' \in Seq(S)
            BY <5>1 DEF TypeInv, SubmitTypes
          <6> HIDE DEF S
          <6> QED
            BY <6>1
        <5> QED
          BY <5>2, <5>3, <5>5, <5>6
      <4>2. Rank'[a] < Rank'[l]
        BY <2>1, <4>1
      <4> QED
        BY <3>1, <4>1, <4>2
    <3> QED
      BY <1>2, <3>1 DEF Followed
  <2>7. Followed(Rank', handed, Held(q))
    BY <2>5, <2>6, FollowedLess
  <2>8. Sorted(Rank', disk') /\ Followed(Rank', handed, ToLoad')
    <3>1. CASE disk' = disk
      BY <1>2, <3>1, ToLoadIs, FollowedLess
    <3>2. CASE disk' = q
      BY <2>5, <2>7, <3>2, ToLoadIs, FollowedLess
    <3> QED
      BY <1>5, <3>1, <3>2
  <2> QED
    BY <1>1, <1>3, <1>5, <2>5, <2>7, <2>8 DEF OrderInv
<1> QED
  BY <1>1, <1>4, <1>5

\* A queue that holds no more than before, and a file that is the queue or as before.
LEMMA FewerKeepsOrder ==
  ASSUME TypeInv, AskedInv, OrderInv, [Next]_vars, handed' = handed,
         Sorted(Rank', queue'), Held(queue') \subseteq Held(queue) \/ Held(queue') \subseteq ToLoad,
         disk' \in {disk, queue', Empty}
  PROVE  OrderInv'
<1>1. /\ Sorted(Rank', disk)
      /\ Followed(Rank', handed, Held(queue)) /\ Followed(Rank', handed, ToLoad)
  BY FollowedNow
<1>2. Followed(Rank', handed, Held(queue'))
  BY <1>1, FollowedLess
<1>3. Sorted(Rank', disk') /\ Followed(Rank', handed, ToLoad')
  <2>1. CASE disk' = disk
    BY <1>1, <2>1, ToLoadIs, FollowedLess
  <2>2. CASE disk' = queue'
    BY <1>2, <2>2, ToLoadIs, FollowedLess
  <2>3. CASE disk' = Empty
    <3>1. ToLoad' \subseteq Held(queue)
      BY <2>3, ToLoadIs, SortedEmpty
    <3> QED
      BY <1>1, <2>3, <3>1, SortedEmpty, FollowedLess
  <2> QED
    BY <2>1, <2>2, <2>3
<1>4. HandedInOrder'
  BY InOrderStays DEF OrderInv
<1> QED
  BY <1>2, <1>3, <1>4 DEF OrderInv

LEMMA WritesKeepsOrder ==
  ASSUME TypeInv, AskedInv, OrderInv, [Next]_vars, TapWrites
  PROVE  OrderInv'
<1> DEFINE e == [line |-> writing, life |-> life]
<1>1. /\ UNCHANGED <<asked, queue, disk>> /\ writing \in Entry /\ writing = queue.inFlight /\ writing # NoLine
      /\ handed' = Append(handed, e) /\ e \in Handed /\ e.line = writing /\ handed \in Seq(Handed)
  BY WritesMoves DEF AskedInv
<1>2. disk.inFlight = writing
  BY <1>1 DEF AskedInv
<1> HIDE DEF e
<1>3. /\ DOMAIN (handed') = DOMAIN handed \union {Len(handed) + 1}
      /\ handed'[Len(handed) + 1] = e
      /\ \A i \in DOMAIN handed : handed'[i] = handed[i] /\ i < Len(handed) + 1
  BY <1>1, Appended
<1>4. Rank' = Rank /\ \A l : Asked(l)' = Asked(l)
  BY <1>1 DEF Rank, AskedLines, Asked
<1>5. DOMAIN handed \subseteq Nat /\ Len(handed) \in Nat /\ \A i \in DOMAIN handed : 1 .. i \subseteq DOMAIN handed
  BY <1>1
<1>6. \A q : q.inFlight = writing /\ Sorted(Rank, q) =>
        \A a \in writing.members, b \in Held(q) : b \in writing.members \/ Rank[a] < Rank[b]
  BY DEF Held, Sorted, Before
<1>7. ASSUME NEW q, q.inFlight = writing, Sorted(Rank, q), NEW L, L \subseteq Held(q), L \subseteq AskedLines,
             Followed(Rank, handed, L)
      PROVE  Followed(Rank, handed', L)
  <2> SUFFICES ASSUME NEW i \in DOMAIN (handed'), NEW a \in handed'[i].line.members, NEW b \in L, Rank[b] < Rank[a]
               PROVE  \E j \in 1 .. i : b \in handed'[j].line.members
    BY DEF Followed
  <2>1. CASE i \in DOMAIN handed
    <3>1. PICK j \in 1 .. i : b \in handed[j].line.members
      BY <1>3, <1>7, <2>1 DEF Followed
    <3> QED
      BY <1>3, <1>5, <2>1, <3>1
  <2>2. CASE i = Len(handed) + 1
    <3>1. a \in writing.members /\ a \in AskedLines
      BY <1>1, <1>3, <2>2, AllAsked DEF Held
    <3>2. Rank[a] \in Nat /\ Rank[b] \in Nat
      BY <1>7, <3>1, RanksAreNumbers
    <3>3. b \in writing.members
      BY <1>6, <1>7, <3>1, <3>2
    <3> QED
      BY <1>1, <1>3, <1>5, <2>2, <3>3
  <2> QED
    BY <1>3, <2>1, <2>2
<1>8. Followed(Rank, handed', Held(queue)) /\ Followed(Rank, handed', ToLoad)
  BY <1>1, <1>2, <1>7, AllAsked, ToLoadIs DEF OrderInv
<1>9. Followed(Rank, handed', ToLoad')
  BY <1>1, <1>8, ToLoadIs, FollowedLess
<1>10. HandedInOrder'
  <2> SUFFICES ASSUME NEW i \in DOMAIN (handed'), NEW j \in DOMAIN (handed'),
                      NEW a \in handed'[i].line.members, NEW b \in handed'[j].line.members,
                      i < j, Asked(a) > Asked(b)
               PROVE  \E k \in 1 .. i : b \in handed'[k].line.members
    BY <1>4 DEF HandedInOrder
  <2>1. i \in DOMAIN handed /\ 1 .. i \subseteq DOMAIN handed
    BY <1>3, <1>5
  <2>2. CASE j \in DOMAIN handed
    <3>1. PICK k \in 1 .. i : b \in handed[k].line.members
      BY <1>3, <2>1, <2>2 DEF OrderInv, HandedInOrder
    <3> QED
      BY <1>3, <2>1, <3>1
  <2>3. CASE j = Len(handed) + 1
    <3>1. b \in Held(queue) /\ b \in AskedLines /\ a \in AskedLines
      BY <1>1, <1>3, <2>1, <2>3, AllAsked DEF Held
    <3>2. Rank[b] < Rank[a]
      BY <3>1, RanksAreNumbers
    <3>3. PICK k \in 1 .. i : b \in handed[k].line.members
      BY <1>3, <2>1, <3>1, <3>2 DEF OrderInv, Followed
    <3> QED
      BY <1>3, <2>1, <3>3
  <2> QED
    BY <1>3, <2>2, <2>3
<1> QED
  BY <1>1, <1>4, <1>8, <1>9, <1>10 DEF OrderInv

LEMMA RestartKeepsOrder ==
  ASSUME TypeInv, AskedInv, OrderInv, [Next]_vars, Restart
  PROVE  OrderInv'
<1>1. /\ UNCHANGED <<asked, handed, disk>>
      /\ queue' = [inFlight |-> NoLine, parked |-> Loaded] /\ disk \in Queues
      /\ disk.parked \in Seq(Entry)
  BY RestartMoves, AllAsked
<1>2. Sorted(Rank', disk)
  BY FollowedNow
<1>3. Sorted(Rank', queue') /\ Held(queue') \subseteq ToLoad
  <2>1. CASE Loaded = disk.parked
    <3>1. Sorted(Rank', [inFlight |-> NoLine, parked |-> disk.parked])
      BY <1>2 DEF Sorted, Before, NoLine
    <3>2. Held([inFlight |-> NoLine, parked |-> disk.parked]) \subseteq ToLoad
      BY DEF Held, ToLoad, NoLine
    <3> QED
      BY <1>1, <2>1, <3>1, <3>2
  <2>2. ASSUME NEW e \in Entry, Loaded = <<e>> \o disk.parked, e.members = disk.inFlight.members,
               disk.inFlight.note \/ ~\E r \in rows : r.id = disk.inFlight.id
        PROVE  Sorted(Rank', queue') /\ Held(queue') \subseteq ToLoad
    <3> DEFINE d == [inFlight |-> e, parked |-> disk.parked]
    <3>1. Sorted(Rank', d)
      BY <1>2, <2>2 DEF Sorted, Before
    <3>2. Held(d) \subseteq ToLoad
      BY <2>2 DEF Held, ToLoad
    <3> DEFINE n == [inFlight |-> NoLine, parked |-> <<e>> \o disk.parked]
    <3>3. Sorted(Rank', n) /\ Held(n) \subseteq Held(d)
      BY <1>1, <3>1, SortedPrepend
    <3> QED
      BY <1>1, <2>2, <3>2, <3>3
  <2> QED
    BY <2>1, <2>2, RestartMoves
<1> QED
  BY <1>1, <1>3, FewerKeepsOrder

LEMMA OrderStep == TypeInv /\ AskedInv /\ OrderInv /\ [Next]_vars => OrderInv'
<1> SUFFICES ASSUME TypeInv, AskedInv, OrderInv, [Next]_vars PROVE OrderInv'
  OBVIOUS
<1>1. Sorted(Rank', queue)
  BY FollowedNow
<1>2. CASE UNCHANGED lineVars
  BY <1>1, <1>2, FewerKeepsOrder DEF lineVars
<1>3. CASE \E l \in Lines, r \in Route : Park(l, r)
  BY <1>3, ParkKeepsOrder
<1>4. CASE Retire \/ DaemonDies
  <2>1. /\ UNCHANGED <<asked, handed>> /\ queue' \in {queue, Empty} /\ disk' \in {disk, Empty}
    BY <1>4, RetireMoves DEF DaemonDies
  <2>2. Sorted(Rank', queue') /\ Held(queue') \subseteq Held(queue)
    BY <1>1, <2>1, SortedEmpty
  <2> QED
    BY <2>1, <2>2, FewerKeepsOrder
<1>5. CASE Advance
  <2>1. PICK b \in Batches(queue.parked) : queue' = [inFlight |-> b.line, parked |-> b.rest] /\ disk' = queue'
    BY <1>5, AdvanceMoves
  <2>2. handed' = handed /\ queue \in Queues /\ queue.parked # << >>
    BY <1>5, AdvanceMoves, AllAsked
  <2>3. Sorted(Rank', queue') /\ Held(queue') \subseteq Held(queue)
    BY <1>1, <2>1, <2>2, SortedBatch
  <2> QED
    BY <2>1, <2>2, <2>3, FewerKeepsOrder
<1>6. CASE PutBack
  <2>1. /\ handed' = handed /\ writing \in Entry /\ writing = queue.inFlight /\ queue.parked \in Seq(Entry)
        /\ queue' = [inFlight |-> NoLine, parked |-> <<writing>> \o queue.parked] /\ disk' \in {queue', disk}
    BY <1>6, PutBackMoves
  <2>2. Sorted(Rank', [inFlight |-> writing, parked |-> queue.parked])
    BY <1>1, <2>1 DEF Sorted
  <2>3. Held([inFlight |-> writing, parked |-> queue.parked]) = Held(queue)
    BY <2>1 DEF Held
  <2>4. Sorted(Rank', queue') /\ Held(queue') \subseteq Held(queue)
    BY <2>1, <2>2, <2>3, SortedPrepend
  <2> QED
    BY <2>1, <2>4, FewerKeepsOrder
<1> QED
  BY <1>2, <1>3, <1>4, <1>5, <1>6, OthersStay, WritesKeepsOrder, RestartKeepsOrder DEF Moves

LEMMA OrderInit == Init => OrderInv
<1> SUFFICES ASSUME Init PROVE OrderInv
  OBVIOUS
<1>1. queue = Empty /\ disk = Empty /\ handed = << >>
  BY DEF Init
<1>2. Followed(Rank, << >>, {}) /\ DOMAIN << >> = {}
  BY DEF Followed
<1>3. ToLoad = {}
  BY <1>1, ToLoadIs, SortedEmpty
<1> QED
  BY <1>1, <1>2, <1>3, SortedEmpty DEF OrderInv, HandedInOrder

\* What the file and the queue keep was accepted, is well formed and sorted; the
\* inductive invariant of the order.
THEOREM KeepsTheOrder == Spec => [](TypeInv /\ AskedInv /\ OrderInv)
<1>1. Init => TypeInv /\ AskedInv /\ OrderInv
  BY TypeInit, AskedInit, OrderInit
<1>2. TypeInv /\ AskedInv /\ OrderInv /\ [Next]_vars => (TypeInv /\ AskedInv /\ OrderInv)'
  BY TypeStep, AskedStep, OrderStep
<1> QED
  BY <1>1, <1>2, PTL DEF Spec

\* Parked lines reach the child in the order they were accepted, across refused
\* mirrors, lines put back and restarts; a repetition may come later.
THEOREM HandsOverInOrder == Spec => []HandedInOrder
<1>1. OrderInv => HandedInOrder
  BY DEF OrderInv
<1> QED
  BY <1>1, KeepsTheOrder, PTL

-----------------------------------------------------------------------------
(* Repetitions.  What waits and shares a line with what went out is that   *)
(* entry again, of an earlier life; a batch that is repeated is frozen and *)
(* marked.                                                                 *)

Same(e, f) == e.id = f.id /\ e.members = f.members /\ e.note = f.note
Apart(e, f) == e.members \intersect f.members = {}

\* e may be written in life n, after what was handed over in h.
Marked(e, h, n) ==
  \A i \in DOMAIN h :
    \/ Apart(e, h[i].line)
    \/ Same(e, h[i].line) /\ h[i].life < n /\ (e.note => e.frozen /\ e.replayed)
MarkedQueue(q, h, n) == \A i \in DOMAIN q.parked : Marked(q.parked[i], h, n)

\* The file knows the batch in flight as it was written.
InFlightIs(e, h) ==
  /\ e.note => e.frozen
  /\ \A i \in DOMAIN h : Apart(e, h[i].line) \/ Same(e, h[i].line)

MarkInv ==
  /\ \A i \in DOMAIN handed : handed[i].life <= life
  /\ MarkedQueue(queue, handed, life) /\ MarkedQueue(disk, handed, life) /\ Marked(writing, handed, life)
  /\ InFlightIs(disk.inFlight, handed) /\ queue.inFlight \in {NoLine, disk.inFlight}
  /\ RepeatsAreMarked

-----------------------------------------------------------------------------

LEMMA NothingIsMarked ==
  /\ \A h, n : Marked(NoLine, h, n) /\ InFlightIs(NoLine, h) /\ MarkedQueue(Empty, h, n)
  /\ Empty.inFlight = NoLine
<1>1. NoLine.members = {} /\ NoLine.note = FALSE /\ Empty.parked = << >> /\ Empty.inFlight = NoLine
  BY DEF NoLine, Empty
<1> QED
  BY <1>1 DEF Marked, InFlightIs, MarkedQueue, Apart

\* A life begins only with a restart.
LEMMA LifeStays == [Next]_vars => life' = life \/ Restart
<1> SUFFICES ASSUME [Next]_vars, ~Restart PROVE life' = life
  OBVIOUS
<1>1. CASE Submits
  BY <1>1 DEF Submits, Park, Claim, Send, SendFails
<1>2. CASE Tap
  BY <1>2 DEF Tap, Retire, Advance, AdvanceRefused, TapWrites, PutBack, Boundary
<1>3. CASE Translator
  BY <1>3 DEF Translator, TurnText, TurnResult, StreamCloses
<1>4. CASE VendorSteps \/ WakesItself
  BY <1>4 DEF VendorSteps, ReadsLine, Rereads, WakesItself, VendorOpens, HearsLine, Ends
<1>5. CASE ChildDies \/ DaemonDies \/ UNCHANGED vars
  BY <1>5 DEF ChildDies, DaemonDies, vars
<1> QED
  BY <1>1, <1>2, <1>3, <1>4, <1>5 DEF Next

\* Nothing was handed over, and what waits was marked before.
LEMMA MarksStay ==
  ASSUME MarkInv, handed' = handed, life' = life,
         MarkedQueue(queue', handed, life), MarkedQueue(disk', handed, life), Marked(writing', handed, life),
         InFlightIs((disk').inFlight, handed), (queue').inFlight \in {NoLine, (disk').inFlight}
  PROVE  MarkInv'
<1>1. RepeatsAreMarked'
  BY DEF MarkInv, RepeatsAreMarked
<1> QED
  BY <1>1 DEF MarkInv

LEMMA ParkKeepsMarks ==
  ASSUME TypeInv, AskedInv, MarkInv, [Next]_vars, NEW l \in Lines, NEW r \in Route, Park(l, r)
  PROVE  MarkInv'
<1> DEFINE q == [queue EXCEPT !.parked = Append(@, Parked(l, r))]
<1>1. /\ pc[l] = "new" /\ UNCHANGED <<writing, handed>>
      /\ q.inFlight = queue.inFlight /\ q.parked = Append(queue.parked, Parked(l, r))
      /\ \/ UNCHANGED <<asked, queue, disk>>
         \/ /\ pc'[l] = "queued" /\ asked' = Append(asked, <<l, life>>)
            /\ queue' = q /\ disk' \in {disk, q}
  BY ParkMoves
<1>2. life' = life
  BY DEF Park
<1> HIDE DEF q
<1>3. Parked(l, r) \in Entry /\ Parked(l, r).members = {l}
  BY Entries DEF Parked
<1>4. Marked(Parked(l, r), handed, life)
  <2>1. l \notin AskedLines
    BY <1>1, RanksStay
  <2> QED
    BY <1>3, <2>1, AllAsked DEF Marked, Apart
<1>5. MarkedQueue(q, handed, life)
  <2>1. queue.parked \in Seq(Entry)
    BY DEF TypeInv, QueueTypes, Queues
  <2>2. /\ DOMAIN q.parked = DOMAIN queue.parked \union {Len(queue.parked) + 1}
        /\ q.parked[Len(queue.parked) + 1] = Parked(l, r)
        /\ \A i \in DOMAIN queue.parked : q.parked[i] = queue.parked[i]
    BY <1>1, <1>3, <2>1, Appended
  <2> QED
    BY <1>4, <2>2 DEF MarkInv, MarkedQueue
<1>6. queue' \in {queue, q} /\ disk' \in {disk, q}
  BY <1>1
<1>7. InFlightIs((disk').inFlight, handed) /\ (queue').inFlight \in {NoLine, (disk').inFlight}
  BY <1>1, NothingIsMarked DEF MarkInv
<1> QED
  BY <1>1, <1>2, <1>5, <1>6, <1>7, MarksStay DEF MarkInv

LEMMA AdvanceKeepsMarks ==
  ASSUME TypeInv, MarkInv, Advance
  PROVE  MarkInv'
<1> DEFINE p == queue.parked
<1>1. /\ UNCHANGED <<asked, handed>> /\ p \in Seq(Entry) /\ p # << >> /\ life' = life
  BY AdvanceMoves DEF Advance, Boundary
<1>2. PICK b \in Batches(p) :
         writing' = b.line /\ queue' = [inFlight |-> b.line, parked |-> b.rest] /\ disk' = queue'
  BY AdvanceMoves
<1>3. \A i \in DOMAIN p : Marked(p[i], handed, life)
  BY DEF MarkInv, MarkedQueue
<1> HIDE DEF p
<1>4. /\ b.line.note => b.line.frozen
      /\ b.rest \in Seq(Entry) /\ 1 \in DOMAIN p
  BY <1>1, BatchIs
<1>5. PICK n \in DOMAIN p :
              /\ \A i \in DOMAIN b.rest : i + n \in DOMAIN p /\ b.rest[i] = p[i + n]
              /\ b.line.members = UNION {p[i].members : i \in 1 .. n}
              /\ \/ n = 1 /\ b.line = p[1]
                 \/ \A i \in 1 .. n : p[i].note /\ ~p[i].frozen
  BY <1>1, BatchIs
<1>6. 1 .. n \subseteq DOMAIN p
  BY <1>1
<1>7. Marked(b.line, handed, life)
  <2>1. CASE n = 1 /\ b.line = p[1]
    BY <1>3, <1>4, <2>1
  <2>2. CASE \A i \in 1 .. n : p[i].note /\ ~p[i].frozen
    <3>1. \A i \in 1 .. n : \A j \in DOMAIN handed : Apart(p[i], handed[j].line)
      BY <1>3, <1>6, <2>2 DEF Marked
    <3>2. \A j \in DOMAIN handed : Apart(b.line, handed[j].line)
      BY <1>5, <3>1 DEF Apart
    <3> QED
      BY <3>2 DEF Marked
  <2> QED
    BY <1>5, <2>1, <2>2
<1>8. InFlightIs(b.line, handed)
  BY <1>4, <1>7 DEF Marked, InFlightIs
<1>9. MarkedQueue(queue', handed, life)
  BY <1>2, <1>3, <1>5 DEF MarkedQueue
<1> QED
  BY <1>1, <1>2, <1>7, <1>8, <1>9, MarksStay

LEMMA PutBackKeepsMarks ==
  ASSUME TypeInv, MarkInv, PutBack
  PROVE  MarkInv'
<1> DEFINE p == queue.parked
           s == <<writing>> \o p
<1>1. /\ handed' = handed /\ writing' = NoLine /\ writing \in Entry /\ p \in Seq(Entry) /\ life' = life
      /\ queue' = [inFlight |-> NoLine, parked |-> s] /\ disk' \in {queue', disk}
  BY PutBackMoves DEF PutBack
<1>2. \A i \in DOMAIN s : s[i] = writing \/ \E j \in DOMAIN p : s[i] = p[j]
  BY <1>1, Prepended
<1> HIDE DEF s
<1>3. MarkedQueue(queue', handed, life) /\ MarkedQueue(disk', handed, life)
  BY <1>1, <1>2 DEF MarkInv, MarkedQueue
<1>4. InFlightIs((disk').inFlight, handed)
  BY <1>1, NothingIsMarked DEF MarkInv
<1> QED
  BY <1>1, <1>3, <1>4, NothingIsMarked, MarksStay

LEMMA WritesKeepsMarks ==
  ASSUME TypeInv, AskedInv, OrderInv, MarkInv, TapWrites
  PROVE  MarkInv'
<1> DEFINE e == [line |-> writing, life |-> life]
<1>1. /\ UNCHANGED <<asked, queue, disk>> /\ writing \in Entry /\ writing = queue.inFlight /\ writing # NoLine
      /\ handed' = Append(handed, e) /\ e \in Handed /\ e.line = writing /\ e.life = life
      /\ handed \in Seq(Handed) /\ writing' = NoLine /\ life \in Nat
  BY WritesMoves DEF AskedInv
<1>2. disk.inFlight = writing /\ life' = life
  BY <1>1 DEF AskedInv, TapWrites
<1> HIDE DEF e
<1>3. /\ DOMAIN (handed') = DOMAIN handed \union {Len(handed) + 1}
      /\ handed'[Len(handed) + 1] = e
      /\ \A i \in DOMAIN handed : handed'[i] = handed[i] /\ i < Len(handed) + 1
  BY <1>1, Appended
<1>4. DOMAIN handed \subseteq Nat /\ Len(handed) \in Nat
  BY <1>1
\* What is parked behind it was accepted later.
<1>5. ASSUME NEW q \in Queues, q.inFlight = writing, Sorted(Rank, q), GoodQueue(AskedLines, q),
             NEW i \in DOMAIN q.parked
      PROVE  Apart(q.parked[i], writing)
  <2>1. \A a \in writing.members : Rank[a] \in Nat
    BY <1>5, HeldIs, RanksAreNumbers
  <2> QED
    BY <1>5, <2>1 DEF Sorted, Before, Apart
<1>6. ASSUME NEW q \in Queues, q.inFlight = writing, Sorted(Rank, q), GoodQueue(AskedLines, q),
             MarkedQueue(q, handed, life)
      PROVE  MarkedQueue(q, handed', life)
  BY <1>1, <1>3, <1>5, <1>6 DEF MarkedQueue, Marked
<1>7. MarkedQueue(queue, handed', life) /\ MarkedQueue(disk, handed', life)
  BY <1>1, <1>2, <1>6, AllAsked DEF OrderInv, AskedInv, MarkInv
<1>8. InFlightIs(disk.inFlight, handed')
  BY <1>1, <1>2, <1>3 DEF MarkInv, InFlightIs, Same
<1>9. RepeatsAreMarked'
  <2> SUFFICES ASSUME NEW i \in DOMAIN (handed'), NEW j \in DOMAIN (handed'), i < j,
                      ~Apart(handed'[i].line, handed'[j].line)
               PROVE  /\ handed'[i].life < handed'[j].life
                      /\ handed'[i].line.id = handed'[j].line.id
                      /\ handed'[i].line.members = handed'[j].line.members
                      /\ handed'[i].line.note => handed'[j].line.replayed
    BY DEF RepeatsAreMarked, Apart
  <2>1. i \in DOMAIN handed /\ handed'[i] = handed[i]
    BY <1>3, <1>4
  <2>2. CASE j \in DOMAIN handed
    BY <1>3, <2>1, <2>2 DEF MarkInv, RepeatsAreMarked, Apart
  <2>3. CASE j = Len(handed) + 1
    <3>1. handed'[j].line = writing /\ handed'[j].life = life
      BY <1>1, <1>3, <2>3
    <3>2. ~Apart(writing, handed[i].line)
      BY <2>1, <3>1 DEF Apart
    <3>3. Same(writing, handed[i].line) /\ handed[i].life < life /\ (writing.note => writing.replayed)
      BY <2>1, <3>2 DEF MarkInv, Marked
    <3> QED
      BY <2>1, <3>1, <3>3 DEF Same
  <2> QED
    BY <1>3, <2>2, <2>3
<1>10. \A i \in DOMAIN (handed') : handed'[i].life <= life
  BY <1>1, <1>3 DEF MarkInv
<1> QED
  BY <1>1, <1>2, <1>7, <1>8, <1>9, <1>10, NothingIsMarked DEF MarkInv

LEMMA RestartKeepsMarks ==
  ASSUME TypeInv, AskedInv, MarkInv, Restart
  PROVE  MarkInv'
<1>1. /\ UNCHANGED <<handed, disk>> /\ writing' = NoLine /\ disk.parked \in Seq(Entry)
      /\ queue' = [inFlight |-> NoLine, parked |-> Loaded]
  BY RestartMoves
<1>2. life \in Nat /\ life' = life + 1 /\ \A i \in DOMAIN handed : handed[i].life \in Nat
  <2>1. \A i \in DOMAIN handed : handed[i] \in Handed
    BY DEF AskedInv
  <2> QED
    BY <2>1, BoundsAssumption DEF Restart, TypeInv, LifeTypes, Handed
<1>3. \A i \in DOMAIN handed : handed[i].life <= life /\ handed[i].life < life' /\ handed[i].life <= life'
  BY <1>2 DEF MarkInv
<1>4. ASSUME NEW e, Marked(e, handed, life) PROVE Marked(e, handed, life')
  BY <1>3, <1>4 DEF Marked
<1>5. MarkedQueue(disk, handed, life')
  BY <1>4 DEF MarkInv, MarkedQueue
<1>6. MarkedQueue(queue', handed, life')
  <2>1. CASE Loaded = disk.parked
    BY <1>1, <1>5, <2>1 DEF MarkedQueue
  <2>2. ASSUME NEW e \in Entry, Loaded = <<e>> \o disk.parked,
               e.id = disk.inFlight.id, e.members = disk.inFlight.members,
               e.note = disk.inFlight.note, e.frozen = disk.inFlight.frozen, e.note => e.replayed
        PROVE  MarkedQueue(queue', handed, life')
    <3>1. Marked(e, handed, life')
      BY <1>3, <2>2 DEF MarkInv, InFlightIs, Marked, Same, Apart
    <3>2. \A i \in DOMAIN Loaded : Loaded[i] = e \/ \E j \in DOMAIN disk.parked : Loaded[i] = disk.parked[j]
      BY <1>1, <2>2, Prepended
    <3> QED
      BY <1>1, <1>5, <3>1, <3>2 DEF MarkedQueue
  <2> QED
    BY <2>1, <2>2, RestartMoves
<1>7. RepeatsAreMarked'
  BY <1>1 DEF MarkInv, RepeatsAreMarked
<1>8. InFlightIs(disk'.inFlight, handed') /\ queue'.inFlight = NoLine /\ Marked(writing', handed', life')
  BY <1>1, NothingIsMarked DEF MarkInv
<1> QED
  BY <1>1, <1>3, <1>5, <1>6, <1>7, <1>8 DEF MarkInv

LEMMA MarkStep == TypeInv /\ AskedInv /\ OrderInv /\ MarkInv /\ [Next]_vars => MarkInv'
<1> SUFFICES ASSUME TypeInv, AskedInv, OrderInv, MarkInv, [Next]_vars PROVE MarkInv'
  OBVIOUS
<1>1. CASE UNCHANGED lineVars /\ life' = life
  BY <1>1, MarksStay DEF MarkInv, lineVars
<1>2. CASE Restart
  BY <1>2, RestartKeepsMarks
<1>3. CASE \E l \in Lines, r \in Route : Park(l, r)
  BY <1>3, ParkKeepsMarks
<1>4. CASE Retire \/ DaemonDies
  <2>1. /\ UNCHANGED <<asked, handed>> /\ queue' \in {queue, Empty} /\ disk' \in {disk, Empty}
        /\ writing' = NoLine /\ life' = life /\ (queue' = Empty \/ disk' = disk)
    BY <1>4, RetireMoves DEF DaemonDies, Retire, Boundary, MirrorFails
  <2>2. /\ MarkedQueue(queue', handed, life) /\ MarkedQueue(disk', handed, life)
        /\ InFlightIs((disk').inFlight, handed)
    BY <2>1, NothingIsMarked DEF MarkInv
  <2>3. (queue').inFlight \in {NoLine, (disk').inFlight}
    BY <2>1, NothingIsMarked DEF MarkInv
  <2> QED
    BY <2>1, <2>2, <2>3, NothingIsMarked, MarksStay
<1> QED
  BY <1>1, <1>2, <1>3, <1>4, OthersStay, LifeStays, AdvanceKeepsMarks, PutBackKeepsMarks, WritesKeepsMarks DEF Moves

LEMMA MarkInit == Init => MarkInv
  BY NothingIsMarked DEF Init, MarkInv, RepeatsAreMarked

\* A line goes out once in the life of a process; what goes out again is the same
\* entry, and a notification then says that it is a repetition.
THEOREM MarksRepeats == Spec => []RepeatsAreMarked
<1>1. Init => TypeInv /\ AskedInv /\ OrderInv /\ MarkInv
  BY TypeInit, AskedInit, OrderInit, MarkInit
<1>2. TypeInv /\ AskedInv /\ OrderInv /\ MarkInv /\ [Next]_vars => (TypeInv /\ AskedInv /\ OrderInv /\ MarkInv)'
  BY TypeStep, AskedStep, OrderStep, MarkStep
<1>3. MarkInv => RepeatsAreMarked
  BY DEF MarkInv
<1> QED
  BY <1>1, <1>2, <1>3, PTL DEF Spec

-----------------------------------------------------------------------------
(* Rows.  What is in the pipe, what the vendor ran and what was reported   *)
(* went out before, in the life it is reported for; so a row of a task     *)
(* that waits can only be of an earlier life, and a restart has seen it.   *)

\* The lines that went out in life n: written at once, or by the tap.
Out(n) ==
  {l \in Lines : \/ pc[l] = "sent"
                 \/ pc[l] = "queued" /\ \E i \in DOMAIN handed : handed[i].life = n /\ l \in handed[i].line.members}

EventsOf(S) == [kind : {"text", "result"}, of : SUBSET S]

PipedInv ==
  /\ stdin \in Seq(SUBSET Out(life)) /\ heard \in Seq(SUBSET Out(life))
  /\ prompt \in SUBSET (Out(life) \intersect ran)
  /\ eventsIn \in Seq(EventsOf(Out(life) \intersect ran))

\* A task that waits was not run under its own id.
Unanswered(e, R) == ~e.note => ~\E r \in R : r.id = e.id /\ e.id \in r.of

RowInv ==
  /\ PipedInv
  /\ \A r \in rows : r.life <= life /\ r.of \subseteq Out(r.life) \intersect ran
  /\ \A i \in DOMAIN queue.parked : Unanswered(queue.parked[i], rows)
  /\ \A i \in DOMAIN disk.parked : Unanswered(disk.parked[i], rows)
  /\ Unanswered(writing, rows)
  /\ AnsweredIsNotRepeated

-----------------------------------------------------------------------------

LEMMA SeqGrows == ASSUME NEW S, NEW T, S \subseteq T PROVE Seq(S) \subseteq Seq(T)
<1> SUFFICES ASSUME NEW s \in Seq(S) PROVE s \in Seq(T)
  OBVIOUS
<1>1. Len(s) \in Nat /\ \A i \in 1 .. Len(s) : s[i] \in T
  OBVIOUS
<1>2. s = [i \in 1 .. Len(s) |-> s[i]]
  OBVIOUS
<1> QED
  BY <1>1, <1>2

\* What is read is taken from the front.
LEMMA ReadFirst ==
  ASSUME NEW S, NEW s \in Seq(S), s # << >>
  PROVE  Head(s) \in S /\ s[1] \in S /\ Tail(s) \in Seq(S) /\ \A i \in DOMAIN s : s[i] \in S
  BY EmptySeq

LEMMA EmittedOf ==
  ASSUME NEW S, eventsIn \in Seq(EventsOf(S)), NEW kinds \in {{}, {"text"}, {"result"}}, NEW p \in SUBSET S,
         Emits(kinds, p)
  PROVE  eventsIn' \in Seq(EventsOf(S))
<1>1. CASE kinds = {}
  BY <1>1 DEF Emits
<1>2. CASE kinds # {}
  <2> DEFINE e == [kind |-> CHOOSE k \in kinds : TRUE, of |-> p]
  <2>1. e \in EventsOf(S)
    <3>1. (CHOOSE k \in kinds : TRUE) \in {"text", "result"}
      BY <1>2
    <3> QED
      BY <3>1 DEF EventsOf
  <2>2. eventsIn' = Append(eventsIn, e)
    BY <1>2 DEF Emits
  <2> QED
    BY <2>1, <2>2, AppendProperties
<1> QED
  BY <1>1, <1>2

\* What went out stays so.
LEMMA OutStays ==
  ASSUME TypeInv, AskedInv, [Next]_vars
  PROVE  \A n : Out(n) \subseteq Out(n)'
<1>1. /\ DOMAIN handed \subseteq DOMAIN (handed')
      /\ \A i \in DOMAIN handed : handed'[i] = handed[i]
  <2>1. CASE handed' = handed
    BY <2>1
  <2>2. CASE TapWrites
    BY <2>2, WritesMoves, Appended DEF AskedInv
  <2>3. CASE \E l \in Lines, r \in Route : Park(l, r)
    BY <2>1, <2>3, ParkMoves
  <2> QED
    BY <2>1, <2>2, <2>3, OthersStay, RetireMoves, AdvanceMoves, PutBackMoves, RestartMoves DEF Moves, lineVars, DaemonDies
<1> QED
  BY <1>1, PcStays DEF Out

\* A line is out only once it was submitted.
LEMMA OutIsPast ==
  ASSUME NEW n
  PROVE  Out(n) \subseteq {l \in Lines : pc[l] \in {"sent", "queued"}}
  BY DEF Out

LEMMA RanStays == TypeInv /\ [Next]_vars => ran \subseteq ran'
<1> SUFFICES ASSUME TypeInv, [Next]_vars PROVE ran \subseteq ran'
  OBVIOUS
<1>1. CASE Submits
  BY <1>1 DEF Submits, Park, Claim, Send, SendFails, pastVars
<1>2. CASE Tap
  BY <1>2 DEF Tap, Retire, Advance, AdvanceRefused, TapWrites, PutBack, Boundary
<1>3. CASE Translator
  BY <1>3 DEF Translator, TurnText, TurnResult, StreamCloses, pastVars
<1>4. CASE VendorSteps \/ WakesItself
  BY <1>4 DEF VendorSteps, ReadsLine, Rereads, WakesItself, VendorOpens, HearsLine, Ends, pastVars
<1>5. CASE ChildDies \/ DaemonDies \/ Restart \/ UNCHANGED vars
  BY <1>5 DEF ChildDies, DaemonDies, Restart, vars, pastVars
<1> QED
  BY <1>1, <1>2, <1>3, <1>4, <1>5 DEF Next

\* A turn opens on lines that went out.
LEMMA OpensOut ==
  ASSUME TypeInv, PipedInv, NEW p \in SUBSET Out(life), VendorOpens(p)
  PROVE  /\ prompt' \in SUBSET (Out(life) \intersect ran')
         /\ eventsIn' \in Seq(EventsOf(Out(life) \intersect ran'))
<1> DEFINE S == Out(life) \intersect ran'
<1>1. p \in SUBSET S /\ prompt' = p /\ ran \subseteq ran'
  BY DEF VendorOpens
<1>2. EventsOf(Out(life) \intersect ran) \subseteq EventsOf(S)
  BY <1>1 DEF EventsOf
<1>3. eventsIn \in Seq(EventsOf(S))
  BY <1>2, SeqGrows DEF PipedInv
<1>4. Emits({"text"}, p) \/ Emits({}, p)
  BY DEF VendorOpens
<1> HIDE DEF S
<1>5. eventsIn' \in Seq(EventsOf(S))
  BY <1>1, <1>3, <1>4, EmittedOf
<1> QED
  BY <1>1, <1>5 DEF S

\* Over the lines that went out, as they are seen before the step.
LEMMA PipedWidens ==
  ASSUME TypeInv, AskedInv, [Next]_vars, life' = life,
         stdin' \in Seq(SUBSET Out(life)'), heard' \in Seq(SUBSET Out(life)),
         prompt' \in SUBSET (Out(life) \intersect ran'), eventsIn' \in Seq(EventsOf(Out(life) \intersect ran'))
  PROVE  PipedInv'
<1>1. Out(life) \subseteq Out(life)'
  BY OutStays
<1>2. heard' \in Seq(SUBSET Out(life)')
  BY <1>1, SeqGrows
<1>3. EventsOf(Out(life) \intersect ran') \subseteq EventsOf(Out(life)' \intersect ran')
  BY <1>1 DEF EventsOf
<1>4. eventsIn' \in Seq(EventsOf(Out(life)' \intersect ran'))
  BY <1>3, SeqGrows
<1> QED
  BY <1>1, <1>2, <1>4 DEF PipedInv

LEMMA PipedStep == TypeInv /\ AskedInv /\ PipedInv /\ [Next]_vars => PipedInv'
<1> SUFFICES ASSUME TypeInv, AskedInv, PipedInv, [Next]_vars PROVE PipedInv'
  OBVIOUS
<1> DEFINE W == Out(life)
<1>1. ran \subseteq ran' /\ \A n : Out(n) \subseteq Out(n)'
  BY RanStays, OutStays
<1>2. CASE life' = life /\ UNCHANGED <<vendorVars, eventsIn>>
  <2>1. EventsOf(W \intersect ran) \subseteq EventsOf(W \intersect ran')
    BY <1>1 DEF EventsOf
  <2>2. eventsIn \in Seq(EventsOf(W \intersect ran'))
    BY <2>1, SeqGrows DEF PipedInv
  <2>3. stdin \in Seq(SUBSET Out(life)')
    BY <1>1, <1>2, SeqGrows DEF PipedInv
  <2> QED
    BY <1>1, <1>2, <2>2, <2>3, PipedWidens DEF PipedInv, vendorVars
<1>3. CASE life' = life /\ eventsIn' = eventsIn /\ UNCHANGED <<heard, busy, prompt>> /\ \E l \in Lines : Send(l)
  <2>1. PICK l \in Lines : Send(l)
    BY <1>3
  <2>2. pc[l] = "claimed" /\ pc' = [pc EXCEPT ![l] = "sent"] /\ stdin' = Append(stdin, {l})
    BY <2>1 DEF Send
  <2>3. l \in Out(life)'
    BY <2>2 DEF Out, TypeInv, SubmitTypes
  <2>4. stdin \in Seq(SUBSET Out(life)')
    BY <1>1, <1>3, SeqGrows DEF PipedInv
  <2>5. stdin' \in Seq(SUBSET Out(life)')
    BY <2>2, <2>3, <2>4, AppendProperties
  <2>6. EventsOf(W \intersect ran) \subseteq EventsOf(W \intersect ran')
    BY <1>1 DEF EventsOf
  <2>7. eventsIn \in Seq(EventsOf(W \intersect ran'))
    BY <2>6, SeqGrows DEF PipedInv
  <2> QED
    BY <1>1, <1>3, <2>5, <2>7, PipedWidens DEF PipedInv
<1>4. CASE TapWrites
  <2>1. /\ writing \in Entry /\ handed' = Append(handed, [line |-> writing, life |-> life])
        /\ [line |-> writing, life |-> life] \in Handed /\ writing = queue.inFlight /\ writing # NoLine
    BY <1>4, WritesMoves
  <2>2. /\ life' = life /\ eventsIn' = eventsIn /\ UNCHANGED <<heard, busy, prompt, ran, pc>>
        /\ stdin' = Append(stdin, writing.members)
    BY <1>4 DEF TapWrites, submitVars, streamVars
  <2>3. \A m \in writing.members : m \in Lines /\ pc[m] = "queued"
    BY <2>1, Entries DEF AskedInv, GoodQueue, Good, AskedOnce, AskedLines
  <2>4. writing.members \in SUBSET Out(life)'
    <3> DEFINE e == [line |-> writing, life |-> life]
    <3>1. handed \in Seq(Handed) /\ e \in Handed /\ handed' = Append(handed, e) /\ e.line = writing /\ e.life = life
      BY <2>1 DEF AskedInv
    <3> HIDE DEF e
    <3>2. Len(handed) + 1 \in DOMAIN (handed') /\ handed'[Len(handed) + 1] = e
      BY <3>1, Appended
    <3> QED
      BY <2>2, <2>3, <3>1, <3>2 DEF Out
  <2>5. stdin \in Seq(SUBSET Out(life)')
    BY <1>1, <2>2, SeqGrows DEF PipedInv
  <2>6. stdin' \in Seq(SUBSET Out(life)')
    BY <2>2, <2>4, <2>5, AppendProperties
  <2> QED
    BY <2>2, <2>6, PipedWidens DEF PipedInv
<1>5. CASE TurnText \/ TurnResult
  <2>1. eventsIn # << >> /\ eventsIn' = Tail(eventsIn) /\ life' = life /\ UNCHANGED <<vendorVars, ran>>
    BY <1>5 DEF TurnText, TurnResult, pastVars
  <2>2. eventsIn' \in Seq(EventsOf(W \intersect ran'))
    BY <2>1, ReadFirst DEF PipedInv
  <2>3. stdin \in Seq(SUBSET Out(life)')
    BY <1>1, <2>1, SeqGrows DEF PipedInv
  <2> QED
    BY <2>1, <2>2, <2>3, PipedWidens DEF PipedInv, vendorVars
<1>6. CASE ReadsLine
  <2>1. stdin # << >> /\ VendorOpens(Head(stdin)) /\ stdin' = Tail(stdin) /\ heard' = heard /\ life' = life
    BY <1>6 DEF ReadsLine, VendorOpens
  <2>2. Head(stdin) \in SUBSET W /\ Tail(stdin) \in Seq(SUBSET W)
    BY <2>1, ReadFirst DEF PipedInv
  <2>3. prompt' \in SUBSET (W \intersect ran') /\ eventsIn' \in Seq(EventsOf(W \intersect ran'))
    BY <2>1, <2>2, OpensOut
  <2>4. stdin' \in Seq(SUBSET Out(life)')
    BY <1>1, <2>1, <2>2, SeqGrows
  <2> QED
    BY <2>1, <2>3, <2>4, PipedWidens DEF PipedInv
<1>7. CASE Rereads
  <2>1. heard # << >> /\ stdin' = stdin
    BY <1>7 DEF Rereads
  <2>2. Tail(heard) \in Seq(SUBSET W) /\ << >> \in Seq(SUBSET W) /\ \A i \in DOMAIN heard : heard[i] \in SUBSET W
    BY <2>1, ReadFirst, EmptySeq DEF PipedInv
  <2>3. heard[1] \in SUBSET W /\ UNION {heard[i] : i \in DOMAIN heard} \in SUBSET W
    BY <2>1, <2>2, ReadFirst DEF PipedInv
  <2>4. PICK p \in SUBSET W : VendorOpens(p) /\ heard' \in {Tail(heard), << >>}
    BY <1>7, <2>3 DEF Rereads
  <2>5. life' = life /\ prompt' \in SUBSET (W \intersect ran') /\ eventsIn' \in Seq(EventsOf(W \intersect ran'))
    BY <2>4, OpensOut DEF VendorOpens
  <2>6. stdin' \in Seq(SUBSET Out(life)')
    BY <1>1, <2>1, <2>5, SeqGrows DEF PipedInv
  <2> QED
    BY <2>2, <2>4, <2>5, <2>6, PipedWidens
<1>8. CASE WakesItself
  <2>1. VendorOpens({}) /\ UNCHANGED <<stdin, heard>> /\ life' = life
    BY <1>8 DEF WakesItself, VendorOpens
  <2>2. {} \in SUBSET W
    OBVIOUS
  <2>3. prompt' \in SUBSET (W \intersect ran') /\ eventsIn' \in Seq(EventsOf(W \intersect ran'))
    BY <2>1, <2>2, OpensOut
  <2>4. stdin' \in Seq(SUBSET Out(life)')
    BY <1>1, <2>1, SeqGrows DEF PipedInv
  <2> QED
    BY <2>1, <2>3, <2>4, PipedWidens DEF PipedInv
<1>9. CASE HearsLine
  <2>1. /\ stdin # << >> /\ heard' = Append(heard, Head(stdin)) /\ stdin' = Tail(stdin)
        /\ life' = life /\ UNCHANGED <<prompt, eventsIn, ran>>
    BY <1>9 DEF HearsLine, pastVars, streamVars
  <2>2. Head(stdin) \in SUBSET W /\ Tail(stdin) \in Seq(SUBSET W)
    BY <2>1, ReadFirst DEF PipedInv
  <2>3. heard' \in Seq(SUBSET W)
    BY <2>1, <2>2, AppendProperties DEF PipedInv
  <2>4. stdin' \in Seq(SUBSET Out(life)')
    BY <1>1, <2>1, <2>2, SeqGrows
  <2> QED
    BY <2>1, <2>3, <2>4, PipedWidens DEF PipedInv
<1>10. CASE Ends
  <2>1. /\ prompt' = {} /\ Emits({"result"}, prompt) /\ life' = life /\ UNCHANGED <<stdin, heard, ran>>
    BY <1>10 DEF Ends, pastVars
  <2>2. eventsIn' \in Seq(EventsOf(W \intersect ran))
    <3> DEFINE S == W \intersect ran
    <3>1. eventsIn \in Seq(EventsOf(S)) /\ prompt \in SUBSET S
      BY DEF PipedInv
    <3> HIDE DEF S
    <3>2. eventsIn' \in Seq(EventsOf(S))
      BY <2>1, <3>1, EmittedOf
    <3> QED
      BY <3>2 DEF S
  <2>3. stdin' \in Seq(SUBSET Out(life)')
    BY <1>1, <2>1, SeqGrows DEF PipedInv
  <2> QED
    BY <2>1, <2>2, <2>3, PipedWidens DEF PipedInv
<1>11. CASE ChildDies
  <2>1. ChildEnds /\ life' = life /\ UNCHANGED <<eventsIn, ran>>
    BY <1>11 DEF ChildDies, pastVars, streamVars
  <2> QED
    BY <2>1, EmptySeq, PipedWidens DEF PipedInv, ChildEnds
<1>12. CASE DaemonDies \/ Restart
  <2>1. ChildEnds /\ eventsIn' = << >>
    BY <1>12 DEF DaemonDies, Restart
  <2> QED
    BY <2>1, EmptySeq DEF PipedInv, ChildEnds
<1>13. CASE Submits
  <2>1. PICK l \in Lines : (\E r \in Routes[l] : Park(l, r) \/ Claim(l, r)) \/ Send(l) \/ SendFails(l)
    BY <1>13 DEF Submits
  <2>2. CASE Send(l)
    <3>1. life' = life /\ eventsIn' = eventsIn /\ UNCHANGED <<heard, busy, prompt>>
      BY <2>2 DEF Send, streamVars
    <3> QED
      BY <1>3, <2>2, <3>1
  <2>3. CASE ~Send(l)
    <3>1. life' = life /\ UNCHANGED <<vendorVars, eventsIn>>
      BY <2>1, <2>3 DEF Park, Claim, SendFails, streamVars
    <3> QED
      BY <1>2, <3>1
  <2> QED
    BY <2>2, <2>3
<1>14. CASE Retire \/ Advance \/ AdvanceRefused \/ PutBack \/ StreamCloses \/ UNCHANGED vars
  <2>1. life' = life /\ UNCHANGED <<vendorVars, eventsIn>>
    BY <1>14 DEF Retire, Advance, AdvanceRefused, PutBack, Boundary, StreamCloses, streamVars, vars
  <2> QED
    BY <1>2, <2>1
<1> QED
  BY <1>4, <1>5, <1>6, <1>7, <1>8, <1>9, <1>10, <1>11, <1>12, <1>13, <1>14 DEF Next, Tap, Translator, VendorSteps

\* What waits has not gone out in this life.
LEMMA NotOutYet ==
  ASSUME TypeInv, AskedInv, NEW e \in Entry \union {NoLine}, Good(AskedLines, e), Marked(e, handed, life)
  PROVE  e.id \notin Out(life)
<1>1. CASE e = NoLine
  BY <1>1, LinesAssumption DEF Out, NoLine, NoId
<1>2. CASE e # NoLine
  <2> SUFFICES ASSUME e.id \in Out(life) PROVE FALSE
    OBVIOUS
  <2>1. e.id \in e.members /\ e.id \in AskedLines
    BY <1>2 DEF Good
  <2>2. pc[e.id] = "queued"
    BY <2>1 DEF AskedInv, AskedOnce, AskedLines
  <2>3. PICK i \in DOMAIN handed : handed[i].life = life /\ e.id \in handed[i].line.members
    BY <2>2 DEF Out
  <2>4. handed[i].life < life /\ life \in Nat
    BY <2>1, <2>3 DEF Marked, Apart, TypeInv, LifeTypes
  <2> QED
    BY <2>3, <2>4
<1> QED
  BY <1>1, <1>2

\* The lines that wait are entries.
LEMMA AllWait ==
  ASSUME TypeInv, AskedInv
  PROVE  /\ \A i \in DOMAIN queue.parked : queue.parked[i] \in Entry /\ Good(AskedLines, queue.parked[i])
         /\ \A i \in DOMAIN disk.parked : disk.parked[i] \in Entry /\ Good(AskedLines, disk.parked[i])
         /\ writing \in Entry \union {NoLine} /\ Good(AskedLines, writing)
<1>1. queue.parked \in Seq(Entry) /\ disk.parked \in Seq(Entry) /\ writing \in Entry \union {NoLine}
      /\ (writing # NoLine => writing = queue.inFlight)
  BY DEF TypeInv, QueueTypes, Queues
<1> QED
  BY <1>1, NoLineIsGood DEF AskedInv, GoodQueue

\* A turn is reported while what waits, waits.
LEMMA ReportKeepsRows ==
  ASSUME TypeInv, AskedInv, MarkInv, RowInv, [Next]_vars, UNCHANGED lineVars, life' = life,
         NEW w, w.life = life, w.of \subseteq Out(life) \intersect ran, rows' = rows \union {w}
  PROVE  RowInv'
<1>1. PipedInv'
  BY PipedStep DEF RowInv
<1>2. life \in Nat /\ ran \subseteq ran' /\ \A n : Out(n) \subseteq Out(n)'
  BY RanStays, OutStays DEF TypeInv, LifeTypes
<1>3. \A r \in rows' : r.life <= life' /\ r.of \subseteq Out(r.life)' \intersect ran'
  <2>1. ASSUME NEW r \in rows PROVE r.life <= life' /\ r.of \subseteq Out(r.life)' \intersect ran'
    BY <1>2 DEF RowInv
  <2>2. w.life <= life' /\ w.of \subseteq Out(w.life)' \intersect ran'
    BY <1>2
  <2> QED
    BY <2>1, <2>2
<1>4. ASSUME NEW e \in Entry \union {NoLine}, Good(AskedLines, e), Marked(e, handed, life), Unanswered(e, rows)
      PROVE  Unanswered(e, rows')
  <2>1. e.id \notin w.of
    BY <1>4, NotOutYet
  <2> QED
    BY <1>4, <2>1 DEF Unanswered
<1>5. /\ \A i \in DOMAIN queue.parked : Unanswered(queue.parked[i], rows')
      /\ \A i \in DOMAIN disk.parked : Unanswered(disk.parked[i], rows')
      /\ Unanswered(writing, rows')
  BY <1>4, AllWait DEF MarkInv, MarkedQueue, RowInv
<1>6. AnsweredIsNotRepeated'
  <2> SUFFICES ASSUME NEW i \in DOMAIN handed, ~handed[i].line.note, w.life < handed[i].life PROVE FALSE
    BY DEF RowInv, AnsweredIsNotRepeated, lineVars
  <2>1. handed[i] \in Handed /\ handed[i].life <= life
    BY DEF AskedInv, MarkInv
  <2>2. handed[i].life \in Nat
    BY <2>1, BoundsAssumption DEF Handed
  <2> QED
    BY <1>2, <2>1, <2>2
<1> QED
  BY <1>1, <1>3, <1>5, <1>6 DEF RowInv, lineVars

\* No turn is reported, and what waits is not answered.
LEMMA RowsRest ==
  ASSUME TypeInv, AskedInv, RowInv, [Next]_vars, rows' = rows, life' >= life,
         \A i \in DOMAIN (queue').parked : Unanswered((queue').parked[i], rows),
         \A i \in DOMAIN (disk').parked : Unanswered((disk').parked[i], rows),
         Unanswered(writing', rows), handed' = handed
  PROVE  RowInv'
<1>1. PipedInv'
  BY PipedStep DEF RowInv
<1>2. ran \subseteq ran' /\ \A n : Out(n) \subseteq Out(n)'
  BY RanStays, OutStays
<1>3. \A r \in rows : r.life \in Nat
  BY BoundsAssumption DEF TypeInv, ReportTypes, Report
<1>4. life \in Nat /\ life' \in Nat
  BY TypeStep, BoundsAssumption DEF TypeInv, LifeTypes
<1>5. \A r \in rows : r.life <= life' /\ r.of \subseteq Out(r.life)' \intersect ran'
  BY <1>2, <1>3, <1>4 DEF RowInv
<1>6. AnsweredIsNotRepeated'
  BY DEF RowInv, AnsweredIsNotRepeated
<1> QED
  BY <1>1, <1>5, <1>6 DEF RowInv

LEMMA ParkKeepsRows ==
  ASSUME TypeInv, AskedInv, RowInv, [Next]_vars, NEW l \in Lines, NEW r \in Route, Park(l, r)
  PROVE  RowInv'
<1> DEFINE q == [queue EXCEPT !.parked = Append(@, Parked(l, r))]
<1>1. /\ pc[l] = "new" /\ UNCHANGED <<writing, handed>>
      /\ q.inFlight = queue.inFlight /\ q.parked = Append(queue.parked, Parked(l, r))
      /\ \/ UNCHANGED <<asked, queue, disk>>
         \/ /\ pc'[l] = "queued" /\ asked' = Append(asked, <<l, life>>)
            /\ queue' = q /\ disk' \in {disk, q}
  BY ParkMoves
<1>2. life' = life /\ rows' = rows /\ life \in Nat
  BY DEF Park, reportVars, TypeInv, LifeTypes
<1> HIDE DEF q
<1>3. Unanswered(Parked(l, r), rows)
  <2>1. \A w \in rows : l \notin w.of
    BY <1>1, OutIsPast DEF RowInv
  <2> QED
    BY <2>1 DEF Unanswered, Parked
<1>4. \A i \in DOMAIN q.parked : Unanswered(q.parked[i], rows)
  <2>1. queue.parked \in Seq(Entry) /\ Parked(l, r) \in Entry
    BY Entries DEF TypeInv, QueueTypes, Queues
  <2>2. /\ DOMAIN q.parked = DOMAIN queue.parked \union {Len(queue.parked) + 1}
        /\ q.parked[Len(queue.parked) + 1] = Parked(l, r)
        /\ \A i \in DOMAIN queue.parked : q.parked[i] = queue.parked[i]
    BY <1>1, <2>1, Appended
  <2> QED
    BY <1>3, <2>2 DEF RowInv
<1>5. queue' \in {queue, q} /\ disk' \in {disk, q}
  BY <1>1
<1>6. life' >= life
  BY <1>2
<1> QED
  BY <1>1, <1>2, <1>4, <1>5, <1>6, RowsRest DEF RowInv

LEMMA AdvanceKeepsRows ==
  ASSUME TypeInv, AskedInv, RowInv, [Next]_vars, Advance
  PROVE  RowInv'
<1> DEFINE p == queue.parked
<1>1. /\ handed' = handed /\ p \in Seq(Entry) /\ p # << >> /\ life' = life /\ rows' = rows /\ life \in Nat
  BY AdvanceMoves DEF Advance, Boundary, reportVars, TypeInv, LifeTypes
<1>2. PICK b \in Batches(p) :
         writing' = b.line /\ queue' = [inFlight |-> b.line, parked |-> b.rest] /\ disk' = queue'
  BY AdvanceMoves
<1>3. \A i \in DOMAIN p : Unanswered(p[i], rows)
  BY DEF RowInv
<1> HIDE DEF p
<1>4. 1 \in DOMAIN p /\ b.line.note = p[1].note /\ b.rest \in Seq(Entry)
  BY <1>1, BatchIs
<1>5. PICK n \in DOMAIN p :
              /\ \A i \in DOMAIN b.rest : i + n \in DOMAIN p /\ b.rest[i] = p[i + n]
              /\ \/ n = 1 /\ b.line = p[1]
                 \/ \A i \in 1 .. n : p[i].note /\ ~p[i].frozen
  BY <1>1, BatchIs
<1>6. 1 \in 1 .. n
  BY <1>1, <1>5
<1>7. Unanswered(b.line, rows)
  BY <1>3, <1>4, <1>5, <1>6 DEF Unanswered
<1>8. life' >= life
  BY <1>1
<1> QED
  BY <1>1, <1>2, <1>3, <1>5, <1>7, <1>8, RowsRest

LEMMA NoLineIsUnanswered == TypeInv => Unanswered(NoLine, rows)
  BY LinesAssumption DEF Unanswered, NoLine, NoId, TypeInv, ReportTypes, Report

LEMMA PutBackKeepsRows ==
  ASSUME TypeInv, AskedInv, RowInv, [Next]_vars, PutBack
  PROVE  RowInv'
<1> DEFINE p == queue.parked
           s == <<writing>> \o p
<1>10. life' = life /\ rows' = rows /\ life \in Nat
  BY DEF PutBack, reportVars, TypeInv, LifeTypes
<1>1. /\ handed' = handed /\ writing' = NoLine /\ writing \in Entry /\ p \in Seq(Entry) /\ life' = life
      /\ queue' = [inFlight |-> NoLine, parked |-> s] /\ disk' \in {queue', disk}
      /\ rows' = rows /\ life \in Nat
  BY <1>10, PutBackMoves
<1>2. \A i \in DOMAIN s : s[i] = writing \/ \E j \in DOMAIN p : s[i] = p[j]
  BY <1>1, Prepended
<1> HIDE DEF s
<1>3. \A i \in DOMAIN s : Unanswered(s[i], rows)
  BY <1>2 DEF RowInv
<1>4. /\ \A i \in DOMAIN (queue').parked : Unanswered((queue').parked[i], rows)
      /\ \A i \in DOMAIN (disk').parked : Unanswered((disk').parked[i], rows)
  BY <1>1, <1>3 DEF RowInv
<1>5. Unanswered(NoLine, rows) /\ life' >= life
  BY <1>1, NoLineIsUnanswered
<1> QED
  BY <1>1, <1>4, <1>5, RowsRest

LEMMA WritesKeepsRows ==
  ASSUME TypeInv, AskedInv, RowInv, [Next]_vars, TapWrites
  PROVE  RowInv'
<1> DEFINE e == [line |-> writing, life |-> life]
<1>1. /\ UNCHANGED <<queue, disk, rows, ran>> /\ life' = life /\ handed' = Append(handed, e)
      /\ e \in Handed /\ e.line = writing /\ handed \in Seq(Handed) /\ writing' = NoLine
  BY WritesMoves DEF AskedInv, TapWrites, reportVars
<1> HIDE DEF e
<1>2. /\ DOMAIN (handed') = DOMAIN handed \union {Len(handed) + 1}
      /\ handed'[Len(handed) + 1] = e
      /\ \A i \in DOMAIN handed : handed'[i] = handed[i]
  BY <1>1, Appended
<1>3. AnsweredIsNotRepeated'
  BY <1>1, <1>2 DEF RowInv, AnsweredIsNotRepeated, Unanswered
<1>4. PipedInv' /\ \A n : Out(n) \subseteq Out(n)'
  BY PipedStep, OutStays DEF RowInv
<1>5. \A r \in rows : r.life <= life' /\ r.of \subseteq Out(r.life)' \intersect ran'
  BY <1>1, <1>4 DEF RowInv
<1> QED
  BY <1>1, <1>3, <1>4, <1>5, NoLineIsUnanswered DEF RowInv

LEMMA RestartKeepsRows ==
  ASSUME TypeInv, AskedInv, RowInv, [Next]_vars, Restart
  PROVE  RowInv'
<1>1. /\ UNCHANGED <<handed, disk>> /\ writing' = NoLine /\ disk.parked \in Seq(Entry)
      /\ queue' = [inFlight |-> NoLine, parked |-> Loaded]
  BY RestartMoves
<1>2. rows' = rows /\ life' = life + 1 /\ life \in Nat
  BY DEF Restart, TypeInv, LifeTypes
<1>3. \A i \in DOMAIN Loaded : Unanswered(Loaded[i], rows)
  <2>1. CASE Loaded = disk.parked
    BY <2>1 DEF RowInv
  <2>2. ASSUME NEW e \in Entry, Loaded = <<e>> \o disk.parked,
               disk.inFlight.note \/ ~\E r \in rows : r.id = disk.inFlight.id,
               e.id = disk.inFlight.id, e.note = disk.inFlight.note
        PROVE  \A i \in DOMAIN Loaded : Unanswered(Loaded[i], rows)
    <3>1. Unanswered(e, rows)
      BY <2>2 DEF Unanswered
    <3>2. \A i \in DOMAIN Loaded : Loaded[i] = e \/ \E j \in DOMAIN disk.parked : Loaded[i] = disk.parked[j]
      BY <1>1, <2>2, Prepended
    <3> QED
      BY <3>1, <3>2 DEF RowInv
  <2> QED
    BY <2>1, <2>2, RestartMoves
<1>4. life' >= life /\ \A i \in DOMAIN (queue').parked : Unanswered((queue').parked[i], rows)
  BY <1>1, <1>2, <1>3
<1> QED
  BY <1>1, <1>2, <1>4, NoLineIsUnanswered, RowsRest DEF RowInv

LEMMA RowStep == TypeInv /\ AskedInv /\ MarkInv /\ RowInv /\ [Next]_vars => RowInv'
<1> SUFFICES ASSUME TypeInv, AskedInv, MarkInv, RowInv, [Next]_vars PROVE RowInv'
  OBVIOUS
<1>1. CASE TurnResult \/ StreamCloses
  <2>1. UNCHANGED lineVars /\ life' = life
    BY <1>1 DEF TurnResult, StreamCloses, lineVars, pastVars
  <2>2. CASE rows' = rows
    <3>1. life' >= life
      BY <2>1 DEF TypeInv, LifeTypes
    <3> QED
      BY <2>1, <2>2, <3>1, RowsRest DEF RowInv, lineVars
  <2>3. CASE /\ TurnResult
             /\ rows' = rows \union {[id |-> Opened, of |-> Head(eventsIn).of, life |-> life, failed |-> FALSE]}
    <3> DEFINE w == [id |-> Opened, of |-> Head(eventsIn).of, life |-> life, failed |-> FALSE]
    <3>1. eventsIn # << >>
      BY <2>3 DEF TurnResult
    <3>2. Head(eventsIn) \in EventsOf(Out(life) \intersect ran)
      BY <3>1, ReadFirst DEF RowInv, PipedInv
    <3>3. w.life = life /\ w.of \subseteq Out(life) \intersect ran /\ rows' = rows \union {w}
      BY <2>3, <3>2 DEF EventsOf
    <3> HIDE DEF w
    <3> QED
      BY <2>1, <3>3, ReportKeepsRows
  <2>4. CASE StreamCloses /\ rows' = rows \union {[id |-> Opened, of |-> {}, life |-> life, failed |-> TRUE]}
    <3> DEFINE w == [id |-> Opened, of |-> {}, life |-> life, failed |-> TRUE]
    <3>1. w.life = life /\ w.of \subseteq Out(life) \intersect ran /\ rows' = rows \union {w}
      BY <2>4
    <3> HIDE DEF w
    <3> QED
      BY <2>1, <3>1, ReportKeepsRows
  <2> QED
    BY <2>2, <2>3, <2>4, RowsAre
<1>2. CASE rows' = rows /\ UNCHANGED lineVars /\ life' = life
  <2>1. life' >= life
    BY <1>2 DEF TypeInv, LifeTypes
  <2> QED
    BY <1>2, <2>1, RowsRest DEF RowInv, lineVars
<1>3. CASE \E l \in Lines, r \in Route : Park(l, r)
  BY <1>3, ParkKeepsRows
<1>4. CASE Retire \/ DaemonDies
  <2>1. /\ handed' = handed /\ queue' \in {queue, Empty} /\ disk' \in {disk, Empty}
        /\ writing' = NoLine /\ life' = life /\ rows' = rows
    BY <1>4, RetireMoves DEF DaemonDies, Retire, Boundary, reportVars
  <2>2. \A i \in DOMAIN Empty.parked : FALSE
    BY DEF Empty
  <2>3. /\ \A i \in DOMAIN (queue').parked : Unanswered((queue').parked[i], rows)
        /\ \A i \in DOMAIN (disk').parked : Unanswered((disk').parked[i], rows)
        /\ life' >= life
    BY <2>1, <2>2 DEF RowInv, TypeInv, LifeTypes
  <2> QED
    BY <2>1, <2>3, NoLineIsUnanswered, RowsRest
<1> QED
  BY <1>1, <1>2, <1>3, <1>4, RowsAre, OthersStay, LifeStays, AdvanceKeepsRows, PutBackKeepsRows,
     WritesKeepsRows, RestartKeepsRows DEF Moves

LEMMA RowInit == Init => RowInv
<1> SUFFICES ASSUME Init PROVE RowInv
  OBVIOUS
<1>1. PipedInv
  BY EmptySeq DEF Init, PipedInv
<1> QED
  BY <1>1 DEF Init, RowInv, Unanswered, AnsweredIsNotRepeated, Empty

\* A task a turn was reported for is not handed over in a later life: what the
\* restart reads of the transcript is all there is to know of it.
THEOREM AsksOnce == Spec => []AnsweredIsNotRepeated
<1>1. Init => TypeInv /\ AskedInv /\ OrderInv /\ MarkInv /\ RowInv
  BY TypeInit, AskedInit, OrderInit, MarkInit, RowInit
<1>2. TypeInv /\ AskedInv /\ OrderInv /\ MarkInv /\ RowInv /\ [Next]_vars
        => (TypeInv /\ AskedInv /\ OrderInv /\ MarkInv /\ RowInv)'
  BY TypeStep, AskedStep, OrderStep, MarkStep, RowStep
<1>3. RowInv => AnsweredIsNotRepeated
  BY DEF RowInv
<1> QED
  BY <1>1, <1>2, <1>3, PTL DEF Spec

-----------------------------------------------------------------------------
(* Identities.  As long as no two turns meet there is one turn at a time:  *)
(* a line that claimed the session, what the tap writes, a line in the     *)
(* pipe, a turn of the vendor, a result the tap has not read.  What the    *)
(* translator has not read is the end of the turn that is open, and then   *)
(* what the turn with the reserved id has said.                            *)

\* What the translator has not read of the turn with the reserved id.
OfReserved(i) == current = NoId \/ i > 1

EventsFit ==
  /\ current # Vendor
  /\ current # NoId /\ eventsIn # << >> => eventsIn[1].kind = "result" /\ current \in eventsIn[1].of
  /\ \A i \in DOMAIN eventsIn :
       OfReserved(i) =>
         /\ pending # NoId /\ pending \in eventsIn[i].of
         /\ eventsIn[i].kind = "result" => i = Len(eventsIn)
         /\ eventsIn[i].kind = "text" => i = (IF current = NoId THEN 1 ELSE 2)

\* The turn with the reserved id has said nothing that was not read ...
Unheard == eventsIn # << >> => current # NoId /\ Len(eventsIn) = 1
\* ... and the one before it has ended.
Ahead   == Unheard /\ (current # NoId => eventsIn # << >>)

OneTurn ==
  /\ heard = << >> /\ Len(stdin) <= 1 /\ tapIn <= 1
  /\ stdin # << >> => ~busy /\ tapIn = 0 /\ writing = NoLine
  /\ busy => tapIn = 0 /\ writing = NoLine
  /\ tapIn > 0 => writing = NoLine
  /\ up # "live" => stdin = << >> /\ ~busy

\* A reservation that may be given up has not been used.
Reserves(l) == pc[l] = "claimed" /\ ~was[l]
GivesUp ==
  /\ writing # NoLine => Unheard
  /\ \A l \in Lines : Reserves(l) /\ pending = l => Unheard

Idle == stdin = << >> /\ ~busy /\ tapIn = 0 /\ writing = NoLine

\* The id under which the vendor's turn will be reported.
Owner == IF current # NoId /\ eventsIn = << >> THEN current ELSE pending

LiveFit ==
  up = "live" =>
    /\ ~active => Idle
    /\ current # NoId /\ eventsIn = << >> => busy
    /\ eventsIn # << >> /\ eventsIn[Len(eventsIn)].kind = "text" => busy
    /\ busy => Owner \in prompt /\ \A i \in DOMAIN eventsIn : OfReserved(i) => eventsIn[i].kind = "text"
    /\ stdin # << >> => pending \in stdin[1] /\ Ahead
    /\ writing # NoLine => pending = writing.id /\ Ahead
    /\ \A l \in Lines : Reserves(l) => pending = l /\ Ahead /\ Idle /\ active

IdInv == ~crossed => EventsFit /\ OneTurn /\ GivesUp /\ LiveFit /\ OwnIdentity

-----------------------------------------------------------------------------

\* Turns that met stay met.
LEMMA CrossedStays ==
  ASSUME TypeInv, [Next]_vars, ~crossed'
  PROVE  ~crossed
<1>1. CASE Submits
  BY <1>1 DEF Submits, Park, Claim, Send, SendFails, pastVars, Meets, TypeInv, IdTypes
<1>2. CASE Tap
  BY <1>2 DEF Tap, Retire, Advance, AdvanceRefused, TapWrites, PutBack, Boundary, Meets, TypeInv, IdTypes
<1>3. CASE Translator
  BY <1>3 DEF Translator, TurnText, TurnResult, StreamCloses, pastVars
<1>4. CASE VendorSteps \/ WakesItself
  BY <1>4 DEF VendorSteps, ReadsLine, Rereads, WakesItself, HearsLine, Ends, pastVars, Meets
<1>5. CASE ChildDies \/ DaemonDies \/ Restart \/ UNCHANGED vars
  BY <1>5 DEF ChildDies, DaemonDies, Restart, vars, pastVars
<1> QED
  BY <1>1, <1>2, <1>3, <1>4, <1>5 DEF Next

\* Ids are never the absence of one.
LEMMA IdsAre ==
  ASSUME TypeInv
  PROVE  /\ NoId \notin Lines /\ Vendor \notin Lines /\ NoId # Vendor
         /\ pending \in Lines \union {NoId} /\ current \in Lines \union {NoId, Vendor}
         /\ \A e \in Entry : e.id # NoId
         /\ prompt \subseteq Lines /\ stdin \in Seq(SUBSET Lines) /\ (stdin # << >> => stdin[1] \subseteq Lines)
         /\ eventsIn \in Seq(Events) /\ tapIn \in Nat /\ busy \in BOOLEAN /\ active \in BOOLEAN
<1>1. stdin \in Seq(SUBSET Lines) /\ (stdin # << >> => stdin[1] \in SUBSET Lines)
  BY Taken DEF TypeInv, VendorTypes
<1> QED
  BY <1>1, LinesAssumption, Entries DEF TypeInv, IdTypes, VendorTypes, ReportTypes, NoId, Vendor

\* With nothing unread there is nothing to fit.
LEMMA NothingFits ==
  ASSUME NEW c, NEW p, current' = c, pending' = p, c # Vendor, eventsIn' = << >>
  PROVE  EventsFit' /\ Unheard'
<1>1. DOMAIN << >> = {}
  OBVIOUS
<1> QED
  BY <1>1 DEF EventsFit, Unheard

\* A reservation that was not used may change hands.
LEMMA UnheardFits ==
  ASSUME EventsFit, Unheard, eventsIn \in Seq(Events), UNCHANGED <<current, eventsIn>>
  PROVE  EventsFit' /\ Unheard'
<1>1. \A i \in DOMAIN eventsIn : ~OfReserved(i)
  BY DEF Unheard, OfReserved
<1> QED
  BY <1>1 DEF EventsFit, Unheard, OfReserved

\* Nobody holds the reservation: it was used, or nobody made one.
LEMMA NotReserved ==
  ASSUME TypeInv, EventsFit, pending = NoId
  PROVE  Unheard
<1>1. \A i \in DOMAIN eventsIn : ~OfReserved(i)
  BY DEF EventsFit
<1>2. eventsIn \in Seq(Events)
  BY IdsAre
<1>3. eventsIn # << >> => Len(eventsIn) \in DOMAIN eventsIn /\ Len(eventsIn) \in Nat \ {0}
  BY <1>2, EmptySeq
<1> QED
  BY <1>1, <1>3 DEF Unheard, OfReserved

\* Nothing of the session's ids, of the pipe and of the readers changes.
idleVars == <<up, active, pending, current, eventsIn, tapIn, writing, stdin, heard, busy, prompt>>

LEMMA SameFits ==
  ASSUME EventsFit, OneTurn, UNCHANGED idleVars
  PROVE  EventsFit' /\ OneTurn' /\ (Unheard <=> Unheard') /\ (Ahead <=> Ahead') /\ (Idle <=> Idle')
  BY DEF EventsFit, OneTurn, OfReserved, Unheard, Ahead, Idle, idleVars

LEMMA SameIsLive ==
  ASSUME LiveFit, GivesUp, UNCHANGED idleVars, \A l \in Lines : Reserves(l)' => Reserves(l)
  PROVE  LiveFit' /\ GivesUp'
<1>1. (Unheard <=> Unheard') /\ (Ahead <=> Ahead') /\ (Idle <=> Idle') /\ Owner' = Owner
  BY DEF Unheard, Ahead, Idle, Owner, idleVars
<1>2. GivesUp'
  BY <1>1 DEF GivesUp, idleVars
<1>3. LiveFit'
  BY <1>1 DEF LiveFit, OfReserved, idleVars
<1> QED
  BY <1>2, <1>3

LEMMA ClaimFits ==
  ASSUME TypeInv, ~crossed', EventsFit, OneTurn, GivesUp, LiveFit,
         NEW l \in Lines, NEW r, Claim(l, r)
  PROVE  EventsFit' /\ OneTurn' /\ GivesUp' /\ LiveFit'
<1>1. /\ up' = up /\ UNCHANGED <<current, eventsIn, tapIn, writing, stdin, heard, busy, prompt>>
      /\ pc[l] \in {"new", "direct"}
      /\ pc' = [pc EXCEPT ![l] = "claimed"] /\ was' = [was EXCEPT ![l] = active] /\ active' = TRUE
      /\ pending' = IF active /\ (current # NoId \/ pending # NoId) THEN pending ELSE l
      /\ ~active => pending = NoId
  BY DEF Claim, MaySubmit, vendorVars, streamVars, Meets
<1>2. /\ \A k \in Lines : k # l => (Reserves(k)' <=> Reserves(k))
      /\ Reserves(l)' <=> ~active
  BY <1>1 DEF Reserves, TypeInv, SubmitTypes, IdTypes
<1>3. OneTurn'
  BY <1>1 DEF OneTurn
<1>4. CASE active /\ (current # NoId \/ pending # NoId)
  <2>1. pending' = pending /\ UNCHANGED idleVars
    BY <1>1, <1>4 DEF idleVars
  <2>2. \A k \in Lines : Reserves(k)' => Reserves(k)
    BY <1>2, <1>4
  <2> QED
    BY <2>1, <2>2, SameFits, SameIsLive
<1>5. CASE ~(active /\ (current # NoId \/ pending # NoId))
  <2>1. pending = NoId /\ pending' = l
    BY <1>1, <1>5
  <2>2. Unheard
    BY <2>1, NotReserved
  <2>3. EventsFit' /\ Unheard'
    BY <1>1, <2>2, IdsAre, UnheardFits
  <2>4. GivesUp'
    BY <2>3 DEF GivesUp
  <2>5. LiveFit'
    <3> SUFFICES ASSUME up = "live" PROVE LiveFit'
      BY <1>1 DEF LiveFit
    <3>1. \A k \in Lines : ~Reserves(k)
      BY <2>1, IdsAre DEF LiveFit
    <3>2. stdin = << >> /\ writing = NoLine
      <4>1. writing # NoLine => writing \in Entry
        BY DEF TypeInv, QueueTypes
      <4> QED
        BY <2>1, <4>1, IdsAre DEF LiveFit
    <3>3. CASE active
      <4>1. current = NoId /\ eventsIn = << >>
        BY <1>5, <2>2, <3>3 DEF Unheard
      <4>2. ~busy
        BY <2>1, <4>1, IdsAre DEF LiveFit, Owner
      <4> QED
        BY <1>1, <1>2, <3>1, <3>2, <3>3, <4>1, <4>2 DEF LiveFit
    <3>4. CASE ~active
      <4>1. Idle
        BY <3>4 DEF LiveFit
      <4>2. Ahead
        BY <2>2, <4>1 DEF LiveFit, Ahead, Idle
      <4>3. Ahead' /\ Idle'
        BY <1>1, <4>1, <4>2 DEF Ahead, Unheard, Idle
      <4> QED
        BY <1>1, <1>2, <2>1, <3>1, <3>2, <4>1, <4>3 DEF LiveFit, Idle
    <3> QED
      BY <3>3, <3>4, IdsAre
  <2> QED
    BY <1>3, <2>3, <2>4, <2>5
<1> QED
  BY <1>4, <1>5

LEMMA SendFits ==
  ASSUME TypeInv, ~crossed', EventsFit, OneTurn, GivesUp, LiveFit,
         NEW l \in Lines, Send(l)
  PROVE  EventsFit' /\ OneTurn' /\ GivesUp' /\ LiveFit'
<1>1. /\ up = "live" /\ pc[l] = "claimed" /\ pc' = [pc EXCEPT ![l] = "sent"] /\ was' = [was EXCEPT ![l] = FALSE]
      /\ stdin' = Append(stdin, {l}) /\ ~was[l] /\ AtRest
      /\ UNCHANGED <<up, active, pending, current, eventsIn, tapIn, writing, heard, busy, prompt>>
  BY DEF Send, Meets, idVars, streamVars
<1>2. Reserves(l) /\ \A k \in Lines : Reserves(k)' => Reserves(k) /\ k # l
  BY <1>1 DEF Reserves, TypeInv, SubmitTypes
<1>3. pending = l /\ Ahead /\ Idle /\ active
  BY <1>1, <1>2 DEF LiveFit
<1>4. stdin' = <<{l}>> /\ stdin' # << >> /\ Len(stdin') = 1 /\ stdin'[1] = {l}
  BY <1>1, <1>3 DEF Idle
<1>5. \A k \in Lines : ~Reserves(k)'
  BY <1>1, <1>2, <1>3 DEF LiveFit
<1>6. EventsFit' /\ (Ahead <=> Ahead') /\ Owner' = Owner /\ Unheard'
  BY <1>1, <1>3 DEF EventsFit, OfReserved, Ahead, Unheard, Owner
<1>7. OneTurn'
  BY <1>1, <1>3, <1>4 DEF OneTurn, Idle
<1>8. GivesUp'
  BY <1>6 DEF GivesUp
<1>9. LiveFit'
  BY <1>1, <1>3, <1>4, <1>5, <1>6 DEF LiveFit, OfReserved, Idle
<1> QED
  BY <1>6, <1>7, <1>8, <1>9

LEMMA SendFailsFits ==
  ASSUME TypeInv, EventsFit, OneTurn, GivesUp,
         NEW l \in Lines, SendFails(l)
  PROVE  EventsFit' /\ OneTurn' /\ GivesUp' /\ LiveFit'
<1>1. /\ up = "closed" /\ pc[l] = "claimed" /\ pc' = [pc EXCEPT ![l] = "new"] /\ was' = [was EXCEPT ![l] = FALSE]
      /\ pending' = IF ~was[l] /\ pending = l THEN NoId ELSE pending
      /\ UNCHANGED <<up, current, eventsIn, tapIn, writing, stdin, heard, busy, prompt>>
  BY DEF SendFails, vendorVars, streamVars
<1>2. \A k \in Lines : Reserves(k)' => Reserves(k)
  BY <1>1 DEF Reserves, TypeInv, SubmitTypes
<1>3. OneTurn' /\ LiveFit'
  BY <1>1 DEF OneTurn, LiveFit
<1>4. CASE pending' = pending
  <2>1. EventsFit' /\ (Unheard <=> Unheard')
    BY <1>1, <1>4 DEF EventsFit, OfReserved, Unheard
  <2> QED
    BY <1>1, <1>2, <1>3, <1>4, <2>1 DEF GivesUp
<1>5. CASE pending' # pending
  <2>1. Unheard
    BY <1>1, <1>5 DEF GivesUp, Reserves
  <2>2. EventsFit' /\ Unheard'
    BY <1>1, <2>1, IdsAre, UnheardFits
  <2> QED
    BY <1>3, <2>2 DEF GivesUp
<1> QED
  BY <1>4, <1>5

\* The result of the one turn there is reaches the tap.
LEMMA BoundaryFits ==
  ASSUME TypeInv, OneTurn, Boundary
  PROVE  /\ tapIn = 1 /\ tapIn' = 0 /\ stdin = << >> /\ ~busy /\ writing = NoLine
         /\ UNCHANGED <<up, pc, was, current, eventsIn, stdin, heard, busy, prompt>>
  BY IdsAre DEF OneTurn, Boundary, submitVars, vendorVars

LEMMA NoneReserves ==
  ASSUME LiveFit, up = "live", tapIn > 0 \/ busy \/ stdin # << >> \/ writing # NoLine, tapIn \in Nat
  PROVE  \A l \in Lines : ~Reserves(l)
  BY DEF LiveFit, Idle

LEMMA RetireFits ==
  ASSUME TypeInv, EventsFit, OneTurn, GivesUp, LiveFit, Retire
  PROVE  EventsFit' /\ OneTurn' /\ GivesUp' /\ LiveFit'
<1>1. /\ tapIn = 1 /\ tapIn' = 0 /\ stdin = << >> /\ ~busy /\ writing = NoLine
      /\ UNCHANGED <<up, pc, was, current, eventsIn, stdin, heard, busy, prompt>>
      /\ pending' = pending /\ writing' = writing
  BY BoundaryFits DEF Retire
<1>2. EventsFit' /\ (Unheard <=> Unheard')
  BY <1>1 DEF EventsFit, OfReserved, Unheard
<1>3. \A l \in Lines : Reserves(l)' <=> Reserves(l)
  BY <1>1 DEF Reserves
<1>4. OneTurn' /\ GivesUp'
  BY <1>1, <1>2, <1>3 DEF OneTurn, GivesUp
<1>5. LiveFit'
  <2> SUFFICES ASSUME up = "live" PROVE LiveFit'
    BY <1>1 DEF LiveFit
  <2>1. \A l \in Lines : ~Reserves(l)
    BY <1>1, NoneReserves
  <2> QED
    BY <1>1, <1>3, <2>1 DEF LiveFit, Idle
<1> QED
  BY <1>2, <1>4, <1>5

LEMMA AdvanceFits ==
  ASSUME TypeInv, ~crossed', EventsFit, OneTurn, GivesUp, LiveFit, Advance
  PROVE  EventsFit' /\ OneTurn' /\ GivesUp' /\ LiveFit'
<1>1. /\ tapIn = 1 /\ tapIn' = 0 /\ stdin = << >> /\ ~busy /\ writing = NoLine
      /\ UNCHANGED <<up, pc, was, current, eventsIn, stdin, heard, busy, prompt>>
  BY BoundaryFits DEF Advance
<1>2. pending = NoId /\ active' = TRUE
  BY DEF Advance, Meets
<1>3. pending' = writing'.id
  BY DEF Advance
<1>4. Unheard
  BY <1>2, NotReserved
<1>5. EventsFit' /\ Unheard'
  BY <1>1, <1>4, IdsAre, UnheardFits
<1>6. OneTurn' /\ GivesUp'
  BY <1>1, <1>5 DEF OneTurn, GivesUp
<1>7. LiveFit'
  <2> SUFFICES ASSUME up = "live" PROVE LiveFit'
    BY <1>1 DEF LiveFit
  <2>1. \A l \in Lines : ~Reserves(l)'
    BY <1>1, NoneReserves DEF Reserves
  <2>2. Ahead'
    BY <1>1, <1>4 DEF Ahead, Unheard, LiveFit
  <2>3. ~(current # NoId /\ eventsIn = << >>)
    BY <1>1 DEF LiveFit
  <2> QED
    BY <1>1, <1>2, <1>3, <2>1, <2>2, <2>3 DEF LiveFit
<1> QED
  BY <1>5, <1>6, <1>7

LEMMA RefusedFits ==
  ASSUME TypeInv, ~crossed', EventsFit, OneTurn, GivesUp, LiveFit, AdvanceRefused
  PROVE  EventsFit' /\ OneTurn' /\ GivesUp' /\ LiveFit'
<1>1. /\ tapIn = 1 /\ tapIn' = 0 /\ stdin = << >> /\ ~busy /\ writing = NoLine
      /\ UNCHANGED <<up, pc, was, current, eventsIn, stdin, heard, busy, prompt>>
      /\ writing' = writing
  BY BoundaryFits DEF AdvanceRefused
<1>2. pending = NoId /\ pending' = NoId
  BY DEF AdvanceRefused, Meets
<1>3. EventsFit' /\ Unheard'
  BY <1>1, <1>2, NotReserved, IdsAre, UnheardFits
<1>4. OneTurn' /\ GivesUp'
  BY <1>1, <1>3 DEF OneTurn, GivesUp
<1>5. LiveFit'
  <2> SUFFICES ASSUME up = "live" PROVE LiveFit'
    BY <1>1 DEF LiveFit
  <2>1. \A l \in Lines : ~Reserves(l)'
    BY <1>1, NoneReserves DEF Reserves
  <2> QED
    BY <1>1, <2>1 DEF LiveFit, Idle
<1> QED
  BY <1>3, <1>4, <1>5

LEMMA TapWritesFits ==
  ASSUME TypeInv, AskedInv, EventsFit, OneTurn, GivesUp, LiveFit, TapWrites
  PROVE  EventsFit' /\ OneTurn' /\ GivesUp' /\ LiveFit'
<1>1. /\ up = "live" /\ writing # NoLine /\ writing' = NoLine /\ stdin' = Append(stdin, writing.members)
      /\ UNCHANGED <<up, pc, was, active, pending, current, eventsIn, tapIn, heard, busy, prompt>>
  BY DEF TapWrites, submitVars, idVars, streamVars
<1>2. pending = writing.id /\ Ahead /\ active
  BY <1>1 DEF LiveFit, Idle
<1>3. stdin = << >> /\ ~busy /\ tapIn = 0
  BY <1>1, IdsAre DEF OneTurn
<1>4. writing.id \in writing.members
  BY <1>1 DEF AskedInv, TypeInv, QueueTypes, GoodQueue, Good
<1>5. stdin' = <<writing.members>> /\ stdin' # << >> /\ Len(stdin') = 1 /\ stdin'[1] = writing.members
  BY <1>1, <1>3
<1>6. EventsFit' /\ Unheard' /\ Ahead' /\ Owner' = Owner
  BY <1>1, <1>2 DEF EventsFit, OfReserved, Ahead, Unheard, Owner
<1>7. OneTurn' /\ GivesUp'
  BY <1>1, <1>3, <1>5, <1>6 DEF OneTurn, GivesUp
<1>8. \A l \in Lines : ~Reserves(l)'
  BY <1>1, IdsAre, NoneReserves DEF Reserves
<1>9. LiveFit'
  BY <1>1, <1>2, <1>3, <1>4, <1>5, <1>6, <1>8 DEF LiveFit
<1> QED
  BY <1>6, <1>7, <1>9

LEMMA PutBackFits ==
  ASSUME TypeInv, EventsFit, OneTurn, GivesUp, PutBack
  PROVE  EventsFit' /\ OneTurn' /\ GivesUp' /\ LiveFit'
<1>1. /\ up = "closed" /\ writing # NoLine /\ writing' = NoLine
      /\ UNCHANGED <<up, pc, was, current, eventsIn, tapIn, stdin, heard, busy, prompt>>
  BY DEF PutBack, submitVars, streamVars, vendorVars
<1>2. EventsFit' /\ Unheard'
  BY <1>1, IdsAre, UnheardFits DEF GivesUp
<1>3. OneTurn' /\ GivesUp' /\ LiveFit'
  BY <1>1, <1>2 DEF OneTurn, GivesUp, LiveFit
<1> QED
  BY <1>2, <1>3

-----------------------------------------------------------------------------

\* The translator reads the first event.
LEMMA FirstRead ==
  ASSUME TypeInv, eventsIn # << >>, eventsIn' = Tail(eventsIn)
  PROVE  /\ Len(eventsIn) \in Nat \ {0} /\ 1 \in DOMAIN eventsIn /\ Len(eventsIn) \in DOMAIN eventsIn
         /\ Head(eventsIn) = eventsIn[1] /\ Len(eventsIn') = Len(eventsIn) - 1
         /\ eventsIn' = << >> <=> Len(eventsIn) = 1
         /\ \A i \in DOMAIN (eventsIn') : i \in Nat \ {0} /\ i + 1 \in DOMAIN eventsIn /\ eventsIn'[i] = eventsIn[i + 1]
         /\ eventsIn' # << >> => 1 \in DOMAIN (eventsIn') /\ eventsIn'[Len(eventsIn')] = eventsIn[Len(eventsIn)]
         /\ \A i \in DOMAIN eventsIn : i \in Nat /\ eventsIn[i].kind \in {"text", "result"}
<1>1. eventsIn \in Seq(Events)
  BY IdsAre
<1>2. Len(eventsIn) \in Nat \ {0} /\ DOMAIN eventsIn = 1 .. Len(eventsIn) /\ Head(eventsIn) = eventsIn[1]
  BY <1>1, EmptySeq
<1>3. Tail(eventsIn) \in Seq(Events) /\ Len(Tail(eventsIn)) = Len(eventsIn) - 1
      /\ \A i \in 1 .. Len(eventsIn) - 1 : Tail(eventsIn)[i] = eventsIn[i + 1]
  BY <1>1, HeadTailProperties
<1>4. DOMAIN (eventsIn') = 1 .. Len(eventsIn) - 1 /\ (eventsIn' = << >> <=> Len(eventsIn) = 1)
  BY <1>2, <1>3, EmptySeq
<1>5. \A i \in DOMAIN eventsIn : eventsIn[i].kind \in {"text", "result"}
  <2>1. \A i \in DOMAIN eventsIn : eventsIn[i] \in Events
    BY <1>1
  <2> QED
    BY <2>1 DEF Events
<1> QED
  BY <1>2, <1>3, <1>4, <1>5

LEMMA TextFits ==
  ASSUME TypeInv, EventsFit, OneTurn, GivesUp, LiveFit, TurnText
  PROVE  EventsFit' /\ OneTurn' /\ GivesUp' /\ LiveFit'
<1>1. /\ eventsIn # << >> /\ Head(eventsIn).kind = "text" /\ eventsIn' = Tail(eventsIn)
      /\ current' = Opened /\ pending' = Unopened
      /\ UNCHANGED <<up, pc, was, active, tapIn, writing, stdin, heard, busy, prompt>>
  BY DEF TurnText, submitVars, vendorVars
<1> DEFINE n == Len(eventsIn)
<1>2. /\ n \in Nat \ {0} /\ 1 \in DOMAIN eventsIn /\ n \in DOMAIN eventsIn
      /\ eventsIn[1].kind = "text"
      /\ eventsIn' = << >> <=> n = 1
      /\ \A i \in DOMAIN (eventsIn') : i \in Nat \ {0} /\ i + 1 \in DOMAIN eventsIn /\ eventsIn'[i] = eventsIn[i + 1]
      /\ eventsIn' # << >> => 1 \in DOMAIN (eventsIn') /\ eventsIn'[Len(eventsIn')] = eventsIn[n]
      /\ \A i \in DOMAIN eventsIn : i \in Nat /\ eventsIn[i].kind \in {"text", "result"}
  BY <1>1, FirstRead
<1> HIDE DEF n
<1>3. current = NoId
  BY <1>1, <1>2 DEF EventsFit
<1>4. pending # NoId /\ pending \in Lines /\ pending # Vendor
  BY <1>2, <1>3, IdsAre DEF EventsFit, OfReserved
<1>5. current' = pending /\ pending' = NoId
  BY <1>1, <1>3, <1>4 DEF Opened, Unopened
<1>6. \A i \in DOMAIN eventsIn : i > 1 => eventsIn[i].kind = "result" /\ i = n /\ pending \in eventsIn[i].of
  BY <1>2, <1>3 DEF EventsFit, OfReserved, n
<1>7. \A i \in DOMAIN (eventsIn') : i + 1 = n /\ eventsIn'[i].kind = "result" /\ pending \in eventsIn'[i].of
  BY <1>2, <1>6
<1>8. \A i \in DOMAIN (eventsIn') : i = 1
  BY <1>2, <1>7
<1>9. EventsFit'
  BY <1>2, <1>4, <1>5, <1>7, <1>8 DEF EventsFit, OfReserved
<1>10. ~Unheard /\ ~Ahead
  BY <1>1, <1>3 DEF Unheard, Ahead
<1>11. \A l \in Lines : ~(Reserves(l)' /\ pending' = l)
  BY <1>5, IdsAre
<1>12. OneTurn' /\ GivesUp'
  BY <1>1, <1>10, <1>11 DEF OneTurn, GivesUp
<1>13. LiveFit'
  <2> SUFFICES ASSUME up = "live" PROVE LiveFit'
    BY <1>1 DEF LiveFit
  <2>1. stdin = << >> /\ writing = NoLine /\ \A l \in Lines : ~Reserves(l)'
    BY <1>1, <1>10 DEF LiveFit, Reserves
  <2>2. CASE eventsIn' = << >>
    <3>1. busy /\ pending \in prompt
      BY <1>1, <1>2, <1>3, <2>2 DEF LiveFit, Owner, n
    <3>2. Owner' = pending /\ \A i \in DOMAIN << >> : FALSE
      BY <1>4, <1>5, <2>2 DEF Owner
    <3> QED
      BY <1>1, <2>1, <2>2, <3>1, <3>2 DEF LiveFit, Idle
  <2>3. CASE eventsIn' # << >>
    <3>1. 1 \in DOMAIN (eventsIn') /\ n \in DOMAIN eventsIn /\ n > 1 /\ eventsIn[n].kind = "result"
      BY <1>2, <1>6, <2>3
    <3>2. ~busy
      BY <1>3, <3>1 DEF LiveFit, OfReserved
    <3>3. eventsIn'[Len(eventsIn')].kind = "result"
      BY <1>2, <2>3, <3>1
    <3> QED
      BY <1>1, <2>1, <2>3, <3>2, <3>3 DEF LiveFit, Idle
  <2> QED
    BY <2>2, <2>3
<1> QED
  BY <1>9, <1>12, <1>13

LEMMA ResultFits ==
  ASSUME TypeInv, EventsFit, OneTurn, GivesUp, LiveFit, OwnIdentity, ~crossed, TurnResult
  PROVE  EventsFit' /\ OneTurn' /\ GivesUp' /\ LiveFit' /\ OwnIdentity'
<1>1. /\ eventsIn # << >> /\ Head(eventsIn).kind = "result" /\ eventsIn' = Tail(eventsIn)
      /\ current' = NoId /\ pending' = Unopened
      /\ rows' = rows \union {[id |-> Opened, of |-> Head(eventsIn).of, life |-> life, failed |-> FALSE]}
      /\ UNCHANGED <<up, pc, was, active, tapIn, writing, stdin, heard, busy, prompt>>
  BY DEF TurnResult, submitVars, vendorVars
<1> DEFINE n == Len(eventsIn)
<1>2. /\ n \in Nat \ {0} /\ 1 \in DOMAIN eventsIn /\ n \in DOMAIN eventsIn
      /\ eventsIn[1].kind = "result" /\ Head(eventsIn) = eventsIn[1]
      /\ eventsIn' = << >> <=> n = 1
      /\ Len(eventsIn') = n - 1
      /\ \A i \in DOMAIN (eventsIn') : i \in Nat \ {0} /\ i + 1 \in DOMAIN eventsIn /\ eventsIn'[i] = eventsIn[i + 1]
      /\ eventsIn' # << >> => 1 \in DOMAIN (eventsIn') /\ eventsIn'[Len(eventsIn')] = eventsIn[n]
      /\ \A i \in DOMAIN eventsIn : i \in Nat /\ eventsIn[i].kind \in {"text", "result"}
  BY <1>1, FirstRead
<1> HIDE DEF n
\* It is the result of the turn with that id.
<1>3. Opened \in eventsIn[1].of
  <2>1. CASE current # NoId
    BY <1>1, <2>1 DEF EventsFit, Opened
  <2>2. CASE current = NoId
    BY <1>2, <2>2 DEF EventsFit, OfReserved, Opened
  <2> QED
    BY <2>1, <2>2
<1>4. OwnIdentity'
  BY <1>1, <1>2, <1>3 DEF OwnIdentity
<1>5. CASE current = NoId
  <2>1. n = 1 /\ eventsIn' = << >> /\ pending' = NoId
    BY <1>1, <1>2, <1>5 DEF EventsFit, OfReserved, Unopened, n
  <2>2. EventsFit' /\ Unheard'
    BY <1>1, <2>1, IdsAre, NothingFits
  <2>3. ~Unheard /\ ~Ahead
    BY <1>1, <1>5 DEF Unheard, Ahead
  <2>4. OneTurn' /\ GivesUp'
    BY <1>1, <2>2 DEF OneTurn, GivesUp
  <2>5. LiveFit'
    <3> SUFFICES ASSUME up = "live" PROVE LiveFit'
      BY <1>1 DEF LiveFit
    <3>1. stdin = << >> /\ writing = NoLine /\ ~busy /\ \A l \in Lines : ~Reserves(l)'
      BY <1>1, <1>2, <1>5, <2>3 DEF LiveFit, Reserves, OfReserved
    <3> QED
      BY <1>1, <2>1, <3>1 DEF LiveFit, Idle
  <2> QED
    BY <1>4, <2>2, <2>4, <2>5
<1>6. CASE current # NoId
  <2>1. pending' = pending
    BY <1>1, <1>6 DEF Unopened
  <2>2. \A i \in DOMAIN (eventsIn') :
          /\ i + 1 \in DOMAIN eventsIn /\ eventsIn'[i] = eventsIn[i + 1] /\ i + 1 > 1
          /\ pending # NoId /\ pending \in eventsIn'[i].of
          /\ eventsIn'[i].kind = "result" => i = n - 1
          /\ eventsIn'[i].kind = "text" => i = 1
    BY <1>2, <1>6 DEF EventsFit, OfReserved, n
  <2>3. EventsFit'
    BY <1>1, <1>2, <2>1, <2>2, IdsAre DEF EventsFit, OfReserved
  <2>4. Unheard => Unheard' /\ Ahead' /\ eventsIn' = << >>
    BY <1>1, <1>2 DEF Unheard, Ahead, n
  <2>5. OneTurn' /\ GivesUp'
    BY <1>1, <2>1, <2>4 DEF OneTurn, GivesUp, Reserves
  <2>6. LiveFit'
    <3> SUFFICES ASSUME up = "live" PROVE LiveFit'
      BY <1>1 DEF LiveFit
    <3>1. Ahead => Ahead'
      BY <2>4 DEF Ahead
    <3>2. Owner = pending /\ Owner' = pending
      BY <1>1, <2>1 DEF Owner
    <3>3. busy => \A i \in DOMAIN (eventsIn') : eventsIn'[i].kind = "text"
      BY <2>2 DEF LiveFit, OfReserved
    <3>4. Idle' <=> Idle
      BY <1>1 DEF Idle
    <3>5. eventsIn' # << >> /\ eventsIn'[Len(eventsIn')].kind = "text" => busy
      BY <1>1, <1>2 DEF LiveFit, n
    <3>6. \A l \in Lines : Reserves(l)' => Reserves(l)
      BY <1>1 DEF Reserves
    <3> QED
      BY <1>1, <2>1, <3>1, <3>2, <3>3, <3>4, <3>5, <3>6 DEF LiveFit
  <2> QED
    BY <1>4, <2>3, <2>5, <2>6
<1> QED
  BY <1>5, <1>6

LEMMA ClosesFits ==
  ASSUME TypeInv, OneTurn, OwnIdentity, ~crossed, StreamCloses
  PROVE  EventsFit' /\ OneTurn' /\ GivesUp' /\ LiveFit' /\ OwnIdentity'
<1>1. /\ up = "closed" /\ current' = NoId /\ pending' = NoId /\ eventsIn = << >>
      /\ UNCHANGED <<up, pc, was, tapIn, eventsIn, writing, stdin, heard, busy, prompt>>
  BY DEF StreamCloses, submitVars, streamVars, vendorVars
<1>2. EventsFit' /\ Unheard'
  BY <1>1, IdsAre, NothingFits
<1>3. OneTurn' /\ GivesUp' /\ LiveFit'
  BY <1>1, <1>2 DEF OneTurn, GivesUp, LiveFit
<1>4. OwnIdentity'
  BY DEF OwnIdentity, StreamCloses
<1> QED
  BY <1>2, <1>3, <1>4

-----------------------------------------------------------------------------

\* The vendor says one thing more.
LEMMA SaidLast ==
  ASSUME TypeInv, NEW k \in {"text", "result"}, NEW p, Emits({k}, p), p \subseteq Lines
  PROVE  LET e == [kind |-> k, of |-> p]
             n == Len(eventsIn) + 1
         IN  /\ eventsIn' = Append(eventsIn, e) /\ eventsIn' # << >> /\ Len(eventsIn') = n /\ n \in Nat \ {0}
             /\ eventsIn'[n] = e /\ \A i \in DOMAIN (eventsIn') : i \in Nat /\ (i \in DOMAIN eventsIn \/ i = n)
             /\ \A i \in DOMAIN eventsIn : eventsIn'[i] = eventsIn[i] /\ i # n
             /\ eventsIn # << >> => 1 \in DOMAIN eventsIn
             /\ eventsIn = << >> <=> n = 1
             /\ tapIn' = IF k = "result" THEN tapIn + 1 ELSE tapIn
<1> DEFINE e == [kind |-> k, of |-> p]
<1>1. eventsIn \in Seq(Events) /\ e \in Events /\ tapIn \in Nat
  BY IdsAre DEF Events
<1>2. (CHOOSE j \in {k} : TRUE) = k
  OBVIOUS
<1>3. eventsIn' = Append(eventsIn, e) /\ tapIn' = tapIn + Cardinality({k} \intersect {"result"})
  BY <1>2 DEF Emits
<1>4. tapIn' = IF k = "result" THEN tapIn + 1 ELSE tapIn
  <2>1. CASE k = "result"
    <3>1. {k} \intersect {"result"} = {"result"}
      BY <2>1
    <3> QED
      BY <1>1, <1>3, <2>1, <3>1, FS_Singleton
  <2>2. CASE k = "text"
    <3>1. {k} \intersect {"result"} = {}
      BY <2>2
    <3> QED
      BY <1>1, <1>3, <2>2, <3>1, FS_EmptySet
  <2> QED
    BY <2>1, <2>2
<1> HIDE DEF e
<1>5. /\ Len(Append(eventsIn, e)) = Len(eventsIn) + 1
      /\ DOMAIN Append(eventsIn, e) = DOMAIN eventsIn \union {Len(eventsIn) + 1}
      /\ Append(eventsIn, e)[Len(eventsIn) + 1] = e
      /\ \A i \in DOMAIN eventsIn : Append(eventsIn, e)[i] = eventsIn[i] /\ i # Len(eventsIn) + 1
  BY <1>1, Appended
<1>6. Len(eventsIn) \in Nat /\ (eventsIn # << >> => 1 \in DOMAIN eventsIn) /\ (eventsIn = << >> <=> Len(eventsIn) = 0)
      /\ DOMAIN eventsIn \subseteq Nat /\ Append(eventsIn, e) # << >>
  BY <1>1, <1>5, EmptySeq
<1>7. /\ eventsIn' = Append(eventsIn, e) /\ eventsIn' # << >> /\ Len(eventsIn') = Len(eventsIn) + 1
      /\ Len(eventsIn) + 1 \in Nat \ {0}
      /\ eventsIn'[Len(eventsIn) + 1] = e
      /\ \A i \in DOMAIN (eventsIn') : i \in Nat /\ (i \in DOMAIN eventsIn \/ i = Len(eventsIn) + 1)
      /\ \A i \in DOMAIN eventsIn : eventsIn'[i] = eventsIn[i] /\ i # Len(eventsIn) + 1
      /\ eventsIn = << >> <=> Len(eventsIn) + 1 = 1
  BY <1>3, <1>5, <1>6
<1> QED
  BY <1>4, <1>6, <1>7 DEF e

LEMMA SaysNothing ==
  ASSUME TypeInv, NEW p, Emits({}, p)
  PROVE  eventsIn' = eventsIn /\ tapIn' = tapIn
<1>1. {} \intersect {"result"} = {}
  OBVIOUS
<1> QED
  BY <1>1, FS_EmptySet, IdsAre DEF Emits

LEMMA ReadsFits ==
  ASSUME TypeInv, EventsFit, OneTurn, GivesUp, LiveFit, ReadsLine
  PROVE  EventsFit' /\ OneTurn' /\ GivesUp' /\ LiveFit'
<1> DEFINE p == Head(stdin)
<1>1. /\ stdin # << >> /\ stdin' = Tail(stdin) /\ heard' = heard
      /\ up = "live" /\ ~busy /\ busy' = TRUE /\ prompt' = p
      /\ Emits({"text"}, p) \/ Emits({}, p)
      /\ UNCHANGED <<up, pc, was, active, pending, current, writing>>
  BY DEF ReadsLine, VendorOpens, submitVars, idVars
<1>2. stdin \in Seq(SUBSET Lines) /\ Len(stdin) = 1 /\ p = stdin[1] /\ p \subseteq Lines
  <2>1. stdin \in Seq(SUBSET Lines)
    BY IdsAre
  <2>2. Len(stdin) <= 1
    BY DEF OneTurn
  <2>3. Len(stdin) \in Nat /\ Len(stdin) # 0
    BY <1>1, <2>1
  <2>4. Len(stdin) = 1
    <3> DEFINE n == Len(stdin)
    <3>1. n \in Nat /\ n # 0 /\ n <= 1
      BY <2>2, <2>3
    <3> HIDE DEF n
    <3>2. n = 1
      BY <3>1
    <3> QED
      BY <3>2 DEF n
  <2>5. p = stdin[1] /\ 1 \in DOMAIN stdin
    BY <1>1, <2>1, <2>4
  <2>6. stdin[1] \in SUBSET Lines
    BY <2>1, <2>5
  <2> QED
    BY <2>1, <2>4, <2>5, <2>6
<1>3. stdin' = << >>
  BY <1>1, <1>2
<1>4. /\ pending \in p /\ Ahead /\ active /\ pending # NoId /\ tapIn = 0 /\ writing = NoLine
      /\ \A l \in Lines : ~Reserves(l)'
  BY <1>1, <1>2, IdsAre DEF LiveFit, Idle, OneTurn, Reserves
<1> HIDE DEF p
<1>5. Owner = pending
  BY <1>4 DEF Owner, Ahead
<1>6. GivesUp'
  BY <1>1, <1>4 DEF GivesUp
<1>7. CASE Emits({}, p)
  <2>1. eventsIn' = eventsIn /\ tapIn' = tapIn
    BY <1>7, SaysNothing
  <2>2. EventsFit' /\ OneTurn'
    BY <1>1, <1>3, <1>4, <2>1 DEF EventsFit, OfReserved, OneTurn
  <2>3. \A i \in DOMAIN eventsIn : ~OfReserved(i)
    BY <1>4, IdsAre DEF Ahead, Unheard, OfReserved
  <2>4. Owner' = pending
    BY <1>1, <1>5, <2>1 DEF Owner
  <2>5. LiveFit'
    BY <1>1, <1>3, <1>4, <2>1, <2>3, <2>4 DEF LiveFit, OfReserved
  <2> QED
    BY <1>6, <2>2, <2>5
<1>8. CASE Emits({"text"}, p)
  <2> DEFINE e == [kind |-> "text", of |-> p]
             n == Len(eventsIn) + 1
  <2>1. /\ eventsIn' # << >> /\ Len(eventsIn') = n /\ n \in Nat \ {0}
        /\ eventsIn'[n] = e /\ \A i \in DOMAIN (eventsIn') : i \in Nat /\ (i \in DOMAIN eventsIn \/ i = n)
        /\ \A i \in DOMAIN eventsIn : eventsIn'[i] = eventsIn[i] /\ i # n
        /\ eventsIn # << >> => 1 \in DOMAIN eventsIn
        /\ eventsIn = << >> <=> n = 1
        /\ tapIn' = tapIn
    BY <1>2, <1>8, SaidLast
  <2>2. e.kind = "text" /\ e.of = p /\ n = Len(eventsIn) + 1
    OBVIOUS
  <2> HIDE DEF e, n
  <2>3. n = (IF current = NoId THEN 1 ELSE 2) /\ \A i \in DOMAIN eventsIn : ~OfReserved(i)
    <3>1. eventsIn \in Seq(Events)
      BY IdsAre
    <3> QED
      BY <1>4, <2>1, <2>2, <3>1 DEF Ahead, Unheard, OfReserved
  <2>4. EventsFit'
    BY <1>1, <1>4, <2>1, <2>2, <2>3 DEF EventsFit, OfReserved, Ahead
  <2>5. OneTurn'
    BY <1>1, <1>3, <1>4, <2>1 DEF OneTurn
  <2>6. Owner' = pending
    BY <1>1, <2>1 DEF Owner
  <2>7. LiveFit'
    BY <1>1, <1>3, <1>4, <2>1, <2>2, <2>3, <2>6 DEF LiveFit, OfReserved
  <2> QED
    BY <1>6, <2>4, <2>5, <2>7
<1> QED
  BY <1>1, <1>7, <1>8

LEMMA EndsFits ==
  ASSUME TypeInv, EventsFit, OneTurn, GivesUp, LiveFit, Ends
  PROVE  EventsFit' /\ OneTurn' /\ GivesUp' /\ LiveFit'
<1>1. /\ up = "live" /\ busy /\ busy' = FALSE /\ Emits({"result"}, prompt)
      /\ UNCHANGED <<up, pc, was, active, pending, current, writing, stdin, heard>>
  BY DEF Ends, submitVars, idVars
<1> DEFINE e == [kind |-> "result", of |-> prompt]
           n == Len(eventsIn) + 1
<1>2. prompt \subseteq Lines /\ tapIn \in Nat
  BY IdsAre
<1>3. /\ eventsIn' # << >> /\ Len(eventsIn') = n /\ n \in Nat \ {0}
      /\ eventsIn'[n] = e /\ \A i \in DOMAIN (eventsIn') : i \in Nat /\ (i \in DOMAIN eventsIn \/ i = n)
      /\ \A i \in DOMAIN eventsIn : eventsIn'[i] = eventsIn[i] /\ i # n
      /\ eventsIn # << >> => 1 \in DOMAIN eventsIn
      /\ eventsIn = << >> <=> n = 1
      /\ tapIn' = tapIn + 1
  BY <1>1, <1>2, SaidLast
<1>4. e.kind = "result" /\ e.of = prompt
  OBVIOUS
<1> HIDE DEF e, n
<1>5. /\ tapIn = 0 /\ writing = NoLine /\ stdin = << >> /\ active /\ Owner \in prompt
      /\ \A i \in DOMAIN eventsIn : OfReserved(i) => eventsIn[i].kind = "text"
  BY <1>1 DEF OneTurn, LiveFit, Idle
<1>6. \A l \in Lines : ~Reserves(l)'
  BY <1>1, <1>2, NoneReserves DEF Reserves
<1>7. OneTurn' /\ GivesUp'
  BY <1>1, <1>2, <1>3, <1>5, <1>6 DEF OneTurn, GivesUp
<1>8. LiveFit'
  BY <1>1, <1>3, <1>4, <1>5, <1>6 DEF LiveFit
<1>9. EventsFit'
  <2>1. current' # Vendor
    BY <1>1 DEF EventsFit
  <2>2. CASE current # NoId /\ eventsIn = << >>
    <3>1. current \in prompt
      BY <1>5, <2>2 DEF Owner
    <3>2. n = 1 /\ \A i \in DOMAIN (eventsIn') : i = 1
      <4>1. DOMAIN << >> = {}
        OBVIOUS
      <4> QED
        BY <1>3, <2>2, <4>1
    <3> QED
      BY <1>1, <1>3, <1>4, <2>1, <2>2, <3>1, <3>2 DEF EventsFit, OfReserved
  <2>3. CASE ~(current # NoId /\ eventsIn = << >>)
    <3>1. pending \in prompt /\ pending # NoId
      BY <1>2, <1>5, <2>3, IdsAre DEF Owner
    <3>2. current # NoId => eventsIn'[1] = eventsIn[1] /\ eventsIn # << >>
      BY <1>3, <2>3
    <3>3. current' # NoId => eventsIn'[1].kind = "result" /\ current' \in eventsIn'[1].of
      BY <1>1, <3>2 DEF EventsFit
    <3>4. \A i \in DOMAIN (eventsIn') : OfReserved(i) =>
             /\ pending \in eventsIn'[i].of
             /\ eventsIn'[i].kind = "result" => i = n
             /\ eventsIn'[i].kind = "text" => i = (IF current = NoId THEN 1 ELSE 2)
      BY <1>3, <1>4, <1>5, <3>1 DEF EventsFit
    <3> QED
      BY <1>1, <1>3, <2>1, <3>1, <3>3, <3>4 DEF EventsFit, OfReserved
  <2> QED
    BY <2>2, <2>3
<1> QED
  BY <1>7, <1>8, <1>9

LEMMA DiesFits ==
  ASSUME TypeInv, EventsFit, OneTurn, GivesUp, LiveFit, ChildDies
  PROVE  EventsFit' /\ OneTurn' /\ GivesUp' /\ LiveFit'
<1>1. /\ up = "live" /\ up' = "closed" /\ ChildEnds
      /\ UNCHANGED <<pc, was, pending, current, eventsIn, tapIn, writing>>
  BY DEF ChildDies, submitVars, idVars, streamVars
<1>2. EventsFit' /\ (Unheard <=> Unheard')
  BY <1>1 DEF EventsFit, OfReserved, Unheard
<1>3. OneTurn'
  BY <1>1 DEF OneTurn, ChildEnds
<1>4. GivesUp' /\ LiveFit'
  BY <1>1, <1>2 DEF GivesUp, LiveFit, Reserves
<1> QED
  BY <1>2, <1>3, <1>4

LEMMA StartsFits ==
  ASSUME TypeInv, DaemonDies \/ Restart
  PROVE  EventsFit' /\ OneTurn' /\ GivesUp' /\ LiveFit'
<1>1. /\ ChildEnds /\ eventsIn' = << >> /\ tapIn' = 0 /\ writing' = NoLine
      /\ current' = NoId /\ pending' = NoId
      /\ \A l \in Lines : pc'[l] # "claimed"
  BY DEF DaemonDies, Restart, TypeInv, SubmitTypes
<1>2. EventsFit' /\ Unheard'
  BY <1>1, IdsAre, NothingFits
<1>3. OneTurn' /\ GivesUp'
  BY <1>1, <1>2 DEF OneTurn, GivesUp, ChildEnds
<1>4. LiveFit'
  BY <1>1, <1>2 DEF LiveFit, Idle, Reserves, ChildEnds
<1> QED
  BY <1>2, <1>3, <1>4

LEMMA IdStep == TypeInv /\ AskedInv /\ IdInv /\ [Next]_vars => IdInv'
<1> SUFFICES ASSUME TypeInv, AskedInv, IdInv, [Next]_vars, ~crossed'
             PROVE  EventsFit' /\ OneTurn' /\ GivesUp' /\ LiveFit' /\ OwnIdentity'
  BY DEF IdInv
<1>1. ~crossed
  BY CrossedStays
<1>2. EventsFit /\ OneTurn /\ GivesUp /\ LiveFit /\ OwnIdentity
  BY <1>1 DEF IdInv
<1>3. CASE rows' = rows
  <2>1. OwnIdentity'
    BY <1>1, <1>2, <1>3 DEF OwnIdentity
  <2>2. CASE Submits
    <3> PICK l \in Lines : (\E r \in Routes[l] : Park(l, r) \/ Claim(l, r)) \/ Send(l) \/ SendFails(l)
      BY <2>2 DEF Submits
    <3>1. ASSUME NEW r \in Routes[l], Park(l, r) PROVE EventsFit' /\ OneTurn' /\ GivesUp' /\ LiveFit'
      <4>1. UNCHANGED idleVars /\ \A k \in Lines : Reserves(k)' => Reserves(k)
        BY <3>1 DEF Park, idleVars, idVars, streamVars, vendorVars, Reserves, TypeInv, SubmitTypes
      <4> QED
        BY <1>2, <4>1, SameFits, SameIsLive
    <3> QED
      BY <1>2, <2>1, <3>1, ClaimFits, SendFits, SendFailsFits
  <2>3. CASE Tap
    BY <1>2, <2>1, <2>3, RetireFits, AdvanceFits, RefusedFits, TapWritesFits, PutBackFits DEF Tap
  <2>4. CASE Translator
    BY <1>1, <1>2, <2>1, <2>4, TextFits, ResultFits, ClosesFits DEF Translator
  <2>5. CASE VendorSteps
    <3>1. ~Rereads /\ ~HearsLine
      BY <1>2 DEF OneTurn, Rereads, HearsLine
    <3> QED
      BY <1>2, <2>1, <2>5, <3>1, ReadsFits, EndsFits DEF VendorSteps
  <2>6. ~WakesItself
    BY DEF WakesItself, Meets
  <2>7. CASE UNCHANGED vars
    <3>1. UNCHANGED idleVars /\ \A k \in Lines : Reserves(k)' => Reserves(k)
      BY <2>7 DEF vars, idleVars, idVars, streamVars, vendorVars, submitVars, Reserves
    <3> QED
      BY <1>2, <2>1, <3>1, SameFits, SameIsLive
  <2> QED
    BY <1>2, <2>1, <2>2, <2>3, <2>4, <2>5, <2>6, <2>7, DiesFits, StartsFits DEF Next
<1>4. CASE rows' # rows
  <2>1. TurnResult \/ StreamCloses
    BY <1>4, RowsAre
  <2> QED
    BY <1>1, <1>2, <2>1, ResultFits, ClosesFits
<1> QED
  BY <1>3, <1>4

LEMMA IdInit == Init => IdInv
<1> SUFFICES ASSUME Init PROVE EventsFit /\ OneTurn /\ GivesUp /\ LiveFit /\ OwnIdentity
  BY DEF IdInv
<1>1. NoId # Vendor /\ DOMAIN << >> = {} /\ Len(<< >>) = 0
  BY DEF NoId, Vendor
<1> QED
  BY <1>1 DEF Init, EventsFit, OneTurn, GivesUp, LiveFit, OwnIdentity, Unheard, Reserves, Idle

\* A turn that is reported under the id of a line ran that line: the tap, which
\* reserves ids, and the translator, which reads them later, agree on whose turn it
\* is, as long as no two turns meet.
THEOREM ReportsItsOwn == Spec => []OwnIdentity
<1>1. Init => TypeInv /\ AskedInv /\ IdInv
  BY TypeInit, AskedInit, IdInit
<1>2. TypeInv /\ AskedInv /\ IdInv /\ [Next]_vars => (TypeInv /\ AskedInv /\ IdInv)'
  BY TypeStep, AskedStep, IdStep
<1>3. IdInv => OwnIdentity
  BY DEF IdInv, OwnIdentity
<1> QED
  BY <1>1, <1>2, <1>3, PTL DEF Spec

-----------------------------------------------------------------------------
(* What was accepted is kept.  A line that is owed a turn is in the queue, *)
(* and in the file; the line in flight is being written, is in the pipe,   *)
(* or was run, and was run when a result has not been read: that result is *)
(* its own, as there is one turn at a time.                                *)

\* The lines accepted as queued, commands excepted, ...
Owing   == {l \in Lines : pc[l] = "queued" /\ route[l] # "slash"}
Failed  == {r.id : r \in {x \in rows : x.failed}}
\* ... those the vendor has not run and no failed turn was reported for.
Open    == Owing \ (ran \union Failed)

FlightRan == queue.inFlight.members \subseteq ran
Flying ==
  /\ FlightRan \/ tapIn = 0
  /\ up = "live" => FlightRan \/ writing = queue.inFlight \/ stdin = <<queue.inFlight.members>>

KeptInv ==
  ~crossed =>
    /\ up # "down" => Open \subseteq Held(queue)
    /\ Open \subseteq Held(disk)
    /\ Flying

LEMMA KeptIsKept == KeptInv => QueuedIsKept
  BY DEF KeptInv, QueuedIsKept, Kept, Open, Owing, Failed

LEMMA KeptInit == Init => KeptInv
<1> SUFFICES ASSUME Init PROVE KeptInv
  OBVIOUS
<1>1. Open = {}
  BY DEF Init, Open, Owing
<1>2. NoLine.members = {}
  BY DEF NoLine
<1> QED
  BY <1>1, <1>2 DEF Init, KeptInv, Flying, FlightRan, Empty

\* What is owed is owed from the moment a line is parked, and no longer once it ran.
LEMMA OpenStays ==
  ASSUME TypeInv, [Next]_vars
  PROVE  Open' \subseteq Open \/ \E l \in Lines, r \in Route : Park(l, r)
<1> SUFFICES ASSUME ~\E l \in Lines, r \in Route : Park(l, r) PROVE Owing' \subseteq Owing
  <2>1. ran \subseteq ran' /\ rows \subseteq rows'
    BY RanStays, RowsStay
  <2> QED
    BY <2>1 DEF Open, Failed
<1> USE DEF Owing
<1>1. CASE Submits
  <2> PICK l \in Lines : (\E r \in Routes[l] : Park(l, r) \/ Claim(l, r)) \/ Send(l) \/ SendFails(l)
    BY <1>1 DEF Submits
  <2>1. \A r \in Routes[l] : ~Park(l, r)
    BY BoundsAssumption
  <2>2. route' = route /\ \E x \in {"claimed", "sent", "new"} : pc' = [pc EXCEPT ![l] = x]
    BY <2>1 DEF Claim, Send, SendFails
  <2> QED
    BY <2>2 DEF TypeInv, SubmitTypes
<1>2. CASE Tap
  BY <1>2 DEF Tap, Retire, Advance, AdvanceRefused, TapWrites, PutBack, Boundary, submitVars
<1>3. CASE Translator
  BY <1>3 DEF Translator, TurnText, TurnResult, StreamCloses, submitVars
<1>4. CASE VendorSteps \/ WakesItself
  BY <1>4 DEF VendorSteps, ReadsLine, Rereads, WakesItself, VendorOpens, HearsLine, Ends, submitVars
<1>5. CASE ChildDies \/ DaemonDies \/ Restart \/ UNCHANGED vars
  BY <1>5 DEF ChildDies, DaemonDies, Restart, submitVars, vars
<1> QED
  BY <1>1, <1>2, <1>3, <1>4, <1>5 DEF Next

-----------------------------------------------------------------------------
(* No line leaves the queue when an entry joins it, or a batch is taken.   *)

LEMMA HeldAppended ==
  ASSUME NEW q \in Queues, NEW e \in Entry, NEW p, p.inFlight = q.inFlight, p.parked = Append(q.parked, e)
  PROVE  Held(q) \union e.members \subseteq Held(p)
<1>1. q.parked \in Seq(Entry)
  BY DEF Queues
<1>2. /\ DOMAIN p.parked = DOMAIN q.parked \union {Len(q.parked) + 1}
      /\ p.parked[Len(q.parked) + 1] = e /\ \A i \in DOMAIN q.parked : p.parked[i] = q.parked[i]
  BY <1>1, Appended
<1> QED
  BY <1>2 DEF Held

LEMMA HeldPrepended ==
  ASSUME NEW s \in Seq(Entry), NEW e \in Entry, NEW p, p.parked = <<e>> \o s
  PROVE  e.members \union UNION {s[i].members : i \in DOMAIN s} \subseteq Held(p)
<1> DEFINE t == <<e>> \o s
<1>1. t[1] = e /\ 1 \in DOMAIN t
  BY Prepended
<1>2. \A i \in DOMAIN s : i + 1 \in DOMAIN t /\ t[i + 1] = s[i]
  BY ConcatProperties
<1> HIDE DEF t
<1>3. p.parked = t
  BY DEF t
<1> QED
  BY <1>1, <1>2, <1>3 DEF Held

LEMMA HeldBatch ==
  ASSUME NEW q \in Seq(Entry), q # << >>, NEW b \in Batches(q), NEW p, p.inFlight = b.line, p.parked = b.rest
  PROVE  UNION {q[i].members : i \in DOMAIN q} \subseteq Held(p)
<1>1. q[1] \in Entry /\ Len(q) \in Nat /\ DOMAIN q = 1 .. Len(q) /\ Len(q) >= 1
  BY EmptySeq
<1> SUFFICES ASSUME NEW n \in DOMAIN q,
                    b.line.members = UNION {q[i].members : i \in 1 .. n},
                    b.rest = SubSeq(q, n + 1, Len(q))
             PROVE  UNION {q[i].members : i \in DOMAIN q} \subseteq Held(p)
  <2>1. CASE ~q[1].note \/ q[1].frozen
    <3>1. b = [line |-> q[1], rest |-> Tail(q)]
      BY <2>1 DEF Batches
    <3>2. UNION {q[i].members : i \in 1 .. 1} = q[1].members
      OBVIOUS
    <3>3. Tail(q) = SubSeq(q, 1 + 1, Len(q))
      BY <1>1
    <3>4. 1 \in DOMAIN q /\ b.line.members = UNION {q[i].members : i \in 1 .. 1} /\ b.rest = SubSeq(q, 1 + 1, Len(q))
      BY <1>1, <3>1, <3>2, <3>3
    <3> QED
      BY <3>4
  <2>2. CASE ~(~q[1].note \/ q[1].frozen)
    <3>1. PICK n \in {m \in DOMAIN q : \A i \in 2 .. m : q[i].note /\ ~q[i].frozen} :
             b = [line |-> [q[1] EXCEPT !.members = UNION {q[i].members : i \in 1 .. n}, !.frozen = TRUE,
                                        !.replayed = \E i \in 1 .. n : q[i].replayed],
                  rest |-> SubSeq(q, n + 1, Len(q))]
      BY <2>2 DEF Batches
    <3>2. b.line.members = UNION {q[i].members : i \in 1 .. n} /\ b.rest = SubSeq(q, n + 1, Len(q)) /\ n \in DOMAIN q
      BY <1>1, <3>1 DEF Entry
    <3> QED
      BY <3>2
  <2> QED
    BY <2>1, <2>2
<1>2. /\ \A i \in 1 .. n : q[i].members \subseteq b.line.members
      /\ \A i \in DOMAIN q : i > n => i - n \in DOMAIN b.rest /\ b.rest[i - n] = q[i]
  <2>1. \A i \in 1 .. n : q[i].members \subseteq b.line.members
    OBVIOUS
  <2>2. Len(b.rest) = Len(q) - n /\ DOMAIN b.rest = 1 .. Len(b.rest) /\ \A i \in 1 .. Len(b.rest) : b.rest[i] = q[i + n]
    BY <1>1, SubSeqProperties
  <2>3. ASSUME NEW i \in DOMAIN q, i > n PROVE i - n \in DOMAIN b.rest /\ b.rest[i - n] = q[i]
    <3>1. i - n \in 1 .. Len(b.rest) /\ (i - n) + n = i
      BY <1>1, <2>2, <2>3
    <3> QED
      BY <2>2, <3>1
  <2> QED
    BY <2>1, <2>3
<1>3. ASSUME NEW i \in DOMAIN q PROVE q[i].members \subseteq Held(p)
  <2>1. CASE i <= n
    BY <1>1, <1>2, <2>1 DEF Held
  <2>2. CASE i > n
    BY <1>2, <2>2 DEF Held
  <2> QED
    BY <1>1, <2>1, <2>2
<1> QED
  BY <1>3

-----------------------------------------------------------------------------
(* Step by step.                                                           *)

\* What is known of a state in which no two turns have met.
Calm == TypeInv /\ ~crossed /\ OneTurn /\ OwnIdentity
        /\ (up # "down" => Open \subseteq Held(queue)) /\ Open \subseteq Held(disk) /\ Flying

\* A result that was not read is that of the line in flight; nothing is in the pipe
\* while a turn runs or a line is written.
LEMMA FlightIs ==
  ASSUME Calm
  PROVE  /\ tapIn > 0 \/ busy => FlightRan
         /\ writing # NoLine => stdin = << >> /\ tapIn = 0
         /\ stdin = << >> /\ writing = NoLine /\ up = "live" => FlightRan
<1>1. NoLine.members = {}
  BY DEF NoLine
<1>2. tapIn > 0 => FlightRan
  BY IdsAre DEF Calm, Flying
<1>3. stdin = << >> /\ writing = NoLine /\ up = "live" => FlightRan
  BY <1>1 DEF Calm, Flying, FlightRan
<1>4. writing # NoLine => stdin = << >> /\ tapIn = 0
  BY IdsAre DEF Calm, OneTurn
<1>5. busy => FlightRan
  BY <1>3 DEF Calm, OneTurn
<1> QED
  BY <1>2, <1>3, <1>4, <1>5

LEMMA ParkKeepsLines ==
  ASSUME Calm, [Next]_vars, NEW l \in Lines, NEW r \in Route, Park(l, r)
  PROVE  (up' # "down" => Open' \subseteq Held(queue')) /\ Open' \subseteq Held(disk')
<1> DEFINE e == Parked(l, r)
           q == [queue EXCEPT !.parked = Append(@, e)]
<1>1. queue \in Queues /\ disk \in Queues /\ pc \in [Lines -> {"new", "direct", "claimed", "sent", "queued", "lost"}]
      /\ route \in [Lines -> Route] /\ pc[l] = "new" /\ up # "down"
  BY DEF Calm, TypeInv, QueueTypes, SubmitTypes, Park, MaySubmit
<1>2. e \in Entry /\ e.members = {l}
  BY DEF Parked, Entry
<1>3. q.inFlight = queue.inFlight /\ q.parked = Append(queue.parked, e)
  BY <1>1 DEF Queues
<1>4. /\ route' = [route EXCEPT ![l] = r] /\ UNCHANGED <<up, ran, rows>>
      /\ \/ disk' = q /\ queue' = q /\ pc' = [pc EXCEPT ![l] = "queued"]
         \/ r = "slash" /\ disk' = disk /\ queue' = q /\ pc' = [pc EXCEPT ![l] = "queued"]
         \/ disk' = disk /\ queue' = queue /\ pc' = [pc EXCEPT ![l] = "direct"]
  BY DEF Park, Mirrors, MirrorFails, reportVars
<1> HIDE DEF q, e
<1>5. Held(queue) \union {l} \subseteq Held(q)
  BY <1>1, <1>2, <1>3, HeldAppended
<1>6. Open' \subseteq Open \union {l} /\ (r = "slash" \/ pc'[l] = "direct" => Open' \subseteq Open)
  BY <1>1, <1>4 DEF Open, Owing, Failed
<1>7. Open \subseteq Held(queue) /\ Open \subseteq Held(disk)
  BY <1>1 DEF Calm
<1> QED
  BY <1>1, <1>4, <1>5, <1>6, <1>7

LEMMA AdvanceKeepsLines ==
  ASSUME Calm, [Next]_vars, Advance, AskedInv
  PROVE  Open' \subseteq Held(queue') /\ Open' \subseteq Held(disk') /\ Flying'
<1> PICK b \in Batches(queue.parked) :
      writing' = b.line /\ queue' = [inFlight |-> b.line, parked |-> b.rest] /\ disk' = queue'
  BY AdvanceMoves DEF Calm
<1>1. queue.parked \in Seq(Entry) /\ queue.parked # << >>
  BY AdvanceMoves DEF Calm
<1>2. up # "down" /\ tapIn > 0 /\ tapIn' = tapIn - 1 /\ tapIn \in Nat /\ tapIn <= 1
      /\ UNCHANGED <<pc, route, ran, rows>>
  BY IdsAre DEF Advance, Boundary, Calm, OneTurn, submitVars, reportVars
<1>3. FlightRan
  BY <1>2, FlightIs
<1>4. UNION {queue.parked[i].members : i \in DOMAIN queue.parked} \subseteq Held(queue')
  BY <1>1, HeldBatch
<1>5. Open \subseteq Held(queue')
  BY <1>2, <1>3, <1>4 DEF Calm, Held, FlightRan, Open
<1>6. Open' = Open
  BY <1>2 DEF Open, Owing, Failed
<1>7. Flying'
  <2>1. tapIn' = 0 /\ writing' = queue'.inFlight
    BY <1>2
  <2> QED
    BY <2>1 DEF Flying
<1> QED
  BY <1>5, <1>6, <1>7

LEMMA RetireKeepsLines ==
  ASSUME Calm, [Next]_vars, Retire
  PROVE  Open' = {} /\ Flying'
<1>1. /\ up # "down" /\ tapIn > 0 /\ tapIn' = tapIn - 1 /\ queue.parked = << >>
      /\ queue' \in {queue, Empty} /\ UNCHANGED <<pc, route, ran, rows>>
  BY DEF Retire, Boundary, submitVars, reportVars
<1>2. FlightRan /\ Open \subseteq Held(queue) /\ NoLine.members = {}
  BY <1>1, FlightIs DEF Calm, NoLine
<1>3. Open = {}
  BY <1>1, <1>2 DEF Held, FlightRan, Open
<1>4. FlightRan'
  BY <1>1, <1>2 DEF FlightRan, Empty
<1> QED
  BY <1>1, <1>3, <1>4 DEF Open, Owing, Failed, Flying

LEMMA PutBackKeepsLines ==
  ASSUME Calm, [Next]_vars, PutBack
  PROVE  Open' \subseteq Held(queue') /\ Open' \subseteq Held(disk') /\ Flying'
<1>1. /\ writing \in Entry /\ writing = queue.inFlight /\ queue.parked \in Seq(Entry)
      /\ queue' = [inFlight |-> NoLine, parked |-> <<writing>> \o queue.parked]
      /\ disk' \in {queue', disk}
  BY PutBackMoves DEF Calm
<1>2. up = "closed" /\ up' = up /\ UNCHANGED <<pc, route, ran, rows>>
  BY DEF PutBack, submitVars, reportVars
<1>3. Held(queue) \subseteq Held(queue')
  <2>1. queue'.parked = <<writing>> \o queue.parked
    BY <1>1
  <2>2. writing.members \union UNION {queue.parked[i].members : i \in DOMAIN queue.parked} \subseteq Held(queue')
    BY <1>1, <2>1, HeldPrepended
  <2> QED
    BY <1>1, <2>2 DEF Held
<1>4. Open' = Open
  BY <1>2 DEF Open, Owing, Failed
<1>5. Open \subseteq Held(queue) /\ Open \subseteq Held(disk)
  BY <1>2 DEF Calm
<1>6. FlightRan'
  BY <1>1 DEF FlightRan, NoLine
<1> QED
  BY <1>1, <1>2, <1>3, <1>4, <1>5, <1>6 DEF Flying

\* What a restart does not queue of the file is owed nothing: it ran, or a turn of it
\* was reported as failed.
LEMMA RestartKeepsLines ==
  ASSUME Calm, AskedInv, RowInv, [Next]_vars, Restart
  PROVE  Open' \subseteq Held(queue') /\ Open' \subseteq Held(disk') /\ Flying'
<1> DEFINE q == disk.inFlight
<1>1. /\ disk.parked \in Seq(Entry) /\ q \in Entry \union {NoLine}
      /\ queue' = [inFlight |-> NoLine, parked |-> Loaded] /\ disk' = disk /\ NoLine.members = {}
  BY RestartMoves DEF Calm, NoLine
<1>2. Open \subseteq q.members \union UNION {disk.parked[i].members : i \in DOMAIN disk.parked}
  BY DEF Calm, Held
<1>3. Open' \subseteq Open /\ up' = "live"
  <2>1. UNCHANGED <<ran, rows, route>> /\ up' = "live"
        /\ pc' = [l \in Lines |-> IF pc[l] \in {"direct", "claimed"} THEN "new" ELSE pc[l]]
    BY DEF Restart, pastVars
  <2> QED
    BY <2>1 DEF Open, Owing, Failed
<1>4. Flying'
  BY <1>1 DEF Flying, FlightRan
<1>5. CASE Open \intersect q.members = {} /\ Loaded = disk.parked
  <2>1. queue'.parked = disk.parked
    BY <1>1, <1>5
  <2>2. UNION {disk.parked[i].members : i \in DOMAIN disk.parked} \subseteq Held(queue')
    BY <2>1 DEF Held
  <2> QED
    BY <1>1, <1>2, <1>3, <1>4, <1>5, <2>2 DEF Calm
<1>6. CASE \E e \in Entry : Loaded = <<e>> \o disk.parked /\ e.members = q.members
  <2> PICK e \in Entry : Loaded = <<e>> \o disk.parked /\ e.members = q.members
    BY <1>6
  <2>1. queue'.parked = <<e>> \o disk.parked
    BY <1>1
  <2>2. e.members \union UNION {disk.parked[i].members : i \in DOMAIN disk.parked} \subseteq Held(queue')
    <3> HIDE DEF q
    <3> QED
      BY <1>1, <2>1, HeldPrepended
  <2> QED
    BY <1>1, <1>2, <1>3, <1>4, <2>2 DEF Calm
<1>7. Good(AskedLines, q)
  BY DEF AskedInv, GoodQueue
<1>8. CASE q = NoLine
  <2>1. Loaded = disk.parked
    BY <1>8, LoadedIs
  <2> QED
    BY <1>1, <1>5, <1>8, <2>1
<1>9. CASE q # NoLine /\ q.note
  <2>1. Loaded = <<[q EXCEPT !.replayed = TRUE]>> \o disk.parked
    BY <1>9, LoadedIs
  <2>2. [q EXCEPT !.replayed = TRUE] \in Entry /\ [q EXCEPT !.replayed = TRUE].members = q.members
    BY <1>1, <1>9 DEF Entry
  <2> QED
    BY <1>6, <2>1, <2>2
<1>10. CASE q # NoLine /\ ~q.note /\ \E r \in rows : r.id = q.id
  <2>1. Loaded = disk.parked
    BY <1>10, LoadedIs
  <2>2. PICK r \in rows : r.id = q.id
    BY <1>10
  <2>3. q.members = {q.id} /\ q.id \in Lines
    BY <1>1, <1>7, <1>10 DEF Good, Entry
  <2>4. CASE r.failed
    BY <1>5, <2>1, <2>2, <2>3, <2>4 DEF Open, Failed
  <2>5. CASE ~r.failed
    <3>1. q.id \in r.of
      BY <2>2, <2>3, <2>5 DEF Calm, OwnIdentity
    <3>2. r.of \subseteq ran
      BY <2>2 DEF RowInv
    <3> QED
      BY <1>5, <2>1, <2>3, <3>1, <3>2 DEF Open
  <2> QED
    BY <2>4, <2>5
<1>11. CASE q # NoLine /\ ~q.note /\ ~\E r \in rows : r.id = q.id
  <2>1. Loaded = <<q>> \o disk.parked /\ q \in Entry
    BY <1>1, <1>11, LoadedIs
  <2> QED
    BY <1>6, <2>1
<1> QED
  BY <1>8, <1>9, <1>10, <1>11

\* The line in flight is written, is read as a turn of its own and ends before the
\* next boundary, whatever else happens.
LEMMA FlyingStays ==
  ASSUME Calm, ~crossed', IdInv', [Next]_vars, ~Retire, ~Advance, ~PutBack
  PROVE  Flying'
<1>1. ran \subseteq ran' /\ NoLine.members = {}
  BY RanStays DEF Calm, NoLine
<1>2. FlightRan /\ queue' = queue => FlightRan'
  BY <1>1 DEF FlightRan
<1>3. queue'.inFlight = NoLine => FlightRan'
  BY <1>1 DEF FlightRan
<1>4. FlightRan' => Flying'
  BY DEF Flying
\* Nothing changes hands.
<1>5. ASSUME queue'.inFlight = queue.inFlight, tapIn' = tapIn,
             up' = "live" => up = "live" /\ writing' = writing /\ stdin' = stdin
      PROVE  Flying'
  BY <1>1, <1>5 DEF Calm, Flying, FlightRan
<1>6. CASE Submits
  <2> PICK l \in Lines : (\E r \in Routes[l] : Park(l, r) \/ Claim(l, r)) \/ Send(l) \/ SendFails(l)
    BY <1>6 DEF Submits
  <2>1. CASE \E r \in Routes[l] : Park(l, r)
    <3> PICK r \in Routes[l] : Park(l, r)
      BY <2>1
    <3>1. r \in Route
      BY BoundsAssumption
    <3>2. queue'.inFlight = queue.inFlight
      BY <3>1, ParkMoves DEF Calm
    <3> QED
      BY <1>5, <3>2 DEF Park, streamVars, vendorVars
  <2>2. CASE \E r \in Routes[l] : Claim(l, r)
    BY <1>5, <2>2 DEF Claim, streamVars, vendorVars
  <2>3. CASE Send(l)
    <3>1. AtRest /\ up = "live" /\ queue' = queue
      BY <2>3 DEF Send, Meets, Calm
    <3>2. FlightRan
      BY <3>1, FlightIs DEF AtRest
    <3> QED
      BY <1>2, <1>4, <3>1, <3>2
  <2>4. CASE SendFails(l)
    BY <1>5, <2>4 DEF SendFails, streamVars, vendorVars
  <2> QED
    BY <2>1, <2>2, <2>3, <2>4
<1>7. CASE AdvanceRefused
  <2>1. tapIn > 0 /\ queue' = queue
    BY <1>7 DEF AdvanceRefused, Boundary
  <2> QED
    BY <1>2, <1>4, <2>1, FlightIs
<1>8. CASE TapWrites
  <2>1. /\ writing # NoLine /\ writing = queue.inFlight /\ queue' = queue /\ tapIn' = tapIn
        /\ stdin' = Append(stdin, writing.members)
    BY <1>8 DEF TapWrites, Calm, TypeInv, QueueTypes, streamVars
  <2>2. stdin = << >> /\ tapIn = 0
    BY <2>1, FlightIs
  <2>3. stdin' = <<queue'.inFlight.members>>
    BY <2>1, <2>2
  <2> QED
    BY <2>1, <2>2, <2>3 DEF Flying
<1>9. CASE Translator
  BY <1>5, <1>9 DEF Translator, TurnText, TurnResult, StreamCloses, vendorVars, streamVars
<1>10. CASE ReadsLine
  <2>1. /\ up = "live" /\ stdin # << >> /\ ran' = ran \union Head(stdin) /\ queue' = queue /\ ~busy
    BY <1>10 DEF ReadsLine, VendorOpens
  <2>2. FlightRan \/ writing = queue.inFlight \/ stdin = <<queue.inFlight.members>>
    BY <2>1 DEF Calm, Flying
  <2>3. CASE FlightRan
    BY <1>2, <1>4, <2>1, <2>3
  <2>4. CASE writing = queue.inFlight
    <3>1. writing = NoLine
      BY <2>1, FlightIs
    <3> QED
      BY <1>3, <1>4, <2>1, <2>4, <3>1
  <2>5. CASE stdin = <<queue.inFlight.members>>
    <3>1. Head(stdin) = queue.inFlight.members
      BY <2>5
    <3> QED
      BY <1>4, <2>1, <3>1 DEF FlightRan
  <2> QED
    BY <2>2, <2>3, <2>4, <2>5
<1>11. CASE Rereads \/ WakesItself
  <2>1. ~Rereads
    BY DEF Rereads, Calm, OneTurn
  <2>2. ~WakesItself
    BY DEF WakesItself, Meets
  <2> QED
    BY <1>11, <2>1, <2>2
<1>12. CASE HearsLine \/ Ends
  <2>1. busy /\ queue' = queue
    BY <1>12 DEF HearsLine, Ends
  <2> QED
    BY <1>2, <1>4, <2>1, FlightIs
<1>13. CASE ChildDies
  BY <1>5, <1>13 DEF ChildDies, streamVars
<1>14. CASE DaemonDies \/ Restart
  <2>1. queue'.inFlight = NoLine
    BY <1>14 DEF DaemonDies, Restart, Empty
  <2> QED
    BY <1>3, <1>4, <2>1
<1>15. CASE UNCHANGED vars
  BY <1>5, <1>15 DEF vars, streamVars, vendorVars
<1> QED
  BY <1>6, <1>7, <1>8, <1>9, <1>10, <1>11, <1>12, <1>13, <1>14, <1>15 DEF Next, Tap, VendorSteps

LEMMA KeptStep ==
  TypeInv /\ AskedInv /\ RowInv /\ IdInv /\ KeptInv /\ IdInv' /\ [Next]_vars => KeptInv'
<1> SUFFICES ASSUME TypeInv, AskedInv, RowInv, IdInv, KeptInv, IdInv', [Next]_vars, ~crossed'
             PROVE  (up' # "down" => Open' \subseteq Held(queue')) /\ Open' \subseteq Held(disk') /\ Flying'
  BY DEF KeptInv
<1>1. Calm
  <2>1. ~crossed
    BY CrossedStays
  <2> QED
    BY <2>1 DEF KeptInv, IdInv, Calm
<1>2. CASE Retire
  BY <1>1, <1>2, RetireKeepsLines
<1>3. CASE Advance
  BY <1>1, <1>3, AdvanceKeepsLines
<1>4. CASE PutBack
  BY <1>1, <1>4, PutBackKeepsLines
<1>5. CASE Restart
  BY <1>1, <1>5, RestartKeepsLines
<1> SUFFICES ASSUME ~Retire, ~Advance, ~PutBack, ~Restart
             PROVE  (up' # "down" => Open' \subseteq Held(queue')) /\ Open' \subseteq Held(disk')
  BY <1>1, <1>2, <1>3, <1>4, <1>5, FlyingStays
<1>6. CASE \E l \in Lines, r \in Route : Park(l, r)
  BY <1>1, <1>6, ParkKeepsLines
<1>7. CASE ~\E l \in Lines, r \in Route : Park(l, r)
  <2>1. Open' \subseteq Open
    BY <1>7, OpenStays
  <2>2. CASE DaemonDies
    BY <1>1, <2>1, <2>2 DEF DaemonDies, Calm
  <2>3. CASE ~DaemonDies
    <3>1. queue' = queue /\ disk' = disk
      BY <1>7, <2>3, OthersStay DEF Moves, TapWrites, lineVars
    <3>2. up' # "down" => up # "down"
      <4>1. CASE Submits
        BY <4>1 DEF Submits, Park, Claim, Send, SendFails
      <4>2. CASE Tap
        BY <4>2 DEF Tap, Retire, Advance, AdvanceRefused, TapWrites, PutBack, Boundary
      <4>3. CASE Translator
        BY <4>3 DEF Translator, TurnText, TurnResult, StreamCloses
      <4>4. CASE VendorSteps \/ WakesItself
        BY <4>4 DEF VendorSteps, ReadsLine, Rereads, WakesItself, VendorOpens, HearsLine, Ends
      <4>5. CASE ChildDies \/ UNCHANGED vars
        BY <4>5 DEF ChildDies, vars
      <4> QED
        BY <2>3, <4>1, <4>2, <4>3, <4>4, <4>5 DEF Next
    <3> QED
      BY <1>1, <2>1, <3>1, <3>2 DEF Calm
  <2> QED
    BY <2>2, <2>3
<1> QED
  BY <1>6, <1>7

\* A line accepted as queued is on disk until the vendor ran it or a failed turn was
\* reported for it, through failed writes, refused lines and the end of either
\* process, as long as no two turns meet: what a restart leaves out of the file is
\* what a row was reported for, and that row ran the line it names.
THEOREM KeepsWhatIsQueued == Spec => []QueuedIsKept
<1> DEFINE Inv == TypeInv /\ AskedInv /\ OrderInv /\ MarkInv /\ RowInv /\ IdInv /\ KeptInv
<1>1. Init => Inv
  BY TypeInit, AskedInit, OrderInit, MarkInit, RowInit, IdInit, KeptInit
<1>2. Inv /\ [Next]_vars => Inv'
  BY TypeStep, AskedStep, OrderStep, MarkStep, RowStep, IdStep, KeptStep
<1>3. Inv => QueuedIsKept
  BY KeptIsKept
<1> QED
  BY <1>1, <1>2, <1>3, PTL DEF Spec
=============================================================================
