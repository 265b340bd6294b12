--------------------------- MODULE ChoicesProofs ---------------------------
(***************************************************************************)
(* What holds of Choices for any number of sessions, questions, clicks and *)
(* other lines: its states are well typed, a prompt that can be answered   *)
(* has an asker that waits for the answer, and what the vendor is told is  *)
(* what a person chose.  The invariant follows an answer from the click    *)
(* over the oneshot and the reply to the vendor, and needs of the          *)
(* broadcast that it holds a question at most once.                        *)
(***************************************************************************)
EXTENDS Choices, SequenceTheorems, TLAPS

\* Nothing has been registered for a question in one of these phases.
Early == {"unasked", "queued", "context", "bound"}

FeedIsQueued ==
  \A s \in Sessions : \A i \in DOMAIN feed[s] :
    feed[s][i] # Noise => step[feed[s][i]] = "queued" /\ SessionOf[feed[s][i]] = s

FeedHoldsOnce ==
  \A s \in Sessions : \A i, j \in DOMAIN feed[s] :
    feed[s][i] = feed[s][j] /\ feed[s][i] # Noise => i = j

FeedInv == FeedIsQueued /\ FeedHoldsOnce

NotYet == \A a \in Asks : step[a] \in Early => chosen[a] = "none" /\ box[a] = "none" /\ a \notin reg

Answerable ==
  \A a \in reg : chosen[a] = "none" /\ box[a] = "open" /\ (step[a] = "lapsing" => a \in lapsed)

CancelMeansClosed == \A a \in Asks : step[a] = "cancelling" => process[SessionOf[a]] = "closed"

HandHolds == hand # << >> => chosen[hand[1]] = hand[2]

SaysWhatWasChosen ==
  \A a \in Asks : /\ box[a] \in Verdicts => chosen[a] = box[a]
                  /\ reply[a] \notin {"none", "deny"} => chosen[a] = reply[a]
                  /\ verdict[a] \notin {"none", "timeout", "deny"} => chosen[a] = verdict[a]

ToldAtTheEnd ==
  \A a \in Asks :
    verdict[a] \notin {"none", "timeout"} => step[a] = "done" \/ session[SessionOf[a]] # "tracked"

\* Where an answer is that a person gave in time.
Underway(a) ==
  \/ step[a] = "asking" /\ ((hand = <<a, chosen[a]>> /\ box[a] = "open") \/ box[a] = chosen[a])
  \/ step[a] = "replying" /\ reply[a] = chosen[a]
  \/ step[a] = "done" /\ verdict[a] \in {chosen[a], "timeout"}

OnItsWay == \A a \in Asks : chosen[a] # "none" /\ InTime(a) => Underway(a)

AskInv ==
  /\ NotYet /\ Answerable /\ CancelMeansClosed /\ PromptHasItsAsker
  /\ HandHolds /\ SaysWhatWasChosen /\ ToldAtTheEnd /\ OnItsWay

IInv == ChoicesTypeOK /\ FeedInv /\ AskInv

-----------------------------------------------------------------------------

LEMMA Constants ==
  /\ Noise \notin Asks
  /\ \A a \in Asks : SessionOf[a] \in Sessions
  /\ Buffer \in Nat /\ Buffer > 0 /\ MaxNoise \in Nat /\ MaxAnswers \in Nat
BY AsksAssumption, BoundsAssumption DEF Noise

\* A line joins a feed, at the end, and may push out the oldest.
LEMMA Broadcasts ==
  ASSUME ChoicesTypeOK, NEW s \in Sessions, NEW line \in Asks \cup {Noise}, Broadcast(s, line)
  PROVE  /\ feed' \in [Sessions -> Seq(Asks \cup {Noise})] /\ lost' \subseteq Asks
         /\ \A t \in Sessions \ {s} : feed'[t] = feed[t]
         /\ \E d \in {0, 1} : \A i \in DOMAIN feed'[s] :
              \/ i + d \in DOMAIN feed[s] /\ feed'[s][i] = feed[s][i + d]
              \/ i = Len(feed'[s]) /\ feed'[s][i] = line
<1> DEFINE q == feed[s]
<1>1. q \in Seq(Asks \cup {Noise}) /\ feed \in [Sessions -> Seq(Asks \cup {Noise})]
  BY DEF ChoicesTypeOK
<1>2. \A t \in Sessions \ {s} : feed'[t] = feed[t]
  BY <1>1 DEF Broadcast
<1>3. CASE Len(q) < Buffer
  <2>1. feed'[s] = Append(q, line) /\ lost' = lost
    BY <1>1, <1>3 DEF Broadcast
  <2>2. \A i \in DOMAIN Append(q, line) :
          \/ i + 0 \in DOMAIN q /\ Append(q, line)[i] = q[i + 0]
          \/ i = Len(Append(q, line)) /\ Append(q, line)[i] = line
    BY <1>1, AppendProperties
  <2>3. feed' \in [Sessions -> Seq(Asks \cup {Noise})]
    BY <1>1, <1>3, AppendProperties DEF Broadcast
  <2> QED
    BY <1>2, <2>1, <2>2, <2>3 DEF ChoicesTypeOK
<1>4. CASE ~(Len(q) < Buffer)
  <2> DEFINE r == Append(Tail(q), line)
  <2>1. q # << >> /\ Len(q) \in Nat
    BY <1>1, <1>4, Constants, EmptySeq
  <2>2. Tail(q) \in Seq(Asks \cup {Noise}) /\ Head(q) \in Asks \cup {Noise}
        /\ Len(Tail(q)) = Len(q) - 1 /\ \A i \in 1 .. Len(Tail(q)) : Tail(q)[i] = q[i + 1]
    BY <1>1, <2>1, HeadTailProperties
  <2>3. feed'[s] = r /\ lost' = lost \cup ({Head(q)} \ {Noise})
    BY <1>1, <1>4 DEF Broadcast
  <2>4. /\ r \in Seq(Asks \cup {Noise}) /\ Len(r) = Len(q)
        /\ r[Len(q)] = line /\ \A i \in 1 .. Len(q) - 1 : r[i] = q[i + 1]
    BY <2>1, <2>2, AppendProperties
  <2>5. \A i \in DOMAIN r :
          \/ i + 1 \in DOMAIN q /\ r[i] = q[i + 1]
          \/ i = Len(r) /\ r[i] = line
    BY <1>1, <2>1, <2>4
  <2>6. feed' \in [Sessions -> Seq(Asks \cup {Noise})]
    BY <1>1, <1>4, <2>4 DEF Broadcast
  <2>7. lost' \subseteq Asks
    BY <2>2, <2>3 DEF ChoicesTypeOK
  <2> QED
    BY <1>2, <2>3, <2>5, <2>6, <2>7
<1> QED
  BY <1>3, <1>4

\* The front of a feed goes to the asker.
LEMMA TakesLine ==
  ASSUME ChoicesTypeOK, NEW s \in Sessions, feed[s] # << >>,
         feed' = [feed EXCEPT ![s] = Tail(@)]
  PROVE  /\ feed' \in [Sessions -> Seq(Asks \cup {Noise})]
         /\ Head(feed[s]) \in Asks \cup {Noise} /\ Head(feed[s]) = feed[s][1] /\ 1 \in DOMAIN feed[s]
         /\ \A t \in Sessions \ {s} : feed'[t] = feed[t]
         /\ \A i \in DOMAIN feed'[s] : i + 1 \in DOMAIN feed[s] /\ i + 1 # 1 /\ feed'[s][i] = feed[s][i + 1]
<1>1. feed[s] \in Seq(Asks \cup {Noise}) /\ feed \in [Sessions -> Seq(Asks \cup {Noise})]
  BY DEF ChoicesTypeOK
<1>2. /\ Tail(feed[s]) \in Seq(Asks \cup {Noise}) /\ Head(feed[s]) \in Asks \cup {Noise}
      /\ Len(Tail(feed[s])) = Len(feed[s]) - 1
      /\ \A i \in 1 .. Len(Tail(feed[s])) : Tail(feed[s])[i] = feed[s][i + 1]
  BY <1>1, HeadTailProperties
<1>3. Len(feed[s]) \in Nat /\ Len(feed[s]) > 0 /\ Head(feed[s]) = feed[s][1]
  BY <1>1, EmptySeq
<1>4. feed'[s] = Tail(feed[s])
  BY <1>1
<1>5. \A i \in DOMAIN feed'[s] : i + 1 \in DOMAIN feed[s] /\ i + 1 # 1 /\ feed'[s][i] = feed[s][i + 1]
  BY <1>1, <1>2, <1>3, <1>4
<1> QED
  BY <1>1, <1>2, <1>3, <1>5

-----------------------------------------------------------------------------
(* Types.                                                                  *)

LEMMA TypeInit == Init => ChoicesTypeOK
<1> SUFFICES ASSUME Init PROVE ChoicesTypeOK
  OBVIOUS
<1>1. feed \in [Sessions -> Seq(Asks \cup {Noise})]
  BY EmptySeq DEF Init
<1>2. noise \in 0 .. MaxNoise /\ answers \in 0 .. MaxAnswers
  BY Constants DEF Init
<1> QED
  BY <1>1, <1>2 DEF Init, ChoicesTypeOK, Steps, Under, Awaiting

\* The steps that leave the broadcast alone.
LEMMA TypeOfAsk ==
  ASSUME ChoicesTypeOK, NEW a \in Asks
  PROVE  /\ Asking(a) => ChoicesTypeOK'
         /\ VendorGivesUp(a) \/ Expires(a) \/ OuterTimeout(a) \/ BadOption(a) => ChoicesTypeOK'
<1> USE DEF ChoicesTypeOK, sessionVars, vendorVars, askVars, registry, history, Steps, Under, Awaiting, Verdicts
<1>1. Context(a) => ChoicesTypeOK'
  <2>1. Context(a) => step' \in [Asks -> Steps] /\ reply' \in [Asks -> {"none"} \cup Verdicts]
    <3>1. Context(a) => \/ /\ step' = [step EXCEPT ![a] = "replying"]
                           /\ reply' = [reply EXCEPT ![a] = "deny"]
                        \/ step' = [step EXCEPT ![a] = "bound"] /\ reply' = reply
      BY DEF Context
    <3>2. CASE step' = [step EXCEPT ![a] = "replying"] /\ reply' = [reply EXCEPT ![a] = "deny"]
      BY <3>2
    <3>3. CASE step' = [step EXCEPT ![a] = "bound"] /\ reply' = reply
      BY <3>3
    <3> QED
      BY <3>1, <3>2, <3>3
  <2> QED
    BY <2>1 DEF Context
<1>2. Register(a) => ChoicesTypeOK'
  BY DEF Register
<1>3. Selected(a) => ChoicesTypeOK'
  BY DEF Selected
<1>4. Unanswered(a) => ChoicesTypeOK'
  BY DEF Unanswered
<1>5. TakesBack(a) => ChoicesTypeOK'
  BY DEF TakesBack
<1>6. SeesTheEnd(a) => ChoicesTypeOK'
  BY DEF SeesTheEnd
<1>7. Cancels(a) => ChoicesTypeOK'
  BY DEF Cancels, DrainSid, Closed, Of
<1>8. Replies(a) => ChoicesTypeOK'
  BY DEF Replies
<1>9. VendorGivesUp(a) => ChoicesTypeOK'
  BY DEF VendorGivesUp
<1>10. Expires(a) => ChoicesTypeOK'
  BY DEF Expires
<1>11. OuterTimeout(a) => ChoicesTypeOK'
  BY DEF OuterTimeout
<1>12. BadOption(a) => ChoicesTypeOK'
  BY Constants DEF BadOption, Closed
<1> QED
  BY <1>1, <1>2, <1>3, <1>4, <1>5, <1>6, <1>7, <1>8, <1>9, <1>10, <1>11, <1>12 DEF Asking

LEMMA TypeOfSession ==
  ASSUME ChoicesTypeOK, NEW s \in Sessions
  PROVE  Dies(s) \/ PumpEnds(s) \/ Stop(s) \/ Stopping(s) => ChoicesTypeOK'
<1> USE DEF ChoicesTypeOK, sessionVars, vendorVars, askVars, registry, history, Steps, Under, Awaiting, Verdicts
<1>1. Dies(s) => ChoicesTypeOK'
  BY DEF Dies
<1>2. PumpEnds(s) => ChoicesTypeOK'
  BY DEF PumpEnds, DrainSid, Closed, Of
<1>3. Stop(s) => ChoicesTypeOK'
  <2>1. Stop(s) => /\ process' \in [Sessions -> {"up", "closed"}]
                   /\ verdict' \in [Asks -> {"none", "timeout"} \cup Verdicts]
    <3>1. CASE vendor[s] = "pi"
      BY <3>1 DEF Stop
    <3>2. vendor[s] # "pi" /\ Stop(s) =>
            process' = [process EXCEPT ![s] = "closed"] /\ verdict' = verdict
      BY DEF Stop
    <3>3. CASE process' = [process EXCEPT ![s] = "closed"] /\ verdict' = verdict
      BY <3>3
    <3> QED
      BY <3>1, <3>2, <3>3
  <2> QED
    BY <2>1 DEF Stop
<1>4. StopCancels(s) => ChoicesTypeOK'
  BY DEF StopCancels, DrainSid, Closed, Of
<1>5. StopAborts(s) => ChoicesTypeOK'
  BY DEF StopAborts, Of
<1>6. StopEnds(s) => ChoicesTypeOK'
  BY DEF StopEnds
<1> QED
  BY <1>1, <1>2, <1>3, <1>4, <1>5, <1>6 DEF Stopping

LEMMA TypeOfFeed ==
  ASSUME ChoicesTypeOK
  PROVE  /\ \A a \in Asks : Asked(a) => ChoicesTypeOK'
         /\ \A s \in Sessions : Streams(s) \/ Receives(s) => ChoicesTypeOK'
<1> USE DEF ChoicesTypeOK, sessionVars, vendorVars, askVars, registry, history, Steps, Under, Awaiting, Verdicts
<1>1. ASSUME NEW a \in Asks, Asked(a) PROVE ChoicesTypeOK'
  <2>1. feed' \in [Sessions -> Seq(Asks \cup {Noise})] /\ lost' \subseteq Asks
    BY <1>1, Broadcasts, Constants DEF Asked
  <2>2. step' \in [Asks -> Steps] /\ noise' = noise
    BY <1>1 DEF Asked
  <2> QED
    BY <1>1, <2>1, <2>2 DEF Asked
<1>2. ASSUME NEW s \in Sessions, Streams(s) PROVE ChoicesTypeOK'
  <2>1. feed' \in [Sessions -> Seq(Asks \cup {Noise})] /\ lost' \subseteq Asks
    BY <1>2, Broadcasts DEF Streams
  <2>2. noise' \in 0 .. MaxNoise
    BY <1>2, Constants DEF Streams
  <2> QED
    BY <1>2, <2>1, <2>2 DEF Streams
<1>3. ASSUME NEW s \in Sessions, Receives(s) PROVE ChoicesTypeOK'
  <2>1. feed' \in [Sessions -> Seq(Asks \cup {Noise})]
    BY <1>3, TakesLine DEF Receives
  <2>2. step' \in [Asks -> Steps]
    BY <1>3 DEF Receives
  <2> QED
    BY <1>3, <2>1, <2>2 DEF Receives
<1> QED
  BY <1>1, <1>2, <1>3

LEMMA TypeOfPeople ==
  ASSUME ChoicesTypeOK
  PROVE  /\ \A P \in SUBSET Asks, c \in Verdicts : Takes(P, c) => ChoicesTypeOK'
         /\ Delivers => ChoicesTypeOK'
<1> USE DEF ChoicesTypeOK, sessionVars, vendorVars, askVars, registry, history, Verdicts
<1>1. ASSUME NEW P \in SUBSET Asks, NEW c \in Verdicts, Takes(P, c) PROVE ChoicesTypeOK'
  <2>1. answers' \in 0 .. MaxAnswers
    BY <1>1, Constants DEF Takes
  <2>2. hand' \in {<< >>} \cup (Asks \X Verdicts) /\ chosen' \in [Asks -> {"none"} \cup Verdicts] /\ reg' \subseteq Asks
    <3>1. CASE P \cap (reg \ lapsed) = {} /\ reg' = reg \ lapsed /\ UNCHANGED <<hand, chosen>>
      BY <3>1
    <3>2. ASSUME NEW a \in P \cap (reg \ lapsed),
                 reg' = (reg \ lapsed) \ {a} /\ hand' = <<a, c>> /\ chosen' = [chosen EXCEPT ![a] = c]
          PROVE  hand' \in {<< >>} \cup (Asks \X Verdicts) /\ chosen' \in [Asks -> {"none"} \cup Verdicts]
                 /\ reg' \subseteq Asks
      BY <3>2
    <3> QED
      BY <1>1, <3>1, <3>2 DEF Takes
  <2>3. box' \in [Asks -> {"none", "open", "closed"} \cup Verdicts]
    BY <1>1 DEF Takes, Closed
  <2> QED
    BY <1>1, <2>1, <2>2, <2>3 DEF Takes
<1>2. ASSUME Delivers PROVE ChoicesTypeOK'
  <2>1. hand[2] \in Verdicts
    BY <1>2 DEF Delivers
  <2> QED
    BY <1>2, <2>1 DEF Delivers
<1> QED
  BY <1>1, <1>2

\* What people do, as answers to prompts.
LEMMA PeopleTake ==
  /\ \A a \in Asks : Click(a) =>
       \E P \in SUBSET Asks, c \in Verdicts : (\A b \in P : step[b] \notin Early) /\ Takes(P, c)
  /\ \A s \in Sessions : Text(s) => \E P \in SUBSET Asks, c \in Verdicts : Takes(P, c)
<1>1. ASSUME NEW a \in Asks, Click(a)
      PROVE  \E P \in SUBSET Asks, c \in Verdicts : (\A b \in P : step[b] \notin Early) /\ Takes(P, c)
  <2>1. PICK c \in AnswersTo(a) : Takes({a}, c)
    BY <1>1 DEF Click
  <2>2. c \in Verdicts /\ {a} \in SUBSET Asks /\ \A b \in {a} : step[b] \notin Early
    BY <1>1 DEF AnswersTo, Verdicts, Click, Early
  <2> QED
    BY <2>1, <2>2
<1>2. ASSUME NEW s \in Sessions, Text(s)
      PROVE  \E P \in SUBSET Asks, c \in Verdicts : Takes(P, c)
  BY <1>2 DEF Text, Texts, Of, Verdicts
<1> QED
  BY <1>1, <1>2

LEMMA TypeStep == ChoicesTypeOK /\ [Next]_vars => ChoicesTypeOK'
<1> SUFFICES ASSUME ChoicesTypeOK, [Next]_vars PROVE ChoicesTypeOK'
  OBVIOUS
<1>1. ASSUME NEW a \in Asks, Asked(a) PROVE ChoicesTypeOK'
  BY <1>1, TypeOfFeed
<1>2. ASSUME NEW a \in Asks,
             VendorGivesUp(a) \/ Asking(a) \/ Expires(a) \/ OuterTimeout(a) \/ BadOption(a)
      PROVE  ChoicesTypeOK'
  BY <1>2, TypeOfAsk
<1>3. ASSUME NEW a \in Asks, Click(a) PROVE ChoicesTypeOK'
  BY <1>3, PeopleTake, TypeOfPeople
<1>4. ASSUME NEW s \in Sessions, Text(s) PROVE ChoicesTypeOK'
  BY <1>4, PeopleTake, TypeOfPeople
<1>5. ASSUME NEW s \in Sessions, Dies(s) \/ Relaying(s) \/ Streams(s) \/ Stop(s) \/ Stopping(s)
      PROVE  ChoicesTypeOK'
  BY <1>5, TypeOfFeed, TypeOfSession DEF Relaying
<1>6. CASE Delivers
  BY <1>6, TypeOfPeople
<1>7. CASE UNCHANGED vars
  BY <1>7 DEF vars, ChoicesTypeOK, sessionVars, vendorVars, askVars, registry, history
<1> QED
  BY <1>1, <1>2, <1>3, <1>4, <1>5, <1>6, <1>7 DEF Next

\* Every state of the questions of any number of sessions is well typed: the
\* hand between take_by_token and send holds an answer, the broadcast lines.
THEOREM TypeCorrect == Spec => []ChoicesTypeOK
BY TypeInit, TypeStep, PTL DEF Spec

-----------------------------------------------------------------------------
(* The broadcast holds a question at most once, and only before it is read. *)

LEMMA FeedOfAsked ==
  ASSUME ChoicesTypeOK, FeedInv, NEW a \in Asks, Asked(a)
  PROVE  FeedInv'
<1>1. CASE feed' = feed /\ step' = [step EXCEPT ![a] = "context"]
  BY <1>1 DEF FeedInv, FeedIsQueued, FeedHoldsOnce, ChoicesTypeOK, Asked
<1>2. CASE step' = [step EXCEPT ![a] = "queued"] /\ Broadcast(SessionOf[a], a)
  <2> DEFINE s == SessionOf[a]
  <2>1. s \in Sessions /\ step[a] = "unasked" /\ step \in [Asks -> Steps]
    BY Constants DEF Asked, ChoicesTypeOK
  <2>2. \A t \in Sessions : \A i \in DOMAIN feed[t] : feed[t][i] # a
    BY <2>1, Constants DEF FeedInv, FeedIsQueued
  <2>3. PICK d \in {0, 1} : \A i \in DOMAIN feed'[s] :
              \/ i + d \in DOMAIN feed[s] /\ feed'[s][i] = feed[s][i + d]
              \/ i = Len(feed'[s]) /\ feed'[s][i] = a
    BY <1>2, <2>1, Broadcasts
  <2>4. \A t \in Sessions \ {s} : feed'[t] = feed[t]
    BY <1>2, <2>1, Broadcasts
  <2>5. DOMAIN feed'[s] \subseteq Nat
    <3>1. feed'[s] \in Seq(Asks \cup {Noise})
      BY <1>2, <2>1, Broadcasts
    <3> QED
      BY <3>1
  <2>6. \A t \in Sessions : \A i \in DOMAIN feed[t] :
          feed[t][i] # Noise => feed[t][i] # a /\ step[feed[t][i]] = "queued" /\ SessionOf[feed[t][i]] = t
    BY <2>2 DEF FeedInv, FeedIsQueued
  <2>7. \A b : step[b] = "queued" /\ b # a => step'[b] = "queued"
    BY <1>2, <2>1
  <2>8. step'[a] = "queued"
    BY <1>2, <2>1
  <2>9. FeedIsQueued'
    <3> SUFFICES ASSUME NEW t \in Sessions, NEW i \in DOMAIN feed'[t], feed'[t][i] # Noise
                 PROVE  step'[feed'[t][i]] = "queued" /\ SessionOf[feed'[t][i]] = t
      BY DEF FeedIsQueued
    <3>1. CASE t # s
      BY <2>4, <2>6, <2>7, <3>1
    <3>2. CASE t = s
      BY <2>3, <2>6, <2>7, <2>8, <3>2
    <3> QED
      BY <3>1, <3>2
  <2>10. FeedHoldsOnce'
    <3> SUFFICES ASSUME NEW t \in Sessions, NEW i \in DOMAIN feed'[t], NEW j \in DOMAIN feed'[t],
                        feed'[t][i] = feed'[t][j], feed'[t][i] # Noise
                 PROVE  i = j
      BY DEF FeedHoldsOnce
    <3>1. CASE t # s
      BY <2>4, <3>1 DEF FeedInv, FeedHoldsOnce
    <3>2. CASE t = s
      BY <2>2, <2>3, <2>5, <3>2 DEF FeedInv, FeedHoldsOnce
    <3> QED
      BY <3>1, <3>2
  <2> QED
    BY <2>9, <2>10 DEF FeedInv
<1> QED
  BY <1>1, <1>2 DEF Asked, vendorVars

LEMMA FeedOfStreams ==
  ASSUME ChoicesTypeOK, FeedInv, NEW s \in Sessions, Streams(s)
  PROVE  FeedInv'
<1>1. Broadcast(s, Noise) /\ step' = step
  BY DEF Streams, askVars
<1>2. PICK d \in {0, 1} : \A i \in DOMAIN feed'[s] :
            \/ i + d \in DOMAIN feed[s] /\ feed'[s][i] = feed[s][i + d]
            \/ i = Len(feed'[s]) /\ feed'[s][i] = Noise
  BY <1>1, Broadcasts
<1>3. \A t \in Sessions \ {s} : feed'[t] = feed[t]
  BY <1>1, Broadcasts
<1>4. DOMAIN feed'[s] \subseteq Nat
  <2>1. feed'[s] \in Seq(Asks \cup {Noise})
    BY <1>1, Broadcasts
  <2> QED
    BY <2>1
<1>5. FeedIsQueued'
  <2> SUFFICES ASSUME NEW t \in Sessions, NEW i \in DOMAIN feed'[t], feed'[t][i] # Noise
               PROVE  step[feed'[t][i]] = "queued" /\ SessionOf[feed'[t][i]] = t
    BY <1>1 DEF FeedIsQueued
  <2>1. CASE t # s
    BY <1>3, <2>1 DEF FeedInv, FeedIsQueued
  <2>2. CASE t = s
    BY <1>2, <2>2 DEF FeedInv, FeedIsQueued
  <2> QED
    BY <2>1, <2>2
<1>6. FeedHoldsOnce'
  <2> SUFFICES ASSUME NEW t \in Sessions, NEW i \in DOMAIN feed'[t], NEW j \in DOMAIN feed'[t],
                      feed'[t][i] = feed'[t][j], feed'[t][i] # Noise
               PROVE  i = j
    BY DEF FeedHoldsOnce
  <2>1. CASE t # s
    BY <1>3, <2>1 DEF FeedInv, FeedHoldsOnce
  <2>2. CASE t = s
    BY <1>2, <1>4, <2>2 DEF FeedInv, FeedHoldsOnce
  <2> QED
    BY <2>1, <2>2
<1> QED
  BY <1>5, <1>6 DEF FeedInv

\* The question that is read was queued, and is in no feed any more.
LEMMA FeedOfReceives ==
  ASSUME ChoicesTypeOK, FeedInv, NEW s \in Sessions, Receives(s)
  PROVE  /\ FeedInv'
         /\ \/ step' = step
            \/ \E a \in Asks : step[a] = "queued" /\ step' = [step EXCEPT ![a] = "context"]
<1> DEFINE a == Head(feed[s])
<1>1. feed' = [feed EXCEPT ![s] = Tail(@)] /\ feed[s] # << >>
  BY DEF Receives
<1>2. a \in Asks \cup {Noise} /\ a = feed[s][1] /\ 1 \in DOMAIN feed[s]
  BY <1>1, TakesLine
<1>3. \A i \in DOMAIN feed'[s] : i + 1 \in DOMAIN feed[s] /\ i + 1 # 1 /\ feed'[s][i] = feed[s][i + 1]
  BY <1>1, TakesLine
<1>4. \A t \in Sessions \ {s} : feed'[t] = feed[t]
  BY <1>1, TakesLine
<1>5. DOMAIN feed'[s] \subseteq Nat
  <2>1. feed'[s] \in Seq(Asks \cup {Noise})
    BY <1>1, TakesLine
  <2> QED
    BY <2>1
<1>6. \/ a = Noise /\ step' = step
      \/ a \in Asks /\ a # Noise /\ step[a] = "queued" /\ SessionOf[a] = s
         /\ step' = [step EXCEPT ![a] = "context"]
  BY <1>2 DEF Receives, FeedInv, FeedIsQueued
<1>7. \A b : b # a \/ a = Noise => (step[b] = "queued" /\ b \in Asks => step'[b] = "queued")
  BY <1>6 DEF ChoicesTypeOK
<1>8. \A t \in Sessions : \A i \in DOMAIN feed[t] : feed[t][i] \in Asks \cup {Noise}
  <2>1. ASSUME NEW t \in Sessions PROVE \A i \in DOMAIN feed[t] : feed[t][i] \in Asks \cup {Noise}
    <3>1. feed[t] \in Seq(Asks \cup {Noise})
      BY DEF ChoicesTypeOK
    <3> QED
      BY <3>1
  <2> QED
    BY <2>1
<1>9. FeedIsQueued'
  <2> SUFFICES ASSUME NEW t \in Sessions, NEW i \in DOMAIN feed'[t], feed'[t][i] # Noise
               PROVE  step'[feed'[t][i]] = "queued" /\ SessionOf[feed'[t][i]] = t
    BY DEF FeedIsQueued
  <2>1. CASE t # s
    <3>1. feed'[t] = feed[t] /\ feed[t][i] # Noise /\ feed[t][i] \in Asks
      BY <1>4, <1>8, <2>1
    <3>2. step[feed[t][i]] = "queued" /\ SessionOf[feed[t][i]] = t
      BY <3>1 DEF FeedInv, FeedIsQueued
    <3>3. feed[t][i] # a \/ a = Noise
      BY <1>6, <2>1, <3>2
    <3> QED
      BY <1>7, <3>1, <3>2, <3>3
  <2>2. CASE t = s
    <3>1. i + 1 \in DOMAIN feed[s] /\ i + 1 # 1 /\ feed'[s][i] = feed[s][i + 1] /\ feed[s][i + 1] \in Asks
      BY <1>3, <1>8, <2>2
    <3>2. step[feed[s][i + 1]] = "queued" /\ SessionOf[feed[s][i + 1]] = s
      BY <2>2, <3>1 DEF FeedInv, FeedIsQueued
    <3>3. feed[s][i + 1] # a \/ a = Noise
      BY <1>2, <3>1 DEF FeedInv, FeedHoldsOnce
    <3> QED
      BY <1>7, <2>2, <3>1, <3>2, <3>3
  <2> QED
    BY <2>1, <2>2
<1>10. FeedHoldsOnce'
  <2> SUFFICES ASSUME NEW t \in Sessions, NEW i \in DOMAIN feed'[t], NEW j \in DOMAIN feed'[t],
                      feed'[t][i] = feed'[t][j], feed'[t][i] # Noise
               PROVE  i = j
    BY DEF FeedHoldsOnce
  <2>1. CASE t # s
    BY <1>4, <2>1 DEF FeedInv, FeedHoldsOnce
  <2>2. CASE t = s
    BY <1>3, <1>5, <2>2 DEF FeedInv, FeedHoldsOnce
  <2> QED
    BY <2>1, <2>2
<1> QED
  BY <1>6, <1>9, <1>10 DEF FeedInv

\* A question in the broadcast is left alone by every other step.
LEMMA FeedKept ==
  ASSUME ChoicesTypeOK, FeedInv, UNCHANGED feed,
         \A b \in Asks : step[b] = "queued" => step'[b] = "queued"
  PROVE  FeedInv'
<1>1. \A s \in Sessions : \A i \in DOMAIN feed[s] : feed[s][i] # Noise => feed[s][i] \in Asks
  <2>1. ASSUME NEW s \in Sessions PROVE feed[s] \in Seq(Asks \cup {Noise})
    BY DEF ChoicesTypeOK
  <2> QED
    BY <2>1
<1> QED
  BY <1>1 DEF FeedInv, FeedIsQueued, FeedHoldsOnce

-----------------------------------------------------------------------------
(* An answer from the click to the vendor.                                 *)

LEMMA AskedAsk ==
  ASSUME ChoicesTypeOK, AskInv, NEW a \in Asks, Asked(a)
  PROVE  AskInv'
<1> USE DEF AskInv, ChoicesTypeOK, Early, Under, Awaiting, Verdicts, Asked,
       sessionVars, vendorVars, askVars, registry, history
<1>1. NotYet'
  BY DEF NotYet
<1>2. Answerable'
  BY DEF Answerable
<1>3. CancelMeansClosed'
  BY DEF CancelMeansClosed
<1>4. PromptHasItsAsker'
  <2>1. a \notin reg /\ \A b \in Asks \ {a} : step'[b] = step[b]
    BY DEF NotYet
  <2> QED
    BY <2>1 DEF PromptHasItsAsker
<1>5. HandHolds'
  BY DEF HandHolds
<1>6. SaysWhatWasChosen'
  BY DEF SaysWhatWasChosen
<1>7. ToldAtTheEnd'
  BY DEF ToldAtTheEnd
<1>8. OnItsWay'
  BY DEF OnItsWay, Underway, InTime
<1> QED
  BY <1>1, <1>2, <1>3, <1>4, <1>5, <1>6, <1>7, <1>8

LEMMA VendorGivesUpAsk ==
  ASSUME ChoicesTypeOK, AskInv, NEW a \in Asks, VendorGivesUp(a)
  PROVE  AskInv'
<1> USE DEF AskInv, ChoicesTypeOK, Early, Under, Awaiting, Verdicts, VendorGivesUp,
       sessionVars, vendorVars, askVars, registry, history
<1>1. NotYet'
  BY DEF NotYet
<1>2. Answerable'
  BY DEF Answerable
<1>3. CancelMeansClosed'
  BY DEF CancelMeansClosed
<1>4. PromptHasItsAsker'
  BY DEF PromptHasItsAsker
<1>5. HandHolds'
  BY DEF HandHolds
<1>6. SaysWhatWasChosen'
  BY DEF SaysWhatWasChosen
<1>7. ToldAtTheEnd'
  BY DEF ToldAtTheEnd
<1>8. OnItsWay'
  BY DEF OnItsWay, Underway, InTime
<1> QED
  BY <1>1, <1>2, <1>3, <1>4, <1>5, <1>6, <1>7, <1>8

LEMMA ContextAsk ==
  ASSUME ChoicesTypeOK, AskInv, NEW a \in Asks, Context(a)
  PROVE  AskInv'
<1> USE DEF AskInv, ChoicesTypeOK, Early, Under, Awaiting, Verdicts, Context,
       sessionVars, vendorVars, askVars, registry, history
<1>1. NotYet'
  BY DEF NotYet
<1>2. Answerable'
  BY DEF Answerable
<1>3. CancelMeansClosed'
  BY DEF CancelMeansClosed
<1>4. PromptHasItsAsker'
  <2>1. a \notin reg /\ \A b \in Asks \ {a} : step'[b] = step[b]
    BY DEF NotYet
  <2> QED
    BY <2>1 DEF PromptHasItsAsker
<1>5. HandHolds'
  BY DEF HandHolds
<1>6. SaysWhatWasChosen'
  <2>1. \A b \in Asks : reply'[b] = reply[b] \/ reply'[b] = "deny"
    <3>1. reply' = reply \/ reply' = [reply EXCEPT ![a] = "deny"]
      OBVIOUS
    <3> QED
      BY <3>1
  <2> QED
    BY <2>1 DEF SaysWhatWasChosen
<1>7. ToldAtTheEnd'
  BY DEF ToldAtTheEnd
<1>8. OnItsWay'
  BY DEF OnItsWay, Underway, InTime
<1> QED
  BY <1>1, <1>2, <1>3, <1>4, <1>5, <1>6, <1>7, <1>8

LEMMA RegisterAsk ==
  ASSUME ChoicesTypeOK, AskInv, NEW a \in Asks, Register(a)
  PROVE  AskInv'
<1> USE DEF AskInv, ChoicesTypeOK, Early, Under, Awaiting, Verdicts, Register,
       sessionVars, vendorVars, askVars, registry, history
<1>1. NotYet'
  BY DEF NotYet
<1>2. Answerable'
  <2>1. chosen[a] = "none" /\ step'[a] = "asking" /\ box'[a] = "open"
    BY DEF NotYet
  <2>2. \A b \in reg \ {a} : step'[b] = step[b] /\ box'[b] = box[b]
    OBVIOUS
  <2> QED
    BY <2>1, <2>2 DEF Answerable
<1>3. CancelMeansClosed'
  BY DEF CancelMeansClosed
<1>4. PromptHasItsAsker'
  BY DEF PromptHasItsAsker
<1>5. HandHolds'
  BY DEF HandHolds
<1>6. SaysWhatWasChosen'
  BY DEF SaysWhatWasChosen
<1>7. ToldAtTheEnd'
  BY DEF ToldAtTheEnd
<1>8. OnItsWay'
  BY DEF OnItsWay, Underway, InTime
<1> QED
  BY <1>1, <1>2, <1>3, <1>4, <1>5, <1>6, <1>7, <1>8

LEMMA SelectedAsk ==
  ASSUME ChoicesTypeOK, AskInv, NEW a \in Asks, Selected(a)
  PROVE  AskInv'
<1> USE DEF AskInv, ChoicesTypeOK, Early, Under, Awaiting, Verdicts, Selected,
       sessionVars, vendorVars, askVars, registry, history
<1>1. NotYet'
  BY DEF NotYet
<1>2. Answerable'
  BY DEF Answerable
<1>3. CancelMeansClosed'
  BY DEF CancelMeansClosed
<1>4. PromptHasItsAsker'
  <2>1. a \notin reg /\ \A b \in Asks \ {a} : step'[b] = step[b]
    BY DEF Answerable
  <2> QED
    BY <2>1 DEF PromptHasItsAsker
<1>5. HandHolds'
  BY DEF HandHolds
<1>6. SaysWhatWasChosen'
  BY DEF SaysWhatWasChosen
<1>7. ToldAtTheEnd'
  BY DEF ToldAtTheEnd
<1>8. OnItsWay'
  BY DEF OnItsWay, Underway, InTime
<1> QED
  BY <1>1, <1>2, <1>3, <1>4, <1>5, <1>6, <1>7, <1>8

LEMMA UnansweredAsk ==
  ASSUME ChoicesTypeOK, AskInv, NEW a \in Asks, Unanswered(a)
  PROVE  AskInv'
<1> USE DEF AskInv, ChoicesTypeOK, Early, Under, Awaiting, Verdicts, Unanswered,
       sessionVars, vendorVars, askVars, registry, history
<1>1. NotYet'
  BY DEF NotYet
<1>2. Answerable'
  BY DEF Answerable
<1>3. CancelMeansClosed'
  BY DEF CancelMeansClosed
<1>4. PromptHasItsAsker'
  BY DEF PromptHasItsAsker
<1>5. HandHolds'
  BY DEF HandHolds
<1>6. SaysWhatWasChosen'
  BY DEF SaysWhatWasChosen
<1>7. ToldAtTheEnd'
  BY DEF ToldAtTheEnd
<1>8. OnItsWay'
  <2> SUFFICES ASSUME NEW b \in Asks, chosen[b] # "none", InTime(b)' PROVE Underway(b)'
    BY DEF OnItsWay
  <2>1. InTime(b) /\ Underway(b)
    BY DEF InTime, OnItsWay
  <2>2. b # a
    BY <2>1 DEF InTime, Underway
  <2> QED
    BY <2>1, <2>2 DEF Underway
<1> QED
  BY <1>1, <1>2, <1>3, <1>4, <1>5, <1>6, <1>7, <1>8

LEMMA TakesBackAsk ==
  ASSUME ChoicesTypeOK, AskInv, NEW a \in Asks, TakesBack(a)
  PROVE  AskInv'
<1> USE DEF AskInv, ChoicesTypeOK, Early, Under, Awaiting, Verdicts, TakesBack,
       sessionVars, vendorVars, askVars, registry, history
<1>1. NotYet'
  BY DEF NotYet
<1>2. Answerable'
  BY DEF Answerable
<1>3. CancelMeansClosed'
  BY DEF CancelMeansClosed
<1>4. PromptHasItsAsker'
  BY DEF PromptHasItsAsker
<1>5. HandHolds'
  BY DEF HandHolds
<1>6. SaysWhatWasChosen'
  BY DEF SaysWhatWasChosen
<1>7. ToldAtTheEnd'
  BY DEF ToldAtTheEnd
<1>8. OnItsWay'
  BY DEF OnItsWay, Underway, InTime
<1> QED
  BY <1>1, <1>2, <1>3, <1>4, <1>5, <1>6, <1>7, <1>8

LEMMA SeesTheEndAsk ==
  ASSUME ChoicesTypeOK, AskInv, NEW a \in Asks, SeesTheEnd(a)
  PROVE  AskInv'
<1> USE DEF AskInv, ChoicesTypeOK, Early, Under, Awaiting, Verdicts, SeesTheEnd,
       sessionVars, vendorVars, askVars, registry, history
<1>1. NotYet'
  BY DEF NotYet
<1>2. Answerable'
  BY DEF Answerable
<1>3. CancelMeansClosed'
  BY DEF CancelMeansClosed
<1>4. PromptHasItsAsker'
  BY DEF PromptHasItsAsker
<1>5. HandHolds'
  BY DEF HandHolds
<1>6. SaysWhatWasChosen'
  BY DEF SaysWhatWasChosen
<1>7. ToldAtTheEnd'
  BY DEF ToldAtTheEnd
<1>8. OnItsWay'
  BY DEF OnItsWay, Underway, InTime
<1> QED
  BY <1>1, <1>2, <1>3, <1>4, <1>5, <1>6, <1>7, <1>8

LEMMA CancelsAsk ==
  ASSUME ChoicesTypeOK, AskInv, NEW a \in Asks, Cancels(a)
  PROVE  AskInv'
<1> USE DEF AskInv, ChoicesTypeOK, Early, Under, Awaiting, Verdicts, Cancels, DrainSid, Closed, Of,
       sessionVars, vendorVars, askVars, registry, history
<1>1. NotYet'
  BY DEF NotYet
<1>2. Answerable'
  BY DEF Answerable
<1>3. CancelMeansClosed'
  BY DEF CancelMeansClosed
<1>4. PromptHasItsAsker'
  BY DEF PromptHasItsAsker
<1>5. HandHolds'
  BY DEF HandHolds
<1>6. SaysWhatWasChosen'
  BY DEF SaysWhatWasChosen
<1>7. ToldAtTheEnd'
  BY DEF ToldAtTheEnd
<1>8. OnItsWay'
  <2> SUFFICES ASSUME NEW b \in Asks, chosen[b] # "none", InTime(b)' PROVE Underway(b)'
    BY DEF OnItsWay
  <2>1. InTime(b) /\ Underway(b)
    BY DEF InTime, OnItsWay
  <2>2. b # a
    BY <2>1 DEF InTime, CancelMeansClosed
  <2>3. b \notin reg
    BY DEF Answerable
  <2>4. step'[b] = step[b] /\ reply'[b] = reply[b] /\ box'[b] = box[b]
    BY <2>2, <2>3
  <2> QED
    BY <2>1, <2>4 DEF Underway
<1> QED
  BY <1>1, <1>2, <1>3, <1>4, <1>5, <1>6, <1>7, <1>8

LEMMA RepliesAsk ==
  ASSUME ChoicesTypeOK, AskInv, NEW a \in Asks, Replies(a)
  PROVE  AskInv'
<1> USE DEF AskInv, ChoicesTypeOK, Early, Under, Awaiting, Verdicts, Replies,
       sessionVars, vendorVars, askVars, registry, history
<1>1. NotYet'
  BY DEF NotYet
<1>2. Answerable'
  BY DEF Answerable
<1>3. CancelMeansClosed'
  BY DEF CancelMeansClosed
<1>4. PromptHasItsAsker'
  BY DEF PromptHasItsAsker
<1>5. HandHolds'
  BY DEF HandHolds
<1>6. SaysWhatWasChosen'
  BY DEF SaysWhatWasChosen
<1>7. ToldAtTheEnd'
  BY DEF ToldAtTheEnd
<1>8. OnItsWay'
  <2> SUFFICES ASSUME NEW b \in Asks, chosen[b] # "none", InTime(b)' PROVE Underway(b)'
    BY DEF OnItsWay
  <2>1. InTime(b) /\ Underway(b)
    BY DEF InTime, OnItsWay
  <2>2. CASE b = a
    <3>1. reply[a] = chosen[a] /\ process[SessionOf[a]] = "up" /\ verdict[a] \in {"none", "timeout"}
      BY <2>1, <2>2 DEF InTime, Underway, ToldAtTheEnd
    <3>2. verdict'[a] \in {reply[a], "timeout"} /\ step'[a] = "done"
      BY <3>1
    <3> QED
      BY <2>2, <3>1, <3>2 DEF Underway
  <2>3. CASE b # a
    <3>1. step'[b] = step[b] /\ verdict'[b] = verdict[b]
      BY <2>3
    <3> QED
      BY <2>1, <3>1 DEF Underway
  <2> QED
    BY <2>2, <2>3
<1> QED
  BY <1>1, <1>2, <1>3, <1>4, <1>5, <1>6, <1>7, <1>8

LEMMA ExpiresAsk ==
  ASSUME ChoicesTypeOK, AskInv, NEW a \in Asks, Expires(a)
  PROVE  AskInv'
<1> USE DEF AskInv, ChoicesTypeOK, Early, Under, Awaiting, Verdicts, Expires,
       sessionVars, vendorVars, askVars, registry, history
<1>1. NotYet'
  BY DEF NotYet
<1>2. Answerable'
  BY DEF Answerable
<1>3. CancelMeansClosed'
  BY DEF CancelMeansClosed
<1>4. PromptHasItsAsker'
  BY DEF PromptHasItsAsker
<1>5. HandHolds'
  BY DEF HandHolds
<1>6. SaysWhatWasChosen'
  BY DEF SaysWhatWasChosen
<1>7. ToldAtTheEnd'
  BY DEF ToldAtTheEnd
<1>8. OnItsWay'
  BY DEF OnItsWay, Underway, InTime
<1> QED
  BY <1>1, <1>2, <1>3, <1>4, <1>5, <1>6, <1>7, <1>8

LEMMA OuterTimeoutAsk ==
  ASSUME ChoicesTypeOK, AskInv, NEW a \in Asks, OuterTimeout(a)
  PROVE  AskInv'
<1> USE DEF AskInv, ChoicesTypeOK, Early, Under, Awaiting, Verdicts, OuterTimeout,
       sessionVars, vendorVars, askVars, registry, history
<1>1. NotYet'
  BY DEF NotYet
<1>2. Answerable'
  BY DEF Answerable
<1>3. CancelMeansClosed'
  BY DEF CancelMeansClosed
<1>4. PromptHasItsAsker'
  BY DEF PromptHasItsAsker
<1>5. HandHolds'
  BY DEF HandHolds
<1>6. SaysWhatWasChosen'
  BY DEF SaysWhatWasChosen
<1>7. ToldAtTheEnd'
  BY DEF ToldAtTheEnd
<1>8. OnItsWay'
  BY DEF OnItsWay, Underway, InTime
<1> QED
  BY <1>1, <1>2, <1>3, <1>4, <1>5, <1>6, <1>7, <1>8

LEMMA BadOptionAsk ==
  ASSUME ChoicesTypeOK, AskInv, NEW a \in Asks, BadOption(a)
  PROVE  AskInv'
<1> USE DEF AskInv, ChoicesTypeOK, Early, Under, Awaiting, Verdicts, BadOption, Closed,
       sessionVars, vendorVars, askVars, registry, history
<1>1. NotYet'
  BY DEF NotYet
<1>2. Answerable'
  BY DEF Answerable
<1>3. CancelMeansClosed'
  BY DEF CancelMeansClosed
<1>4. PromptHasItsAsker'
  BY DEF PromptHasItsAsker
<1>5. HandHolds'
  BY DEF HandHolds
<1>6. SaysWhatWasChosen'
  BY DEF SaysWhatWasChosen
<1>7. ToldAtTheEnd'
  BY DEF ToldAtTheEnd
<1>8. OnItsWay'
  <2> SUFFICES ASSUME NEW b \in Asks, chosen[b] # "none", InTime(b)' PROVE Underway(b)'
    BY DEF OnItsWay
  <2>1. InTime(b) /\ Underway(b)
    BY DEF InTime, OnItsWay
  <2>2. box'[b] = box[b]
    BY DEF Answerable
  <2> QED
    BY <2>1, <2>2 DEF Underway
<1> QED
  BY <1>1, <1>2, <1>3, <1>4, <1>5, <1>6, <1>7, <1>8

LEMMA DiesAsk ==
  ASSUME ChoicesTypeOK, AskInv, NEW s \in Sessions, Dies(s)
  PROVE  AskInv'
<1> USE DEF AskInv, ChoicesTypeOK, Early, Under, Awaiting, Verdicts, Dies,
       sessionVars, vendorVars, askVars, registry, history
<1>1. NotYet'
  BY DEF NotYet
<1>2. Answerable'
  BY DEF Answerable
<1>3. CancelMeansClosed'
  BY DEF CancelMeansClosed
<1>4. PromptHasItsAsker'
  BY DEF PromptHasItsAsker
<1>5. HandHolds'
  BY DEF HandHolds
<1>6. SaysWhatWasChosen'
  BY DEF SaysWhatWasChosen
<1>7. ToldAtTheEnd'
  BY DEF ToldAtTheEnd
<1>8. OnItsWay'
  BY DEF OnItsWay, Underway, InTime
<1> QED
  BY <1>1, <1>2, <1>3, <1>4, <1>5, <1>6, <1>7, <1>8

LEMMA PumpEndsAsk ==
  ASSUME ChoicesTypeOK, AskInv, NEW s \in Sessions, PumpEnds(s)
  PROVE  AskInv'
<1> USE DEF AskInv, ChoicesTypeOK, Early, Under, Awaiting, Verdicts, PumpEnds, DrainSid, Closed, Of, Busy,
       sessionVars, vendorVars, askVars, registry, history
<1>1. NotYet'
  BY DEF NotYet
<1>2. Answerable'
  BY DEF Answerable
<1>3. CancelMeansClosed'
  BY DEF CancelMeansClosed
<1>4. PromptHasItsAsker'
  BY DEF PromptHasItsAsker
<1>5. HandHolds'
  BY DEF HandHolds
<1>6. SaysWhatWasChosen'
  BY DEF SaysWhatWasChosen
<1>7. ToldAtTheEnd'
  BY DEF ToldAtTheEnd
<1>8. OnItsWay'
  BY DEF OnItsWay, Underway, InTime
<1> QED
  BY <1>1, <1>2, <1>3, <1>4, <1>5, <1>6, <1>7, <1>8

LEMMA StopAsk ==
  ASSUME ChoicesTypeOK, AskInv, NEW s \in Sessions, Stop(s)
  PROVE  AskInv'
<1> USE DEF AskInv, ChoicesTypeOK, Early, Under, Awaiting, Verdicts, Stop, Of, GatewayFree,
       sessionVars, vendorVars, askVars, registry, history
<1>1. NotYet'
  BY DEF NotYet
<1>2. Answerable'
  BY DEF Answerable
<1>3. CancelMeansClosed'
  <2>1. \A t \in Sessions : process[t] = "closed" => process'[t] = "closed"
    <3>1. process' = process \/ process' = [process EXCEPT ![s] = "closed"]
      OBVIOUS
    <3> QED
      BY <3>1
  <2>2. step' = step
    OBVIOUS
  <2> QED
    BY <2>1, <2>2, Constants DEF CancelMeansClosed
<1>4. PromptHasItsAsker'
  BY DEF PromptHasItsAsker
<1>5. HandHolds'
  BY DEF HandHolds
<1>6. SaysWhatWasChosen'
  BY DEF SaysWhatWasChosen
<1>7. ToldAtTheEnd'
  BY DEF ToldAtTheEnd
<1>8. OnItsWay'
  <2> SUFFICES ASSUME NEW b \in Asks, chosen[b] # "none", InTime(b)' PROVE Underway(b)'
    BY DEF OnItsWay
  <2>1. session'[s] = "closing" /\ \A t \in Sessions \ {s} : session'[t] = session[t]
    OBVIOUS
  <2>2. SessionOf[b] # s /\ session[SessionOf[b]] = "tracked"
    BY <2>1, Constants DEF InTime
  <2>3. verdict'[b] = verdict[b] /\ process'[SessionOf[b]] = process[SessionOf[b]]
    <3>1. CASE vendor[s] = "pi"
      BY <2>2, <3>1
    <3>2. CASE vendor[s] # "pi"
      BY <2>2, <3>2, Constants
    <3> QED
      BY <3>1, <3>2
  <2>4. InTime(b) /\ Underway(b)
    BY <2>2, <2>3 DEF InTime, OnItsWay
  <2> QED
    BY <2>3, <2>4 DEF Underway
<1> QED
  BY <1>1, <1>2, <1>3, <1>4, <1>5, <1>6, <1>7, <1>8

LEMMA StopCancelsAsk ==
  ASSUME ChoicesTypeOK, AskInv, NEW s \in Sessions, StopCancels(s)
  PROVE  AskInv'
<1> USE DEF AskInv, ChoicesTypeOK, Early, Under, Awaiting, Verdicts, StopCancels, DrainSid, Closed, Of,
       sessionVars, vendorVars, askVars, registry, history
<1>1. NotYet'
  BY DEF NotYet
<1>2. Answerable'
  BY DEF Answerable
<1>3. CancelMeansClosed'
  BY DEF CancelMeansClosed
<1>4. PromptHasItsAsker'
  BY DEF PromptHasItsAsker
<1>5. HandHolds'
  BY DEF HandHolds
<1>6. SaysWhatWasChosen'
  BY DEF SaysWhatWasChosen
<1>7. ToldAtTheEnd'
  BY DEF ToldAtTheEnd
<1>8. OnItsWay'
  BY DEF OnItsWay, Underway, InTime
<1> QED
  BY <1>1, <1>2, <1>3, <1>4, <1>5, <1>6, <1>7, <1>8

LEMMA StopAbortsAsk ==
  ASSUME ChoicesTypeOK, AskInv, NEW s \in Sessions, StopAborts(s)
  PROVE  AskInv'
<1> USE DEF AskInv, ChoicesTypeOK, Early, Under, Awaiting, Verdicts, StopAborts, Of,
       sessionVars, vendorVars, askVars, registry, history
<1>1. NotYet'
  BY DEF NotYet
<1>2. Answerable'
  BY DEF Answerable
<1>3. CancelMeansClosed'
  BY DEF CancelMeansClosed
<1>4. PromptHasItsAsker'
  BY DEF PromptHasItsAsker
<1>5. HandHolds'
  BY DEF HandHolds
<1>6. SaysWhatWasChosen'
  BY DEF SaysWhatWasChosen
<1>7. ToldAtTheEnd'
  BY DEF ToldAtTheEnd
<1>8. OnItsWay'
  BY DEF OnItsWay, Underway, InTime
<1> QED
  BY <1>1, <1>2, <1>3, <1>4, <1>5, <1>6, <1>7, <1>8

LEMMA StopEndsAsk ==
  ASSUME ChoicesTypeOK, AskInv, NEW s \in Sessions, StopEnds(s)
  PROVE  AskInv'
<1> USE DEF AskInv, ChoicesTypeOK, Early, Under, Awaiting, Verdicts, StopEnds,
       sessionVars, vendorVars, askVars, registry, history
<1>1. NotYet'
  BY DEF NotYet
<1>2. Answerable'
  BY DEF Answerable
<1>3. CancelMeansClosed'
  BY DEF CancelMeansClosed
<1>4. PromptHasItsAsker'
  BY DEF PromptHasItsAsker
<1>5. HandHolds'
  BY DEF HandHolds
<1>6. SaysWhatWasChosen'
  BY DEF SaysWhatWasChosen
<1>7. ToldAtTheEnd'
  BY DEF ToldAtTheEnd
<1>8. OnItsWay'
  BY DEF OnItsWay, Underway, InTime
<1> QED
  BY <1>1, <1>2, <1>3, <1>4, <1>5, <1>6, <1>7, <1>8

LEMMA TakesAsk ==
  ASSUME ChoicesTypeOK, AskInv, NEW P \in SUBSET Asks, NEW c \in Verdicts, Takes(P, c)
  PROVE  AskInv'
<1> USE DEF ChoicesTypeOK, sessionVars, vendorVars, askVars
<1> DEFINE kept == reg \ lapsed
<1>1. CASE reg' = kept /\ UNCHANGED <<hand, chosen>>
  <2>1. \A b \in Asks : box'[b] = box[b] \/ (box'[b] = "closed" /\ b \in reg \cap lapsed)
    BY DEF Takes, Closed
  <2>2. \A b \in Asks : step'[b] = step[b] /\ reply'[b] = reply[b] /\ verdict'[b] = verdict[b]
    BY DEF Takes
  <2>3. NotYet'
    BY <1>1, <2>1, <2>2 DEF AskInv, NotYet, Takes
  <2>4. Answerable'
    BY <1>1, <2>1 DEF AskInv, Answerable, Takes
  <2>5. CancelMeansClosed' /\ PromptHasItsAsker' /\ HandHolds' /\ ToldAtTheEnd'
    BY <1>1 DEF AskInv, CancelMeansClosed, PromptHasItsAsker, HandHolds, ToldAtTheEnd, Takes
  <2>6. SaysWhatWasChosen'
    BY <1>1, <2>1, <2>2 DEF AskInv, SaysWhatWasChosen, Verdicts
  <2>7. OnItsWay'
    <3> SUFFICES ASSUME NEW b \in Asks, chosen[b] # "none", InTime(b)' PROVE Underway(b)'
      BY <1>1 DEF OnItsWay
    <3>1. InTime(b) /\ Underway(b)
      BY DEF Takes, InTime, AskInv, OnItsWay
    <3>2. box'[b] = box[b]
      BY <2>1, <3>1 DEF InTime
    <3> QED
      BY <1>1, <2>2, <3>1, <3>2 DEF Underway
  <2> QED
    BY <2>3, <2>4, <2>5, <2>6, <2>7 DEF AskInv
<1>2. ASSUME NEW a \in P \cap kept,
             reg' = kept \ {a}, hand' = <<a, c>>, chosen' = [chosen EXCEPT ![a] = c]
      PROVE  AskInv'
  <2>1. \A b \in Asks : box'[b] = box[b] \/ (box'[b] = "closed" /\ b \in reg \cap lapsed)
    BY DEF Takes, Closed
  <2>2. \A b \in Asks : step'[b] = step[b] /\ reply'[b] = reply[b] /\ verdict'[b] = verdict[b]
    BY DEF Takes
  <2>3. \A b \in Asks \ {a} : chosen'[b] = chosen[b]
    BY <1>2
  <2>4. a \in Asks /\ chosen'[a] = c /\ c # "none"
    BY <1>2 DEF Verdicts
  <2>5. hand = << >> /\ lapsed' = lapsed /\ deserted' = deserted /\ process' = process /\ session' = session
    BY DEF Takes, GatewayFree
  <2>6. chosen[a] = "none" /\ box[a] = "open" /\ step[a] # "lapsing" /\ step[a] \notin Early /\ box'[a] = "open"
    BY <1>2, <2>1 DEF AskInv, Answerable, NotYet
  <2>7. a \notin deserted => step[a] \in {"asking", "cancelling"}
    BY <1>2, <2>6 DEF AskInv, PromptHasItsAsker, Awaiting
  <2>8. NotYet' /\ CancelMeansClosed' /\ PromptHasItsAsker' /\ ToldAtTheEnd'
    BY <1>2, <2>1, <2>2, <2>3, <2>5, <2>6
       DEF AskInv, NotYet, CancelMeansClosed, PromptHasItsAsker, ToldAtTheEnd
  <2>9. Answerable' /\ HandHolds'
    BY <1>2, <2>1, <2>2, <2>3, <2>4, <2>5 DEF AskInv, Answerable, HandHolds
  <2>10. SaysWhatWasChosen'
    BY <2>1, <2>2, <2>3, <2>6 DEF AskInv, SaysWhatWasChosen, Verdicts
  <2>11. OnItsWay'
    <3> SUFFICES ASSUME NEW b \in Asks, chosen'[b] # "none", InTime(b)' PROVE Underway(b)'
      BY DEF OnItsWay
    <3>1. InTime(b)
      BY <2>5 DEF InTime
    <3>2. CASE b = a
      <4>1. step[a] = "asking"
        BY <2>7, <3>1, <3>2 DEF InTime, AskInv, CancelMeansClosed
      <4> QED
        BY <1>2, <2>2, <2>4, <2>6, <3>2, <4>1 DEF Underway
    <3>3. CASE b # a
      <4>1. chosen'[b] = chosen[b] /\ box'[b] = box[b]
        BY <2>1, <2>3, <3>1, <3>3 DEF InTime
      <4>2. Underway(b) /\ hand # <<b, chosen[b]>>
        BY <2>3, <2>5, <3>1, <3>3 DEF AskInv, OnItsWay
      <4> QED
        BY <2>2, <4>1, <4>2 DEF Underway
    <3> QED
      BY <3>2, <3>3
  <2> QED
    BY <2>8, <2>9, <2>10, <2>11 DEF AskInv
<1> QED
  BY <1>1, <1>2 DEF Takes

LEMMA DeliversAsk ==
  ASSUME ChoicesTypeOK, AskInv, Delivers
  PROVE  AskInv'
<1> USE DEF ChoicesTypeOK, sessionVars, vendorVars, askVars, history
<1> DEFINE a == hand[1]
<1>1. /\ a \in Asks /\ hand[2] \in Verdicts /\ hand' = << >> /\ chosen[a] = hand[2]
      /\ \A b : hand = <<b, chosen[b]>> => b = a
  BY DEF Delivers, AskInv, HandHolds
<1>2. /\ box'[a] = (IF step[a] = "asking" THEN chosen[a] ELSE "closed")
      /\ \A b \in Asks \ {a} : box'[b] = box[b]
  BY <1>1 DEF Delivers
<1>3. /\ reg' = reg /\ chosen' = chosen /\ lapsed' = lapsed /\ deserted' = deserted /\ process' = process
      /\ session' = session /\ step' = step /\ reply' = reply /\ verdict' = verdict
  BY DEF Delivers
<1>4. chosen[a] # "none" /\ a \notin reg /\ step[a] \notin Early
  BY <1>1 DEF AskInv, Answerable, NotYet, Verdicts
<1>5. NotYet' /\ Answerable'
  BY <1>2, <1>3, <1>4 DEF AskInv, NotYet, Answerable
<1>6. CancelMeansClosed' /\ PromptHasItsAsker' /\ HandHolds' /\ ToldAtTheEnd'
  BY <1>1, <1>3 DEF AskInv, CancelMeansClosed, PromptHasItsAsker, HandHolds, ToldAtTheEnd
<1>7. SaysWhatWasChosen'
  BY <1>1, <1>2, <1>3 DEF AskInv, SaysWhatWasChosen, Verdicts
<1>8. OnItsWay'
  <2> SUFFICES ASSUME NEW b \in Asks, chosen[b] # "none", InTime(b)' PROVE Underway(b)'
    BY <1>3 DEF OnItsWay
  <2>1. InTime(b) /\ Underway(b)
    BY <1>3 DEF InTime, AskInv, OnItsWay
  <2> QED
    BY <1>1, <1>2, <1>3, <2>1 DEF Underway
<1> QED
  BY <1>5, <1>6, <1>7, <1>8 DEF AskInv

-----------------------------------------------------------------------------
(* The invariant.                                                          *)

LEMMA InitInv == Init => IInv
<1> SUFFICES ASSUME Init PROVE FeedInv /\ AskInv
  BY TypeInit DEF IInv
<1>1. FeedInv
  BY DEF Init, FeedInv, FeedIsQueued, FeedHoldsOnce
<1>2. AskInv
  BY DEF Init, AskInv, NotYet, Answerable, CancelMeansClosed, PromptHasItsAsker, HandHolds,
         SaysWhatWasChosen, ToldAtTheEnd, OnItsWay, Verdicts
<1> QED
  BY <1>1, <1>2

\* The steps about one question leave those in the broadcast alone.
LEMMA QueuedStays ==
  ASSUME ChoicesTypeOK, NEW a \in Asks,
         VendorGivesUp(a) \/ Asking(a) \/ Expires(a) \/ OuterTimeout(a) \/ BadOption(a)
  PROVE  UNCHANGED feed /\ \A b \in Asks : step[b] = "queued" => step'[b] = "queued"
<1> USE DEF vendorVars, askVars
<1>1. step \in [Asks -> Steps]
  BY DEF ChoicesTypeOK
<1>2. CASE Asking(a)
  BY <1>1, <1>2 DEF Asking, Context, Register, Selected, Unanswered, TakesBack, SeesTheEnd, Cancels,
                    Replies, Awaiting
<1>3. CASE OuterTimeout(a)
  BY <1>1, <1>3 DEF OuterTimeout, Awaiting
<1> QED
  BY <1>2, <1>3 DEF VendorGivesUp, Expires, BadOption

LEMMA AskKept ==
  ASSUME AskInv, UNCHANGED <<process, session, reg, box, lapsed, hand, reply, verdict, chosen, deserted>>,
         \/ step' = step
         \/ \E a \in Asks : step[a] = "queued" /\ step' = [step EXCEPT ![a] = "context"],
         ChoicesTypeOK
  PROVE  AskInv'
<1>1. CASE step' = step
  BY <1>1 DEF AskInv, NotYet, Answerable, CancelMeansClosed, PromptHasItsAsker, HandHolds,
              SaysWhatWasChosen, ToldAtTheEnd, OnItsWay, Underway, InTime
<1>2. ASSUME NEW a \in Asks, step[a] = "queued", step' = [step EXCEPT ![a] = "context"]
      PROVE  AskInv'
  <2>1. step[a] \in Early /\ step'[a] \in Early /\ step'[a] = "context"
    BY <1>2 DEF Early, ChoicesTypeOK
  <2>2. chosen[a] = "none" /\ box[a] = "none" /\ a \notin reg /\ verdict[a] = verdict'[a]
    BY <2>1 DEF AskInv, NotYet
  <2>3. \A b \in Asks \ {a} : step'[b] = step[b]
    BY <1>2 DEF ChoicesTypeOK
  <2>4. NotYet' /\ Answerable' /\ CancelMeansClosed' /\ PromptHasItsAsker' /\ HandHolds'
    <3>1. reg \subseteq Asks
      BY DEF ChoicesTypeOK
    <3> QED
      BY <2>1, <2>2, <2>3, <3>1
         DEF AskInv, NotYet, Answerable, CancelMeansClosed, PromptHasItsAsker, HandHolds
  <2>5. SaysWhatWasChosen'
    BY DEF AskInv, SaysWhatWasChosen
  <2>6. ToldAtTheEnd'
    BY <1>2, <2>3 DEF AskInv, ToldAtTheEnd
  <2>7. OnItsWay'
    BY <2>2, <2>3 DEF AskInv, OnItsWay, Underway, InTime
  <2> QED
    BY <2>4, <2>5, <2>6, <2>7 DEF AskInv
<1> QED
  BY <1>1, <1>2

LEMMA NextInv == IInv /\ [Next]_vars => IInv'
<1> SUFFICES ASSUME IInv, [Next]_vars PROVE FeedInv' /\ AskInv'
  BY TypeStep DEF IInv
<1> USE DEF IInv
<1>1. ASSUME NEW a \in Asks, Asked(a) PROVE FeedInv' /\ AskInv'
  BY <1>1, FeedOfAsked, AskedAsk
<1>2. ASSUME NEW a \in Asks,
             VendorGivesUp(a) \/ Asking(a) \/ Expires(a) \/ OuterTimeout(a) \/ BadOption(a)
      PROVE  FeedInv' /\ AskInv'
  <2>1. FeedInv'
    BY <1>2, QueuedStays, FeedKept, Constants
  <2>2. AskInv'
    BY <1>2, VendorGivesUpAsk, ContextAsk, RegisterAsk, SelectedAsk, UnansweredAsk, TakesBackAsk,
       SeesTheEndAsk, CancelsAsk, RepliesAsk, ExpiresAsk, OuterTimeoutAsk, BadOptionAsk DEF Asking
  <2> QED
    BY <2>1, <2>2
<1>3. ASSUME NEW P \in SUBSET Asks, NEW c \in Verdicts, Takes(P, c) PROVE FeedInv' /\ AskInv'
  <2>1. UNCHANGED <<feed, step>>
    BY <1>3 DEF Takes, vendorVars, askVars
  <2> QED
    BY <1>3, <2>1, FeedKept, TakesAsk
<1>4. ASSUME NEW s \in Sessions, Streams(s) PROVE FeedInv' /\ AskInv'
  <2>1. UNCHANGED <<process, session, step, reg, box, lapsed, hand, reply, verdict, chosen, deserted>>
    BY <1>4 DEF Streams, sessionVars, askVars, registry, history
  <2> QED
    BY <1>4, <2>1, FeedOfStreams, AskKept
<1>5. ASSUME NEW s \in Sessions, Receives(s) PROVE FeedInv' /\ AskInv'
  <2>1. UNCHANGED <<process, session, reg, box, lapsed, hand, reply, verdict, chosen, deserted>>
    BY <1>5 DEF Receives, sessionVars, registry, history
  <2> QED
    BY <1>5, <2>1, FeedOfReceives, AskKept
<1>6. ASSUME NEW s \in Sessions, Dies(s) \/ PumpEnds(s) \/ Stop(s) \/ Stopping(s)
      PROVE  FeedInv' /\ AskInv'
  <2>1. UNCHANGED feed /\ \A b \in Asks : step[b] = "queued" => step'[b] = "queued"
    <3>1. step \in [Asks -> Steps]
      BY DEF ChoicesTypeOK
    <3>2. CASE StopAborts(s)
      BY <3>1, <3>2 DEF StopAborts, Under, Awaiting, vendorVars
    <3> QED
      BY <1>6, <3>2 DEF Dies, PumpEnds, Stop, Stopping, StopCancels, StopEnds, vendorVars, askVars
  <2>2. AskInv'
    BY <1>6, DiesAsk, PumpEndsAsk, StopAsk, StopCancelsAsk, StopAbortsAsk, StopEndsAsk DEF Stopping
  <2> QED
    BY <2>1, <2>2, FeedKept
<1>7. CASE Delivers
  <2>1. UNCHANGED <<feed, step>>
    BY <1>7 DEF Delivers, vendorVars, askVars
  <2> QED
    BY <1>7, <2>1, FeedKept, DeliversAsk
<1>8. CASE UNCHANGED vars
  <2>1. UNCHANGED <<feed, process, session, step, reg, box, lapsed, hand, reply, verdict, chosen, deserted>>
    BY <1>8 DEF vars, sessionVars, vendorVars, askVars, registry, history
  <2> QED
    BY <2>1, FeedKept, AskKept
<1>9. ASSUME NEW a \in Asks, Click(a) PROVE FeedInv' /\ AskInv'
  BY <1>3, <1>9, PeopleTake
<1>10. ASSUME NEW s \in Sessions, Text(s) PROVE FeedInv' /\ AskInv'
  BY <1>3, <1>10, PeopleTake
<1> QED
  BY <1>1, <1>2, <1>4, <1>5, <1>6, <1>7, <1>8, <1>9, <1>10 DEF Next, Relaying

LEMMA Invariant == Spec => []IInv
BY InitInv, NextInv, PTL DEF Spec

\* Whoever answers, gives up, dies or stops first: a prompt in the registry has
\* an asker that will take its answer or withdraw it (ask_external_choice), but
\* for those the Pi adapter dropped.
THEOREM NoPromptWithoutAsker == Spec => []PromptHasItsAsker
<1>1. IInv => PromptHasItsAsker
  BY DEF IInv, AskInv
<1> QED
  BY <1>1, Invariant, PTL

\* The vendor is told nothing but a refusal that no person chose on the prompt
\* of that question, and an answer given in time is what it is told.
THEOREM ChoiceIsTold == Spec => []VerdictIsTheChoice
<1>1. IInv => NothingAllowedUnasked
  BY DEF IInv, AskInv, SaysWhatWasChosen, NothingAllowedUnasked
<1>2. IInv => AnswerCounts
  BY DEF IInv, AskInv, OnItsWay, Underway, AnswerCounts
<1> QED
  BY <1>1, <1>2, Invariant, PTL DEF VerdictIsTheChoice

=============================================================================
