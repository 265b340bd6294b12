------------------------------ MODULE Choices ------------------------------
(***************************************************************************)
(* Questions an agent puts to a person: hitl.rs and pending.rs of          *)
(* ccteam-im, with the two adapters that relay such questions.             *)
(*                                                                         *)
(* The vendor's question reaches the asker of its session, one task that   *)
(* reads the broadcast of the vendor's output and is blocked while it      *)
(* asks (Claude: the HITL dispatcher; Pi: the event pump); a hook has a    *)
(* task for each question.  The asker registers a prompt in the registry   *)
(* the daemon shares, shows it, and awaits a oneshot.  A click or a text   *)
(* takes the prompt out of the registry and sends the answer.  The time to *)
(* live of the prompt, timers of the Pi adapter and of Pi itself, the end  *)
(* of the process and a stop of the session all race with that.            *)
(***************************************************************************)
EXTENDS Naturals, Sequences, FiniteSets

CONSTANTS
  Sessions,
  Asks,        \* the questions, and the tokens of their prompts
  SessionOf,   \* of each question
  Dialogs,     \* the questions that, if Pi puts them, are answered by text
  Buffer,      \* what the broadcast keeps for a slow reader
  MaxNoise,    \* bound: other lines the vendors write
  MaxAnswers   \* bound: clicks and texts of people

Noise == 0     \* any line that is not a question

ASSUME AsksAssumption ==
  /\ Asks \subseteq Nat \ {Noise} /\ SessionOf \in [Asks -> Sessions]
  /\ Dialogs \subseteq Asks
ASSUME BoundsAssumption == Buffer \in Nat \ {0} /\ {MaxNoise, MaxAnswers} \subseteq Nat

VARIABLES
  vendor,    \* of each session: "claude", "pi", or "hook" for the RPC of hooks
  process,   \* of each session: "up" or "closed"
  session,   \* in the gateway: "tracked", the stages of a stop, "gone"
  pump,      \* the asker's task: "on" or "over"
  feed,      \* the broadcast, as far as the asker has not read it
  lost,      \* questions the broadcast dropped: the reader lagged
  step,      \* where the asker is with each question
  reg,       \* PendingInteractions: prompts that can be answered
  box,       \* the oneshot of each prompt
  lapsed,    \* prompts whose expires_at has passed
  hand,      \* the answer between take_by_token and send, if any
  reply,     \* what the asker is about to tell the vendor
  verdict,   \* what the vendor has been told, "timeout" if it gave up
  chosen,    \* history: what a person answered
  deserted,  \* history: prompts whose asker was dropped where it stood
  noise, answers

sessionVars == <<vendor, process, session, pump>>
vendorVars  == <<feed, lost, noise>>
askVars     == <<step, reply>>
registry    == <<reg, box>>
history     == <<chosen, deserted, answers>>
vars == <<sessionVars, vendorVars, askVars, registry, history, lapsed, hand, verdict>>

\* Pi's input and editor dialogs.
Texts == {a \in Dialogs : vendor[SessionOf[a]] = "pi"}

AnswersTo(a) == IF a \in Texts THEN {"value"} ELSE {"allow", "deny"}
Verdicts     == {"allow", "deny", "value"}

Init ==
  /\ vendor \in [Sessions -> {"claude", "pi", "hook"}]
  /\ process = [s \in Sessions |-> "up"] /\ session = [s \in Sessions |-> "tracked"]
  /\ pump = [s \in Sessions |-> "on"] /\ feed = [s \in Sessions |-> <<>>]
  /\ lost = {} /\ reg = {} /\ lapsed = {} /\ deserted = {} /\ hand = <<>>
  /\ step = [a \in Asks |-> "unasked"] /\ box = [a \in Asks |-> "none"]
  /\ reply = [a \in Asks |-> "none"] /\ verdict = [a \in Asks |-> "none"]
  /\ chosen = [a \in Asks |-> "none"]
  /\ noise = 0 /\ answers = 0

\* The phases in which the asker holds the receiver of its oneshot, and those
\* in which it is busy with the question.
Awaiting == {"asking", "lapsing"}
Under    == {"context", "bound", "cancelling", "replying"} \cup Awaiting

Of(s)   == {a \in Asks : SessionOf[a] = s}
Busy(s) == \E a \in Of(s) : step[a] \in Under

\* The gateway's lock is held by a resolve until it has sent, and by a stop for
\* as long as it closes the session.
GatewayFree == hand = <<>> /\ \A s \in Sessions : session[s] \in {"tracked", "gone"}

\* Senders dropped with the prompts P: their receivers see an error.
Closed(P) == [a \in Asks |-> IF a \in P THEN "closed" ELSE box[a]]

\* drain_sid.
DrainSid(s) == reg' = reg \ Of(s) /\ box' = Closed(reg \cap Of(s))

-----------------------------------------------------------------------------
(* The vendor.                                                             *)

\* A line is broadcast; a reader that is Buffer lines behind loses the oldest,
\* which recv reports once, as Lagged.
Broadcast(s, line) ==
  /\ feed' = [feed EXCEPT ![s] = IF Len(@) < Buffer THEN Append(@, line)
                                                    ELSE Append(Tail(@), line)]
  /\ lost' = IF Len(feed[s]) < Buffer THEN lost ELSE lost \cup ({Head(feed[s])} \ {Noise})

\* A tool needs permission, an extension opens a dialog; several may be open.
Asked(a) ==
  LET s == SessionOf[a] IN
  /\ process[s] = "up" /\ step[a] = "unasked"
  /\ \/ /\ vendor[s] = "hook" /\ step' = [step EXCEPT ![a] = "context"]
        /\ UNCHANGED vendorVars
     \/ /\ vendor[s] # "hook" /\ step' = [step EXCEPT ![a] = "queued"]
        /\ Broadcast(s, a) /\ UNCHANGED noise
  /\ UNCHANGED <<sessionVars, reply, registry, history, lapsed, hand, verdict>>

\* The vendor writes something else: partial messages, other tools at work.
Streams(s) ==
  /\ process[s] = "up" /\ vendor[s] # "hook" /\ noise < MaxNoise
  /\ Broadcast(s, Noise) /\ noise' = noise + 1
  /\ UNCHANGED <<sessionVars, askVars, registry, history, lapsed, hand, verdict>>

\* Pi's own timer of a dialog: it goes on as if told no.
VendorGivesUp(a) ==
  /\ vendor[SessionOf[a]] = "pi" /\ process[SessionOf[a]] = "up"
  /\ step[a] # "unasked" /\ verdict[a] = "none"
  /\ verdict' = [verdict EXCEPT ![a] = "timeout"]
  /\ UNCHANGED <<sessionVars, vendorVars, askVars, registry, history, lapsed, hand>>

\* The process dies of itself.
Dies(s) ==
  /\ process[s] = "up" /\ process' = [process EXCEPT ![s] = "closed"]
  /\ UNCHANGED <<vendor, session, pump, vendorVars, askVars, registry, history, lapsed, hand, verdict>>

-----------------------------------------------------------------------------
(* The asker.                                                              *)

Receives(s) ==
  /\ pump[s] = "on" /\ feed[s] # <<>> /\ ~Busy(s)
  /\ feed' = [feed EXCEPT ![s] = Tail(@)]
  /\ step' = IF Head(feed[s]) = Noise THEN step ELSE [step EXCEPT ![Head(feed[s])] = "context"]
  /\ UNCHANGED <<sessionVars, lost, noise, reply, registry, history, lapsed, hand, verdict>>

\* hitl_prompt_context_for, under the gateway's lock: nobody to ask is a no.
Context(a) ==
  /\ step[a] = "context" /\ GatewayFree
  /\ IF session[SessionOf[a]] = "gone"
       THEN /\ step' = [step EXCEPT ![a] = "replying"]
            /\ reply' = [reply EXCEPT ![a] = "deny"]
       ELSE step' = [step EXCEPT ![a] = "bound"] /\ UNCHANGED reply
  /\ UNCHANGED <<sessionVars, vendorVars, registry, history, lapsed, hand, verdict>>

\* The prompt is registered and shown.
Register(a) ==
  /\ step[a] = "bound" /\ step' = [step EXCEPT ![a] = "asking"]
  /\ reg' = reg \cup {a} /\ box' = [box EXCEPT ![a] = "open"]
  /\ UNCHANGED <<sessionVars, vendorVars, reply, history, lapsed, hand, verdict>>

\* expires_at passes; the asker's own timer, set after it, is due as well.
Expires(a) ==
  /\ step[a] = "asking" \/ a \in reg
  /\ a \notin lapsed /\ lapsed' = lapsed \cup {a}
  /\ UNCHANGED <<sessionVars, vendorVars, askVars, registry, history, hand, verdict>>

Selected(a) ==
  /\ step[a] = "asking" /\ box[a] \in Verdicts
  /\ step' = [step EXCEPT ![a] = "replying"] /\ reply' = [reply EXCEPT ![a] = box[a]]
  /\ UNCHANGED <<sessionVars, vendorVars, registry, history, lapsed, hand, verdict>>

\* Mutant: the asker awaits its oneshot without a limit.
UnansweredUntimed(a) ==
  /\ step[a] = "asking" /\ box[a] = "closed"
  /\ step' = [step EXCEPT ![a] = "lapsing"]
  /\ UNCHANGED <<sessionVars, vendorVars, reply, registry, history, lapsed, hand, verdict>>

\* The timer fires, or the sender was dropped; what was sent by then has priority.
Unanswered(a) ==
  /\ step[a] = "asking"
  /\ box[a] = "closed" \/ (box[a] = "open" /\ a \in lapsed)
  /\ step' = [step EXCEPT ![a] = "lapsing"]
  /\ UNCHANGED <<sessionVars, vendorVars, reply, registry, history, lapsed, hand, verdict>>

\* Mutant: it says no and leaves the prompt to drain_expired.
TakesBackNothing(a) ==
  /\ step[a] = "lapsing" /\ step' = [step EXCEPT ![a] = "replying"]
  /\ reply' = [reply EXCEPT ![a] = "deny"]
  /\ UNCHANGED <<sessionVars, vendorVars, registry, history, lapsed, hand, verdict>>

\* It takes the prompt back and says no.
TakesBack(a) ==
  /\ step[a] = "lapsing" /\ step' = [step EXCEPT ![a] = "replying"]
  /\ reply' = [reply EXCEPT ![a] = "deny"]
  /\ reg' = reg \ {a} /\ box' = [box EXCEPT ![a] = "closed"]
  /\ UNCHANGED <<sessionVars, vendorVars, history, lapsed, hand, verdict>>

\* The Pi adapter's timer of the dialog drops the call that asks, wherever it
\* is; a call that has its answer returns it.
OuterTimeout(a) ==
  /\ vendor[SessionOf[a]] = "pi" /\ step[a] \in {"context", "bound"} \cup Awaiting
  /\ ~(step[a] = "asking" /\ box[a] \in Verdicts)
  /\ step' = [step EXCEPT ![a] = "replying"] /\ reply' = [reply EXCEPT ![a] = "deny"]
  /\ deserted' = deserted \cup {a}
  /\ UNCHANGED <<sessionVars, vendorVars, registry, chosen, answers, lapsed, hand, verdict>>

\* The Pi adapter sees the process end: the call is dropped, cancel_sid called.
SeesTheEnd(a) ==
  /\ vendor[SessionOf[a]] = "pi" /\ process[SessionOf[a]] = "closed"
  /\ step[a] \in {"context", "bound"} \cup Awaiting
  /\ step' = [step EXCEPT ![a] = "cancelling"]
  /\ UNCHANGED <<sessionVars, vendorVars, reply, registry, history, lapsed, hand, verdict>>

Cancels(a) ==
  /\ step[a] = "cancelling" /\ step' = [step EXCEPT ![a] = "replying"]
  /\ reply' = [reply EXCEPT ![a] = "deny"] /\ DrainSid(SessionOf[a])
  /\ UNCHANGED <<sessionVars, vendorVars, history, lapsed, hand, verdict>>

\* The answer is written to the vendor, which ignores one it no longer awaits.
Replies(a) ==
  LET s == SessionOf[a] IN
  /\ step[a] = "replying" /\ step' = [step EXCEPT ![a] = "done"]
  /\ verdict' = IF process[s] = "up" /\ verdict[a] = "none"
                  THEN [verdict EXCEPT ![a] = reply[a]] ELSE verdict
  /\ UNCHANGED <<sessionVars, vendorVars, reply, registry, history, lapsed, hand>>

\* The asker ends after its process: the Claude dispatcher when it next looks,
\* the Pi pump at the error that ends its feed, with a last cancel_sid.
PumpEnds(s) ==
  /\ pump[s] = "on" /\ process[s] = "closed" /\ ~Busy(s)
  /\ pump' = [pump EXCEPT ![s] = "over"]
  /\ \/ vendor[s] = "claude" /\ UNCHANGED registry
     \/ vendor[s] = "pi" /\ feed[s] = <<>> /\ DrainSid(s)
  /\ UNCHANGED <<vendor, process, session, vendorVars, askVars, history, lapsed, hand, verdict>>

-----------------------------------------------------------------------------
(* People.                                                                 *)

\* Mutant: the prompt is looked up, as prompt_by_token does, and left for another.
TakesCopy(P, c) ==
  LET kept == reg \ lapsed IN
  /\ GatewayFree /\ answers < MaxAnswers /\ answers' = answers + 1
  /\ \/ \E a \in P \cap kept : hand' = <<a, c>> /\ chosen' = [chosen EXCEPT ![a] = c]
     \/ P \cap kept = {} /\ UNCHANGED <<hand, chosen>>
  /\ reg' = kept /\ box' = Closed(reg \cap lapsed)
  /\ UNCHANGED <<sessionVars, vendorVars, askVars, deserted, lapsed, verdict>>

\* resolve_selection, resolve_web_selection, resolve_free_text: expired prompts
\* are drained, then the prompt is taken, or the person is told it has expired.
Takes(P, c) ==
  LET kept == reg \ lapsed IN
  /\ GatewayFree /\ answers < MaxAnswers /\ answers' = answers + 1
  /\ \/ \E a \in P \cap kept :
          /\ reg' = kept \ {a} /\ hand' = <<a, c>> /\ chosen' = [chosen EXCEPT ![a] = c]
     \/ P \cap kept = {} /\ reg' = kept /\ UNCHANGED <<hand, chosen>>
  /\ box' = Closed(reg \cap lapsed)
  /\ UNCHANGED <<sessionVars, vendorVars, askVars, deserted, lapsed, verdict>>

\* A prompt is answered, by its token, as long as it is displayed somewhere.
Click(a) ==
  /\ step[a] \notin {"unasked", "queued", "context", "bound"}
  /\ \E c \in AnswersTo(a) : Takes({a}, c)

\* A message to a session is the answer to any dialog of it that takes text; if
\* there is none it becomes a turn.
Text(s) == Takes(Texts \cap Of(s), "value")

\* An option that is not offered: the prompt is gone, and its sender with it.
BadOption(a) ==
  /\ GatewayFree /\ answers < MaxAnswers /\ answers' = answers + 1
  /\ a \in reg \ (lapsed \cup Texts)
  /\ reg' = reg \ (lapsed \cup {a}) /\ box' = Closed(reg \cap (lapsed \cup {a}))
  /\ UNCHANGED <<sessionVars, vendorVars, askVars, chosen, deserted, lapsed, hand, verdict>>

\* apply_pending sends; whether anybody receives is not looked at.
Delivers ==
  /\ hand # <<>> /\ hand' = <<>>
  /\ box' = [box EXCEPT ![hand[1]] = IF step[hand[1]] = "asking" THEN hand[2] ELSE "closed"]
  /\ UNCHANGED <<sessionVars, vendorVars, askVars, reg, history, lapsed, verdict>>

-----------------------------------------------------------------------------
(* A stop: close_thread, with the gateway's lock held.                     *)

\* Claude closes the transport; Pi first tells the vendor that the dialog it
\* has open is cancelled.  A terminal session is killed with its hooks.
Stop(s) ==
  /\ GatewayFree /\ session[s] = "tracked"
  /\ session' = [session EXCEPT ![s] = "closing"]
  /\ IF vendor[s] = "pi"
       THEN /\ verdict' = [a \in Asks |->
                 IF a \in Of(s) /\ step[a] \in Under /\ verdict[a] = "none" /\ process[s] = "up"
                   THEN "deny" ELSE verdict[a]]
            /\ UNCHANGED process
       ELSE process' = [process EXCEPT ![s] = "closed"] /\ UNCHANGED verdict
  /\ UNCHANGED <<vendor, pump, vendorVars, askVars, registry, history, lapsed, hand>>

\* Then Pi cancels the prompts of the session,
StopCancels(s) ==
  /\ session[s] = "closing" /\ vendor[s] = "pi"
  /\ session' = [session EXCEPT ![s] = "cancelled"] /\ DrainSid(s)
  /\ UNCHANGED <<vendor, process, pump, vendorVars, askVars, history, lapsed, hand, verdict>>

\* aborts the pump with the call it is in, and closes the transport.
StopAborts(s) ==
  /\ session[s] = "cancelled"
  /\ session' = [session EXCEPT ![s] = "gone"] /\ process' = [process EXCEPT ![s] = "closed"]
  /\ pump' = [pump EXCEPT ![s] = "over"]
  /\ step' = [a \in Asks |-> IF a \in Of(s) /\ step[a] \in Under THEN "dropped" ELSE step[a]]
  /\ deserted' = deserted \cup {a \in Of(s) : step[a] \in Under}
  /\ UNCHANGED <<vendor, vendorVars, reply, registry, chosen, answers, lapsed, hand, verdict>>

StopEnds(s) ==
  /\ session[s] = "closing" /\ vendor[s] # "pi"
  /\ session' = [session EXCEPT ![s] = "gone"]
  /\ UNCHANGED <<vendor, process, pump, vendorVars, askVars, registry, history, lapsed, hand, verdict>>

-----------------------------------------------------------------------------
Asking(a)   == Context(a) \/ Register(a) \/ Selected(a) \/ Unanswered(a) \/ TakesBack(a)
               \/ SeesTheEnd(a) \/ Cancels(a) \/ Replies(a)
Relaying(s) == Receives(s) \/ PumpEnds(s)
Stopping(s) == StopCancels(s) \/ StopAborts(s) \/ StopEnds(s)

Next ==
  \/ \E a \in Asks : \/ Asked(a) \/ VendorGivesUp(a) \/ Asking(a) \/ Expires(a)
                     \/ OuterTimeout(a) \/ Click(a) \/ BadOption(a)
  \/ \E s \in Sessions : \/ Streams(s) \/ Dies(s) \/ Relaying(s) \/ Text(s)
                         \/ Stop(s) \/ Stopping(s)
  \/ Delivers

Spec == Init /\ [][Next]_vars

\* Tasks that can go on do, and time passes; nothing is assumed of people or of
\* the vendor, nor that a stop is asked for.
Fairness ==
  /\ \A a \in Asks : WF_vars(Asking(a)) /\ WF_vars(Expires(a))
  /\ \A s \in Sessions : WF_vars(Relaying(s)) /\ WF_vars(Stopping(s))
  /\ WF_vars(Delivers)

FairSpec == Spec /\ Fairness

-----------------------------------------------------------------------------
(* Properties.                                                             *)

Steps == Under \cup {"unasked", "queued", "done", "dropped"}

\* Types; the hand holds an answer to the question it names.
ChoicesTypeOK ==
  /\ vendor \in [Sessions -> {"claude", "pi", "hook"}]
  /\ process \in [Sessions -> {"up", "closed"}]
  /\ session \in [Sessions -> {"tracked", "closing", "cancelled", "gone"}]
  /\ pump \in [Sessions -> {"on", "over"}]
  /\ feed \in [Sessions -> Seq(Asks \cup {Noise})]
  /\ step \in [Asks -> Steps]
  /\ box \in [Asks -> {"none", "open", "closed"} \cup Verdicts]
  /\ reply \in [Asks -> {"none"} \cup Verdicts]
  /\ verdict \in [Asks -> {"none", "timeout"} \cup Verdicts]
  /\ chosen \in [Asks -> {"none"} \cup Verdicts]
  /\ reg \subseteq Asks /\ lapsed \subseteq Asks /\ lost \subseteq Asks /\ deserted \subseteq Asks
  /\ hand \in {<<>>} \cup (Asks \X Verdicts)
  /\ noise \in 0 .. MaxNoise /\ answers \in 0 .. MaxAnswers

\* A prompt that a person can still answer has an asker waiting for the answer,
\* or one about to withdraw it (register and take_by_token of
\* ask_external_choice, drain_sid of a stop).  The exception is a Pi prompt whose
\* asker was dropped where it stood.
PromptHasItsAsker == \A a \in reg \ deserted : step[a] \in {"cancelling"} \cup Awaiting

\* Whatever the vendor is told but a refusal, a person chose on the prompt of
\* that very question.
NothingAllowedUnasked ==
  \A a \in Asks : verdict[a] \notin {"none", "timeout", "deny"} => chosen[a] = verdict[a]

\* Nothing got in the way of question a.
InTime(a) ==
  /\ a \notin lapsed \cup deserted
  /\ process[SessionOf[a]] = "up" /\ session[SessionOf[a]] = "tracked"

\* An answer that a person gave in time is the one its vendor gets, unless the
\* vendor gave up (take_by_token to apply_pending to control_response).
AnswerCounts ==
  \A a \in Asks :
    step[a] = "done" /\ chosen[a] # "none" /\ InTime(a) => verdict[a] \in {chosen[a], "timeout"}

\* What a question of a vendor comes to, whichever click, timer, stop or death
\* comes first.
VerdictIsTheChoice == NothingAllowedUnasked /\ AnswerCounts

\* A question is answered, with a refusal if nobody does, while its process
\* lives: a turn does not hang on it.  The exception is a question that the
\* broadcast dropped because the asker lagged behind.
AsksSettle ==
  \A a \in Asks :
    step[a] # "unasked" ~> (verdict[a] # "none" \/ process[SessionOf[a]] = "closed" \/ a \in lost)
=============================================================================
