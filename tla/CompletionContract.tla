------------------------- MODULE CompletionContract -------------------------
(***************************************************************************)
(* What the `agent` tool promises of the requests dispatched to a child,   *)
(* with no boundary, mirror, claim or file in it: a request is on record   *)
(* until it is answered, and an answer is recorded only once the parent    *)
(* that asked to be told was told.  "A duplicate after a crash is          *)
(* acceptable, a lost completion is not": telling may be repeated.         *)
(* `Delegation` implements this module on delegation.json.                 *)
(***************************************************************************)
CONSTANT Requests

VARIABLES
  status,   \* what the record says of each request
  told,     \* requests whose parent was told, ever
  quiet,    \* requests that asked not to be told, or to wait inline
  lost      \* requests whose parent turned out to be unreachable

vars == <<status, told, quiet, lost>>

\* "open": accepted; "taken": the vendor's adapter has it; "refused": dropped, or
\* settled and forgotten, without the adapter ever having it; "stopped": the child
\* was stopped before it answered; "gone": forgotten after the adapter had it.
Status == {"none", "open", "refused", "taken", "answered", "stopped", "gone"}

TypeOK ==
  /\ status \in [Requests -> Status]
  /\ told \subseteq Requests /\ quiet \subseteq Requests /\ lost \subseteq Requests

Init ==
  /\ status = [r \in Requests |-> "none"]
  /\ told = {} /\ quiet = {} /\ lost = {}

\* What one write of the record may make of request r.
Ask(r)    == status[r] = "none"                  /\ status'[r] = "open"
Reject(r) == status[r] = "open"                  /\ status'[r] = "refused"
Take(r)   == status[r] = "open"                  /\ status'[r] = "taken"
Stop(r)   == status[r] \in {"open", "taken"}     /\ status'[r] = "stopped"
Drop(r)   == status[r] = "taken" /\ r \in lost   /\ status'[r] = "gone"
Forget(r) == status[r] \in {"answered", "stopped"} /\ status'[r] \in {"gone", "refused"}

\* A restart that scanned the record while a dispatch was being refused writes the
\* request back.
Return(r) == status[r] = "refused"               /\ status'[r] = "open"

\* An accept that is taken back brings back the settled requests it pushed out.
Recall(r) ==
  /\ status[r] \in {"gone", "refused"} /\ status'[r] \in {"answered", "stopped"}
  /\ status'[r] = "answered" => r \in told \union quiet'

\* A delivery under way when the child is stopped still counts.
Answer(r) ==
  /\ status[r] \in {"taken", "stopped"} /\ status'[r] = "answered"
  /\ r \in told \union quiet

\* How a request wants to hear of its answer is settled when it is asked.
TermsStay(r) ==
  \/ r \in quiet <=> r \in quiet'
  \/ {status[r], status'[r]} \intersect {"none", "refused", "gone"} # {}

\* One write may move several requests: a boundary answers all it is bound to.
Write ==
  /\ status' \in [Requests -> Status]
  /\ \A r \in Requests :
       /\ \/ status'[r] = status[r]
          \/ Ask(r) \/ Reject(r) \/ Take(r) \/ Stop(r) \/ Drop(r) \/ Forget(r) \/ Answer(r)
          \/ Return(r) \/ Recall(r)
       /\ TermsStay(r)
  /\ quiet' \subseteq Requests
  /\ lost' \subseteq lost
  /\ UNCHANGED told

\* A parent is told, once more perhaps, of work the vendor took.
Tell(R) ==
  /\ \A r \in R : status[r] \notin {"none", "open", "refused"}
  /\ told' = told \union R
  /\ UNCHANGED <<status, quiet, lost>>

Lose(R) ==
  /\ \A r \in R : status[r] \notin {"none", "open", "refused"}
  /\ lost' = lost \union R
  /\ UNCHANGED <<status, told, quiet>>

Next == Write \/ \E R \in SUBSET Requests : Tell(R) \/ Lose(R)

Spec == Init /\ [][Next]_vars
=============================================================================
