--------------------------- MODULE DelegationStore ---------------------------
(***************************************************************************)
(* The delegation requests one child session holds: what `delegation.json` *)
(* and its in-memory mirror contain, and the pure operations on them       *)
(* (`DelegationRequests` of ccteam-harness/src/execution/delegation.rs).   *)
(*                                                                         *)
(* A request id is a number, ascending in acceptance order, so that the    *)
(* order of the vector `requests` is the order of the ids.  A transcript   *)
(* row is named by its execution turn and its place in it: notes said on   *)
(* the way (folded into one), the text or the error the turn ended with,   *)
(* and the empty closing row of a turn whose text all went out before.     *)
(* `request_ids`, `attempt`, `progress`, `title`, `routing`, timestamps    *)
(* and the idempotency key of a request are left out: nothing branches on  *)
(* them here.                                                              *)
(***************************************************************************)
EXTENDS Integers, Sequences, FiniteSets

CONSTANTS
  Requests,         \* request ids, in acceptance order
  Turns,            \* execution turn ids, in the order they are minted
  Parents,          \* sessions that dispatch work to the child
  ResolvedHistory,  \* RESOLVED_REQUEST_HISTORY (20 in the code)
  NotifiedHistory   \* NOTIFIED_TURN_HISTORY (200 in the code)

ASSUME RequestsAssumption == Requests \subseteq Nat \ {0} /\ IsFiniteSet(Requests)
ASSUME TurnsAssumption    == Turns \subseteq Nat \ {0} /\ IsFiniteSet(Turns)
ASSUME HistoryAssumption  == ResolvedHistory \in Nat \ {0} /\ NotifiedHistory \in Nat \ {0}

NoTurn == 0

OpenState     == {"accepted", "queued", "submitted", "executing"}
TerminalState == {"answered", "failed", "interrupted", "undelivered"}
NotifyMode    == {"final", "brief", "off"}

Request ==
  [ state     : OpenState \union TerminalState \union {"absent"},
    parent    : Parents \union {"none"},
    notify    : NotifyMode,
    turn      : Turns \union {NoTurn},
    answered  : Turns \union {NoTurn},
    notified  : BOOLEAN,
    bindError : BOOLEAN ]

Row == {"note", "text", "error", "closing"}

\* A boundary, named by the row that answers; its dedup key is a final mark, and
\* every row a delivery covers leaves a plain mark.
Key  == [turn : Turns, row : Row]
Mark == [turn : Turns, row : Row, final : BOOLEAN]

Store ==
  [ req        : [Requests -> Request],
    notified   : Seq(Mark),
    delivering : SUBSET Key ]

\* A request id that is not in the vector.
Absent ==
  [ state |-> "absent", parent |-> "none", notify |-> "off", turn |-> NoTurn,
    answered |-> NoTurn, notified |-> FALSE, bindError |-> FALSE ]

EmptyStore ==
  [ req |-> [r \in Requests |-> Absent], notified |-> << >>, delivering |-> {} ]

\* `DelegationRequest::accepted`: not bound to any turn yet.
Accepted(p, n) ==
  [ state |-> "accepted", parent |-> p, notify |-> n, turn |-> NoTurn,
    answered |-> NoTurn, notified |-> FALSE, bindError |-> FALSE ]

Elems(seq) == {seq[i] : i \in DOMAIN seq}

Outstanding(s) == {r \in Requests : s.req[r].state \in OpenState}

Resolved(s) == {r \in Requests : s.req[r].state \in TerminalState}

\* The requests a boundary on turn t resolves: by identity, nothing else.
BoundTo(s, t) == {r \in Outstanding(s) : s.req[r].turn = t}

Without(s, R) ==
  [s EXCEPT !.req = [r \in Requests |-> IF r \in R THEN Absent ELSE s.req[r]]]

\* Mutant: outstanding requests count, and age out, like resolved ones.
PruneAny(s) ==
  LET kept == Outstanding(s) \union Resolved(s)
  IN  Without(s, {r \in kept : Cardinality({q \in kept : q > r}) >= ResolvedHistory})

\* `prune`: every outstanding request stays, and the newest resolved ones.
Prune(s) ==
  Without(s, {r \in Resolved(s) :
                Cardinality({q \in Resolved(s) : q > r}) >= ResolvedHistory})

Accept(s, r, p, n) == Prune([s EXCEPT !.req[r] = Accepted(p, n)])

\* Mutant: a continuation turn adopts everything outstanding.
RebindContinuationAll(s, from, to) ==
  [s EXCEPT !.req = [r \in Requests |->
     IF r \in Outstanding(s) /\ s.req[r].turn # NoTurn
     THEN [s.req[r] EXCEPT !.turn = to] ELSE s.req[r]]]

\* A continuation turn adopts exactly the requests bound to the turn it continues.
RebindContinuation(s, from, to) ==
  [s EXCEPT !.req = [r \in Requests |->
     IF r \in BoundTo(s, from) THEN [s.req[r] EXCEPT !.turn = to] ELSE s.req[r]]]

\* `final_dedup_key`: never mistaken for the plain id of the same row.
FinalMark(k)  == [turn |-> k.turn, row |-> k.row, final |-> TRUE]
RowMark(t, w) == [turn |-> t, row |-> w, final |-> FALSE]

RecordNotified(s, m) ==
  LET longer == Append(s.notified, m)
      over   == Len(longer) - NotifiedHistory
  IN  IF m \in Elems(s.notified) THEN s
      ELSE [s EXCEPT !.notified = IF over > 0 THEN SubSeq(longer, over + 1, Len(longer))
                                              ELSE longer]

\* The rows W of turn t, in the order they were written.
RecordCovered(s, t, W) ==
  LET put(u, w) == IF w \in W THEN RecordNotified(u, RowMark(t, w)) ELSE u
  IN  put(put(put(put(s, "note"), "text"), "error"), "closing")

\* `begin_delivery`, where it does not answer None (k is not notified yet).
BeginDelivery(s, k) == [s EXCEPT !.delivering = @ \union {k}]

AbandonDelivery(s, k) == [s EXCEPT !.delivering = @ \ {k}]

\* Mutant: the marker of a finished delivery stays.
FinishDeliveryKeeps(s, k) == RecordNotified(s, FinalMark(k))

FinishDelivery(s, k) == RecordNotified(AbandonDelivery(s, k), FinalMark(k))

IsEmpty(s) ==
  /\ \A r \in Requests : s.req[r].state = "absent"
  /\ s.notified = << >>
  /\ s.delivering = {}

\* What a write of s leaves on disk: `bind_error` is never serialized.
Durable(s) ==
  [s EXCEPT !.req = [r \in Requests |-> [s.req[r] EXCEPT !.bindError = FALSE]]]
=============================================================================
