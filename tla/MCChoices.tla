----------------------------- MODULE MCChoices -----------------------------
(* Instances of Choices for TLC. *)
EXTENDS Choices

\* All questions are of one session.
OneSession == [a \in Asks |-> "s1"]
=============================================================================
