--------------------------- MODULE MCRetainedInput ---------------------------
(* Instances of RetainedInput for TLC. *)
EXTENDS RetainedInput

\* A line that starts a turn, a notification behind it, and any line behind both.
Mixed == <<{"user"}, {"note"}, {"note", "task", "slash", "user"}>>

\* A line that starts a turn and two tasks behind it.
Tasks == <<{"user"}, {"user", "task"}, {"task"}>>
=============================================================================
