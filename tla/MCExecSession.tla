--------------------------- MODULE MCExecSession ---------------------------
(* Instances of ExecSession for TLC. *)
EXTENDS ExecSession

\* An exec and a project creation.
OneOfEach == <<"exec", "init">>
=============================================================================
