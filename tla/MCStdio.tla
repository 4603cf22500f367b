------------------------------- MODULE MCStdio -------------------------------
(* Instance of Stdio for TLC. *)
EXTENDS Stdio, TLC

\* A banner among the frames.
MCOutput == <<"banner", "answer">>
MCJsonLines == {"answer"}
=============================================================================
