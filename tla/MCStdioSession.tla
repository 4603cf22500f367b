---------------------------- MODULE MCStdioSession ----------------------------
(* Instance of StdioSession for TLC. *)
EXTENDS StdioSession, TLC
=============================================================================
