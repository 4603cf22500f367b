-------------------------------- MODULE MCTui --------------------------------
(* Instance of Tui for TLC. *)
EXTENDS Tui, TLC
=============================================================================
