--------------------------- MODULE MCGeminiProvider ---------------------------
(* Instance of GeminiProvider for TLC. *)
EXTENDS GeminiProvider, TLC

\* The primary among the fallbacks, and an empty name.
MCFallbacks == <<"flash", "pro", "", "lite">>
=============================================================================
