---------------------------- MODULE MCHttpTransport ----------------------------
(* Instance of HttpTransport and EventStream for TLC. *)
EXTENDS HttpTransport, TLC

\* A blank line, a comment, another field, data without a value, of spaces, with
\* a colon of its own, and with a space after the colon or none.
MCLines == {<<>>, <<":", "x">>, <<"x", ":", "y">>, <<"data">>, <<"data", ":", " ", " ">>,
            <<"data", ":", "x", ":">>, <<"data", ":", "y">>, <<"data", ":", " ", "y">>}
=============================================================================
