------------------------------ MODULE MCRegistry ------------------------------
(* Instance of Registry and Startup for TLC: labels and tools whose names can meet. *)
EXTENDS Startup, TLC

MCBytes == {"a", "b", "1", "_", "-", ".", "x", "y"}
\* x and y make one character.
MCContinuing == {"y"}
MCLetters == {"a", "b"}
MCDigits == {"1"}

MCOrder == <<"s1", "s2", "s3">>
\* The label a. is sanitized to a_, so that a + __ + _b and a_ + __ + b are the
\* same name; with 1xy, two characters but three bytes, the prefix is cut short,
\* and 1bbbbxy leaves no room for one.
MCLabel == [s1 |-> <<"a">>, s2 |-> <<"a", ".">>, s3 |-> <<"b">>]
MCCatalog == [s1 |-> {<<"_", "b">>, <<"1", "b", "b", "b", "b", "x", "y">>},
              s2 |-> {<<"b">>, <<"1", "x", "y">>},
              s3 |-> {<<"b">>}]
=============================================================================
