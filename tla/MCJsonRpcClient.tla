--------------------------- MODULE MCJsonRpcClient ---------------------------
(* Instances of JsonRpcClient for TLC. *)
EXTENDS JsonRpcClient, TLC

\* What a server may send unprompted: a ping that reuses an id of the client, a
\* notification, a line that will not parse.
Ping == [parses |-> TRUE, named |-> TRUE, id |-> [n |-> 1, form |-> "int"],
         failed |-> FALSE, body |-> Nobody]
Progress == [Ping EXCEPT !.id = NoId]
Garbage == NoFrame

MCNoise == {Ping, Progress, Garbage}

\* The server treats all calls alike, and so does the client.
MCSymmetry == Permutations(Calls)
=============================================================================
