------------------------------ MODULE RpcCalls ------------------------------
(***************************************************************************)
(* What the callers of a JSON-RPC client are promised, and nothing of how  *)
(* it is kept: no ids, no pending map, no reader goroutine.                *)
(*                                                                         *)
(* A call asks the server something and returns once. It returns an answer *)
(* only if the server gave one and then it is the answer to this very      *)
(* call; it returns a cancellation only if its context ended, the          *)
(* session's error only if the session ended; writing the request may also *)
(* fail.  (src/internal/jsonrpc/client.go, comments of Call and Client.)   *)
(***************************************************************************)
CONSTANTS Calls,  \* the calls made over one session
          Nobody  \* the subject of a return that carries no answer

VARIABLES asked,      \* the calls whose request has reached the server
          answered,   \* the calls the server has answered
          cancelled,  \* the calls whose context has ended
          ended,      \* whether the session has ended
          returned    \* what each call has returned: why, and whose answer

vars == <<asked, answered, cancelled, ended, returned>>

NotYet == [why |-> "none", of |-> Nobody]

Init == /\ asked = {}
        /\ answered = {}
        /\ cancelled = {}
        /\ ended = FALSE
        /\ returned = [c \in Calls |-> NotYet]

Ask(c) == /\ c \notin asked
          /\ returned[c] = NotYet
          /\ asked' = asked \cup {c}
          /\ UNCHANGED <<answered, cancelled, ended, returned>>

Answer(c) == /\ c \in asked \ answered
             /\ answered' = answered \cup {c}
             /\ UNCHANGED <<asked, cancelled, ended, returned>>

\* One context may be the parent of several calls' contexts.
Cancel == /\ \E C \in SUBSET Calls : cancelled' = cancelled \cup C
          /\ UNCHANGED <<asked, answered, ended, returned>>

End == /\ ended' = TRUE
       /\ UNCHANGED <<asked, answered, cancelled, returned>>

\* The reasons for which a call must return.
Reasons(c) ==
  (IF c \in answered THEN {[why |-> "answer", of |-> c]} ELSE {}) \cup
  (IF c \in cancelled THEN {[why |-> "ctx", of |-> Nobody]} ELSE {}) \cup
  (IF ended THEN {[why |-> "session", of |-> Nobody]} ELSE {})

WriteError == [why |-> "write", of |-> Nobody]

Return(c) == /\ returned[c] = NotYet
             /\ \E r \in Reasons(c) \cup {WriteError} :
                  returned' = [returned EXCEPT ![c] = r]
             /\ UNCHANGED <<asked, answered, cancelled, ended>>

Next == \/ \E c \in Calls : Ask(c) \/ Answer(c) \/ Return(c)
        \/ Cancel
        \/ End

\* Every call is asked, answered and released in an order that explains what
\* it returned (the contract in the comments of Client and Call).
Spec == Init /\ [][Next]_vars

\* A call that has asked and has a reason to return does return: no response,
\* cancellation or end of session is lost on the way to its caller.
Prompt == \A c \in Calls :
            (c \in asked /\ Reasons(c) # {}) ~> returned[c] # NotYet
=============================================================================
