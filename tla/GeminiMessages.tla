---------------------------- MODULE GeminiMessages ----------------------------
(***************************************************************************)
(* How a conversation and the Gemini service's messages are turned into    *)
(* each other: toContents, toParts, roleOf and fromResult of               *)
(* src/internal/llm/gemini/gemini.go.  Pure functions; Agent uses them for *)
(* what it sends to the model and for what comes back.                     *)
(***************************************************************************)
EXTENDS Naturals, Sequences, Selection

CONSTANT Tools  \* the tools the model may ask for

\* What a part of the service's reply can be besides a call of a tool.
OtherParts == {"text", "thought", "nil"}

\* The reply as the agent sees it: whether it has text, and the calls in order.
\* Reasoning and nil parts are passed over.
FromResult(parts) == [said |-> \E i \in 1..Len(parts) : parts[i] = "text",
                      calls |-> Selected(parts, {i \in 1..Len(parts) : parts[i] \in Tools})]

Part(type, name) == [type |-> type, name |-> name]
TextPart == Part("text", "")

\* Mutant: a message with text loses the rest.
BugToParts(m) ==
  IF m.said THEN <<TextPart>>
  ELSE [i \in 1..Len(m.calls) |-> Part("call", m.calls[i])]
       \o [i \in 1..Len(m.results) |-> Part("response", m.results[i].name)]

\* The text, then the calls with their signatures, then the results.
ToParts(m) == (IF m.said THEN <<TextPart>> ELSE <<>>)
              \o [i \in 1..Len(m.calls) |-> Part("call", m.calls[i])]
              \o [i \in 1..Len(m.results) |-> Part("response", m.results[i].name)]

\* Results of tools travel in a turn of the user.
RoleOf(m) == IF m.kind \in {"reply", "note"} THEN "model" ELSE "user"

\* A message without parts is left out of what is sent.
ToContents(messages) ==
  LET kept == Selected(messages, {i \in 1..Len(messages) : ToParts(messages[i]) # <<>>})
  IN [i \in 1..Len(kept) |-> [role |-> RoleOf(kept[i]), parts |-> ToParts(kept[i])]]
=============================================================================
