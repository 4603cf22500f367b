-------------------------------- MODULE Agent --------------------------------
(***************************************************************************)
(* The conversation loop of src/internal/agent: Ask sends the history to   *)
(* the model, runs the tools it asks for concurrently, and goes round until*)
(* the model answers or the turns are spent.                               *)
(*                                                                         *)
(* The model and the tools are external here: a model may answer, ask for  *)
(* any tools, say nothing or fail, a tool may end in any way, in any order *)
(* and whether or not the context has ended.  One Ask runs at a time; that *)
(* its callers see to it is shown in Tui.                                  *)
(***************************************************************************)
EXTENDS Integers, FiniteSets, GeminiMessages

CONSTANTS Outcomes,  \* the ways a tool call ends in this instance
          MaxTurns,  \* model replies one Ask may use
          MaxCalls,  \* bound: parts, and so tool calls, in one reply
          MaxAsks    \* bound: questions in one history

\* How a tool call can end: with text, with nothing, as a failure of the tool
\* itself, as an error of the transport or the protocol, with a nil result.
ToolOutcomes == {"text", "nothing", "failed", "error", "nil"}

VARIABLES history,    \* the messages of the conversation
          usage,      \* tokens spent, one per model reply
          phase,      \* how far Ask has come; "idle" outside it
          turn,       \* the turn Ask is in
          reply,      \* the model's last reply
          results,    \* the slots of the running round, by index of the call
          cancelled,  \* whether the context of the Ask has ended
          answer      \* what the last Ask returned

agentVars == <<history, usage, phase, turn, reply, results, cancelled, answer>>

Candidates == UNION {[1..n -> Tools \cup OtherParts] : n \in 0..MaxCalls}

\* Mutant: nothing replaces an empty payload.
BugContent(outcome) == outcome

\* What the model gets to read of it; an empty payload is replaced.
Content(outcome) == CASE outcome = "nothing" -> "placeholder"
                      [] outcome = "nil" -> "no result"
                      [] OTHER -> outcome

ToolResult(name, slot, outcome) ==
  [name |-> name, slot |-> slot, content |-> Content(outcome)]

\* Messages.  The user asks questions and hands back results; the model
\* replies, with tool calls or without; the agent writes a closing note.
Message(kind, said, calls, rs) ==
  [kind |-> kind, said |-> said, calls |-> calls, results |-> rs]
Question == Message("question", TRUE, <<>>, <<>>)
Reply(r) == Message("reply", r.said, r.calls, <<>>)
ToolResults(rs) == Message("results", FALSE, <<>>, rs)
ClosingNote == Message("note", TRUE, <<>>, <<>>)

NoReply == FromResult(<<>>)
Running(i) == [name |-> reply.calls[i], slot |-> 0, content |-> "running"]

Init == /\ history = <<>>
        /\ usage = 0
        /\ phase = "idle"
        /\ turn = 0
        /\ reply = NoReply
        /\ results = <<>>
        /\ cancelled = FALSE
        /\ answer = "none"

Count(kind) == Cardinality({i \in 1..Len(history) : history[i].kind = kind})

\* Ask with a fresh context (or one that has already ended).
BeginAsk(done) == /\ phase = "idle"
                  /\ Count("question") < MaxAsks
                  /\ history' = Append(history, Question)
                  /\ phase' = "generate"
                  /\ turn' = 1
                  /\ cancelled' = done
                  /\ answer' = "none"
                  /\ UNCHANGED <<usage, reply, results>>

\* The provider is called with a snapshot of the history.
CallModel == /\ phase = "generate"
             /\ phase' = "inflight"
             /\ UNCHANGED <<history, usage, turn, reply, results, cancelled, answer>>

\* Generate fails: Ask returns, the history is left as it is.
ModelFails == /\ phase = "inflight"
              /\ phase' = "idle"
              /\ \/ answer' = "error"
                 \/ cancelled /\ answer' = "canceled"
              /\ UNCHANGED <<history, usage, turn, reply, results, cancelled>>

\* Generate succeeds: the usage is added first, under its own lock.
ModelReplies == /\ phase = "inflight"
                /\ \E parts \in Candidates : reply' = FromResult(parts)
                /\ usage' = usage + 1
                /\ phase' = "replied"
                /\ UNCHANGED <<history, turn, results, cancelled, answer>>

\* The reply is recorded whole; without tool calls it is the answer, otherwise
\* one goroutine per call starts.
RecordReply == /\ phase = "replied"
               /\ history' = Append(history, Reply(reply))
               /\ IF reply.calls = <<>>
                  THEN /\ phase' = "idle"
                       /\ answer' = "text"
                       /\ UNCHANGED results
                  ELSE /\ phase' = "tools"
                       /\ results' = [i \in 1..Len(reply.calls) |-> Running(i)]
                       /\ UNCHANGED answer
               /\ UNCHANGED <<usage, turn, reply, cancelled>>

Unfinished == {i \in 1..Len(results) : results[i].content = "running"}

\* Mutant: the goroutines share the loop's variables.
BugRunTool(i) == /\ phase = "tools"
                 /\ i \in Unfinished
                 /\ \E outcome \in Outcomes :
                      results' = [results EXCEPT ![i] =
                                    ToolResult(reply.calls[Len(results)], Len(results), outcome)]
                 /\ UNCHANGED <<history, usage, phase, turn, reply, cancelled, answer>>

\* The goroutine of call i writes its result to slot i.
RunTool(i) == /\ phase = "tools"
              /\ i \in Unfinished
              /\ \E outcome \in Outcomes :
                   results' = [results EXCEPT ![i] = ToolResult(reply.calls[i], i, outcome)]
              /\ UNCHANGED <<history, usage, phase, turn, reply, cancelled, answer>>

\* wg.Wait returns; the results go into one user message and the turn ends.
EndRound == /\ phase = "tools"
            /\ Unfinished = {}
            /\ history' = Append(history, ToolResults(results))
            /\ turn' = turn + 1
            /\ phase' = IF turn < MaxTurns THEN "generate" ELSE "spent"
            /\ results' = <<>>
            /\ UNCHANGED <<usage, reply, cancelled, answer>>

\* Out of turns: a closing model turn is recorded.
Stop == /\ phase = "spent"
        /\ history' = Append(history, ClosingNote)
        /\ phase' = "idle"
        /\ answer' = "stopped"
        /\ UNCHANGED <<usage, turn, reply, results, cancelled>>

\* Mutant: the tokens of the forgotten conversation stay.
BugReset == /\ history' = <<>>
            /\ UNCHANGED <<usage, phase, turn, reply, results, cancelled, answer>>

\* Reset takes the lock only: nothing in it keeps a running Ask out.
Reset == /\ history' = <<>>
         /\ usage' = 0
         /\ UNCHANGED <<phase, turn, reply, results, cancelled, answer>>

\* What the goroutines of an Ask do without waiting for anything external.
OwnStep == CallModel \/ RecordReply \/ EndRound \/ Stop

\* What comes back from outside.
External == \/ ModelReplies
            \/ ModelFails
            \/ \E i \in 1..MaxCalls : RunTool(i)

AskStep == OwnStep \/ External

\* The context of the Ask: one that has ended stays so for the Ask that runs
\* under it.
Context == /\ phase # "idle" /\ cancelled => cancelled'
           /\ cancelled' \in BOOLEAN
           /\ UNCHANGED <<history, usage, phase, turn, reply, results, answer>>

\* With callers that use it as it is meant to be: one Ask after the other, each
\* under one context, and the conversation forgotten only between them.
Next == \/ \E done \in BOOLEAN : BeginAsk(done)
        \/ AskStep
        \/ Context
        \/ phase = "idle" /\ Reset

Alone == Init /\ [][Next]_agentVars

-----------------------------------------------------------------------------
(* Properties *)

ResultSet == [name : Tools, slot : 0..MaxCalls,
              content : {"running", "text", "placeholder", "failed", "error", "no result"}]
ResultRounds == UNION {[1..n -> ResultSet] : n \in 0..MaxCalls}
Replies == {FromResult(parts) : parts \in Candidates}

\* Every variable of an Ask keeps its type.
TypeOK == /\ \A i \in 1..Len(history) : history[i].results \in ResultRounds
          /\ usage \in Nat
          /\ phase \in {"idle", "generate", "inflight", "replied", "tools", "spent"}
          /\ turn \in 0..MaxTurns + 1
          /\ reply \in Replies
          /\ results \in ResultRounds
          /\ cancelled \in BOOLEAN
          /\ answer \in {"none", "text", "error", "canceled", "stopped"}

\* Result i of a results message answers call i of the reply before it.
Answers(rs, calls) ==
  /\ Len(rs) = Len(calls)
  /\ \A i \in 1..Len(calls) : rs[i].name = calls[i] /\ rs[i].slot = i

\* Every tool call the model ever made is followed by its own result, at its
\* own index, whichever order the tools finish in; only the round that is still
\* running is without (runTools: a reordered batch pairs them wrongly).
HistoryPaired == \A i \in 1..Len(history) :
  /\ history[i].kind = "reply" /\ history[i].calls # <<>> =>
       \/ i = Len(history) /\ phase = "tools"
       \/ i < Len(history) /\ history[i + 1].kind = "results"
                           /\ Answers(history[i + 1].results, history[i].calls)
  /\ history[i].kind = "results" => i > 1 /\ history[i - 1].kind = "reply"

\* What is sent to the model ends with the user's turn, and in it the results
\* of tools come right after the turn that called them, one for each call and in
\* its order, whatever was cancelled, failed or left out on the way (Ask,
\* snapshot, toContents).
OfType(content, type) ==
  Selected(content.parts, {i \in 1..Len(content.parts) : content.parts[i].type = type})
Names(content, type) == [i \in 1..Len(OfType(content, type)) |-> OfType(content, type)[i].name]
RequestWellFormed == phase \in {"generate", "inflight"} =>
  LET sent == ToContents(history)
  IN /\ sent # <<>> /\ sent[Len(sent)].role = "user"
     /\ \A i \in 1..Len(sent) :
          /\ sent[i].role = "model" => Names(sent[i], "call") =
               IF i = Len(sent) THEN <<>> ELSE Names(sent[i + 1], "response")
          /\ Names(sent[i], "response") # <<>> => i > 1 /\ sent[i - 1].role = "model"

\* The tokens reported are those of the replies in the history, whenever the
\* screen reads them: Reset forgets both or none (Usage, addUsage, Reset).
UsageMatchesHistory ==
  usage = Count("reply") + (IF phase = "replied" THEN 1 ELSE 0)
=============================================================================
