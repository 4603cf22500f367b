------------------------------ MODULE TuiProofs ------------------------------
(***************************************************************************)
(* What holds of the terminal interfaces and the conversation they drive,  *)
(* for any tools, outcomes, turns and questions.                           *)
(*                                                                         *)
(* The interfaces see to it that an Ask runs exactly while a request is    *)
(* being asked (Covered), so that a /reset meets none; the conversation's  *)
(* invariants then only have to look at the steps of the Ask itself.       *)
(***************************************************************************)
EXTENDS Tui, SelectionTheorems, FiniteSetTheorems, TLAPS

-----------------------------------------------------------------------------
(* Requests *)

Fronts == {"screen", "line"}
Requests == {"none", "started", "asking", "answered"}

\* An Ask runs exactly while its request is being asked.
Covered == /\ front \in Fronts
           /\ request \in Requests
           /\ phase # "idle" <=> request = "asking"
           /\ front = "screen" => (busy <=> request # "none")
           /\ front = "line" => request # "started"
           /\ cancelling => front = "screen" /\ busy
           /\ busy \in BOOLEAN /\ cancelling \in BOOLEAN /\ cancelled \in BOOLEAN
           /\ quitting \in BOOLEAN

\* The steps of an Ask, and what each does to its phase.
LEMMA AskPhases ==
  ASSUME A!AskStep
  PROVE  phase # "idle" /\ UNCHANGED cancelled
BY DEF A!AskStep, A!OwnStep, A!External, A!CallModel, A!RecordReply, A!EndRound, A!Stop,
       A!ModelReplies, A!ModelFails, A!RunTool

LEMMA StepCovered == Covered /\ [Next]_vars => Covered'
<1> SUFFICES ASSUME Covered, [Next]_vars PROVE Covered'
  OBVIOUS
<1> USE DEF Covered, Fronts, Requests, chatVars, agentUnchanged, askVars, allButLogs
<1>1. CASE Logs
  <2>1. UNCHANGED <<front, request, phase, busy, cancelling, cancelled, quitting>>
    BY <1>1 DEF Logs, Tick, Tab, Scroll, Resize, EnterLog
  <2> QED
    BY <2>1
<1>2. CASE EnterQuestion
  <2>1. /\ front = "screen" /\ ~busy /\ busy' = TRUE /\ cancelled' = quitting
        /\ request' = "started" /\ UNCHANGED <<phase, front, cancelling, quitting>>
    BY <1>2 DEF EnterQuestion, InputFree, OnScreen
  <2> QED
    BY <2>1
<1>3. CASE EnterReset
  BY <1>3 DEF EnterReset, A!Reset
<1>4. CASE Esc
  BY <1>4 DEF Esc, OnScreen
<1>5. CASE Quit
  BY <1>5 DEF Quit
<1>6. CASE EndScreen
  BY <1>6 DEF EndScreen
<1>7. CASE StartAsk
  BY <1>7 DEF StartAsk, A!BeginAsk
<1>8. CASE Asking
  <2>1. UNCHANGED <<front, busy, cancelling, cancelled, quitting>>
    BY <1>8, AskPhases DEF Asking
  <2>2. request = "asking" /\ request' = IF phase' = "idle" THEN "answered" ELSE request
    BY <1>8 DEF Asking
  <2> QED
    BY <2>1, <2>2
<1>9. CASE ShowAnswer
  <2>1. front = "screen" /\ request = "answered" /\ busy
    BY <1>9 DEF ShowAnswer, OnScreen
  <2>2. /\ request' = "none" /\ busy' = FALSE /\ cancelling' = FALSE /\ cancelled' = TRUE
        /\ UNCHANGED <<phase, front, quitting>>
    BY <1>9, <2>1 DEF ShowAnswer
  <2> QED
    BY <2>1, <2>2
<1>10. CASE AskLine
  BY <1>10 DEF AskLine, AtPrompt, A!BeginAsk
<1>11. CASE ResetLine
  BY <1>11 DEF ResetLine, A!Reset
<1>12. CASE AnswerLine
  BY <1>12 DEF AnswerLine
<1>13. CASE Interrupt
  BY <1>13 DEF Interrupt
<1>14. CASE LeaveLine
  BY <1>14 DEF LeaveLine
<1>15. CASE UNCHANGED vars
  BY <1>15 DEF vars
<1> QED
  BY <1>1, <1>2, <1>3, <1>4, <1>5, <1>6, <1>7, <1>8, <1>9, <1>10, <1>11, <1>12, <1>13, <1>14, <1>15
  DEF Next, Key, Line

LEMMA AlwaysCovered == Spec => []Covered
<1>1. Init => Covered
  BY DEF Init, A!Init, Covered, Fronts, Requests
<1> QED
  BY <1>1, StepCovered, PTL DEF Spec

\* The screen is busy exactly while a question is on its way, and an Ask runs
\* only inside a request: no second Ask and no /reset ever meets a running one
\* (busy in Update).
THEOREM OneAskAtATime == Spec => []BusyCoversAsk
<1>1. Covered => BusyCoversAsk
  BY DEF Covered, BusyCoversAsk, Fronts, Requests
<1> QED
  BY <1>1, AlwaysCovered, PTL

-----------------------------------------------------------------------------
(* The mark of the log pane *)

LEMMA DrainMarks == ~small /\ Drain => (Missed' => Missed)
<1> SUFFICES ASSUME ~small, Drain, Missed' PROVE Missed
  OBVIOUS
<1>1. PICK news \in Fed : /\ unread' = IF news THEN ~showLogs \/ ~tail ELSE unread
                          /\ unseen' = ((unseen \/ news) /\ ~Drawn(showLogs, tail, small))
  BY DEF Drain
<1>2. ~(showLogs /\ tail)
  BY <1>1 DEF Missed, Drawn
<1>3. CASE news
  BY <1>1, <1>2, <1>3 DEF Missed
<1>4. CASE ~news
  BY <1>1, <1>4 DEF Missed
<1> QED
  BY <1>3, <1>4

LEMMA LookMarks == ASSUME NEW logs, NEW end, ~small, Look(logs, end) PROVE Missed' => Missed
BY DEF Missed, Look, Drawn

\* New log lines lose their mark unseen only in a window too small for the pane,
\* however it is opened, left, scrolled, enlarged and filled (drainLogs, Tab,
\* Scroll, View).
THEOREM MarkIsKept == Spec => NewsMarked
<1>1. [Next]_vars => [Missed' => Missed \/ small]_vars
  <2> SUFFICES ASSUME [Next]_vars, ~small PROVE Missed' => Missed
    OBVIOUS
  <2>1. CASE Tick
    BY <2>1, DrainMarks DEF Tick
  <2>2. CASE Tab
    BY <2>2, LookMarks DEF Tab
  <2>3. CASE Scroll
    BY <2>3, LookMarks DEF Scroll
  <2>4. CASE Resize
    BY <2>4 DEF Resize, Missed
  <2>5. CASE EnterLog
    BY <2>5 DEF EnterLog, Missed, Drawn
  <2>6. CASE ShowAnswer
    <3>1. CASE busy
      BY <2>6, <3>1, DrainMarks DEF ShowAnswer
    <3>2. CASE ~busy
      BY <2>6, <3>2 DEF ShowAnswer, logVars, Missed
    <3> QED
      BY <3>1, <3>2
  <2>7. CASE UNCHANGED logVars
    BY <2>7 DEF logVars, Missed
  <2>8. Key \/ StartAsk \/ Asking \/ Line \/ UNCHANGED vars => UNCHANGED logVars
    BY DEF Key, EnterQuestion, EnterReset, Esc, Quit, EndScreen, StartAsk, Asking, Line, AskLine,
           ResetLine, AnswerLine, Interrupt, LeaveLine, vars, logVars
  <2> QED
    BY <2>1, <2>2, <2>3, <2>4, <2>5, <2>6, <2>7, <2>8 DEF Next, Logs
<1> QED
  BY <1>1, PTL DEF Spec, NewsMarked

-----------------------------------------------------------------------------
(* Whose cancellation it was *)

\* On the screen nothing but Esc and quitting ends the context of a request on its
\* way, and an Ask reports a cancellation only if its context has ended.
EndedByEsc == /\ front = "screen" /\ request # "none" /\ cancelled => cancelling \/ quitting
              /\ request \in {"asking", "answered"} /\ answer = "canceled" => cancelled

LEMMA StepEnded == Covered /\ EndedByEsc /\ [Next]_vars => EndedByEsc'
<1> SUFFICES ASSUME Covered, EndedByEsc, [Next]_vars PROVE EndedByEsc'
  OBVIOUS
<1> USE DEF EndedByEsc, chatVars, agentUnchanged, askVars, allButLogs
<1>1. CASE Logs
  <2>1. UNCHANGED <<front, quitting, request, cancelled, cancelling, answer>>
    BY <1>1 DEF Logs, Tick, Tab, Scroll, Resize, EnterLog
  <2> QED
    BY <2>1
<1>2. CASE EnterQuestion
  BY <1>2 DEF EnterQuestion
<1>3. CASE EnterReset \/ ResetLine
  BY <1>3 DEF EnterReset, ResetLine, A!Reset
<1>4. CASE Esc
  BY <1>4 DEF Esc
<1>5. CASE Quit \/ EndScreen
  BY <1>5 DEF Quit, EndScreen
<1>6. CASE StartAsk
  BY <1>6 DEF StartAsk, A!BeginAsk
<1>7. CASE Asking
  <2>1. UNCHANGED <<front, quitting, cancelling, cancelled>> /\ request = "asking"
    BY <1>7, AskPhases DEF Asking
  <2>2. answer' = answer \/ answer' # "canceled" \/ cancelled
    BY <1>7 DEF Asking, A!AskStep, A!OwnStep, A!External, A!CallModel, A!RecordReply,
                A!EndRound, A!Stop, A!ModelReplies, A!ModelFails, A!RunTool
  <2> QED
    BY <2>1, <2>2
<1>8. CASE ShowAnswer
  BY <1>8 DEF ShowAnswer
<1>9. CASE AskLine
  BY <1>9 DEF AskLine, AtPrompt, A!BeginAsk
<1>10. CASE AnswerLine
  BY <1>10 DEF AnswerLine
<1>11. CASE Interrupt
  BY <1>11 DEF Interrupt
<1>12. CASE LeaveLine
  BY <1>12 DEF LeaveLine, AtPrompt
<1>13. CASE UNCHANGED vars
  BY <1>13 DEF vars
<1> QED
  BY <1>1, <1>2, <1>3, <1>4, <1>5, <1>6, <1>7, <1>8, <1>9, <1>10, <1>11, <1>12, <1>13
  DEF Next, Key, Line

\* A question is shown as canceled only if Esc was pressed for this very one or the
\* program is on its way out, for any number of questions (requestCancel, tuiAnswer).
THEOREM CanceledOnlyByUser == Spec => CanceledByUser
<1>1. Init => EndedByEsc
  BY DEF Init, A!Init, EndedByEsc
<1>2. Covered /\ EndedByEsc /\ [Next]_vars
        => [request = "answered" /\ request' = "none" /\ shown' = "canceled"
              => cancelling \/ quitting]_vars
  <2> SUFFICES ASSUME Covered, EndedByEsc, [Next]_vars,
                      request = "answered", request' = "none", shown' = "canceled"
               PROVE  cancelling \/ quitting
    OBVIOUS
  <2>1. CASE ShowAnswer
    <3>1. front = "screen" /\ busy
      BY <2>1 DEF ShowAnswer, OnScreen, Covered
    <3>2. answer = "canceled"
      BY <2>1, <3>1 DEF ShowAnswer, Outcome
    <3> QED
      BY <3>1, <3>2 DEF EndedByEsc
  <2>2. CASE AnswerLine
    BY <2>2 DEF AnswerLine
  <2>3. ~(Logs \/ Key \/ StartAsk \/ Asking \/ AskLine \/ ResetLine \/ Interrupt \/ LeaveLine)
    <3>1. ~(Key \/ StartAsk \/ Asking \/ AskLine)
      BY DEF Key, EnterQuestion, EnterReset, Esc, Quit, EndScreen, StartAsk, Asking, AskLine, InputFree,
             Covered, AtPrompt, OnScreen
    <3>2. ~(Logs \/ ResetLine \/ Interrupt \/ LeaveLine)
      BY DEF Logs, Tick, Tab, Scroll, Resize, EnterLog, allButLogs, ResetLine, Interrupt,
             LeaveLine, AtPrompt
    <3> QED
      BY <3>1, <3>2
  <2>4. ~UNCHANGED vars
    BY DEF vars
  <2> QED
    BY <2>1, <2>2, <2>3, <2>4 DEF Next, Line
<1> QED
  BY <1>1, <1>2, StepEnded, AlwaysCovered, PTL DEF Spec, CanceledByUser

-----------------------------------------------------------------------------
(* Types of the conversation *)

Rounds == {rs \in Seq(A!ResultSet) : Len(rs) <= MaxCalls}
Messages == [kind : {"question", "reply", "results", "note"}, said : BOOLEAN,
             calls : Seq(Tools), results : Rounds]

\* The conversation's variables, with the turns left while it goes on and the
\* round that belongs to the reply.
AskTyped == /\ history \in Seq(Messages)
            /\ usage \in Nat
            /\ phase \in {"idle", "generate", "inflight", "replied", "tools", "spent"}
            /\ turn \in 0..MaxTurns + 1
            /\ phase \notin {"idle", "spent"} => turn \in 1..MaxTurns
            /\ reply \in A!Replies
            /\ results \in Rounds
            /\ phase = "tools" => Len(results) = Len(reply.calls)
            /\ cancelled \in BOOLEAN
            /\ answer \in {"none", "text", "error", "canceled", "stopped"}

\* The selection of the agent is the one SelectionTheorems is about.
LEMMA SameSelection == \A s, K : A!Selected(s, K) = Selected(s, K)
BY DEF A!Selected, Selected, A!UpTo, UpTo

\* What a reply is turned into calls tools, no more than it has parts.
LEMMA ReplyShape ==
  ASSUME NEW r \in A!Replies
  PROVE  r.said \in BOOLEAN /\ r.calls \in Seq(Tools) /\ Len(r.calls) <= MaxCalls
<1>1. PICK parts \in A!Candidates : r = A!FromResult(parts)
  BY DEF A!Replies
<1>2. PICK n \in 0..MaxCalls : parts \in [1..n -> Tools \cup A!OtherParts]
  BY <1>1 DEF A!Candidates
<1>3. parts \in Seq(Tools \cup A!OtherParts) /\ Len(parts) = n /\ n \in Nat /\ n <= MaxCalls
  BY <1>2, AgentAssumption
<1> DEFINE K == {i \in 1..Len(parts) : parts[i] \in Tools}
<1>4. \A i \in 1..Len(parts) : i \in K => parts[i] \in Tools
  OBVIOUS
<1>5. r.calls = Selected(parts, K)
  BY <1>1, SameSelection DEF A!FromResult
<1> HIDE DEF K
<1>6. Selected(parts, K) \in Seq(Tools) /\ Len(Selected(parts, K)) <= Len(parts)
  BY <1>3, <1>4, SelectedTyped
<1>7. r.calls \in Seq(Tools) /\ Len(r.calls) <= MaxCalls
  BY <1>3, <1>5, <1>6, AgentAssumption
<1>8. r.said \in BOOLEAN
  BY <1>1 DEF A!FromResult
<1> QED
  BY <1>7, <1>8

LEMMA EmptyRound == <<>> \in Rounds
BY AgentAssumption DEF Rounds

LEMMA MessagesTyped ==
  /\ A!Question \in Messages
  /\ A!ClosingNote \in Messages
  /\ \A r \in A!Replies : A!Reply(r) \in Messages
  /\ \A rs \in Rounds : A!ToolResults(rs) \in Messages
<1>1. <<>> \in Seq(Tools)
  OBVIOUS
<1>2. A!Question \in Messages /\ A!ClosingNote \in Messages
  BY <1>1, EmptyRound DEF A!Question, A!ClosingNote, A!Message, Messages
<1>3. ASSUME NEW r \in A!Replies PROVE A!Reply(r) \in Messages
  BY EmptyRound, ReplyShape DEF A!Reply, A!Message, Messages
<1>4. ASSUME NEW rs \in Rounds PROVE A!ToolResults(rs) \in Messages
  BY <1>1, <1>4 DEF A!ToolResults, A!Message, Messages
<1> QED
  BY <1>2, <1>3, <1>4

LEMMA AppendMessage ==
  ASSUME NEW S, NEW s \in Seq(S), NEW m \in S
  PROVE  Append(s, m) \in Seq(S)
  OBVIOUS

\* A result of a call in the running round.
LEMMA ResultTyped ==
  ASSUME AskTyped, phase = "tools", NEW i \in 1..Len(results), NEW outcome \in Outcomes
  PROVE  A!ToolResult(reply.calls[i], i, outcome) \in A!ResultSet
<1>1. reply.calls[i] \in Tools /\ i \in 0..MaxCalls
  BY ReplyShape, AgentAssumption DEF AskTyped, Rounds
<1>2. A!Content(outcome) \in {"text", "placeholder", "failed", "error", "no result"}
  BY AgentAssumption DEF A!Content, A!ToolOutcomes
<1> QED
  BY <1>1, <1>2 DEF A!ToolResult, A!ResultSet

LEMMA ReplaceResult ==
  ASSUME NEW S, NEW s \in Seq(S), NEW i \in 1..Len(s), NEW x \in S
  PROVE  [s EXCEPT ![i] = x] \in Seq(S) /\ Len([s EXCEPT ![i] = x]) = Len(s)
  OBVIOUS

\* The slots of a round that starts.
LEMMA SlotsTyped ==
  ASSUME reply \in A!Replies
  PROVE  LET slots == [i \in 1..Len(reply.calls) |-> A!Running(i)]
         IN  slots \in Rounds /\ Len(slots) = Len(reply.calls)
<1> DEFINE slots == [i \in 1..Len(reply.calls) |-> A!Running(i)]
<1>1. Len(reply.calls) \in Nat /\ Len(reply.calls) <= MaxCalls
  BY ReplyShape
<1>2. \A i \in 1..Len(reply.calls) : A!Running(i) \in A!ResultSet
  <2> SUFFICES ASSUME NEW i \in 1..Len(reply.calls) PROVE A!Running(i) \in A!ResultSet
    OBVIOUS
  <2>1. reply.calls[i] \in Tools
    BY ReplyShape
  <2> QED
    BY <2>1, AgentAssumption DEF A!Running, A!ResultSet
<1>3. slots \in Seq(A!ResultSet) /\ Len(slots) = Len(reply.calls)
  <2> HIDE DEF A!Running
  <2> QED
    BY <1>1, <1>2
<1> QED
  BY <1>1, <1>3 DEF Rounds

\* One step of an Ask.
LEMMA AskStepTyped == AskTyped /\ A!AskStep => AskTyped'
<1> SUFFICES ASSUME AskTyped, A!AskStep PROVE AskTyped'
  OBVIOUS
<1> USE AgentAssumption
<1>1. CASE A!CallModel
  BY <1>1 DEF A!CallModel, AskTyped
<1>2. CASE A!ModelFails
  BY <1>2 DEF A!ModelFails, AskTyped
<1>3. CASE A!ModelReplies
  <2>1. reply' \in A!Replies
    BY <1>3 DEF A!ModelReplies, A!Replies
  <2> QED
    BY <1>3, <2>1 DEF A!ModelReplies, AskTyped
<1>4. CASE A!RecordReply
  <2>1. history' \in Seq(Messages)
    BY <1>4, MessagesTyped, AppendMessage DEF A!RecordReply, AskTyped
  <2>2. CASE reply.calls = <<>>
    BY <1>4, <2>1, <2>2 DEF A!RecordReply, AskTyped
  <2>3. CASE reply.calls # <<>>
    <3>1. results' \in Rounds /\ Len(results') = Len(reply.calls)
      BY <1>4, <2>3, SlotsTyped DEF A!RecordReply, AskTyped
    <3> QED
      BY <1>4, <2>1, <2>3, <3>1 DEF A!RecordReply, AskTyped
  <2> QED
    BY <2>2, <2>3
<1>5. CASE A!EndRound
  <2>1. history' \in Seq(Messages)
    BY <1>5, MessagesTyped, AppendMessage DEF A!EndRound, AskTyped
  <2>2. turn' = turn + 1 /\ turn \in 1..MaxTurns
    BY <1>5 DEF A!EndRound, AskTyped
  <2>3. phase' = (IF turn < MaxTurns THEN "generate" ELSE "spent") /\ results' = <<>>
        /\ UNCHANGED <<usage, reply, cancelled, answer>>
    BY <1>5 DEF A!EndRound
  <2> QED
    BY <2>1, <2>2, <2>3, EmptyRound DEF AskTyped
<1>6. CASE A!Stop
  <2>1. history' \in Seq(Messages)
    BY <1>6, MessagesTyped, AppendMessage DEF A!Stop, AskTyped
  <2> QED
    BY <1>6, <2>1 DEF A!Stop, AskTyped
<1>7. ASSUME NEW i \in 1..MaxCalls, A!RunTool(i) PROVE AskTyped'
  <2>1. PICK outcome \in Outcomes :
          results' = [results EXCEPT ![i] = A!ToolResult(reply.calls[i], i, outcome)]
    BY <1>7 DEF A!RunTool
  <2>2. phase = "tools" /\ i \in 1..Len(results)
    BY <1>7 DEF A!RunTool, A!Unfinished
  <2>3. results' \in Rounds /\ Len(results') = Len(results)
    BY <2>1, <2>2, ResultTyped, ReplaceResult DEF AskTyped, Rounds
  <2> QED
    BY <1>7, <2>2, <2>3 DEF A!RunTool, AskTyped
<1> QED
  BY <1>1, <1>2, <1>3, <1>4, <1>5, <1>6, <1>7 DEF A!AskStep, A!OwnStep, A!External

LEMMA BeginTyped == AskTyped /\ cancelled' \in BOOLEAN /\ A!BeginAsk(cancelled) => AskTyped'
<1> SUFFICES ASSUME AskTyped, A!BeginAsk(cancelled) PROVE AskTyped'
  OBVIOUS
<1>1. history' \in Seq(Messages)
  BY MessagesTyped, AppendMessage DEF A!BeginAsk, AskTyped
<1> QED
  BY <1>1, AgentAssumption DEF A!BeginAsk, AskTyped

-----------------------------------------------------------------------------
(* Every step of the program, as the conversation sees it *)

\* A step leaves the conversation alone but for its context, begins an Ask, is one
\* of the Ask's own, or forgets the conversation while none runs.
LEMMA Steps ==
  ASSUME Covered, [Next]_vars
  PROVE  \/ agentUnchanged /\ (cancelled' = cancelled \/ cancelled' \in BOOLEAN)
         \/ A!BeginAsk(cancelled)
         \/ A!AskStep
         \/ A!Reset /\ phase = "idle"
<1> USE DEF agentUnchanged, askVars, allButLogs
<1>1. CASE Logs
  BY <1>1 DEF Logs, Tick, Tab, Scroll, Resize, EnterLog
<1>2. CASE EnterQuestion \/ Esc \/ Quit \/ EndScreen
  BY <1>2 DEF EnterQuestion, Esc, Quit, EndScreen, Covered
<1>3. CASE EnterReset
  <2>1. A!Reset /\ front = "screen" /\ ~busy
    BY <1>3 DEF EnterReset, InputFree, OnScreen
  <2> QED
    BY <2>1 DEF Covered
<1>4. CASE ResetLine
  <2>1. A!Reset /\ request = "none"
    BY <1>4 DEF ResetLine, AtPrompt
  <2> QED
    BY <2>1 DEF Covered
<1>5. CASE StartAsk \/ AskLine
  BY <1>5 DEF StartAsk, AskLine
<1>6. CASE Asking
  BY <1>6 DEF Asking
<1>7. CASE ShowAnswer
  BY <1>7 DEF ShowAnswer
<1>8. CASE AnswerLine \/ Interrupt \/ LeaveLine
  BY <1>8 DEF AnswerLine, Interrupt, LeaveLine
<1>9. CASE UNCHANGED vars
  BY <1>9 DEF vars
<1> QED
  BY <1>1, <1>2, <1>3, <1>4, <1>5, <1>6, <1>7, <1>8, <1>9 DEF Next, Key, Line

LEMMA StepAskTyped == Covered /\ AskTyped /\ [Next]_vars => AskTyped'
<1> SUFFICES ASSUME Covered, AskTyped, [Next]_vars PROVE AskTyped'
  OBVIOUS
<1>1. CASE agentUnchanged /\ (cancelled' = cancelled \/ cancelled' \in BOOLEAN)
  BY <1>1 DEF agentUnchanged, AskTyped
<1>2. CASE A!BeginAsk(cancelled)
  <2>1. cancelled' \in BOOLEAN
    BY <1>2 DEF A!BeginAsk, AskTyped
  <2> QED
    BY <1>2, <2>1, BeginTyped
<1>3. CASE A!AskStep
  BY <1>3, AskStepTyped
<1>4. CASE A!Reset
  BY <1>4 DEF A!Reset, AskTyped
<1> QED
  BY <1>1, <1>2, <1>3, <1>4, Steps

LEMMA InitAskTyped == Init => AskTyped
<1> SUFFICES ASSUME Init PROVE AskTyped
  OBVIOUS
<1>1. <<>> \in [1..0 -> Tools \cup A!OtherParts]
  OBVIOUS
<1>2. <<>> \in A!Candidates
  BY <1>1, AgentAssumption DEF A!Candidates
<1>3. A!NoReply \in A!Replies
  BY <1>2 DEF A!NoReply, A!Replies
<1>4. history \in Seq(Messages)
  BY DEF Init, A!Init
<1>5. reply \in A!Replies /\ results \in Rounds
  BY <1>3, EmptyRound DEF Init, A!Init
<1>6. usage = 0 /\ phase = "idle" /\ turn = 0 /\ cancelled = FALSE /\ answer = "none"
  BY DEF Init, A!Init
<1>7. turn \in 0..MaxTurns + 1 /\ usage \in Nat
  BY <1>6, AgentAssumption
<1> QED
  BY <1>4, <1>5, <1>6, <1>7 DEF AskTyped

LEMMA AlwaysAskTyped == Spec => []AskTyped
BY InitAskTyped, StepAskTyped, AlwaysCovered, PTL DEF Spec

-----------------------------------------------------------------------------
(* Types *)

\* What only the interfaces keep.
ScreenTyped == /\ shown \in {"none", "text", "error", "canceled"}
               /\ quit \in BOOLEAN
               /\ showLogs \in BOOLEAN /\ tail \in BOOLEAN /\ small \in BOOLEAN
               /\ unread \in BOOLEAN /\ unseen \in BOOLEAN

LEMMA DrainTyped ==
  ASSUME ScreenTyped, Drain
  PROVE  /\ showLogs' \in BOOLEAN /\ tail' \in BOOLEAN /\ small' \in BOOLEAN
         /\ unread' \in BOOLEAN /\ unseen' \in BOOLEAN
<1>1. PICK news \in Fed : /\ unread' = IF news THEN ~showLogs \/ ~tail ELSE unread
                          /\ unseen' = ((unseen \/ news) /\ ~Drawn(showLogs, tail, small))
  BY DEF Drain
<1>2. unread' \in BOOLEAN
  <2>1. CASE news
    BY <1>1, <2>1
  <2>2. CASE ~news
    BY <1>1, <2>2 DEF ScreenTyped
  <2> QED
    BY <2>1, <2>2
<1> QED
  BY <1>1, <1>2 DEF Drain, ScreenTyped

LEMMA StepScreenTyped == Covered /\ AskTyped /\ ScreenTyped /\ [Next]_vars => ScreenTyped'
<1> SUFFICES ASSUME Covered, AskTyped, ScreenTyped, [Next]_vars PROVE ScreenTyped'
  OBVIOUS
<1>1. Outcome \in {"none", "text", "error", "canceled"}
  BY DEF Outcome, AskTyped
<1>2. CASE Tick
  BY <1>2, DrainTyped DEF Tick, ScreenTyped, allButLogs, chatVars
<1>3. CASE Tab \/ Scroll
  <2>1. shown' = shown /\ quit' = quit
    BY <1>3 DEF Tab, Scroll, allButLogs, chatVars
  <2>2. PICK logs \in BOOLEAN, end \in BOOLEAN : Look(logs, end)
    BY <1>3 DEF Tab, Scroll, ScreenTyped
  <2> QED
    BY <2>1, <2>2 DEF Look, ScreenTyped
<1>4. CASE Resize
  BY <1>4 DEF Resize, ScreenTyped, allButLogs, chatVars
<1>5. CASE EnterLog
  BY <1>5 DEF EnterLog, ScreenTyped, allButLogs, chatVars
<1>6. CASE ShowAnswer
  <2>1. CASE busy
    BY <1>1, <1>6, <2>1, DrainTyped DEF ShowAnswer, ScreenTyped
  <2>2. CASE ~busy
    BY <1>6, <2>2 DEF ShowAnswer, ScreenTyped, logVars
  <2> QED
    BY <2>1, <2>2
<1>7. CASE AnswerLine
  <2>1. shown' \in {"none", "text", "error", "canceled"}
    BY <1>1, <1>7 DEF AnswerLine
  <2>2. quit' \in BOOLEAN
    BY <1>7 DEF AnswerLine
  <2> QED
    BY <1>7, <2>1, <2>2 DEF AnswerLine, ScreenTyped, logVars
<1>8. CASE Key \/ StartAsk \/ Asking \/ AskLine \/ ResetLine \/ Interrupt \/ LeaveLine
  <2>1. UNCHANGED <<shown, logVars>> /\ (quit' = quit \/ quit' = TRUE)
    BY <1>8 DEF Key, EnterQuestion, EnterReset, Esc, Quit, EndScreen, StartAsk, Asking, AskLine,
                ResetLine, Interrupt, LeaveLine, chatVars
  <2> QED
    BY <2>1 DEF logVars, ScreenTyped
<1>9. CASE UNCHANGED vars
  BY <1>9 DEF vars, chatVars, logVars, ScreenTyped
<1> QED
  BY <1>2, <1>3, <1>4, <1>5, <1>6, <1>7, <1>8, <1>9 DEF Next, Logs, Line

\* A round as a function, as the type invariant has it.
LEMMA RoundIsRound == \A rs \in Rounds : rs \in A!ResultRounds
<1> SUFFICES ASSUME NEW rs \in Rounds PROVE rs \in A!ResultRounds
  OBVIOUS
<1>1. rs \in [1..Len(rs) -> A!ResultSet] /\ Len(rs) \in 0..MaxCalls
  BY AgentAssumption DEF Rounds
<1> QED
  BY <1>1 DEF A!ResultRounds

LEMMA TypesAgree == Covered /\ AskTyped /\ ScreenTyped => TypeOK
<1> SUFFICES ASSUME Covered, AskTyped, ScreenTyped PROVE TypeOK
  OBVIOUS
<1>1. \A i \in 1..Len(history) : history[i].results \in A!ResultRounds
  <2> SUFFICES ASSUME NEW i \in 1..Len(history) PROVE history[i].results \in A!ResultRounds
    OBVIOUS
  <2>1. history[i] \in Messages
    BY DEF AskTyped
  <2> QED
    BY <2>1, RoundIsRound DEF Messages
<1>2. A!TypeOK
  BY <1>1, RoundIsRound DEF A!TypeOK, AskTyped
<1>3. {busy, cancelling, quitting, quit, showLogs, tail, small, unread, unseen} \subseteq BOOLEAN
  BY DEF Covered, ScreenTyped
<1> QED
  BY <1>2, <1>3 DEF TypeOK, Covered, Fronts, Requests, ScreenTyped

\* Every variable of the interfaces and of the conversation keeps its type.
THEOREM TypeCorrect == Spec => []TypeOK
<1>1. Init => ScreenTyped
  BY DEF Init, ScreenTyped
<1> QED
  BY <1>1, StepScreenTyped, TypesAgree, AlwaysCovered, AlwaysAskTyped, PTL DEF Spec

-----------------------------------------------------------------------------
(* The history *)

LEMMA AppendKeeps ==
  ASSUME NEW S, NEW s \in Seq(S), NEW m \in S
  PROVE  /\ Len(Append(s, m)) = Len(s) + 1
         /\ SubSeq(Append(s, m), 1, Len(s)) = s
  OBVIOUS

\* A step that leaves the conversation alone does not take back that the context
\* of a running Ask has ended: a new one is made only when no question is on its
\* way.
LEMMA ContextStays ==
  ASSUME Covered, [Next]_vars, agentUnchanged
  PROVE  A!Context
<1> USE DEF agentUnchanged, askVars, allButLogs
<1>1. cancelled' \in BOOLEAN /\ (phase # "idle" /\ cancelled => cancelled')
  <2>1. CASE Logs
    BY <2>1 DEF Logs, Tick, Tab, Scroll, Resize, EnterLog, Covered
  <2>2. CASE EnterQuestion
    <3>1. phase = "idle" /\ cancelled' \in BOOLEAN
      BY <2>2 DEF EnterQuestion, InputFree, OnScreen, Covered
    <3> QED
      BY <3>1
  <2>3. CASE Esc \/ Quit \/ Interrupt
    <3>1. cancelled' = TRUE
      BY <2>3 DEF Esc, Quit, Interrupt
    <3> QED
      BY <3>1
  <2>4. CASE EnterReset \/ ResetLine
    BY <2>4 DEF EnterReset, ResetLine, A!Reset, Covered
  <2>5. CASE StartAsk \/ AskLine
    <3>1. phase = "idle" /\ cancelled' = cancelled
      BY <2>5 DEF StartAsk, AskLine, A!BeginAsk
    <3> QED
      BY <3>1 DEF Covered
  <2>6. CASE Asking
    BY <2>6, AskPhases DEF Asking, Covered
  <2>7. CASE ShowAnswer
    <3>1. cancelled' = TRUE \/ cancelled' = cancelled
      BY <2>7 DEF ShowAnswer
    <3> QED
      BY <3>1 DEF Covered
  <2>8. CASE EndScreen \/ AnswerLine \/ LeaveLine
    BY <2>8 DEF EndScreen, AnswerLine, LeaveLine, Covered
  <2>9. CASE UNCHANGED vars
    BY <2>9 DEF vars, Covered
  <2> QED
    BY <2>1, <2>2, <2>3, <2>4, <2>5, <2>6, <2>7, <2>8, <2>9 DEF Next, Key, Line
<1> QED
  BY <1>1 DEF A!Context

\* The program is, as far as its agent can tell, a caller that asks one question
\* after the other under one context each and forgets only between them, for any
\* number of questions, turns, tools and log lines (Update, repl).
THEOREM AgentUsedAlone == Spec => UsedAlone
<1>1. Init => A!Init
  BY DEF Init
<1>2. Covered /\ [Next]_vars => [A!Next]_A!agentVars
  <2> SUFFICES ASSUME Covered, [Next]_vars PROVE A!Next
    OBVIOUS
  <2> USE DEF A!Next
  <2>1. CASE agentUnchanged
    BY <2>1, ContextStays
  <2>2. CASE A!BeginAsk(cancelled)
    <3>1. cancelled \in BOOLEAN
      BY DEF Covered
    <3> QED
      BY <2>2, <3>1
  <2>3. CASE A!AskStep \/ (A!Reset /\ phase = "idle")
    BY <2>3
  <2> QED
    BY <2>1, <2>2, <2>3, Steps
<1> QED
  BY <1>1, <1>2, AlwaysCovered, PTL DEF Spec, UsedAlone, A!Alone

\* While an Ask runs the history only grows, one message at a time, for any
\* number of questions and turns: /reset never meets a running Ask (Update, Ask).
THEOREM HistoryGrows == Spec => HistoryOnlyGrows
<1>1. Covered /\ AskTyped /\ [Next]_vars
        => [phase # "idle" =>
              \/ history' = history
              \/ /\ Len(history') = Len(history) + 1
                 /\ SubSeq(history', 1, Len(history)) = history]_vars
  <2> SUFFICES ASSUME Covered, AskTyped, [Next]_vars, phase # "idle", history' # history
               PROVE  /\ Len(history') = Len(history) + 1
                      /\ SubSeq(history', 1, Len(history)) = history
    OBVIOUS
  <2>1. A!AskStep
    BY Steps DEF agentUnchanged, A!BeginAsk
  <2>2. CASE A!RecordReply
    BY <2>2, MessagesTyped, AppendKeeps DEF A!RecordReply, AskTyped
  <2>3. CASE A!EndRound
    BY <2>3, MessagesTyped, AppendKeeps DEF A!EndRound, AskTyped
  <2>4. CASE A!Stop
    BY <2>4, MessagesTyped, AppendKeeps DEF A!Stop, AskTyped
  <2>5. ~(A!CallModel \/ A!ModelFails \/ A!ModelReplies \/ \E i \in 1..MaxCalls : A!RunTool(i))
    BY DEF A!CallModel, A!ModelFails, A!ModelReplies, A!RunTool
  <2> QED
    BY <2>1, <2>2, <2>3, <2>4, <2>5 DEF A!AskStep, A!OwnStep, A!External
<1> QED
  BY <1>1, AlwaysCovered, AlwaysAskTyped, PTL DEF Spec, HistoryOnlyGrows

\* HistoryPaired of any history, with or without a round still running.
Paired(h, running) == \A i \in 1..Len(h) :
  /\ h[i].kind = "reply" /\ h[i].calls # <<>> =>
       \/ i = Len(h) /\ running
       \/ i < Len(h) /\ h[i + 1].kind = "results" /\ A!Answers(h[i + 1].results, h[i].calls)
  /\ h[i].kind = "results" => i > 1 /\ h[i - 1].kind = "reply"

\* The running round belongs to the last message, and what has come in so far
\* lies in its own slots.
RoundOfLast == phase = "tools" =>
  /\ history # <<>> /\ history[Len(history)] = A!Reply(reply)
  /\ \A i \in 1..Len(results) :
       results[i].content # "running" => results[i].name = reply.calls[i] /\ results[i].slot = i

PairInv == Paired(history, phase = "tools") /\ RoundOfLast

\* A message more, which answers the running round if there is one.
LEMMA AppendPaired ==
  ASSUME NEW h \in Seq(Messages), NEW m \in Messages, NEW was \in BOOLEAN, NEW is \in BOOLEAN,
         Paired(h, was),
         m.kind = "reply" /\ m.calls # <<>> => is,
         m.kind = "results" => h # <<>> /\ h[Len(h)].kind = "reply",
         was => m.kind = "results" /\ A!Answers(m.results, h[Len(h)].calls)
  PROVE  Paired(Append(h, m), is)
<1> DEFINE k == Append(h, m)
<1>1. Len(k) = Len(h) + 1 /\ k[Len(h) + 1] = m /\ Len(h) \in Nat
  OBVIOUS
<1>2. \A i \in 1..Len(h) : k[i] = h[i]
  OBVIOUS
<1> HIDE DEF k
<1>3. ASSUME NEW i \in 1..Len(h), h[i].kind = "reply", h[i].calls # <<>>
      PROVE  i < Len(k) /\ k[i + 1].kind = "results" /\ A!Answers(k[i + 1].results, k[i].calls)
  <2>1. CASE i = Len(h)
    BY <1>1, <1>2, <1>3, <2>1 DEF Paired
  <2>2. CASE i < Len(h)
    <3>1. i + 1 \in 1..Len(h)
      BY <2>2, <1>1
    <3> QED
      BY <1>1, <1>2, <1>3, <2>2, <3>1 DEF Paired
  <2> QED
    BY <1>1, <2>1, <2>2
<1>4. ASSUME NEW i \in 1..Len(h), h[i].kind = "results"
      PROVE  i > 1 /\ k[i - 1].kind = "reply"
  <2>1. i > 1 /\ h[i - 1].kind = "reply"
    BY <1>4 DEF Paired
  <2>2. i - 1 \in 1..Len(h)
    BY <1>1, <2>1
  <2> QED
    BY <1>2, <2>1, <2>2
<1>5. m.kind = "results" => Len(h) + 1 > 1 /\ k[Len(h)].kind = "reply"
  <2> SUFFICES ASSUME m.kind = "results" PROVE Len(h) + 1 > 1 /\ k[Len(h)].kind = "reply"
    OBVIOUS
  <2>1. Len(h) \in 1..Len(h)
    OBVIOUS
  <2> QED
    BY <1>2, <2>1
<1>6. Paired(k, is)
  <2> SUFFICES ASSUME NEW i \in 1..Len(k)
               PROVE  /\ k[i].kind = "reply" /\ k[i].calls # <<>> =>
                           \/ i = Len(k) /\ is
                           \/ i < Len(k) /\ k[i + 1].kind = "results"
                                         /\ A!Answers(k[i + 1].results, k[i].calls)
                      /\ k[i].kind = "results" => i > 1 /\ k[i - 1].kind = "reply"
    BY DEF Paired
  <2>1. CASE i \in 1..Len(h)
    BY <1>2, <1>3, <1>4, <2>1
  <2>2. CASE i = Len(h) + 1
    BY <1>1, <1>5, <2>2
  <2> QED
    BY <1>1, <2>1, <2>2
<1> QED
  BY <1>6 DEF k

LEMMA LastOfAppend ==
  ASSUME NEW S, NEW s \in Seq(S), NEW m \in S
  PROVE  Append(s, m) # <<>> /\ Append(s, m)[Len(Append(s, m))] = m
  OBVIOUS

LEMMA AskStepPaired == AskTyped /\ PairInv /\ A!AskStep => PairInv'
<1> SUFFICES ASSUME AskTyped, PairInv, A!AskStep PROVE PairInv'
  OBVIOUS
<1> DEFINE running == phase = "tools"
<1>1. CASE A!CallModel
  BY <1>1 DEF A!CallModel, PairInv, RoundOfLast, Paired
<1>2. CASE A!ModelFails
  BY <1>2 DEF A!ModelFails, PairInv, RoundOfLast, Paired
<1>3. CASE A!ModelReplies
  BY <1>3 DEF A!ModelReplies, PairInv, RoundOfLast, Paired
<1>4. CASE A!RecordReply
  <2> DEFINE m == A!Reply(reply)
  <2>1. m \in Messages /\ m.kind = "reply" /\ m.calls = reply.calls
    BY MessagesTyped DEF AskTyped, A!Reply, A!Message
  <2>2. phase # "tools" /\ (m.calls # <<>> => phase' = "tools")
    BY <1>4, <2>1 DEF A!RecordReply
  <2>3. history \in Seq(Messages) /\ history' = Append(history, m)
    BY <1>4 DEF A!RecordReply, AskTyped
  <2>4. Paired(history, FALSE)
    BY <2>2 DEF PairInv, Paired
  <2> HIDE DEF m
  <2>5. Paired(Append(history, m), phase' = "tools")
    BY <2>1, <2>2, <2>3, <2>4, AppendPaired
  <2>6. RoundOfLast'
    <3> SUFFICES ASSUME phase' = "tools" PROVE RoundOfLast'
      BY DEF RoundOfLast
    <3>1. history' # <<>> /\ history'[Len(history')] = m
      BY <2>1, <2>3, LastOfAppend
    <3>2. A!Reply(reply)' = m
      BY <1>4 DEF A!RecordReply, A!Reply, A!Message, m
    <3>3. results' = [i \in 1..Len(reply.calls) |-> A!Running(i)] /\ Len(reply.calls) \in Nat
      BY <1>4, ReplyShape DEF A!RecordReply, AskTyped
    <3>4. \A i \in 1..Len(results') : results'[i].content = "running"
      BY <3>3 DEF A!Running
    <3> QED
      BY <3>1, <3>2, <3>4 DEF RoundOfLast
  <2> QED
    BY <2>3, <2>5, <2>6 DEF PairInv
<1>5. CASE A!EndRound
  <2> DEFINE m == A!ToolResults(results)
  <2>1. m \in Messages /\ m.kind = "results" /\ m.results = results
    BY MessagesTyped DEF AskTyped, A!ToolResults, A!Message
  <2>2. /\ phase = "tools" /\ phase' # "tools" /\ Len(results) = Len(reply.calls)
        /\ history \in Seq(Messages) /\ history' = Append(history, m)
    BY <1>5 DEF A!EndRound, AskTyped
  <2>3. history # <<>> /\ history[Len(history)] = A!Reply(reply)
    BY <2>2 DEF PairInv, RoundOfLast
  <2>4. history[Len(history)].kind = "reply" /\ history[Len(history)].calls = reply.calls
    BY <2>3 DEF A!Reply, A!Message
  <2>5. \A i \in 1..Len(results) : results[i].name = reply.calls[i] /\ results[i].slot = i
    BY <1>5, <2>2 DEF A!EndRound, A!Unfinished, PairInv, RoundOfLast
  <2>6. A!Answers(m.results, history[Len(history)].calls)
    BY <2>1, <2>2, <2>4, <2>5 DEF A!Answers
  <2>7. Paired(history, TRUE)
    BY <2>2 DEF PairInv, Paired
  <2> HIDE DEF m
  <2>8. Paired(Append(history, m), FALSE)
    BY <2>1, <2>2, <2>3, <2>4, <2>6, <2>7, AppendPaired
  <2>9. Paired(Append(history, m), phase' = "tools")
    BY <2>2, <2>8 DEF Paired
  <2> QED
    BY <2>2, <2>9 DEF PairInv, RoundOfLast
<1>6. CASE A!Stop
  <2> DEFINE m == A!ClosingNote
  <2>1. m \in Messages /\ m.kind = "note"
    BY MessagesTyped DEF A!ClosingNote, A!Message
  <2>2. phase # "tools" /\ phase' # "tools" /\ history \in Seq(Messages) /\ history' = Append(history, m)
    BY <1>6 DEF A!Stop, AskTyped
  <2>3. Paired(history, FALSE)
    BY <2>2 DEF PairInv, Paired
  <2> HIDE DEF m
  <2>4. Paired(Append(history, m), FALSE)
    BY <2>1, <2>2, <2>3, AppendPaired
  <2>5. Paired(Append(history, m), phase' = "tools")
    BY <2>2, <2>4 DEF Paired
  <2> QED
    BY <2>2, <2>5 DEF PairInv, RoundOfLast
<1>7. ASSUME NEW i \in 1..MaxCalls, A!RunTool(i) PROVE PairInv'
  <2>1. PICK outcome \in Outcomes :
          results' = [results EXCEPT ![i] = A!ToolResult(reply.calls[i], i, outcome)]
    BY <1>7 DEF A!RunTool
  <2>2. UNCHANGED <<history, phase, reply>> /\ phase = "tools" /\ i \in 1..Len(results)
    BY <1>7 DEF A!RunTool, A!Unfinished
  <2>3. results \in Seq(A!ResultSet) /\ A!ToolResult(reply.calls[i], i, outcome) \in A!ResultSet
    BY <2>2, ResultTyped DEF AskTyped, Rounds
  <2>4. Len(results') = Len(results)
    BY <2>1, <2>2, <2>3, ReplaceResult
  <2>5. ASSUME NEW j \in 1..Len(results), results'[j].content # "running"
        PROVE  results'[j].name = reply.calls[j] /\ results'[j].slot = j
    <3>1. CASE j = i
      <4>1. results'[j] = A!ToolResult(reply.calls[i], i, outcome)
        BY <2>1, <2>2, <2>3, <3>1
      <4> QED
        BY <3>1, <4>1 DEF A!ToolResult
    <3>2. CASE j # i
      <4>1. results'[j] = results[j]
        BY <2>1, <2>3, <3>2
      <4> QED
        BY <2>2, <2>5, <4>1 DEF PairInv, RoundOfLast
    <3> QED
      BY <3>1, <3>2
  <2>6. Paired(history', phase' = "tools")
    BY <2>2 DEF PairInv, Paired
  <2>7. history' # <<>> /\ history'[Len(history')] = A!Reply(reply)'
    BY <2>2 DEF PairInv, RoundOfLast, A!Reply, A!Message
  <2>8. RoundOfLast'
    BY <2>2, <2>4, <2>5, <2>7 DEF RoundOfLast
  <2> QED
    BY <2>6, <2>8 DEF PairInv
<1> QED
  BY <1>1, <1>2, <1>3, <1>4, <1>5, <1>6, <1>7 DEF A!AskStep, A!OwnStep, A!External

LEMMA StepPaired == Covered /\ AskTyped /\ PairInv /\ [Next]_vars => PairInv'
<1> SUFFICES ASSUME Covered, AskTyped, PairInv, [Next]_vars PROVE PairInv'
  OBVIOUS
<1>1. CASE agentUnchanged
  BY <1>1 DEF agentUnchanged, PairInv, Paired, RoundOfLast, A!Reply, A!Message
<1>2. CASE A!BeginAsk(cancelled)
  <2> DEFINE m == A!Question
  <2>1. m \in Messages /\ m.kind = "question"
    BY MessagesTyped DEF A!Question, A!Message
  <2>2. phase # "tools" /\ phase' # "tools" /\ history \in Seq(Messages) /\ history' = Append(history, m)
    BY <1>2 DEF A!BeginAsk, AskTyped
  <2>3. Paired(history, FALSE)
    BY <2>2 DEF PairInv, Paired
  <2> HIDE DEF m
  <2>4. Paired(Append(history, m), FALSE)
    BY <2>1, <2>2, <2>3, AppendPaired
  <2>5. Paired(Append(history, m), phase' = "tools")
    BY <2>2, <2>4 DEF Paired
  <2> QED
    BY <2>2, <2>5 DEF PairInv, RoundOfLast
<1>3. CASE A!AskStep
  BY <1>3, AskStepPaired
<1>4. CASE A!Reset /\ phase = "idle"
  BY <1>4 DEF A!Reset, PairInv, Paired, RoundOfLast
<1> QED
  BY <1>1, <1>2, <1>3, <1>4, Steps

\* Every tool call the model ever made is followed by its own result, at its own
\* index, whichever order the tools finish in and whatever the user does meanwhile
\* (runTools: a reordered batch pairs them wrongly).
THEOREM ResultsPaired == Spec => []HistoryPaired
<1>1. Init => PairInv
  BY DEF Init, A!Init, PairInv, Paired, RoundOfLast
<1>2. PairInv => HistoryPaired
  BY DEF PairInv, Paired, HistoryPaired, A!HistoryPaired
<1> QED
  BY <1>1, <1>2, StepPaired, AlwaysCovered, AlwaysAskTyped, PTL DEF Spec

-----------------------------------------------------------------------------
(* The usage *)

Replied(h) == {i \in 1..Len(h) : h[i].kind = "reply"}

LEMMA CountAppended ==
  ASSUME NEW h \in Seq(Messages), NEW m \in Messages
  PROVE  /\ Cardinality(Replied(h)) \in Nat
         /\ m.kind = "reply" => Cardinality(Replied(Append(h, m))) = Cardinality(Replied(h)) + 1
         /\ m.kind # "reply" => Cardinality(Replied(Append(h, m))) = Cardinality(Replied(h))
<1> DEFINE k == Append(h, m)
<1>1. Len(k) = Len(h) + 1 /\ k[Len(h) + 1] = m /\ Len(h) \in Nat
  OBVIOUS
<1>2. \A i \in 1..Len(h) : k[i] = h[i]
  OBVIOUS
<1> HIDE DEF k
<1>3. IsFiniteSet(1..Len(h))
  BY <1>1, FS_Interval
<1>4. IsFiniteSet(Replied(h))
  BY <1>3, FS_Subset DEF Replied
<1>5. CASE m.kind = "reply"
  <2>1. Replied(k) = Replied(h) \cup {Len(h) + 1}
    BY <1>1, <1>2, <1>5 DEF Replied
  <2>2. Len(h) + 1 \notin Replied(h)
    BY <1>1 DEF Replied
  <2> QED
    BY <1>4, <1>5, <2>1, <2>2, FS_AddElement, FS_CardinalityType DEF k
<1>6. CASE m.kind # "reply"
  <2>1. Replied(k) = Replied(h)
    BY <1>1, <1>2, <1>6 DEF Replied
  <2> QED
    BY <1>4, <1>6, <2>1, FS_CardinalityType DEF k
<1> QED
  BY <1>5, <1>6

\* UsageMatchesHistory, by cases.
UsageInv == /\ phase = "replied" => usage = Cardinality(Replied(history)) + 1
            /\ phase # "replied" => usage = Cardinality(Replied(history))

LEMMA StepUsage == Covered /\ AskTyped /\ UsageInv /\ [Next]_vars => UsageInv'
<1> SUFFICES ASSUME Covered, AskTyped, UsageInv, [Next]_vars PROVE UsageInv'
  OBVIOUS
<1>1. CASE agentUnchanged
  BY <1>1 DEF agentUnchanged, UsageInv, Replied
<1>2. CASE A!BeginAsk(cancelled)
  <2>1. A!Question \in Messages /\ A!Question.kind # "reply"
    BY MessagesTyped DEF A!Question, A!Message
  <2> QED
    BY <1>2, <2>1, CountAppended DEF A!BeginAsk, AskTyped, UsageInv
<1>3. CASE A!AskStep
  <2>1. CASE A!CallModel \/ A!ModelFails \/ \E i \in 1..MaxCalls : A!RunTool(i)
    BY <2>1 DEF A!CallModel, A!ModelFails, A!RunTool, UsageInv, Replied
  <2>2. CASE A!ModelReplies
    BY <2>2 DEF A!ModelReplies, UsageInv, Replied
  <2>3. CASE A!RecordReply
    <3>1. A!Reply(reply) \in Messages /\ A!Reply(reply).kind = "reply"
      BY MessagesTyped DEF AskTyped, A!Reply, A!Message
    <3>2. phase = "replied" /\ phase' # "replied" /\ usage' = usage
      BY <2>3 DEF A!RecordReply
    <3> QED
      BY <2>3, <3>1, <3>2, CountAppended DEF A!RecordReply, AskTyped, UsageInv
  <2>4. CASE A!EndRound
    <3>1. A!ToolResults(results) \in Messages /\ A!ToolResults(results).kind # "reply"
      BY MessagesTyped DEF AskTyped, A!ToolResults, A!Message
    <3>2. phase # "replied" /\ phase' # "replied" /\ usage' = usage
      BY <2>4 DEF A!EndRound
    <3> QED
      BY <2>4, <3>1, <3>2, CountAppended DEF A!EndRound, AskTyped, UsageInv
  <2>5. CASE A!Stop
    <3>1. A!ClosingNote \in Messages /\ A!ClosingNote.kind # "reply"
      BY MessagesTyped DEF A!ClosingNote, A!Message
    <3> QED
      BY <2>5, <3>1, CountAppended DEF A!Stop, AskTyped, UsageInv
  <2> QED
    BY <1>3, <2>1, <2>2, <2>3, <2>4, <2>5 DEF A!AskStep, A!OwnStep, A!External
<1>4. CASE A!Reset /\ phase = "idle"
  <2>1. history' = <<>> /\ usage' = 0 /\ phase' = "idle"
    BY <1>4 DEF A!Reset
  <2>2. Replied(history') = {}
    BY <2>1 DEF Replied
  <2> QED
    BY <2>1, <2>2, FS_EmptySet DEF UsageInv, Replied
<1> QED
  BY <1>1, <1>2, <1>3, <1>4, Steps

\* The tokens reported are those of the replies in the history, at any moment the
\* screen may read them: Reset forgets both or none (Usage, addUsage, Reset).
THEOREM UsageMatches == Spec => []UsageMatchesHistory
<1>1. Init => UsageInv
  <2> SUFFICES ASSUME Init PROVE UsageInv
    OBVIOUS
  <2>1. history = <<>> /\ usage = 0 /\ phase = "idle"
    BY DEF Init, A!Init
  <2>2. Replied(history) = {}
    BY <2>1 DEF Replied
  <2> QED
    BY <2>1, <2>2, FS_EmptySet DEF UsageInv
<1>2. AskTyped /\ UsageInv => UsageMatchesHistory
  <2> SUFFICES ASSUME AskTyped, UsageInv PROVE UsageMatchesHistory
    OBVIOUS
  <2>1. Cardinality(Replied(history)) = A!Count("reply")
    BY DEF Replied, A!Count, A!Cardinality, Cardinality
  <2>2. usage \in Nat
    BY DEF AskTyped
  <2>3. A!Question \in Messages
    BY MessagesTyped
  <2>4. Cardinality(Replied(history)) \in Nat
    BY <2>3, CountAppended DEF AskTyped
  <2> QED
    BY <2>1, <2>2, <2>4 DEF UsageInv, UsageMatchesHistory, A!UsageMatchesHistory
<1> QED
  BY <1>1, <1>2, StepUsage, AlwaysCovered, AlwaysAskTyped, PTL DEF Spec

-----------------------------------------------------------------------------
(* What is sent to the model *)

Parts == [type : {"text", "call", "response"}, name : Tools \cup {""}]
Texts(m) == IF m.said THEN <<A!TextPart>> ELSE <<>>
Calls(m) == [i \in 1..Len(m.calls) |-> A!Part("call", m.calls[i])]
Responses(m) == [i \in 1..Len(m.results) |-> A!Part("response", m.results[i].name)]

HasType(part, type) == part.type = type
AllOf(parts, type) == \A i \in 1..Len(parts) : HasType(parts[i], type)
NoneOf(parts, type) == \A i \in 1..Len(parts) : ~HasType(parts[i], type)
Typed(parts, type) == Selected(parts, {i \in 1..Len(parts) : HasType(parts[i], type)})

LEMMA TypedAll ==
  ASSUME NEW S, NEW s \in Seq(S), NEW type, AllOf(s, type) PROVE Typed(s, type) = s
<1> DEFINE K == {i \in 1..Len(s) : HasType(s[i], type)}
<1>1. 1..Len(s) \subseteq K
  BY DEF AllOf
<1> HIDE DEF K
<1>2. Selected(s, K) = s
  BY <1>1, SelectedAll
<1> QED
  BY <1>2 DEF Typed, K

LEMMA TypedNone ==
  ASSUME NEW S, NEW s \in Seq(S), NEW type, NoneOf(s, type) PROVE Typed(s, type) = <<>>
<1> DEFINE K == {i \in 1..Len(s) : HasType(s[i], type)}
<1>1. (1..Len(s)) \cap K = {}
  BY DEF NoneOf
<1> HIDE DEF K
<1>2. Selected(s, K) = <<>>
  BY <1>1, SelectedNone
<1> QED
  BY <1>2 DEF Typed, K

LEMMA TypedJoined ==
  ASSUME NEW S, NEW s \in Seq(S), NEW t \in Seq(S), NEW type
  PROVE  Typed(s \o t, type) = Typed(s, type) \o Typed(t, type)
<1> DEFINE r == Joined(s, t)
<1>1. /\ Len(r) = Len(s) + Len(t) /\ Len(s) \in Nat /\ Len(t) \in Nat
      /\ \A i \in 1..Len(s) : r[i] = s[i]
      /\ \A i \in 1..Len(t) : r[Len(s) + i] = t[i]
  <2>1. Len(s) \in Nat /\ Len(t) \in Nat
    OBVIOUS
  <2> HIDE DEF r
  <2>2. Len(r) = Len(s) + Len(t)
    BY JoinedIs DEF r
  <2>3. \A i \in 1..Len(s) : r[i] = s[i]
    BY JoinedIs DEF r
  <2>4. \A i \in 1..Len(t) : r[Len(s) + i] = t[i]
    BY JoinedIs DEF r
  <2> QED
    BY <2>1, <2>2, <2>3, <2>4
<1>5. r = s \o t
  BY DEF Joined
<1> HIDE DEF r
<1> DEFINE J == {i \in 1..Len(s) : HasType(s[i], type)}
           L == {i \in 1..Len(t) : HasType(t[i], type)}
           K == {i \in 1..Len(r) : HasType(r[i], type)}
<1>2. \A i \in 1..Len(s) : i \in J <=> i \in K
  BY <1>1
<1>3. \A i \in 1..Len(t) : i \in L <=> Len(s) + i \in K
  BY <1>1
<1> HIDE DEF J, K, L
<1>4. Selected(s \o t, K) = Selected(s, J) \o Selected(t, L)
  BY <1>2, <1>3, SelectedConcat
<1>6. Selected(r, K) = Selected(s, J) \o Selected(t, L)
  BY <1>4, <1>5, Zenon
<1>7. Typed(r, type) = Typed(s, type) \o Typed(t, type)
  BY <1>6, Zenon DEF Typed, J, K, L
<1> QED
  BY <1>5, <1>7, Zenon

\* A message's parts are of three kinds, one after the other.
LEMMA PartsOf ==
  ASSUME NEW m \in Messages
  PROVE  /\ Texts(m) \in Seq(Parts) /\ Calls(m) \in Seq(Parts) /\ Responses(m) \in Seq(Parts)
         /\ AllOf(Calls(m), "call") /\ AllOf(Responses(m), "response")
         /\ NoneOf(Texts(m), "call") /\ NoneOf(Responses(m), "call")
         /\ NoneOf(Texts(m), "response") /\ NoneOf(Calls(m), "response")
         /\ Len(Calls(m)) = Len(m.calls) /\ Len(Responses(m)) = Len(m.results)
         /\ m.said => Texts(m) # <<>>
         /\ ~m.said => Texts(m) = <<>>
<1>1. /\ m.said \in BOOLEAN /\ m.calls \in Seq(Tools) /\ Len(m.calls) \in Nat
      /\ m.results \in Seq(A!ResultSet) /\ Len(m.results) \in Nat
  BY DEF Messages, Rounds
<1>2. A!TextPart \in Parts /\ HasType(A!TextPart, "text")
  BY DEF A!TextPart, A!Part, Parts, HasType
<1>3. ASSUME NEW i \in 1..Len(m.calls)
      PROVE  A!Part("call", m.calls[i]) \in Parts /\ HasType(A!Part("call", m.calls[i]), "call")
  <2>1. m.calls[i] \in Tools
    BY <1>1
  <2> QED
    BY <2>1 DEF A!Part, Parts, HasType
<1>4. ASSUME NEW i \in 1..Len(m.results)
      PROVE  /\ A!Part("response", m.results[i].name) \in Parts
             /\ HasType(A!Part("response", m.results[i].name), "response")
  <2>1. m.results[i] \in A!ResultSet
    BY <1>1
  <2>2. m.results[i].name \in Tools
    BY <2>1 DEF A!ResultSet
  <2> QED
    BY <2>2 DEF A!Part, Parts, HasType
<1>5. "text" # "call" /\ "text" # "response" /\ "call" # "response"
  OBVIOUS
<1>6. \A p : /\ HasType(p, "text") => ~HasType(p, "call") /\ ~HasType(p, "response")
             /\ HasType(p, "call") => ~HasType(p, "response")
  BY <1>5 DEF HasType
<1>7. Calls(m) \in Seq(Parts) /\ Len(Calls(m)) = Len(m.calls) /\ AllOf(Calls(m), "call")
  <2> DEFINE p(i) == A!Part("call", m.calls[i])
  <2>1. \A i \in 1..Len(m.calls) : p(i) \in Parts /\ HasType(p(i), "call")
    BY <1>3
  <2>2. Calls(m) = [i \in 1..Len(m.calls) |-> p(i)]
    BY DEF Calls
  <2> HIDE DEF p
  <2>3. Calls(m) \in Seq(Parts) /\ Len(Calls(m)) = Len(m.calls)
    BY <1>1, <2>1, <2>2
  <2>4. AllOf(Calls(m), "call")
    BY <1>1, <2>1, <2>2, <2>3 DEF AllOf
  <2> QED
    BY <2>3, <2>4
<1>8. Responses(m) \in Seq(Parts) /\ Len(Responses(m)) = Len(m.results)
        /\ AllOf(Responses(m), "response")
  <2> DEFINE p(i) == A!Part("response", m.results[i].name)
  <2>1. \A i \in 1..Len(m.results) : p(i) \in Parts /\ HasType(p(i), "response")
    BY <1>4
  <2>2. Responses(m) = [i \in 1..Len(m.results) |-> p(i)]
    BY DEF Responses
  <2> HIDE DEF p
  <2>3. Responses(m) \in Seq(Parts) /\ Len(Responses(m)) = Len(m.results)
    BY <1>1, <2>1, <2>2
  <2>4. AllOf(Responses(m), "response")
    BY <1>1, <2>1, <2>2, <2>3 DEF AllOf
  <2> QED
    BY <2>3, <2>4
<1>9. /\ Texts(m) \in Seq(Parts) /\ AllOf(Texts(m), "text")
      /\ m.said => Texts(m) # <<>>
      /\ ~m.said => Texts(m) = <<>>
  BY <1>1, <1>2 DEF Texts, AllOf
<1> QED
  BY <1>6, <1>7, <1>8, <1>9 DEF AllOf, NoneOf

LEMMA WithoutEmpty ==
  ASSUME NEW S, NEW s \in Seq(S)
  PROVE  <<>> \o s = s /\ s \o <<>> = s
  OBVIOUS

LEMMA PartsByType ==
  ASSUME NEW m \in Messages
  PROVE  /\ Typed(A!ToParts(m), "call") = Calls(m)
         /\ Typed(A!ToParts(m), "response") = Responses(m)
<1> DEFINE both == Texts(m) \o Calls(m)
<1>1. /\ Texts(m) \in Seq(Parts) /\ Calls(m) \in Seq(Parts) /\ Responses(m) \in Seq(Parts)
      /\ AllOf(Calls(m), "call") /\ AllOf(Responses(m), "response")
      /\ NoneOf(Texts(m), "call") /\ NoneOf(Responses(m), "call")
      /\ NoneOf(Texts(m), "response") /\ NoneOf(Calls(m), "response")
  BY PartsOf
<1>2. both \in Seq(Parts)
  BY <1>1
<1>3. A!ToParts(m) = both \o Responses(m)
  BY DEF A!ToParts, Texts, Calls, Responses
<1>4. ASSUME NEW type PROVE Typed(both, type) = Typed(Texts(m), type) \o Typed(Calls(m), type)
  BY <1>1, TypedJoined
<1> HIDE DEF both
<1>5. ASSUME NEW type
      PROVE  Typed(both \o Responses(m), type) = Typed(both, type) \o Typed(Responses(m), type)
  BY <1>1, <1>2, TypedJoined
<1>6. Typed(Texts(m), "call") = <<>> /\ Typed(Calls(m), "call") = Calls(m)
        /\ Typed(Responses(m), "call") = <<>>
  BY <1>1, TypedAll, TypedNone
<1>7. Typed(Texts(m), "response") = <<>> /\ Typed(Calls(m), "response") = <<>>
        /\ Typed(Responses(m), "response") = Responses(m)
  BY <1>1, TypedAll, TypedNone
<1>8. Typed(both, "call") = Calls(m)
  BY <1>1, <1>4, <1>6, WithoutEmpty
<1>9. Typed(both, "response") = <<>>
  BY <1>4, <1>7
<1>10. Typed(both \o Responses(m), "call") = Calls(m)
  BY <1>1, <1>5, <1>6, <1>8, WithoutEmpty
<1>11. Typed(both \o Responses(m), "response") = Responses(m)
  BY <1>1, <1>5, <1>7, <1>9, WithoutEmpty
<1> QED
  BY <1>3, <1>10, <1>11

\* The messages that are sent: those with parts.
Speaks(m) == A!ToParts(m) # <<>>
Kept(h) == Selected(h, {i \in 1..Len(h) : Speaks(h[i])})
ContentOf(m) == [role |-> A!RoleOf(m), parts |-> A!ToParts(m)]
ResultNames(m) == [i \in 1..Len(m.results) |-> m.results[i].name]

LEMMA SentIsKept ==
  ASSUME NEW h
  PROVE  A!ToContents(h) = [i \in 1..Len(Kept(h)) |-> ContentOf(Kept(h)[i])]
<1>1. A!Selected(h, {i \in 1..Len(h) : A!ToParts(h[i]) # <<>>}) = Kept(h)
  BY SameSelection DEF Kept, Speaks
<1> QED
  BY <1>1, Zenon DEF A!ToContents, ContentOf

LEMMA NamesOfContent ==
  ASSUME NEW m \in Messages
  PROVE  /\ A!Names(ContentOf(m), "call") = m.calls
         /\ A!Names(ContentOf(m), "response") = ResultNames(m)
<1> DEFINE c == ContentOf(m)
<1>1. \A type : A!OfType(c, type) = Typed(A!ToParts(m), type)
  BY SameSelection DEF A!OfType, Typed, HasType, ContentOf
<1> HIDE DEF c
<1>2. A!OfType(c, "call") = Calls(m) /\ A!OfType(c, "response") = Responses(m)
  BY <1>1, PartsByType
<1>3. m.calls \in Seq(Tools) /\ Len(Calls(m)) = Len(m.calls)
        /\ Len(Responses(m)) = Len(m.results)
  BY PartsOf DEF Messages
<1>4. \A i \in 1..Len(m.calls) : Calls(m)[i].name = m.calls[i]
  BY DEF Calls, A!Part
<1>5. \A i \in 1..Len(m.results) : Responses(m)[i].name = m.results[i].name
  BY DEF Responses, A!Part
<1>6. A!Names(c, "call") = [i \in 1..Len(m.calls) |-> m.calls[i]]
  BY <1>2, <1>3, <1>4 DEF A!Names
<1>7. A!Names(c, "response") = ResultNames(m)
  BY <1>2, <1>3, <1>5 DEF A!Names, ResultNames
<1>8. [i \in 1..Len(m.calls) |-> m.calls[i]] = m.calls
  BY <1>3
<1> QED
  BY <1>6, <1>7, <1>8 DEF c

LEMMA SpeaksWhen ==
  ASSUME NEW m \in Messages, m.said \/ m.calls # <<>> \/ m.results # <<>>
  PROVE  Speaks(m)
<1> DEFINE both == Texts(m) \o Calls(m)
           all == both \o Responses(m)
<1>1. Texts(m) \in Seq(Parts) /\ Calls(m) \in Seq(Parts) /\ Responses(m) \in Seq(Parts)
        /\ Len(Calls(m)) = Len(m.calls) /\ Len(Responses(m)) = Len(m.results)
        /\ (m.said => Texts(m) # <<>>)
  BY PartsOf
<1>2. m.calls \in Seq(Tools) /\ m.results \in Seq(A!ResultSet)
  BY DEF Messages, Rounds
<1>3. Len(Texts(m)) > 0 \/ Len(Calls(m)) > 0 \/ Len(Responses(m)) > 0
  BY <1>1, <1>2
<1>4. Len(all) = Len(Texts(m)) + Len(Calls(m)) + Len(Responses(m))
        /\ Len(Texts(m)) \in Nat /\ Len(Calls(m)) \in Nat /\ Len(Responses(m)) \in Nat
  <2>1. both \in Seq(Parts) /\ Len(both) = Len(Texts(m)) + Len(Calls(m))
    BY <1>1, ConcatProperties
  <2> HIDE DEF both
  <2>2. Len(all) = Len(both) + Len(Responses(m))
    BY <1>1, <2>1, ConcatProperties
  <2> QED
    BY <1>1, <2>1, <2>2
<1>5. A!ToParts(m) = all
  BY DEF A!ToParts, Texts, Calls, Responses
<1> HIDE DEF all
<1>6. Len(all) > 0
  BY <1>3, <1>4
<1>7. all # <<>>
  BY <1>6
<1> QED
  BY <1>5, <1>7 DEF Speaks

LEMMA KeptMore ==
  ASSUME NEW h \in Seq(Messages), NEW m \in Messages
  PROVE  /\ Kept(h) \in Seq(Messages)
         /\ Speaks(m) => Kept(Append(h, m)) = Append(Kept(h), m)
         /\ ~Speaks(m) => Kept(Append(h, m)) = Kept(h)
<1> DEFINE k == Append(h, m)
           K == {i \in 1..Len(h) : Speaks(h[i])}
           L == {i \in 1..Len(k) : Speaks(k[i])}
<1>1. /\ Len(k) = Len(h) + 1 /\ k[Len(h) + 1] = m /\ Len(h) \in Nat
      /\ \A i \in 1..Len(h) : k[i] = h[i] /\ h[i] \in Messages
  OBVIOUS
<1>2. \A i \in 1..Len(h) : (i \in K <=> i \in L) /\ (i \in K => h[i] \in Messages)
  BY <1>1
<1>3. Len(h) + 1 \in L <=> Speaks(m)
  BY <1>1
<1> HIDE DEF K, L
<1>4. Selected(k, L) = IF Len(h) + 1 \in L THEN Append(Selected(h, K), m) ELSE Selected(h, K)
  BY <1>2, SelectedAppend
<1>5. Selected(h, K) \in Seq(Messages)
  BY <1>2, SelectedTyped
<1>6. Kept(h) = Selected(h, K) /\ Kept(k) = Selected(k, L)
  BY DEF Kept, K, L
<1> HIDE DEF k
<1>7. /\ Kept(h) \in Seq(Messages)
      /\ Speaks(m) => Kept(k) = Append(Kept(h), m)
      /\ ~Speaks(m) => Kept(k) = Kept(h)
  BY <1>3, <1>4, <1>5, <1>6
<1> QED
  BY <1>7 DEF k

-----------------------------------------------------------------------------
(* What is sent is well-formed *)

Model(m) == m.kind \in {"reply", "note"}

\* Of what is sent, the calls of a turn of the model are those the next turn has
\* results of, but for the round that is still running; there are no other results.
Alternating(k, running) == \A i \in 1..Len(k) :
  /\ Model(k[i]) /\ i = Len(k) => running \/ k[i].calls = <<>>
  /\ Model(k[i]) /\ i < Len(k) => k[i].calls = ResultNames(k[i + 1])
  /\ ResultNames(k[i]) # <<>> => i > 1 /\ Model(k[i - 1])

LastIs(k, m) == k # <<>> /\ k[Len(k)] = m
LastIsUser(k) == k # <<>> /\ ~Model(k[Len(k)])

\* The model is asked with the user's turn last; a running round is one of the
\* calls of the last turn.
TalkInv == /\ Alternating(Kept(history), phase = "tools")
           /\ phase \in {"generate", "inflight"} => LastIsUser(Kept(history))
           /\ phase = "tools" => LastIs(Kept(history), A!Reply(reply)) /\ reply.calls # <<>>

LEMMA AppendAlternating ==
  ASSUME NEW h \in Seq(Messages), NEW m \in Messages, NEW was \in BOOLEAN, NEW is \in BOOLEAN,
         Alternating(h, was),
         Model(m) /\ m.calls # <<>> => is,
         was => h # <<>> /\ Model(h[Len(h)]) /\ h[Len(h)].calls = ResultNames(m),
         ~was => ResultNames(m) = <<>>
  PROVE  Alternating(Append(h, m), is)
<1> DEFINE k == Append(h, m)
<1>1. /\ Len(k) = Len(h) + 1 /\ k[Len(h) + 1] = m /\ Len(h) \in Nat
      /\ h # <<>> => Len(h) \in 1..Len(h)
  OBVIOUS
<1>2. \A i \in 1..Len(h) : k[i] = h[i]
  OBVIOUS
<1> HIDE DEF k
<1>3. ASSUME NEW i \in 1..Len(h), Model(h[i])
      PROVE  i < Len(k) /\ k[i].calls = ResultNames(k[i + 1])
  <2>1. CASE i = Len(h)
    BY <1>1, <1>2, <1>3, <2>1 DEF Alternating
  <2>2. CASE i < Len(h)
    <3>1. i + 1 \in 1..Len(h)
      BY <2>2, <1>1
    <3> QED
      BY <1>1, <1>2, <1>3, <2>2, <3>1 DEF Alternating
  <2> QED
    BY <1>1, <2>1, <2>2
<1>4. ASSUME NEW i \in 1..Len(h), ResultNames(h[i]) # <<>>
      PROVE  i > 1 /\ Model(k[i - 1])
  <2>1. i > 1 /\ Model(h[i - 1])
    BY <1>4 DEF Alternating
  <2>2. i - 1 \in 1..Len(h)
    BY <1>1, <2>1
  <2> QED
    BY <1>2, <2>1, <2>2
<1>5. ResultNames(m) # <<>> => Len(h) + 1 > 1 /\ Model(k[Len(h)])
  BY <1>1, <1>2
<1>6. Alternating(k, is)
  <2> SUFFICES ASSUME NEW i \in 1..Len(k)
               PROVE  /\ Model(k[i]) /\ i = Len(k) => is \/ k[i].calls = <<>>
                      /\ Model(k[i]) /\ i < Len(k) => k[i].calls = ResultNames(k[i + 1])
                      /\ ResultNames(k[i]) # <<>> => i > 1 /\ Model(k[i - 1])
    BY DEF Alternating
  <2>1. CASE i \in 1..Len(h)
    BY <1>1, <1>2, <1>3, <1>4, <2>1
  <2>2. CASE i = Len(h) + 1
    BY <1>1, <1>5, <2>2
  <2> QED
    BY <1>1, <2>1, <2>2
<1> QED
  BY <1>6 DEF k

LEMMA TalkSteps == AskTyped /\ PairInv /\ TalkInv /\ A!AskStep => TalkInv'
<1> SUFFICES ASSUME AskTyped, PairInv, TalkInv, A!AskStep PROVE TalkInv'
  OBVIOUS
<1> DEFINE k == Kept(history)
<1>1. history \in Seq(Messages) /\ reply \in A!Replies
  BY DEF AskTyped
<1>2. /\ k \in Seq(Messages)
      /\ \A m \in Messages : /\ Speaks(m) => Kept(Append(history, m)) = Append(k, m)
                             /\ ~Speaks(m) => Kept(Append(history, m)) = k
  <2>1. ASSUME NEW m \in Messages
        PROVE  /\ Speaks(m) => Kept(Append(history, m)) = Append(k, m)
               /\ ~Speaks(m) => Kept(Append(history, m)) = k
    BY <1>1, KeptMore
  <2>2. k \in Seq(Messages)
    BY <1>1, MessagesTyped, KeptMore
  <2> QED
    BY <2>1, <2>2
<1> HIDE DEF k
<1>3. CASE A!CallModel
  BY <1>3 DEF A!CallModel, TalkInv, Alternating
<1>4. CASE A!ModelFails
  BY <1>4 DEF A!ModelFails, TalkInv, Alternating
<1>5. CASE A!ModelReplies
  BY <1>5 DEF A!ModelReplies, TalkInv, Alternating
<1>6. CASE A!RecordReply
  <2> DEFINE m == A!Reply(reply)
  <2>1. m \in Messages
    BY <1>1, MessagesTyped
  <2>2. Model(m) /\ m.calls = reply.calls /\ m.results = <<>>
    BY DEF A!Reply, A!Message, Model
  <2>3. ResultNames(m) = <<>>
    BY <2>2 DEF ResultNames
  <2>4. /\ history' = Append(history, m) /\ phase = "replied" /\ UNCHANGED reply
        /\ phase' = (IF reply.calls = <<>> THEN "idle" ELSE "tools")
    BY <1>6 DEF A!RecordReply
  <2>5. Alternating(k, FALSE)
    BY <2>4 DEF TalkInv, Alternating, k
  <2>6. m' = m
    BY <2>4 DEF A!Reply, A!Message
  <2> HIDE DEF m
  <2>7. CASE Speaks(m)
    <3>1. Kept(history') = Append(k, m)
      BY <1>2, <2>1, <2>4, <2>7
    <3>2. Alternating(Append(k, m), phase' = "tools")
      BY <1>2, <2>1, <2>2, <2>3, <2>4, <2>5, AppendAlternating
    <3>3. LastIs(Append(k, m), m)
      BY <1>2, <2>1, LastOfAppend DEF LastIs
    <3>4. phase' = "tools" => LastIs(Kept(history'), m') /\ reply'.calls # <<>>
      BY <2>4, <2>6, <3>1, <3>3
    <3>5. phase' \notin {"generate", "inflight"}
      BY <2>4
    <3> QED
      BY <3>1, <3>2, <3>4, <3>5 DEF TalkInv, m
  <2>8. CASE ~Speaks(m)
    <3>1. Kept(history') = k
      BY <1>2, <2>1, <2>4, <2>8
    <3>2. reply.calls = <<>>
      BY <2>1, <2>2, <2>8, SpeaksWhen
    <3>3. phase' = "idle"
      BY <2>4, <3>2
    <3> QED
      BY <2>5, <3>1, <3>3 DEF TalkInv, Alternating
  <2> QED
    BY <2>7, <2>8
<1>7. CASE A!EndRound
  <2> DEFINE m == A!ToolResults(results)
  <2>1. m \in Messages
    BY MessagesTyped DEF AskTyped
  <2>2. ~Model(m) /\ m.calls = <<>> /\ m.results = results
    BY DEF A!ToolResults, A!Message, Model
  <2>3. /\ history' = Append(history, m) /\ phase = "tools" /\ phase' # "tools"
        /\ Len(results) = Len(reply.calls)
    BY <1>7 DEF A!EndRound, AskTyped
  <2>4. LastIs(k, A!Reply(reply)) /\ reply.calls # <<>>
    BY <2>3 DEF TalkInv, k
  <2>5. Model(A!Reply(reply)) /\ A!Reply(reply).calls = reply.calls
    BY DEF A!Reply, A!Message, Model
  <2>6. k # <<>> /\ Model(k[Len(k)]) /\ k[Len(k)].calls = reply.calls
    BY <2>4, <2>5 DEF LastIs
  <2>7. reply.calls \in Seq(Tools) /\ results \in Seq(A!ResultSet)
    BY <1>1, ReplyShape DEF AskTyped, Rounds
  <2>8. \A i \in 1..Len(results) : results[i].name = reply.calls[i]
    BY <1>7, <2>3 DEF A!EndRound, A!Unfinished, PairInv, RoundOfLast
  <2>9. ResultNames(m) = reply.calls
    BY <2>2, <2>3, <2>7, <2>8 DEF ResultNames
  <2>10. results # <<>>
    BY <2>3, <2>4, <2>7
  <2>11. Alternating(k, TRUE)
    BY <2>3 DEF TalkInv, Alternating, k
  <2> HIDE DEF m
  <2>12. Speaks(m)
    BY <2>1, <2>2, <2>10, SpeaksWhen
  <2>13. Kept(history') = Append(k, m)
    BY <1>2, <2>1, <2>3, <2>12
  <2>14. Alternating(Append(k, m), FALSE)
    BY <1>2, <2>1, <2>2, <2>6, <2>9, <2>11, AppendAlternating
  <2>15. LastIsUser(Append(k, m))
    BY <1>2, <2>1, <2>2, LastOfAppend DEF LastIsUser
  <2> QED
    BY <2>3, <2>13, <2>14, <2>15 DEF TalkInv, Alternating
<1>8. CASE A!Stop
  <2> DEFINE m == A!ClosingNote
  <2>1. m \in Messages
    BY MessagesTyped
  <2>2. m.said /\ m.calls = <<>> /\ m.results = <<>>
    BY DEF A!ClosingNote, A!Message
  <2>3. ResultNames(m) = <<>>
    BY <2>2 DEF ResultNames
  <2>4. history' = Append(history, m) /\ phase = "spent" /\ phase' = "idle"
    BY <1>8 DEF A!Stop
  <2>5. Alternating(k, FALSE)
    BY <2>4 DEF TalkInv, Alternating, k
  <2> HIDE DEF m
  <2>6. Speaks(m)
    BY <2>1, <2>2, SpeaksWhen
  <2>7. Kept(history') = Append(k, m)
    BY <1>2, <2>1, <2>4, <2>6
  <2>8. Alternating(Append(k, m), FALSE)
    BY <1>2, <2>1, <2>2, <2>3, <2>5, AppendAlternating
  <2> QED
    BY <2>4, <2>7, <2>8 DEF TalkInv, Alternating
<1>9. ASSUME NEW i \in 1..MaxCalls, A!RunTool(i) PROVE TalkInv'
  BY <1>9 DEF A!RunTool, TalkInv, Alternating, A!Reply, A!Message
<1> QED
  BY <1>3, <1>4, <1>5, <1>6, <1>7, <1>8, <1>9 DEF A!AskStep, A!OwnStep, A!External

LEMMA StepTalk == Covered /\ AskTyped /\ PairInv /\ TalkInv /\ [Next]_vars => TalkInv'
<1> SUFFICES ASSUME Covered, AskTyped, PairInv, TalkInv, [Next]_vars PROVE TalkInv'
  OBVIOUS
<1>1. CASE agentUnchanged
  BY <1>1 DEF agentUnchanged, TalkInv, Alternating, A!Reply, A!Message
<1>2. CASE A!BeginAsk(cancelled)
  <2> DEFINE m == A!Question
             k == Kept(history)
  <2>1. m \in Messages
    BY MessagesTyped
  <2>2. ~Model(m) /\ m.said /\ m.calls = <<>> /\ m.results = <<>>
    BY DEF A!Question, A!Message, Model
  <2>3. ResultNames(m) = <<>>
    BY <2>2 DEF ResultNames
  <2>4. /\ history \in Seq(Messages) /\ history' = Append(history, m)
        /\ phase = "idle" /\ phase' = "generate"
    BY <1>2 DEF A!BeginAsk, AskTyped
  <2>5. Alternating(k, FALSE)
    BY <2>4 DEF TalkInv, Alternating
  <2> HIDE DEF m, k
  <2>6. Speaks(m)
    BY <2>1, <2>2, SpeaksWhen
  <2>7. k \in Seq(Messages) /\ Kept(history') = Append(k, m)
    BY <2>1, <2>4, <2>6, KeptMore DEF k
  <2>8. Alternating(Append(k, m), FALSE)
    BY <2>1, <2>2, <2>3, <2>5, <2>7, AppendAlternating
  <2>9. LastIsUser(Append(k, m))
    BY <2>1, <2>2, <2>7, LastOfAppend DEF LastIsUser
  <2> QED
    BY <2>4, <2>7, <2>8, <2>9 DEF TalkInv, Alternating
<1>3. CASE A!AskStep
  BY <1>3, TalkSteps
<1>4. CASE A!Reset /\ phase = "idle"
  <2>1. history' = <<>> /\ phase' = "idle"
    BY <1>4 DEF A!Reset
  <2>2. Kept(history') = <<>>
    BY <2>1, SelectedEmpty DEF Kept
  <2> QED
    BY <2>1, <2>2 DEF TalkInv, Alternating
<1> QED
  BY <1>1, <1>2, <1>3, <1>4, Steps

\* What is sent to the model ends with the user's turn, and in it the results of
\* tools come right after the turn that called them, one for each call and in its
\* order, whatever the user, the model and the tools did before (Ask, snapshot,
\* toContents).
THEOREM RequestsWellFormed == Spec => []RequestWellFormed
<1>1. Init => PairInv /\ TalkInv
  <2> SUFFICES ASSUME Init PROVE PairInv /\ TalkInv
    OBVIOUS
  <2>1. history = <<>> /\ phase = "idle"
    BY DEF Init, A!Init
  <2>2. Kept(history) = <<>>
    BY <2>1, SelectedEmpty DEF Kept
  <2> QED
    BY <2>1, <2>2 DEF PairInv, Paired, RoundOfLast, TalkInv, Alternating
<1>2. AskTyped /\ TalkInv => RequestWellFormed
  <2> SUFFICES ASSUME AskTyped, TalkInv, phase \in {"generate", "inflight"}
               PROVE  LET sent == A!ToContents(history)
                      IN /\ sent # <<>> /\ sent[Len(sent)].role = "user"
                         /\ \A i \in 1..Len(sent) :
                              /\ sent[i].role = "model" => A!Names(sent[i], "call") =
                                   IF i = Len(sent) THEN <<>> ELSE A!Names(sent[i + 1], "response")
                              /\ A!Names(sent[i], "response") # <<>>
                                   => i > 1 /\ sent[i - 1].role = "model"
    BY DEF RequestWellFormed, A!RequestWellFormed
  <2> DEFINE k == Kept(history)
             sent == A!ToContents(history)
  <2>1. sent = [i \in 1..Len(k) |-> ContentOf(k[i])]
    BY SentIsKept
  <2>2. k \in Seq(Messages) /\ Len(k) \in Nat
    <3>1. k \in Seq(Messages)
      BY MessagesTyped, KeptMore DEF AskTyped
    <3> HIDE DEF k
    <3> QED
      BY <3>1
  <2>3. Alternating(k, FALSE) /\ LastIsUser(k)
    BY DEF TalkInv, Alternating
  <2> HIDE DEF k, sent
  <2>4. Len(sent) = Len(k) /\ \A i \in 1..Len(k) : k[i] \in Messages /\ sent[i] = ContentOf(k[i])
    BY <2>1, <2>2
  <2>5. \A i \in 1..Len(k) : /\ A!Names(sent[i], "call") = k[i].calls
                             /\ A!Names(sent[i], "response") = ResultNames(k[i])
    BY <2>4, NamesOfContent
  <2>6. \A i \in 1..Len(k) : /\ sent[i].role = "model" <=> Model(k[i])
                             /\ ~Model(k[i]) => sent[i].role = "user"
    <3>1. \A m : /\ ContentOf(m).role = "model" <=> Model(m)
                 /\ ~Model(m) => ContentOf(m).role = "user"
      BY DEF ContentOf, A!RoleOf, Model
    <3> QED
      BY <2>4, <3>1
  <2>7. sent # <<>> /\ sent[Len(sent)].role = "user"
    <3>1. k # <<>> /\ ~Model(k[Len(k)]) /\ Len(k) \in 1..Len(k)
      BY <2>2, <2>3 DEF LastIsUser
    <3> QED
      BY <2>1, <2>4, <2>6, <3>1
  <2>8. ASSUME NEW i \in 1..Len(sent), sent[i].role = "model"
        PROVE  A!Names(sent[i], "call") =
                 IF i = Len(sent) THEN <<>> ELSE A!Names(sent[i + 1], "response")
    <3>1. i \in 1..Len(k) /\ Model(k[i])
      BY <2>4, <2>6, <2>8
    <3>2. CASE i = Len(k)
      BY <2>3, <2>4, <2>5, <3>1, <3>2 DEF Alternating
    <3>3. CASE i # Len(k)
      <4>1. i < Len(k) /\ i + 1 \in 1..Len(k)
        BY <2>2, <3>1, <3>3
      <4> QED
        BY <2>3, <2>4, <2>5, <3>1, <3>3, <4>1 DEF Alternating
    <3> QED
      BY <3>2, <3>3
  <2>9. ASSUME NEW i \in 1..Len(sent), A!Names(sent[i], "response") # <<>>
        PROVE  i > 1 /\ sent[i - 1].role = "model"
    <3>1. i \in 1..Len(k) /\ i > 1 /\ Model(k[i - 1])
      BY <2>3, <2>4, <2>5, <2>9 DEF Alternating
    <3>2. i - 1 \in 1..Len(k)
      BY <2>2, <3>1
    <3> QED
      BY <2>6, <3>1, <3>2
  <2> QED
    BY <2>7, <2>8, <2>9 DEF sent
<1> QED
  BY <1>1, <1>2, StepPaired, StepTalk, AlwaysCovered, AlwaysAskTyped, PTL DEF Spec
=============================================================================
