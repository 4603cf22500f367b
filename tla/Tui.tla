--------------------------------- MODULE Tui ---------------------------------
(***************************************************************************)
(* The two terminal interfaces driving the conversation of Agent.          *)
(*                                                                         *)
(* The full-screen one (src/cmd/host/tui.go) is one event loop: each key,  *)
(* tick and answer is one message handled by Update.  A question runs in a *)
(* goroutine of its own (a tea.Cmd) with a context of its own, and its     *)
(* answer comes back as a message; Esc ends that context.  Ctrl+C and a    *)
(* signal end the program's, above all of them, and only ask the loop to   *)
(* quit: what comes before that request is consumed is handled as ever.    *)
(* The second pane shows what the background logs, with a mark for lines   *)
(* not yet looked at; no pane is drawn in a window under 30x10.  The line  *)
(* interface (src/cmd/host/repl.go) asks and waits; all its questions      *)
(* share the program's context, which an interrupt ends for good.          *)
(***************************************************************************)
EXTENDS Integers, Sequences

CONSTANTS Tools, Outcomes, MaxTurns, MaxCalls, MaxAsks  \* as in Agent

VARIABLES history, usage, phase, turn, reply, results, cancelled, answer,  \* of Agent
          front,       \* which interface runs: "screen" or "line"
          busy,        \* a question has been sent and its answer not shown
          cancelling,  \* Esc has been pressed for it
          request,     \* how far the question has come
          shown,       \* what was last shown as the outcome of a question
          quitting,    \* the screen's context has ended, a request to quit is on its way
          quit,        \* the interface has been left
          showLogs,    \* the logs are shown instead of the chat
          tail,        \* the log pane stands at its end
          small,       \* the window is too small for View to draw a pane
          unread,      \* the mark for new lines
          unseen       \* history variable: newest lines that were never on the screen

\* cancelled is the context of the request: requestCancel or the interrupt sets it.
A == INSTANCE Agent

ASSUME AgentAssumption == /\ Outcomes \subseteq A!ToolOutcomes
                          /\ MaxTurns \in Nat \ {0}
                          /\ MaxCalls \in Nat \ {0}
                          /\ MaxAsks \in Nat

askVars == <<history, usage, phase, turn, reply, results, cancelled, answer>>
chatVars == <<front, busy, cancelling, shown, quitting, quit>>
logVars == <<showLogs, tail, small, unread, unseen>>
vars == <<askVars, chatVars, request, logVars>>

Init == /\ A!Init
        /\ front \in {"screen", "line"}
        /\ busy = FALSE
        /\ cancelling = FALSE
        /\ request = "none"
        /\ shown = "none"
        /\ quitting = FALSE
        /\ quit = FALSE
        /\ showLogs = FALSE
        /\ tail = TRUE
        /\ small = FALSE
        /\ unread = FALSE
        /\ unseen = FALSE

agentUnchanged == UNCHANGED <<history, usage, phase, turn, reply, results, answer>>
allButLogs == UNCHANGED <<askVars, chatVars, request>>

OnScreen == front = "screen" /\ ~quit
AtPrompt == front = "line" /\ ~quit /\ request = "none"

\* Enter does something: the input is free and shown.
InputFree == OnScreen /\ ~busy /\ ~showLogs

-----------------------------------------------------------------------------
(* The log pane *)

\* What View draws of the pane: its newest line is on the screen.
Drawn(logs, end, tiny) == logs /\ end /\ ~tiny

\* Whether the background has logged anything since the feed was last drained.
Fed == BOOLEAN

\* drainLogs: what was logged reaches the pane, which follows if it is at its end.
Drain == /\ \E news \in Fed :
              /\ unread' = IF news THEN ~showLogs \/ ~tail ELSE unread
              /\ unseen' = ((unseen \/ news) /\ ~Drawn(showLogs, tail, small))
         /\ UNCHANGED <<showLogs, tail, small>>

Tick == OnScreen /\ Drain /\ allButLogs

\* The pane now shows logs at this place; its mark goes only at the end, and
\* whether or not the window is large enough to draw it.
Look(logs, end) == /\ showLogs' = logs
                   /\ tail' = end
                   /\ unread' = (unread /\ ~(logs /\ end))
                   /\ unseen' = (unseen /\ ~Drawn(logs, end, small))
                   /\ UNCHANGED small

\* Mutant: looking at the logs anywhere clears the mark.
BugTab == /\ OnScreen
          /\ showLogs' = ~showLogs
          /\ unread' = (unread /\ showLogs)
          /\ unseen' = (unseen /\ ~Drawn(~showLogs, tail, small))
          /\ allButLogs
          /\ UNCHANGED <<tail, small>>

Tab == OnScreen /\ Look(~showLogs, tail) /\ allButLogs

\* PgUp, PgDn and the ends, when the logs are shown.
Scroll == /\ OnScreen /\ showLogs
          /\ \E end \in BOOLEAN : Look(TRUE, end)
          /\ allButLogs

\* Another window may show the end of the pane; the mark is not looked at.
Resize == /\ OnScreen
          /\ small' \in BOOLEAN
          /\ tail' \in {tail, TRUE}
          /\ unseen' = (unseen /\ ~Drawn(showLogs, tail', small'))
          /\ allButLogs /\ UNCHANGED <<showLogs, unread>>

\* Enter with /log: the logs are drained and shown at their end.
EnterLog == /\ InputFree
            /\ showLogs' = TRUE
            /\ tail' = TRUE
            /\ unread' = FALSE
            /\ \E news \in Fed : unseen' = ((unseen \/ news) /\ ~Drawn(TRUE, TRUE, small))
            /\ allButLogs /\ UNCHANGED small

-----------------------------------------------------------------------------
(* The chat of the full-screen interface *)

\* Mutant: the context of the first question is used again.
BugEnterQuestion == /\ InputFree
                    /\ A!Count("question") < MaxAsks
                    /\ busy' = TRUE
                    /\ request' = "started"
                    /\ agentUnchanged
                    /\ UNCHANGED <<cancelled, front, cancelling, shown, quitting, quit, logVars>>

\* Enter with a question: a fresh context under the screen's, and the Ask in a
\* goroutine.
EnterQuestion == /\ InputFree
                 /\ A!Count("question") < MaxAsks
                 /\ busy' = TRUE
                 /\ cancelled' = quitting
                 /\ request' = "started"
                 /\ agentUnchanged
                 /\ UNCHANGED <<front, cancelling, shown, quitting, quit, logVars>>

\* Mutant: /reset is obeyed while a question is being answered.
BugEnterReset == /\ OnScreen /\ ~showLogs
                 /\ A!Reset
                 /\ UNCHANGED <<chatVars, request, logVars>>

\* Enter with /reset.
EnterReset == InputFree /\ A!Reset /\ UNCHANGED <<chatVars, request, logVars>>

\* Mutant: Esc gives the input back at once.
BugEsc == /\ OnScreen /\ busy /\ ~cancelling
          /\ busy' = FALSE
          /\ cancelled' = TRUE
          /\ agentUnchanged
          /\ UNCHANGED <<front, cancelling, request, shown, quitting, quit, logVars>>

\* Mutant: Esc only says that the request is being cancelled.
BugIdleEsc == /\ OnScreen /\ busy /\ ~cancelling
              /\ cancelling' = TRUE
              /\ agentUnchanged
              /\ UNCHANGED <<cancelled, front, busy, request, shown, quitting, quit, logVars>>

Esc == /\ OnScreen /\ busy /\ ~cancelling
       /\ cancelling' = TRUE
       /\ cancelled' = TRUE
       /\ agentUnchanged
       /\ UNCHANGED <<front, busy, request, shown, quitting, quit, logVars>>

\* Ctrl+C, Ctrl+D, /quit when the input is free, or a signal: the context of the
\* screen ends, and of any question under it; the request to quit is sent.
Quit == /\ OnScreen /\ ~quitting
        /\ quitting' = TRUE
        /\ cancelled' = TRUE
        /\ agentUnchanged
        /\ UNCHANGED <<front, busy, cancelling, request, shown, quit, logVars>>

\* The request to quit is consumed, and the loop ends.
EndScreen == /\ OnScreen /\ quitting
             /\ quit' = TRUE
             /\ agentUnchanged
             /\ UNCHANGED <<cancelled, front, busy, cancelling, request, shown, quitting, logVars>>

\* The goroutine calls Ask.
StartAsk == /\ request = "started"
            /\ A!BeginAsk(cancelled)
            /\ request' = "asking"
            /\ UNCHANGED <<chatVars, logVars>>

\* Ask goes on; what it returns becomes a message, or goes back to the loop.
Asking == /\ request = "asking"
          /\ A!AskStep
          /\ request' = IF phase' = "idle" THEN "answered" ELSE request
          /\ UNCHANGED <<chatVars, logVars>>

Outcome == IF answer = "stopped" THEN "error" ELSE answer

\* The message tuiAnswer; one that comes while not busy is dropped.
ShowAnswer == /\ OnScreen
              /\ request = "answered"
              /\ request' = "none"
              /\ IF busy
                 THEN /\ busy' = FALSE
                      /\ cancelling' = FALSE
                      /\ cancelled' = TRUE
                      /\ shown' = Outcome
                      /\ Drain
                 ELSE UNCHANGED <<busy, cancelling, cancelled, shown, logVars>>
              /\ agentUnchanged
              /\ UNCHANGED <<front, quitting, quit>>

-----------------------------------------------------------------------------
(* The line interface *)

\* A line that is a question: the loop asks with the program's context, whatever
\* has become of it.
AskLine == /\ AtPrompt
           /\ A!BeginAsk(cancelled)
           /\ request' = "asking"
           /\ UNCHANGED <<chatVars, logVars>>

\* The line /reset.
ResetLine == AtPrompt /\ A!Reset /\ UNCHANGED <<chatVars, request, logVars>>

\* The answer is shown; a failure with the context ended leaves the loop.
AnswerLine == /\ front = "line" /\ ~quit
              /\ request = "answered"
              /\ request' = "none"
              /\ shown' = IF Outcome = "canceled" THEN "error" ELSE Outcome
              /\ quit' = (Outcome # "text" /\ cancelled)
              /\ agentUnchanged
              /\ UNCHANGED <<cancelled, front, busy, cancelling, quitting, logVars>>

\* Ctrl+C ends the program's context.  The loop notices only in an Ask: at the
\* prompt it goes on waiting for a line.
Interrupt == /\ front = "line" /\ ~quit /\ ~cancelled
             /\ cancelled' = TRUE
             /\ agentUnchanged
             /\ UNCHANGED <<chatVars, request, logVars>>

\* /quit, or the end of the input.
LeaveLine == /\ AtPrompt
             /\ quit' = TRUE
             /\ agentUnchanged
             /\ UNCHANGED <<cancelled, front, busy, cancelling, request, shown, quitting, logVars>>

-----------------------------------------------------------------------------

Logs == Tick \/ Tab \/ Scroll \/ Resize \/ EnterLog

Key == EnterQuestion \/ EnterReset \/ Esc \/ Quit \/ EndScreen

Line == AskLine \/ ResetLine \/ AnswerLine \/ Interrupt \/ LeaveLine

Next == Logs \/ Key \/ StartAsk \/ Asking \/ ShowAnswer \/ Line

Spec == Init /\ [][Next]_vars

\* Goroutines and the loops go on.  What comes back from the model and the tools
\* is only certain once their context has ended.
Fairness == /\ WF_vars(StartAsk)
            /\ WF_vars(cancelled /\ Asking)
            /\ WF_vars(request = "asking" /\ A!OwnStep /\ Asking)
            /\ WF_vars(ShowAnswer)
            /\ WF_vars(AnswerLine)

FairSpec == Spec /\ Fairness

-----------------------------------------------------------------------------
(* Properties *)

\* The interfaces' own variables keep their types, and the Ask's.
TypeOK == /\ A!TypeOK
          /\ front \in {"screen", "line"}
          /\ request \in {"none", "started", "asking", "answered"}
          /\ shown \in {"none", "text", "error", "canceled"}
          /\ {busy, cancelling, quitting, quit, showLogs, tail, small, unread, unseen}
               \subseteq BOOLEAN

\* A question is on its way from the key to the shown answer exactly while the
\* screen is busy: no second Ask and no command can meet a running one (busy in
\* Update).  An Ask runs only inside a request, in the line interface too.
BusyCoversAsk == /\ front = "screen" => busy = (request # "none")
                 /\ phase # "idle" => request = "asking"
                 /\ cancelling => busy

\* Both interfaces use the agent as one caller at a time must: no key, line or
\* message that comes late begins an Ask, ends its context twice or forgets the
\* conversation under an Ask that runs (Update, repl; Reset keeps nobody out).
UsedAlone == A!Alone

\* While an Ask runs the history only grows, one message at a time: no /reset
\* takes away the question it is answering.
HistoryOnlyGrows ==
  [][phase # "idle" =>
       \/ history' = history
       \/ /\ Len(history') = Len(history) + 1
          /\ SubSeq(history', 1, Len(history)) = history]_vars

\* A question is shown as canceled only if Esc was pressed for this very one, or
\* the program is on its way out and this is the last that is shown of it: a
\* cancellation never reaches the next question (requestCancel, tuiAnswer).
CanceledByUser ==
  [][request = "answered" /\ request' = "none" /\ shown' = "canceled"
       => cancelling \/ quitting]_vars

\* After Esc the input comes back, and after an interrupt of a question the line
\* interface ends or prompts again, once the model and the tools honour the
\* context they were given.
EscFreesInput == cancelling \/ (cancelled /\ request # "none") ~> request = "none" \/ quit

\* New log lines have been taken over, never drawn, and have no mark.
Missed == unseen /\ ~unread

\* New log lines keep their mark until they have been on the screen: no key, tick
\* or size of the window makes one miss them, except where the window is too
\* small for View to draw the pane that drainLogs, Tab and the rest count as seen.
NewsMarked == [][Missed' => Missed \/ small]_vars

\* The properties of the conversation, kept by whatever the interfaces do to it.
HistoryPaired == A!HistoryPaired
RequestWellFormed == A!RequestWellFormed
UsageMatchesHistory == A!UsageMatchesHistory
=============================================================================
