---------------------------- MODULE GeminiProvider ----------------------------
(***************************************************************************)
(* The provider of src/internal/llm/gemini: Generate, its retries          *)
(* (withRetry) and its way through the chain of models (nextModel) once a  *)
(* model's allowance for the day is gone.  Several callers share the       *)
(* provider and the position in the chain; each has a context of its own.  *)
(*                                                                         *)
(* The service is external: a request ends in any way at any time, except  *)
(* that an allowance that is spent stays spent, and that it is reported    *)
(* spent by a model only when it is.                                       *)
(***************************************************************************)
EXTENDS Integers, Sequences, Selection

CONSTANTS Callers,      \* calls of Generate
          Primary,      \* the configured model
          Fallbacks,    \* the configured fallbacks
          Unnamed,      \* the empty model name
          MaxAttempts   \* attempts withRetry makes

\* chain: the primary, then the fallbacks without it and without empty names.
Wanted(name) == name \notin {Unnamed, Primary}
Models == <<Primary>> \o Selected(Fallbacks, {i \in 1..Len(Fallbacks) : Wanted(Fallbacks[i])})

Names == {Models[i] : i \in 1..Len(Models)}

ASSUME ProviderAssumption == /\ MaxAttempts \in Nat \ {0}
                             /\ Fallbacks \in Seq({Fallbacks[i] : i \in 1..Len(Fallbacks)})

\* chain does not look whether a fallback is listed twice: that none is, is up
\* to the configuration.
ASSUME NoRepeats == \A i, j \in 1..Len(Fallbacks) :
  Wanted(Fallbacks[i]) /\ Fallbacks[i] = Fallbacks[j] => i = j

\* How a request ends: with a reply, as a rate limit of the minute or of the
\* day, as an overload, as a failure that would repeat itself, with its context.
Endings == {"ok", "perMinute", "perDay", "overload", "permanent", "ctx"}
Retryable == {"perMinute", "perDay", "overload"}

VARIABLES current,    \* the position in the chain
          stage,      \* how far each Generate has come
          model,      \* the model it uses
          attempt,    \* its attempts with this model so far
          last,       \* how its last request ended
          outcome,    \* what it returned
          tries,      \* requests it has sent to each model
          cancelled,  \* the callers whose context has ended
          exhausted   \* the models whose allowance for the day is gone

vars == <<current, stage, model, attempt, last, outcome, tries, cancelled, exhausted>>

Init == /\ current = 1
        /\ stage = [c \in Callers |-> "idle"]
        /\ model = [c \in Callers |-> Models[1]]
        /\ attempt = [c \in Callers |-> 0]
        /\ last = [c \in Callers |-> "ok"]
        /\ outcome = [c \in Callers |-> "none"]
        /\ tries = [c \in Callers |-> [m \in Names |-> 0]]
        /\ cancelled = {}
        /\ exhausted = {}

Goto(c, label) == stage' = [stage EXCEPT ![c] = label]
Return(c, what) == /\ Goto(c, "returned")
                   /\ outcome' = [outcome EXCEPT ![c] = what]

\* The conversation or the tools cannot be converted.
Refuse(c) == /\ stage[c] = "idle"
             /\ Return(c, "invalid")
             /\ UNCHANGED <<current, model, attempt, last, tries, cancelled, exhausted>>

Begin(c) == /\ stage[c] = "idle"
            /\ Goto(c, "choosing")
            /\ UNCHANGED <<current, model, attempt, last, outcome, tries, cancelled, exhausted>>

\* The model in use is read under the lock, and its first request is sent.
Choose(c) == /\ stage[c] = "choosing"
             /\ model' = [model EXCEPT ![c] = Models[current]]
             /\ attempt' = [attempt EXCEPT ![c] = 1]
             /\ tries' = [tries EXCEPT ![c][Models[current]] = @ + 1]
             /\ Goto(c, "inflight")
             /\ UNCHANGED <<current, last, outcome, cancelled, exhausted>>

\* What the service may answer now.
Possible(c) == {e \in Endings : /\ e = "ctx" => c \in cancelled
                                /\ e = "ok" => model[c] \notin exhausted
                                /\ e = "perDay" => model[c] \in exhausted}

\* Mutant: one attempt too many.
BugRequestEnds(c) ==
  /\ stage[c] = "inflight"
  /\ \E ending \in Possible(c) :
       /\ last' = [last EXCEPT ![c] = ending]
       /\ IF ending = "ok" THEN Return(c, "ok")
          ELSE IF ending \in Retryable /\ attempt[c] <= MaxAttempts
               THEN Goto(c, "waiting") /\ UNCHANGED outcome
          ELSE IF ending = "perDay" THEN Goto(c, "advancing") /\ UNCHANGED outcome
          ELSE Return(c, "error")
  /\ UNCHANGED <<current, model, attempt, tries, cancelled, exhausted>>

\* Mutant: the last error decides, whatever it says of the model.
BugFallback(c) ==
  /\ stage[c] = "inflight"
  /\ \E ending \in Possible(c) :
       /\ last' = [last EXCEPT ![c] = ending]
       /\ IF ending = "ok" THEN Return(c, "ok")
          ELSE IF ending \in Retryable /\ attempt[c] < MaxAttempts
               THEN Goto(c, "waiting") /\ UNCHANGED outcome
          ELSE IF ending \in Retryable THEN Goto(c, "advancing") /\ UNCHANGED outcome
          ELSE Return(c, "error")
  /\ UNCHANGED <<current, model, attempt, tries, cancelled, exhausted>>

\* Mutant: what may pass is asked again at once and costs no attempt.
BugEagerRetry(c) ==
  /\ stage[c] = "inflight"
  /\ \E ending \in Possible(c) :
       /\ last' = [last EXCEPT ![c] = ending]
       /\ IF ending = "ok" THEN Return(c, "ok")
          ELSE IF ending \in {"perMinute", "overload"} THEN UNCHANGED <<stage, outcome>>
          ELSE IF ending = "perDay" THEN Goto(c, "advancing") /\ UNCHANGED outcome
          ELSE Return(c, "error")
  /\ UNCHANGED <<current, model, attempt, tries, cancelled, exhausted>>

\* A request ends; withRetry returns its error, the last one or one that would
\* repeat itself, and quotaExhausted looks at it.
RequestEnds(c) ==
  /\ stage[c] = "inflight"
  /\ \E ending \in Possible(c) :
       /\ last' = [last EXCEPT ![c] = ending]
       /\ IF ending = "ok" THEN Return(c, "ok")
          ELSE IF ending \in Retryable /\ attempt[c] < MaxAttempts
               THEN Goto(c, "waiting") /\ UNCHANGED outcome
          ELSE IF ending = "perDay" THEN Goto(c, "advancing") /\ UNCHANGED outcome
          ELSE Return(c, "error")
  /\ UNCHANGED <<current, model, attempt, tries, cancelled, exhausted>>

\* The select between two attempts: the delay is over, or the context.
Retry(c) == /\ stage[c] = "waiting"
            /\ attempt' = [attempt EXCEPT ![c] = @ + 1]
            /\ tries' = [tries EXCEPT ![c][model[c]] = @ + 1]
            /\ Goto(c, "inflight")
            /\ UNCHANGED <<current, model, last, outcome, cancelled, exhausted>>

StopWaiting(c) == /\ stage[c] = "waiting"
                  /\ c \in cancelled
                  /\ Return(c, "ctx")
                  /\ UNCHANGED <<current, model, attempt, last, tries, cancelled, exhausted>>

\* Mutant: the model that failed is not compared.
BugNextModel(c) == /\ stage[c] = "advancing"
                   /\ IF current = Len(Models)
                      THEN Return(c, "spent") /\ UNCHANGED current
                      ELSE /\ Goto(c, "choosing")
                           /\ current' = current + 1
                           /\ UNCHANGED outcome
                   /\ UNCHANGED <<model, attempt, last, tries, cancelled, exhausted>>

\* nextModel, under the lock.
NextModel(c) == /\ stage[c] = "advancing"
                /\ IF Models[current] # model[c]
                   THEN Goto(c, "choosing") /\ UNCHANGED <<current, outcome>>
                   ELSE IF current = Len(Models)
                        THEN Return(c, "spent") /\ UNCHANGED current
                        ELSE /\ Goto(c, "choosing")
                             /\ current' = current + 1
                             /\ UNCHANGED outcome
                /\ UNCHANGED <<model, attempt, last, tries, cancelled, exhausted>>

Cancel(c) == /\ c \notin cancelled
             /\ cancelled' = cancelled \cup {c}
             /\ UNCHANGED <<current, stage, model, attempt, last, outcome, tries, exhausted>>

\* The service meters requests per model and day.
Exhaust(m) == /\ m \notin exhausted
              /\ exhausted' = exhausted \cup {m}
              /\ UNCHANGED <<current, stage, model, attempt, last, outcome, tries, cancelled>>

Step(c) == \/ Choose(c) \/ RequestEnds(c) \/ Retry(c) \/ StopWaiting(c) \/ NextModel(c)

Next == \/ \E c \in Callers : Refuse(c) \/ Begin(c) \/ Step(c) \/ Cancel(c)
        \/ \E m \in Names : Exhaust(m)

Spec == Init /\ [][Next]_vars

\* Timers fire, goroutines go on, and the service ends every request somehow.
FairSpec == Spec /\ \A c \in Callers : WF_vars(Step(c))

-----------------------------------------------------------------------------
(* Properties *)

\* Every variable keeps its type.
TypeOK ==
  /\ current \in 1..Len(Models)
  /\ stage \in [Callers -> {"idle", "choosing", "inflight", "waiting", "advancing", "returned"}]
  /\ model \in [Callers -> Names]
  /\ attempt \in [Callers -> 0..MaxAttempts]
  /\ last \in [Callers -> Endings]
  /\ outcome \in [Callers -> {"none", "invalid", "ok", "error", "ctx", "spent"}]
  /\ tries \in [Callers -> [Names -> Nat]]
  /\ cancelled \in SUBSET Callers
  /\ exhausted \in SUBSET Names

\* Whatever the order in which callers fail on the same model, the chain only
\* leaves models behind whose allowance is gone (nextModel: two callers must
\* not skip a healthy model between them).
NoHealthySkipped == \A i \in 1..(current - 1) : Models[i] \in exhausted

\* The allowance of every model is reported spent only when it is (Generate).
SpentIsTrue == \A c \in Callers : outcome[c] = "spent" => Names \subseteq exhausted

\* Each model gets one retry budget per Generate: however other callers move
\* the chain, no caller comes back to a model it has given up (Generate).
WithinBudget == \A c \in Callers : \A m \in Names : tries[c][m] <= MaxAttempts

\* If the service ends every request, so does every Generate.
GenerateEnds == \A c \in Callers : stage[c] = "choosing" ~> stage[c] = "returned"

\* Nobody waits for an allowance that does not come back before tomorrow
\* (comment of quotaExhausted: waiting is the one thing that cannot work).
NeverWaitsForTomorrow == \A c \in Callers : stage[c] = "waiting" => last[c] # "perDay"
=============================================================================
