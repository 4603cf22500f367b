------------------------- MODULE GeminiProviderProofs -------------------------
(***************************************************************************)
(* What holds of GeminiProvider for every number of callers, every chain   *)
(* of models and every number of attempts.                                 *)
(*                                                                         *)
(* None of the three properties is inductive.  That no healthy model is    *)
(* left behind rests on what a caller knows when it asks for the next one  *)
(* (LeavesASpentModel); that no model is asked too often rests on how far  *)
(* along the chain a caller has been (Fresh), and on the chain not         *)
(* repeating a model.                                                      *)
(***************************************************************************)
EXTENDS GeminiProvider, SelectionTheorems

Using == {"inflight", "waiting", "advancing"}

\* A caller that gives up its model has been told that its allowance is gone.
LeavesASpentModel == \A c \in Callers : stage[c] = "advancing" => model[c] \in exhausted

\* Caller c has not asked any model of the chain from position p on.
Fresh(c, p) == \A i \in 1..Len(Models) : i >= p => tries[c][Models[i]] = 0

\* The model a caller uses is in the chain no further than the position all
\* share, its requests are counted, and nothing beyond it has been asked.
Counted(c) == \E p \in 1..current : /\ Models[p] = model[c]
                                    /\ tries[c][model[c]] = attempt[c]
                                    /\ Fresh(c, p + 1)

Budget == \A c \in Callers :
  /\ stage[c] = "idle" => Fresh(c, 1)
  /\ stage[c] = "choosing" => Fresh(c, current)
  /\ stage[c] \in Using => Counted(c)
  /\ stage[c] = "waiting" => attempt[c] < MaxAttempts

Inv == /\ TypeOK
       /\ NoHealthySkipped
       /\ LeavesASpentModel
       /\ SpentIsTrue

FullInv == TypeOK /\ Budget /\ WithinBudget

-----------------------------------------------------------------------------

\* What chain builds: a first model, and no model twice.
THEOREM ChainIs ==
  /\ Models \in Seq(Names) /\ Len(Models) \in Nat \ {0}
  /\ \A i, j \in 1..Len(Models) : Models[i] = Models[j] => i = j
<1> DEFINE X == {Primary} \cup {Fallbacks[i] : i \in 1..Len(Fallbacks)}
           K == {i \in 1..Len(Fallbacks) : Wanted(Fallbacks[i])}
           W == {x \in X : Wanted(x)}
           first == <<Primary>>
           rest == Selected(Fallbacks, K)
<1>1. Fallbacks \in Seq(X)
  <2>1. Fallbacks \in Seq({Fallbacks[i] : i \in 1..Len(Fallbacks)})
    BY ProviderAssumption
  <2> QED
    BY <2>1
<1>2. \A i \in 1..Len(Fallbacks) : i \in K => Fallbacks[i] \in W
  OBVIOUS
<1>3. \A i, j \in 1..Len(Fallbacks) : i \in K /\ j \in K /\ Fallbacks[i] = Fallbacks[j] => i = j
  BY NoRepeats
<1>4. Primary \notin W /\ first \in Seq(X) /\ Len(first) = 1 /\ first[1] = Primary
  BY DEF Wanted
<1>5. W \in SUBSET X
  OBVIOUS
<1> HIDE DEF X, K, W, first
<1>6. rest \in Seq(W)
  BY <1>1, <1>2, SelectedTyped
<1>7. \A i, j \in 1..Len(rest) : rest[i] = rest[j] => i = j
  BY <1>1, <1>3, SelectedDistinct
<1>8. Models = Joined(first, rest)
  BY DEF Models, Joined, first, K
<1> HIDE DEF rest
<1>9. /\ rest \in Seq(X) /\ Len(rest) \in Nat
      /\ \A i \in 1..Len(rest) : rest[i] \in W
  BY <1>5, <1>6
<1>10. /\ Models \in Seq(X) /\ Len(Models) = Len(rest) + 1
       /\ \A i \in 1..1 : Models[i] = Primary
       /\ \A i \in 1..Len(rest) : Models[1 + i] = rest[i]
  <2>1. first \in Seq(X) /\ rest \in Seq(X)
    BY <1>4, <1>9
  <2>6. /\ Joined(first, rest) \in Seq(X)
        /\ Len(Joined(first, rest)) = Len(first) + Len(rest)
    BY <2>1, JoinedIs
  <2>7. \A i \in 1..Len(first) : Joined(first, rest)[i] = first[i]
    BY <2>1, JoinedIs
  <2>2. /\ Models \in Seq(X) /\ Len(Models) = Len(first) + Len(rest)
        /\ \A i \in 1..Len(first) : Models[i] = first[i]
    BY <1>8, <2>6, <2>7
  <2>3. \A i \in 1..Len(rest) : Joined(first, rest)[Len(first) + i] = rest[i]
    BY <2>1, JoinedIs
  <2>4. \A i \in 1..Len(rest) : Models[1 + i] = rest[i]
    BY <1>4, <1>8, <2>3
  <2>5. \A i \in 1..1 : Models[i] = Primary
    BY <1>4, <2>2
  <2> QED
    BY <1>4, <1>9, <2>2, <2>4, <2>5
<1>11. ASSUME NEW i \in 1..Len(Models)
       PROVE  \/ i = 1 /\ Models[i] = Primary
              \/ i - 1 \in 1..Len(rest) /\ Models[i] = rest[i - 1] /\ Models[i] \in W
  <2>1. CASE i = 1
    BY <1>10, <2>1
  <2>2. CASE i # 1
    <3>1. i - 1 \in 1..Len(rest) /\ 1 + (i - 1) = i
      BY <1>9, <1>10, <2>2
    <3> QED
      BY <1>9, <1>10, <3>1
  <2> QED
    BY <2>1, <2>2
<1>12. ASSUME NEW i \in 1..Len(Models), NEW j \in 1..Len(Models), Models[i] = Models[j]
       PROVE  i = j
  <2>1. CASE i = 1
    BY <1>4, <1>11, <1>12, <2>1
  <2>2. CASE i # 1
    <3>1. i - 1 \in 1..Len(rest) /\ Models[i] = rest[i - 1] /\ Models[i] \in W
      BY <1>11, <2>2
    <3>2. j - 1 \in 1..Len(rest) /\ Models[j] = rest[j - 1]
      BY <1>4, <1>11, <1>12, <3>1
    <3>3. i - 1 = j - 1
      BY <1>7, <1>12, <3>1, <3>2
    <3> QED
      BY <3>3
  <2> QED
    BY <2>1, <2>2
<1>13. Models \in Seq(Names)
  BY <1>10 DEF Names
<1> QED
  BY <1>9, <1>10, <1>12, <1>13

LEMMA Bounds == /\ MaxAttempts \in Nat \ {0}
                /\ Models \in Seq(Names)
                /\ Len(Models) \in Nat \ {0}
  BY ProviderAssumption, ChainIs

\* Every position of the chain holds one of its models.
LEMMA ChainIsNamed == \A i \in 1..Len(Models) : Models[i] \in Names
  BY DEF Names

\* The types of a step's variables: what one caller does to its own entries
\* leaves every variable in its type as long as it counts its attempts.
LEMMA TypeStep == TypeOK /\ Budget /\ [Next]_vars => TypeOK'
<1> SUFFICES ASSUME TypeOK, Budget, [Next]_vars PROVE TypeOK'
  OBVIOUS
<1> USE Bounds, ChainIsNamed
<1>1. ASSUME NEW c \in Callers, Refuse(c) PROVE TypeOK'
  BY <1>1 DEF TypeOK, Refuse, Return, Goto
<1>2. ASSUME NEW c \in Callers, Begin(c) PROVE TypeOK'
  BY <1>2 DEF TypeOK, Begin, Goto
<1>3. ASSUME NEW c \in Callers, Choose(c) PROVE TypeOK'
  <2>1. Models[current] \in Names
    BY DEF TypeOK
  <2>2. tries' \in [Callers -> [Names -> Nat]]
    BY <1>3, <2>1 DEF TypeOK, Choose
  <2>3. 1 \in 0..MaxAttempts
    OBVIOUS
  <2> QED
    BY <1>3, <2>1, <2>2, <2>3 DEF TypeOK, Choose, Goto
<1>4. ASSUME NEW c \in Callers, RequestEnds(c) PROVE TypeOK'
  <2>1. PICK ending \in Possible(c) :
          /\ last' = [last EXCEPT ![c] = ending]
          /\ IF ending = "ok" THEN Return(c, "ok")
             ELSE IF ending \in Retryable /\ attempt[c] < MaxAttempts
                  THEN Goto(c, "waiting") /\ UNCHANGED outcome
             ELSE IF ending = "perDay" THEN Goto(c, "advancing") /\ UNCHANGED outcome
             ELSE Return(c, "error")
    BY <1>4 DEF RequestEnds
  <2>2. ending \in Endings
    BY DEF Possible
  <2>3. last' \in [Callers -> Endings]
    BY <2>1, <2>2 DEF TypeOK
  <2>4. stage' \in [Callers -> {"idle", "choosing", "inflight", "waiting", "advancing", "returned"}]
    BY <2>1 DEF TypeOK, Return, Goto
  <2>5. outcome' \in [Callers -> {"none", "invalid", "ok", "error", "ctx", "spent"}]
    BY <2>1 DEF TypeOK, Return, Goto
  <2> QED
    BY <1>4, <2>3, <2>4, <2>5 DEF TypeOK, RequestEnds
<1>5. ASSUME NEW c \in Callers, Retry(c) PROVE TypeOK'
  <2>1. model[c] \in Names
    BY DEF TypeOK
  <2>2. attempt[c] + 1 \in 0..MaxAttempts
    BY <1>5 DEF TypeOK, Retry, Budget
  <2>3. tries' \in [Callers -> [Names -> Nat]]
    BY <1>5, <2>1 DEF TypeOK, Retry
  <2>4. attempt' \in [Callers -> 0..MaxAttempts]
    BY <1>5, <2>2 DEF TypeOK, Retry
  <2> QED
    BY <1>5, <2>3, <2>4 DEF TypeOK, Retry, Goto
<1>6. ASSUME NEW c \in Callers, StopWaiting(c) PROVE TypeOK'
  BY <1>6 DEF TypeOK, StopWaiting, Return, Goto
<1>7. ASSUME NEW c \in Callers, NextModel(c) PROVE TypeOK'
  <2>1. current' \in 1..Len(Models)
    BY <1>7 DEF TypeOK, NextModel
  <2> QED
    BY <1>7, <2>1 DEF TypeOK, NextModel, Return, Goto
<1>8. ASSUME NEW c \in Callers, Cancel(c) PROVE TypeOK'
  BY <1>8 DEF TypeOK, Cancel
<1>9. ASSUME NEW m \in Names, Exhaust(m) PROVE TypeOK'
  BY <1>9 DEF TypeOK, Exhaust
<1>10. ASSUME UNCHANGED vars PROVE TypeOK'
  BY <1>10 DEF TypeOK, vars
<1> QED
  BY <1>1, <1>2, <1>3, <1>4, <1>5, <1>6, <1>7, <1>8, <1>9, <1>10 DEF Next, Step

\* The initial state.
LEMMA Start == Init => TypeOK /\ Budget /\ WithinBudget /\ Inv
<1> SUFFICES ASSUME Init PROVE TypeOK /\ Budget /\ WithinBudget /\ Inv
  OBVIOUS
<1> USE Bounds, ChainIsNamed
<1>1. TypeOK
  <2>1. Models[1] \in Names
    OBVIOUS
  <2> QED
    BY <2>1 DEF Init, TypeOK, Endings
<1>2. Budget
  BY DEF Init, Budget, Fresh, Using
<1>3. WithinBudget
  BY DEF Init, WithinBudget
<1>4. NoHealthySkipped /\ LeavesASpentModel /\ SpentIsTrue
  BY DEF Init, NoHealthySkipped, LeavesASpentModel, SpentIsTrue
<1> QED
  BY <1>1, <1>2, <1>3, <1>4 DEF Inv

-----------------------------------------------------------------------------

\* The position in the chain only ever moves on from a spent model, and what is
\* spent stays spent.
LEMMA SpentStep == Inv /\ [Next]_vars => (NoHealthySkipped /\ LeavesASpentModel /\ SpentIsTrue)'
<1> SUFFICES ASSUME Inv, [Next]_vars
             PROVE  (NoHealthySkipped /\ LeavesASpentModel /\ SpentIsTrue)'
  OBVIOUS
<1> USE Bounds DEF Inv
<1>1. ASSUME UNCHANGED <<current, exhausted>>,
             \A c \in Callers : stage'[c] = "advancing" => model'[c] \in exhausted,
             \A c \in Callers : outcome'[c] = "spent" => outcome[c] = "spent"
      PROVE  (NoHealthySkipped /\ LeavesASpentModel /\ SpentIsTrue)'
  BY <1>1 DEF NoHealthySkipped, LeavesASpentModel, SpentIsTrue
<1>2. ASSUME NEW c \in Callers, Refuse(c) \/ Begin(c) \/ Choose(c) \/ Retry(c) \/ StopWaiting(c)
      PROVE  (NoHealthySkipped /\ LeavesASpentModel /\ SpentIsTrue)'
  <2>1. UNCHANGED <<current, exhausted>>
    BY <1>2 DEF Refuse, Begin, Choose, Retry, StopWaiting
  <2>2. \A d \in Callers : stage'[d] = "advancing" => model'[d] \in exhausted
    BY <1>2 DEF Refuse, Begin, Choose, Retry, StopWaiting, Return, Goto, TypeOK, LeavesASpentModel
  <2>3. \A d \in Callers : outcome'[d] = "spent" => outcome[d] = "spent"
    BY <1>2 DEF Refuse, Begin, Choose, Retry, StopWaiting, Return, Goto, TypeOK
  <2> QED
    BY <1>1, <2>1, <2>2, <2>3
<1>3. ASSUME NEW c \in Callers, RequestEnds(c)
      PROVE  (NoHealthySkipped /\ LeavesASpentModel /\ SpentIsTrue)'
  <2>1. PICK ending \in Possible(c) :
          /\ last' = [last EXCEPT ![c] = ending]
          /\ IF ending = "ok" THEN Return(c, "ok")
             ELSE IF ending \in Retryable /\ attempt[c] < MaxAttempts
                  THEN Goto(c, "waiting") /\ UNCHANGED outcome
             ELSE IF ending = "perDay" THEN Goto(c, "advancing") /\ UNCHANGED outcome
             ELSE Return(c, "error")
    BY <1>3 DEF RequestEnds
  <2>2. ending = "perDay" => model[c] \in exhausted
    BY DEF Possible
  <2>3. UNCHANGED <<current, exhausted, model>>
    BY <1>3 DEF RequestEnds
  <2>4. \A d \in Callers : stage'[d] = "advancing" => model'[d] \in exhausted
    BY <2>1, <2>2, <2>3 DEF TypeOK, Return, Goto, LeavesASpentModel
  <2>5. \A d \in Callers : outcome'[d] = "spent" => outcome[d] = "spent"
    BY <2>1 DEF TypeOK, Return, Goto
  <2> QED
    BY <1>1, <2>3, <2>4, <2>5
<1>4. ASSUME NEW c \in Callers, NextModel(c)
      PROVE  (NoHealthySkipped /\ LeavesASpentModel /\ SpentIsTrue)'
  <2>1. UNCHANGED <<exhausted, model>> /\ model[c] \in exhausted
    BY <1>4 DEF NextModel, LeavesASpentModel
  <2>2. LeavesASpentModel'
    BY <1>4, <2>1 DEF NextModel, LeavesASpentModel, TypeOK, Return, Goto
  <2>3. CASE Models[current] # model[c]
    BY <1>4, <2>1, <2>2, <2>3 DEF NextModel, NoHealthySkipped, SpentIsTrue
  <2>4. CASE Models[current] = model[c] /\ current = Len(Models)
    <3>1. UNCHANGED current /\ outcome' = [outcome EXCEPT ![c] = "spent"]
      BY <1>4, <2>4 DEF NextModel, Return
    <3>2. Names \subseteq exhausted
      BY <2>1, <2>4 DEF Names, NoHealthySkipped, TypeOK
    <3> QED
      BY <2>1, <2>2, <3>1, <3>2 DEF NoHealthySkipped, SpentIsTrue, TypeOK
  <2>5. CASE Models[current] = model[c] /\ current # Len(Models)
    <3>1. current' = current + 1 /\ UNCHANGED outcome
      BY <1>4, <2>5 DEF NextModel
    <3> QED
      BY <2>1, <2>2, <2>5, <3>1 DEF NoHealthySkipped, SpentIsTrue, TypeOK
  <2> QED
    BY <2>3, <2>4, <2>5
<1>5. ASSUME NEW c \in Callers, Cancel(c)
      PROVE  (NoHealthySkipped /\ LeavesASpentModel /\ SpentIsTrue)'
  BY <1>5 DEF Cancel, NoHealthySkipped, LeavesASpentModel, SpentIsTrue
<1>6. ASSUME NEW m \in Names, Exhaust(m)
      PROVE  (NoHealthySkipped /\ LeavesASpentModel /\ SpentIsTrue)'
  BY <1>6 DEF Exhaust, NoHealthySkipped, LeavesASpentModel, SpentIsTrue
<1>7. ASSUME UNCHANGED vars
      PROVE  (NoHealthySkipped /\ LeavesASpentModel /\ SpentIsTrue)'
  BY <1>7 DEF vars, NoHealthySkipped, LeavesASpentModel, SpentIsTrue
<1> QED
  BY <1>2, <1>3, <1>4, <1>5, <1>6, <1>7 DEF Next, Step

-----------------------------------------------------------------------------

\* What Budget says of caller c.
BudgetOf(c) == /\ stage[c] = "idle" => Fresh(c, 1)
               /\ stage[c] = "choosing" => Fresh(c, current)
               /\ stage[c] \in Using => Counted(c)
               /\ stage[c] = "waiting" => attempt[c] < MaxAttempts

\* A step that leaves a caller alone, or only moves the shared position on,
\* keeps what is known of it.
LEMMA Bystander ==
  ASSUME TypeOK, Budget, NEW d \in Callers,
         current' \in {current, current + 1},
         stage'[d] = stage[d], model'[d] = model[d],
         attempt'[d] = attempt[d], tries'[d] = tries[d]
  PROVE  BudgetOf(d)'
<1>1. BudgetOf(d)
  BY DEF Budget, BudgetOf
<1>2. current \in Nat /\ current' \in Nat /\ current <= current' /\ current >= 1
  BY Bounds DEF TypeOK
<1>3. \A p \in Nat : Fresh(d, p) => Fresh(d, p)'
  BY DEF Fresh
<1>4. stage'[d] = "choosing" => Fresh(d, current)'
  BY <1>1, <1>2 DEF BudgetOf, Fresh
<1>5. stage'[d] \in Using => Counted(d)'
  <2> SUFFICES ASSUME stage'[d] \in Using PROVE Counted(d)'
    OBVIOUS
  <2>1. PICK p \in 1..current : /\ Models[p] = model[d]
                                /\ tries[d][model[d]] = attempt[d]
                                /\ Fresh(d, p + 1)
    BY <1>1 DEF BudgetOf, Counted
  <2>2. p \in 1..current' /\ p + 1 \in Nat
    BY <1>2, <2>1
  <2>3. Fresh(d, p + 1)'
    BY <2>1 DEF Fresh
  <2> QED
    BY <2>1, <2>2, <2>3 DEF Counted
<1> QED
  BY <1>1, <1>2, <1>3, <1>4, <1>5 DEF BudgetOf

\* The way a caller takes from one model to the next, and the requests it sends.
LEMMA BudgetStep == FullInv /\ [Next]_vars => Budget' /\ WithinBudget'
<1> SUFFICES ASSUME FullInv, [Next]_vars PROVE Budget' /\ WithinBudget'
  OBVIOUS
<1> USE Bounds, ChainIsNamed DEF FullInv
<1>0. ASSUME \A d \in Callers : BudgetOf(d)' PROVE Budget'
  BY <1>0 DEF Budget, BudgetOf
<1>1. ASSUME NEW c \in Callers, UNCHANGED <<current, tries>>,
             \A d \in Callers \ {c} : stage'[d] = stage[d] /\ model'[d] = model[d]
                                      /\ attempt'[d] = attempt[d],
             BudgetOf(c)'
      PROVE  Budget' /\ WithinBudget'
  <2>1. \A d \in Callers : BudgetOf(d)'
    BY <1>1, Bystander
  <2> QED
    BY <1>0, <1>1, <2>1 DEF WithinBudget
<1>2. ASSUME NEW c \in Callers, Refuse(c) \/ StopWaiting(c) PROVE Budget' /\ WithinBudget'
  <2>1. stage'[c] = "returned"
    BY <1>2 DEF Refuse, StopWaiting, Return, Goto, TypeOK
  <2>2. BudgetOf(c)'
    BY <2>1 DEF BudgetOf, Using
  <2> QED
    BY <1>1, <1>2, <2>2 DEF Refuse, StopWaiting, Return, Goto, TypeOK
<1>3. ASSUME NEW c \in Callers, Begin(c) PROVE Budget' /\ WithinBudget'
  <2>1. Fresh(c, 1) /\ stage'[c] = "choosing"
    BY <1>3 DEF Begin, Goto, TypeOK, Budget
  <2>2. Fresh(c, current)'
    BY <1>3, <2>1 DEF Begin, Fresh, TypeOK
  <2>3. BudgetOf(c)'
    BY <2>1, <2>2 DEF BudgetOf, Using
  <2> QED
    BY <1>1, <1>3, <2>3 DEF Begin, Goto, TypeOK
<1>4. ASSUME NEW c \in Callers, Choose(c) PROVE Budget' /\ WithinBudget'
  <2> DEFINE new == Models[current]
  <2>1. new \in Names /\ current \in 1..Len(Models) /\ current' = current
    BY <1>4 DEF Choose, TypeOK
  <2>2. Fresh(c, current)
    BY <1>4 DEF Choose, Budget
  <2>3. tries[c][new] = 0
    BY <2>1, <2>2 DEF Fresh
  <2>4. /\ stage'[c] = "inflight" /\ model'[c] = new /\ attempt'[c] = 1
        /\ tries'[c][new] = 1
    BY <1>4, <2>1, <2>3 DEF Choose, Goto, TypeOK
  <2>5. \A m \in Names : m # new => tries'[c][m] = tries[c][m]
    BY <1>4, <2>1 DEF Choose, TypeOK
  <2>6. \A i \in 1..Len(Models) : i >= current + 1 => Models[i] # new
    BY <2>1, ChainIs
  <2>7. Fresh(c, current + 1)'
    BY <2>1, <2>2, <2>5, <2>6 DEF Fresh
  <2>8. Counted(c)'
    BY <2>1, <2>4, <2>7 DEF Counted
  <2>9. BudgetOf(c)'
    BY <2>4, <2>8 DEF BudgetOf
  <2>10. \A d \in Callers \ {c} : /\ stage'[d] = stage[d] /\ model'[d] = model[d]
                                  /\ attempt'[d] = attempt[d] /\ tries'[d] = tries[d]
    BY <1>4 DEF Choose, Goto, TypeOK
  <2>11. \A d \in Callers : BudgetOf(d)'
    BY <2>1, <2>9, <2>10, Bystander
  <2>12. \A d \in Callers : \A m \in Names : tries'[d][m] <= MaxAttempts
    BY <2>4, <2>5, <2>10 DEF WithinBudget
  <2> QED
    BY <1>0, <2>11, <2>12 DEF WithinBudget
<1>5. ASSUME NEW c \in Callers, RequestEnds(c) PROVE Budget' /\ WithinBudget'
  <2>1. UNCHANGED <<current, tries, model, attempt>>
    BY <1>5 DEF RequestEnds
  <2>2. /\ stage'[c] \in {"waiting", "advancing", "returned"}
        /\ stage'[c] = "waiting" => attempt[c] < MaxAttempts
        /\ \A d \in Callers \ {c} : stage'[d] = stage[d]
    BY <1>5 DEF RequestEnds, Return, Goto, TypeOK
  <2>3. Counted(c)
    BY <1>5 DEF RequestEnds, Budget, Using
  <2>4. Counted(c)'
    BY <2>1, <2>3 DEF Counted, Fresh
  <2>5. BudgetOf(c)'
    BY <2>1, <2>2, <2>4 DEF BudgetOf
  <2> QED
    BY <1>1, <2>1, <2>2, <2>5
<1>6. ASSUME NEW c \in Callers, Retry(c) PROVE Budget' /\ WithinBudget'
  <2>1. model[c] \in Names /\ attempt[c] \in 0..MaxAttempts /\ attempt[c] < MaxAttempts
    BY <1>6 DEF Retry, TypeOK, Budget
  <2>2. PICK p \in 1..current : /\ Models[p] = model[c]
                                /\ tries[c][model[c]] = attempt[c]
                                /\ Fresh(c, p + 1)
    BY <1>6 DEF Retry, Budget, Using, Counted
  <2>3. /\ current' = current /\ model' = model
        /\ stage'[c] = "inflight" /\ attempt'[c] = attempt[c] + 1
        /\ tries'[c][model[c]] = attempt[c] + 1
    BY <1>6, <2>1, <2>2 DEF Retry, Goto, TypeOK
  <2>4. \A m \in Names : m # model[c] => tries'[c][m] = tries[c][m]
    BY <1>6, <2>1 DEF Retry, TypeOK
  <2>5. \A i \in 1..Len(Models) : i >= p + 1 => Models[i] # model[c]
    <3>1. p \in 1..Len(Models)
      BY DEF TypeOK
    <3>2. \A i \in 1..Len(Models) : i >= p + 1 => i # p
      BY <3>1
    <3> QED
      BY <2>2, <3>1, <3>2, ChainIs
  <2>6. Fresh(c, p + 1)'
    BY <2>2, <2>4, <2>5 DEF Fresh
  <2>7. BudgetOf(c)'
    BY <2>2, <2>3, <2>6 DEF BudgetOf, Counted
  <2>8. \A d \in Callers \ {c} : /\ stage'[d] = stage[d] /\ model'[d] = model[d]
                                 /\ attempt'[d] = attempt[d] /\ tries'[d] = tries[d]
    BY <1>6 DEF Retry, Goto, TypeOK
  <2>9. \A d \in Callers : BudgetOf(d)'
    BY <2>3, <2>7, <2>8, Bystander
  <2>10. \A d \in Callers : \A m \in Names : tries'[d][m] <= MaxAttempts
    BY <2>1, <2>3, <2>4, <2>8 DEF WithinBudget
  <2> QED
    BY <1>0, <2>9, <2>10 DEF WithinBudget
<1>7. ASSUME NEW c \in Callers, NextModel(c) PROVE Budget' /\ WithinBudget'
  <2>1. /\ current \in Nat /\ current' \in {current, current + 1}
        /\ UNCHANGED <<model, attempt, tries>>
        /\ \A d \in Callers \ {c} : stage'[d] = stage[d]
    BY <1>7 DEF NextModel, Return, Goto, TypeOK
  <2>2. PICK p \in 1..current : Models[p] = model[c] /\ Fresh(c, p + 1)
    BY <1>7 DEF NextModel, Budget, Using, Counted
  <2>3. stage'[c] \in {"choosing", "returned"}
    BY <1>7 DEF NextModel, Return, Goto, TypeOK
  <2>4. stage'[c] = "choosing" => current' >= p + 1
    BY <1>7, <2>2 DEF NextModel, Return, Goto, TypeOK
  <2>5. stage'[c] = "choosing" => Fresh(c, current)'
    BY <2>1, <2>2, <2>4 DEF Fresh
  <2>6. BudgetOf(c)'
    BY <2>3, <2>5 DEF BudgetOf, Using
  <2>7. \A d \in Callers : BudgetOf(d)'
    BY <2>1, <2>6, Bystander
  <2> QED
    BY <1>0, <2>1, <2>7 DEF WithinBudget
<1>8. ASSUME UNCHANGED <<current, stage, model, attempt, tries>>
      PROVE Budget' /\ WithinBudget'
  <2>1. \A d \in Callers : BudgetOf(d)'
    BY <1>8, Bystander
  <2> QED
    BY <1>0, <1>8, <2>1 DEF WithinBudget
<1> QED
  BY <1>2, <1>3, <1>4, <1>5, <1>6, <1>7, <1>8 DEF Next, Step, Cancel, Exhaust, vars

-----------------------------------------------------------------------------

\* The two invariants hold in every reachable state.
LEMMA Invariance == Spec => [](FullInv /\ Inv)
<1>1. Init => FullInv /\ Inv
  BY Start DEF FullInv
<1>2. FullInv /\ Inv /\ [Next]_vars => (FullInv /\ Inv)'
  BY TypeStep, SpentStep, BudgetStep DEF FullInv, Inv
<1> QED
  BY <1>1, <1>2, PTL DEF Spec

\* Every variable keeps its type.
THEOREM TypeCorrect == Spec => []TypeOK
  BY Invariance, PTL DEF Inv

\* However many callers fail on the same model at once, and in whatever order
\* they ask for the next one, the chain only leaves behind models whose
\* allowance for the day is gone (nextModel).
THEOREM NoneSkipped == Spec => []NoHealthySkipped
  BY Invariance, PTL DEF Inv

\* A Generate that reports that every model is spent is right (Generate).
THEOREM SpentReportsAreTrue == Spec => []SpentIsTrue
  BY Invariance, PTL DEF Inv

\* A Generate sends no model more requests than one retry budget allows,
\* however other callers move the chain meanwhile (Generate, withRetry).
THEOREM BudgetKept == Spec => []WithinBudget
  BY Invariance, PTL DEF FullInv
=============================================================================
