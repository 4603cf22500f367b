-------------------------- MODULE StdioSessionProofs --------------------------
(***************************************************************************)
(* What holds of StdioSession for every number of calls, every size of the *)
(* pipes and every number of a server's own requests.                      *)
(*                                                                         *)
(* That the session implements RpcCalls rests on where a request is: a     *)
(* request in the pipe is there once and not yet answered, and an answer   *)
(* on its way is to a call the server has answered.  Where a request or    *)
(* the response to it is at all is followed in Unique: through both pipes, *)
(* the server's hands and the inbox, at one place at a time.               *)
(***************************************************************************)
EXTENDS StdioSession, SequenceTheorems, TLAPS

-----------------------------------------------------------------------------
(* Sequences *)

LEMMA AppendElems ==
  ASSUME NEW S, NEW seq \in Seq(S), NEW x \in S
  PROVE  /\ Append(seq, x) \in Seq(S) /\ Len(Append(seq, x)) = Len(seq) + 1
         /\ \A i \in 1..Len(seq) : Append(seq, x)[i] = seq[i]
         /\ Append(seq, x)[Len(seq) + 1] = x
OBVIOUS

LEMMA TailElems ==
  ASSUME NEW S, NEW seq \in Seq(S), seq # <<>>
  PROVE  /\ Tail(seq) \in Seq(S) /\ Len(Tail(seq)) = Len(seq) - 1 /\ Len(seq) \in Nat \ {0}
         /\ \A i \in 1..Len(Tail(seq)) : Tail(seq)[i] = seq[i + 1]
         /\ Head(seq) = seq[1] /\ Head(seq) \in S
BY HeadTailProperties, EmptySeq

LEMMA ConsElems ==
  ASSUME NEW S, NEW seq \in Seq(S), NEW x \in S
  PROVE  /\ <<x>> \o seq \in Seq(S) /\ Len(<<x>> \o seq) = Len(seq) + 1
         /\ (<<x>> \o seq)[1] = x
         /\ \A i \in 1..Len(seq) : (<<x>> \o seq)[i + 1] = seq[i]
OBVIOUS

LEMMA OneElem ==
  ASSUME NEW S, NEW x \in S
  PROVE  <<x>> \in Seq(S) /\ Len(<<x>>) = 1 /\ <<x>>[1] = x
OBVIOUS

-----------------------------------------------------------------------------
(* Types *)

Steps == {"idle", "locking", "writing", "waiting", "returned", "reading", "gone"}

\* The steps of the writers, their lock and what calls return.
Control == /\ step \in [Writers -> Steps]
           /\ result \in [Calls -> Results]
           /\ \A w \in Writers : step[w] = "writing" <=> lock = w
           /\ \A c \in Calls : step[c] = "returned" <=> result[c] # P!NotYet
           /\ lock \in Writers \cup {Nobody}

\* The pipes, and the room that is left for what Close may append.
Pipes == /\ inbound \in Seq(Toward) /\ Len(inbound) <= InCap + 1
         /\ StdinOpen => Len(inbound) <= InCap
         /\ outbound \in Seq(Back) /\ Len(outbound) <= OutCap
         /\ hold \in Seq(Back) /\ Len(hold) <= 2
         /\ asks \in 0..MaxAsks

Flags == /\ inbox \subseteq Calls /\ written \subseteq Calls
         /\ cancelled \subseteq Writers
         /\ ended \in BOOLEAN
         /\ closing \in {"no", "client", "marked", "waiting", "done"}
         /\ server \in {"up", "left", "killed"}

LEMMA Constants == /\ Reader \notin Calls /\ Nobody \notin Calls /\ Nobody # Reader
                   /\ InCap \in Nat \ {0} /\ OutCap \in Nat \ {0} /\ MaxAsks \in Nat
BY SessionAssumption

LEMMA FrameTypes ==
  /\ \A w \in Writers : FrameOf(w) \in Toward /\ FrameOf(w).from = w
  /\ Torn \in Toward /\ Torn.from = Nobody
  /\ Ask \in Back /\ Ask.type # "answer"
BY DEF FrameOf, Torn, Ask, Frame, Toward, Back, Writers

LEMMA ResultTypes ==
  /\ P!NotYet \in Results /\ P!WriteError \in Results /\ P!WriteError # P!NotYet
  /\ Because("ctx", Nobody) \in Results /\ Because("ctx", Nobody) # P!NotYet
  /\ Because("session", Nobody) \in Results /\ Because("session", Nobody) # P!NotYet
  /\ \A c \in Calls : Because("answer", c) \in Results /\ Because("answer", c) # P!NotYet
BY DEF P!NotYet, P!WriteError, Because, Results

\* One response to a request, of the call that made it; none to the rest.
LEMMA HandleType ==
  ASSUME NEW frame \in Toward
  PROVE  /\ Handle(frame) \in Seq(Back) /\ Len(Handle(frame)) <= 1
         /\ \A i \in 1..Len(Handle(frame)) :
              Handle(frame)[i].type = "answer" => /\ frame.type = "request"
                                                  /\ Handle(frame)[i].from = frame.from
<1> DEFINE null == Frame("null", Nobody)
           answer == Frame("answer", frame.from)
<1>1. null \in Back /\ null.type # "answer"
  BY DEF Frame, Back
<1>2. ASSUME frame.type = "request"
      PROVE  answer \in Back /\ answer.type = "answer" /\ answer.from = frame.from
  BY <1>2 DEF Frame, Back, Toward, FrameOf, Torn
<1>3. frame.type \in {"request", "torn", "refusal"}
  BY DEF Frame, Toward, FrameOf, Torn
<1>4. CASE frame.type = "request"
  <2>1. Handle(frame) = <<answer>>
    BY Zenon, <1>4 DEF Handle
  <2> HIDE DEF answer
  <2> QED
    BY <1>2, <1>4, <2>1, OneElem
<1>5. CASE frame.type = "torn"
  <2>1. Handle(frame) = <<null>>
    BY Zenon, <1>5 DEF Handle
  <2> HIDE DEF null
  <2> QED
    BY <1>1, <2>1, OneElem
<1>6. CASE frame.type = "refusal"
  <2>1. Handle(frame) = <<>>
    BY Zenon, <1>6 DEF Handle
  <2> QED
    BY <2>1
<1> QED
  BY <1>3, <1>4, <1>5, <1>6

-----------------------------------------------------------------------------
(* Control *)

LEMMA InitControl == Init => Control
<1> SUFFICES ASSUME Init PROVE Control
  OBVIOUS
<1>1. /\ step \in [Writers -> Steps]
      /\ \A w \in Writers : step[w] # "writing"
      /\ \A c \in Calls : step[c] # "returned"
  BY DEF Init, Writers, Steps
<1>2. result \in [Calls -> Results] /\ \A c \in Calls : result[c] = P!NotYet
  BY ResultTypes DEF Init
<1>3. lock = Nobody /\ \A w \in Writers : lock # w
  BY Constants DEF Init, Writers
<1> QED
  BY <1>1, <1>2, <1>3 DEF Control

\* A writer moves on, with the lock or without.
LEMMA GotoControl ==
  ASSUME Control, NEW w \in Writers, NEW label \in Steps \ {"returned"}, step[w] # "returned",
         step' = [step EXCEPT ![w] = label], result' = result,
         \/ label = "writing" /\ lock = Nobody /\ lock' = w
         \/ label # "writing" /\ lock = w /\ lock' = Nobody
         \/ label # "writing" /\ step[w] # "writing" /\ lock' = lock
  PROVE  Control'
BY Constants DEF Control, Writers

\* A call returns without the lock, or gives it back.
LEMMA ReturnControl ==
  ASSUME Control, NEW c \in Calls, step[c] # "returned",
         NEW r \in Results \ {P!NotYet},
         step' = [step EXCEPT ![c] = "returned"], result' = [result EXCEPT ![c] = r],
         \/ lock = c /\ lock' = Nobody
         \/ step[c] # "writing" /\ lock' = lock
  PROVE  Control'
BY Constants DEF Control, Writers, Steps

LEMMA FailControl ==
  ASSUME Control, NEW w \in Writers, step[w] # "returned", Fail(w),
         \/ lock = w /\ lock' = Nobody
         \/ step[w] # "writing" /\ lock' = lock
  PROVE  Control'
<1>1. CASE w = Reader
  <2>1. step' = [step EXCEPT ![w] = "reading"] /\ result' = result
    BY <1>1, Constants DEF Fail
  <2> QED
    BY <2>1, GotoControl DEF Steps
<1>2. CASE w \in Calls
  <2>1. step' = [step EXCEPT ![w] = "returned"] /\ result' = [result EXCEPT ![w] = P!WriteError]
    BY <1>2, Constants DEF Fail
  <2> QED
    BY <1>2, <2>1, ReturnControl, ResultTypes
<1> QED
  BY <1>1, <1>2 DEF Writers

LEMMA EnterControl ==
  ASSUME Control, NEW w \in Writers, step[w] \in {"idle", "reading"}, Enter(w), lock' = lock
  PROVE  Control'
<1>1. CASE w \in cancelled
  BY <1>1, FailControl DEF Enter
<1>2. CASE w \notin cancelled
  BY <1>2, GotoControl DEF Enter, Steps
<1> QED
  BY <1>1, <1>2

LEMMA ControlStep == Control /\ [Next]_vars => Control'
<1> SUFFICES ASSUME Control, [Next]_vars PROVE Control'
  OBVIOUS
<1>1. ASSUME NEW c \in Calls, Begin(c) PROVE Control'
  BY <1>1, EnterControl DEF Begin, Writers
<1>2. ASSUME NEW w \in Writers, Lock(w) PROVE Control'
  <2>1. CASE MarkedClosed \/ w \in cancelled
    BY <1>2, <2>1, FailControl DEF Lock
  <2>2. CASE ~(MarkedClosed \/ w \in cancelled)
    BY <1>2, <2>2, GotoControl DEF Lock, Steps
  <2> QED
    BY <2>1, <2>2
<1>3. ASSUME NEW w \in Writers, Put(w) PROVE Control'
  BY <1>3, GotoControl DEF Put, Steps, Control
<1>4. ASSUME NEW w \in Writers, Break(w) PROVE Control'
  BY <1>4, FailControl DEF Break, Control
<1>5. ASSUME NEW c \in Calls, Select(c) PROVE Control'
  <2>1. PICK r \in Results \ {P!NotYet} : step[c] = "waiting" /\ Return(c, r)
    BY <1>5, ResultTypes DEF Select
  <2> QED
    BY <2>1, ReturnControl DEF Return
<1>6. CASE ReadFrame
  <2>1. CASE Head(outbound) = Ask
    BY <1>6, <2>1, EnterControl DEF ReadFrame, Writers
  <2>2. CASE Head(outbound) # Ask
    BY <1>6, <2>2 DEF ReadFrame, Control
  <2> QED
    BY <2>1, <2>2
<1>7. CASE ReadEnds
  BY <1>7, GotoControl DEF ReadEnds, Writers, Steps
<1>8. UNCHANGED <<step, result, lock>> => Control'
  BY DEF Control
<1>9. ASSUME NEW w \in Writers, Cancel(w) PROVE Control'
  BY <1>8, <1>9 DEF Cancel, clientVars
<1>10. CASE CloseClient \/ CloseStep
  BY <1>8, <1>10 DEF CloseClient, CloseStep, MarkClosed, CloseStdin, Kill, CloseReturns, clientVars
<1>11. CASE ServerStep \/ AskClient \/ Crash
  BY <1>8, <1>11 DEF ServerStep, Serve, Send, Leave, AskClient, Crash, clientVars
<1>12. CASE UNCHANGED vars
  BY <1>8, <1>12 DEF vars, clientVars
<1> QED
  BY <1>1, <1>2, <1>3, <1>4, <1>5, <1>6, <1>7, <1>9, <1>10, <1>11, <1>12
     DEF Next, CallStep, WriteStep, ReaderStep, Writers

-----------------------------------------------------------------------------
(* The pipes and the flags *)

LEMMA InitPipes == Init => Pipes /\ Flags
<1> SUFFICES ASSUME Init PROVE Pipes /\ Flags
  OBVIOUS
<1>1. Flags
  BY Zenon DEF Init, Flags
<1>2. /\ inbound \in Seq(Toward) /\ Len(inbound) = 0
      /\ outbound \in Seq(Back) /\ Len(outbound) = 0
      /\ hold \in Seq(Back) /\ Len(hold) = 0
      /\ asks = 0
  BY DEF Init
<1> QED
  BY <1>1, <1>2, Constants DEF Pipes

LEMMA StdinStays == [Next]_vars /\ StdinOpen' => StdinOpen
BY DEF StdinOpen, Next, Begin, CallStep, WriteStep, Lock, Put, Break, Select, Return, ReaderStep,
       ReadFrame, ReadEnds, Cancel, CloseClient, CloseStep, MarkClosed, CloseStdin, Kill,
       CloseReturns, ServerStep, Serve, Send, Leave, AskClient, Crash, vars

\* What a step that touches the pipes leaves of the others.
PipeStep == \/ \E w \in Writers : Put(w)
            \/ CloseStdin \/ ReadFrame \/ Serve \/ Send \/ AskClient

LEMMA OtherSteps == [Next]_vars => PipeStep \/ UNCHANGED <<inbound, outbound, hold, asks>>
BY DEF PipeStep, Next, Begin, CallStep, WriteStep, Lock, Break, Select, Return, ReaderStep,
       ReadEnds, Cancel, CloseClient, CloseStep, MarkClosed, Kill, CloseReturns, ServerStep,
       Leave, Crash, vars, serverVars, Writers

LEMMA PipesStep == Pipes /\ [Next]_vars => Pipes'
<1> SUFFICES ASSUME Pipes, [Next]_vars PROVE Pipes'
  OBVIOUS
<1>1. StdinOpen' => StdinOpen
  BY StdinStays
<1>2. ASSUME NEW w \in Writers, Put(w) PROVE Pipes'
  <2>1. FrameOf(w) \in Toward
    BY FrameTypes
  <2>2. inbound' = Append(inbound, FrameOf(w)) /\ Len(inbound) < InCap
        /\ UNCHANGED <<outbound, hold, asks>>
    BY <1>2 DEF Put, serverVars
  <2>3. inbound' \in Seq(Toward) /\ Len(inbound') = Len(inbound) + 1
    BY <2>1, <2>2, AppendElems DEF Pipes
  <2> QED
    BY <2>2, <2>3, Constants DEF Pipes
<1>3. CASE CloseStdin
  <2>1. /\ inbound' = inbound \/ inbound' = Append(inbound, Torn)
        /\ UNCHANGED <<outbound, hold, asks>>
        /\ StdinOpen /\ ~StdinOpen'
    BY <1>3 DEF CloseStdin, serverVars, StdinOpen
  <2>2. inbound' \in Seq(Toward) /\ Len(inbound') <= Len(inbound) + 1
    BY <2>1, FrameTypes, AppendElems DEF Pipes
  <2> QED
    BY <2>1, <2>2, Constants DEF Pipes
<1>4. CASE ReadFrame
  <2>1. outbound # <<>> /\ outbound' = Tail(outbound) /\ UNCHANGED <<inbound, hold, asks>>
    BY <1>4 DEF ReadFrame, serverVars
  <2>2. outbound' \in Seq(Back) /\ Len(outbound') <= OutCap
    BY <2>1, TailElems, Constants DEF Pipes
  <2> QED
    BY <1>1, <2>1, <2>2 DEF Pipes
<1>5. CASE Serve
  <2>1. inbound # <<>> /\ inbound' = Tail(inbound) /\ hold' = Handle(Head(inbound))
        /\ UNCHANGED <<outbound, asks>>
    BY <1>5 DEF Serve
  <2>2. inbound' \in Seq(Toward) /\ Len(inbound') <= Len(inbound) /\ Head(inbound) \in Toward
        /\ Len(inbound) \in Nat /\ Len(inbound') \in Nat
    BY <2>1, TailElems DEF Pipes
  <2>3. hold' \in Seq(Back) /\ Len(hold') <= 1
    BY <2>1, <2>2, HandleType
  <2> QED
    BY <1>1, <2>1, <2>2, <2>3, Constants DEF Pipes
<1>6. CASE Send
  <2>1. hold # <<>> /\ hold' = Tail(hold) /\ Len(outbound) < OutCap
        /\ outbound' = Append(outbound, Head(hold)) /\ UNCHANGED <<inbound, asks>>
    BY <1>6 DEF Send
  <2>2. hold' \in Seq(Back) /\ Len(hold') <= 2 /\ Head(hold) \in Back
    BY <2>1, TailElems DEF Pipes
  <2>3. outbound' \in Seq(Back) /\ Len(outbound') = Len(outbound) + 1
    BY <2>1, <2>2, AppendElems DEF Pipes
  <2> QED
    BY <1>1, <2>1, <2>2, <2>3, Constants DEF Pipes
<1>7. CASE AskClient
  <2>1. Len(hold) < 2 /\ hold' = <<Ask>> \o hold /\ asks < MaxAsks /\ asks' = asks + 1
        /\ UNCHANGED <<inbound, outbound>>
    BY <1>7 DEF AskClient
  <2>2. hold' \in Seq(Back) /\ Len(hold') = Len(hold) + 1
    BY <2>1, FrameTypes, ConsElems DEF Pipes
  <2> QED
    BY <1>1, <2>1, <2>2, Constants DEF Pipes
<1>8. CASE UNCHANGED <<inbound, outbound, hold, asks>>
  BY <1>1, <1>8 DEF Pipes
<1> QED
  BY <1>2, <1>3, <1>4, <1>5, <1>6, <1>7, <1>8, OtherSteps DEF PipeStep

LEMMA FlagsStep == Flags /\ [Next]_vars => Flags'
<1> SUFFICES ASSUME Flags, [Next]_vars PROVE Flags'
  OBVIOUS
<1>1. cancelled' \subseteq Writers
  BY DEF Flags, Next, Begin, CallStep, WriteStep, Lock, Put, Break, Select, Return, ReaderStep,
       ReadFrame, ReadEnds, Cancel, CloseClient, CloseStep, MarkClosed, CloseStdin, Kill,
       CloseReturns, ServerStep, Serve, Send, Leave, AskClient, Crash, vars
<1>2. inbox' \subseteq Calls
  BY DEF Flags, Next, Begin, CallStep, WriteStep, Lock, Put, Break, Select, Return, ReaderStep,
       ReadFrame, Deliver, Pending, ReadEnds, Cancel, CloseClient, CloseStep, MarkClosed,
       CloseStdin, Kill, CloseReturns, ServerStep, Serve, Send, Leave, AskClient, Crash, vars,
       clientVars
<1>3. written' \subseteq Calls
  BY DEF Flags, Next, Begin, CallStep, WriteStep, Lock, Put, Break, Select, Return, ReaderStep,
       ReadFrame, ReadEnds, Cancel, CloseClient, CloseStep, MarkClosed, CloseStdin, Kill,
       CloseReturns, ServerStep, Serve, Send, Leave, AskClient, Crash, vars, clientVars
<1>4. ended' = ended \/ ended' = TRUE
  BY DEF Next, Begin, CallStep, WriteStep, Lock, Put, Break, Select, Return, ReaderStep,
       ReadFrame, ReadEnds, Cancel, CloseClient, CloseStep, MarkClosed, CloseStdin, Kill,
       CloseReturns, ServerStep, Serve, Send, Leave, AskClient, Crash, vars
<1>5. closing' \in {closing, "client", "marked", "waiting", "done"}
  BY DEF Next, Begin, CallStep, WriteStep, Lock, Put, Break, Select, Return, ReaderStep,
       ReadFrame, ReadEnds, Cancel, CloseClient, CloseStep, MarkClosed, CloseStdin, Kill,
       CloseReturns, ServerStep, Serve, Send, Leave, AskClient, Crash, vars
<1>6. server' \in {server, "left", "killed"}
  BY DEF Next, Begin, CallStep, WriteStep, Lock, Put, Break, Select, Return, ReaderStep,
       ReadFrame, ReadEnds, Cancel, CloseClient, CloseStep, MarkClosed, CloseStdin, Kill,
       CloseReturns, ServerStep, Serve, Send, Leave, AskClient, Crash, vars, serverVars
<1>7. ended' \in BOOLEAN
  BY Zenon, <1>4 DEF Flags
<1> QED
  BY Zenon, <1>1, <1>2, <1>3, <1>5, <1>6, <1>7 DEF Flags

-----------------------------------------------------------------------------
(* Where a request is *)

Typed == Control /\ Pipes /\ Flags

LEMMA TypedStep == Typed /\ [Next]_vars => Typed'
BY ControlStep, PipesStep, FlagsStep DEF Typed

LEMMA InitTyped == Init => Typed
BY InitControl, InitPipes DEF Typed

\* The answers in a pipe, or on their way into it, are to calls in A.
AnswersOf(seq, A) == \A i \in 1..Len(seq) : seq[i].type = "answer" => seq[i].from \in A

\* The request of c is among the frames of seq; it is at most once.
Has(seq, c) == \E i \in 1..Len(seq) : seq[i].from = c
Once(seq) == \A i, j \in 1..Len(seq) : seq[i].from \in Calls /\ seq[i].from = seq[j].from => i = j

Requests == /\ \A c \in Calls : step[c] \in {"idle", "locking", "writing"} => c \notin written
            /\ answered \subseteq written
            /\ \A c \in Calls : Has(inbound, c) => c \in written \ answered
            /\ Once(inbound)
            /\ inbox \subseteq answered
            /\ AnswersOf(hold, answered) /\ AnswersOf(outbound, answered)

LEMMA AppendHas ==
  ASSUME NEW S, NEW seq \in Seq(S), NEW x \in S, NEW c
  PROVE  Has(Append(seq, x), c) <=> Has(seq, c) \/ x.from = c
<1>1. /\ Len(Append(seq, x)) = Len(seq) + 1 /\ Len(seq) \in Nat
      /\ \A i \in 1..Len(seq) : Append(seq, x)[i] = seq[i]
      /\ Append(seq, x)[Len(seq) + 1] = x
  BY AppendElems
<1> DEFINE app == Append(seq, x)
<1> HIDE DEF app
<1>2. /\ Len(app) = Len(seq) + 1
      /\ \A i \in 1..Len(seq) : app[i] = seq[i]
      /\ app[Len(seq) + 1] = x
  BY <1>1 DEF app
<1>3. Has(app, c) <=> Has(seq, c) \/ x.from = c
  BY <1>1, <1>2 DEF Has
<1> QED
  BY <1>3 DEF app

LEMMA AppendOnce ==
  ASSUME NEW S, NEW seq \in Seq(S), NEW x \in S, Once(seq),
         x.from \in Calls => ~Has(seq, x.from)
  PROVE  Once(Append(seq, x))
<1>1. /\ Len(Append(seq, x)) = Len(seq) + 1 /\ Len(seq) \in Nat
      /\ \A i \in 1..Len(seq) : Append(seq, x)[i] = seq[i]
      /\ Append(seq, x)[Len(seq) + 1] = x
  BY AppendElems
<1> DEFINE app == Append(seq, x)
<1> HIDE DEF app
<1>2. /\ Len(app) = Len(seq) + 1
      /\ \A i \in 1..Len(seq) : app[i] = seq[i]
      /\ app[Len(seq) + 1] = x
  BY <1>1 DEF app
<1>3. Once(app)
  BY <1>1, <1>2 DEF Has, Once
<1> QED
  BY <1>3 DEF app

LEMMA TailHas ==
  ASSUME NEW S, NEW seq \in Seq(S), seq # <<>>, NEW c
  PROVE  /\ Has(seq, c) <=> Has(Tail(seq), c) \/ Head(seq).from = c
         /\ Once(seq) => Once(Tail(seq))
         /\ Once(seq) /\ c \in Calls /\ Head(seq).from = c => ~Has(Tail(seq), c)
<1> DEFINE tail == Tail(seq)
<1>1. /\ Len(tail) = Len(seq) - 1 /\ Len(seq) \in Nat \ {0}
      /\ \A i \in 1..Len(tail) : tail[i] = seq[i + 1]
      /\ Head(seq) = seq[1]
  BY TailElems
<1> HIDE DEF tail
<1>2. Has(seq, c) => Has(tail, c) \/ Head(seq).from = c
  <2>1. SUFFICES ASSUME NEW i \in 1..Len(seq), seq[i].from = c, i # 1 PROVE Has(tail, c)
    BY <1>1 DEF Has
  <2>2. i - 1 \in 1..Len(tail) /\ tail[i - 1] = seq[i]
    BY <1>1, <2>1
  <2> QED
    BY <2>1, <2>2 DEF Has
<1>3. Has(tail, c) \/ Head(seq).from = c => Has(seq, c)
  BY <1>1 DEF Has
<1>4. Once(seq) => Once(tail)
  BY <1>1 DEF Once
<1>5. Once(seq) /\ c \in Calls /\ Head(seq).from = c => ~Has(tail, c)
  BY <1>1 DEF Once, Has
<1> QED
  BY <1>2, <1>3, <1>4, <1>5 DEF tail

\* More answers leave what is on its way explained.
LEMMA AnswersMono ==
  ASSUME NEW seq, NEW A, NEW B, A \subseteq B, AnswersOf(seq, A)
  PROVE  AnswersOf(seq, B)
BY DEF AnswersOf

LEMMA AnswersTail ==
  ASSUME NEW seq \in Seq(Back), seq # <<>>, NEW A, AnswersOf(seq, A)
  PROVE  /\ AnswersOf(Tail(seq), A)
         /\ Head(seq) \in Back /\ (Head(seq).type = "answer" => Head(seq).from \in A)
<1> DEFINE tail == Tail(seq)
<1>1. /\ Len(tail) = Len(seq) - 1 /\ Len(seq) \in Nat \ {0}
      /\ \A i \in 1..Len(tail) : tail[i] = seq[i + 1]
      /\ Head(seq) = seq[1] /\ Head(seq) \in Back
  BY TailElems
<1> HIDE DEF tail
<1>2. AnswersOf(tail, A)
  BY <1>1 DEF AnswersOf
<1> QED
  BY <1>1, <1>2 DEF tail, AnswersOf

LEMMA AnswersAppend ==
  ASSUME NEW seq \in Seq(Back), NEW x \in Back, NEW A, AnswersOf(seq, A),
         x.type = "answer" => x.from \in A
  PROVE  AnswersOf(Append(seq, x), A)
<1> DEFINE app == Append(seq, x)
<1>1. /\ Len(app) = Len(seq) + 1 /\ Len(seq) \in Nat
      /\ \A i \in 1..Len(seq) : app[i] = seq[i]
      /\ app[Len(seq) + 1] = x
  BY AppendElems
<1> HIDE DEF app
<1>2. AnswersOf(app, A)
  BY <1>1 DEF AnswersOf
<1> QED
  BY <1>2 DEF app

LEMMA AnswersCons ==
  ASSUME NEW seq \in Seq(Back), NEW x \in Back, NEW A, AnswersOf(seq, A), x.type # "answer"
  PROVE  AnswersOf(<<x>> \o seq, A)
<1> DEFINE cons == <<x>> \o seq
<1>1. /\ Len(cons) = Len(seq) + 1 /\ Len(seq) \in Nat
      /\ cons[1] = x
      /\ \A i \in 1..Len(seq) : cons[i + 1] = seq[i]
  BY ConsElems
<1> HIDE DEF cons
<1>2. ASSUME NEW i \in 1..Len(cons), cons[i].type = "answer" PROVE cons[i].from \in A
  <2>1. i # 1 /\ i - 1 \in 1..Len(seq)
    BY <1>1, <1>2
  <2>2. cons[i] = seq[i - 1]
    BY <1>1, <2>1
  <2> QED
    BY <1>2, <2>1, <2>2 DEF AnswersOf
<1> QED
  BY <1>2 DEF cons, AnswersOf

LEMMA InitRequests == Init => Requests
<1> SUFFICES ASSUME Init PROVE Requests
  OBVIOUS
<1>1. /\ inbox = {} /\ written = {} /\ answered = {} /\ server = "up"
      /\ Len(inbound) = 0 /\ Len(outbound) = 0 /\ Len(hold) = 0
  BY DEF Init
<1> QED
  BY <1>1 DEF Requests, Has, Once, AnswersOf

\* A step that only moves writers about, or lets calls go.
LEMMA RequestsKept ==
  ASSUME Requests,
         UNCHANGED <<written, answered, inbound, outbound, hold>>, inbox' \subseteq inbox,
         \A c \in Calls : step'[c] \in {"idle", "locking", "writing"} =>
                           step[c] \in {"idle", "locking", "writing"}
  PROVE  Requests'
BY DEF Requests

LEMMA FailKeeps ==
  ASSUME Control, NEW w \in Writers, Fail(w)
  PROVE  /\ \A c \in Calls : step'[c] \in {"idle", "locking", "writing"} =>
                             step[c] \in {"idle", "locking", "writing"}
         /\ \A c \in Calls : step'[c] = "waiting" => step[c] = "waiting"
BY Constants DEF Fail, Control, Writers

LEMMA EnterKeeps ==
  ASSUME Control, NEW w \in Writers, Enter(w), w = Reader \/ step[w] = "idle"
  PROVE  /\ \A c \in Calls : step'[c] \in {"idle", "locking", "writing"} =>
                             step[c] \in {"idle", "locking", "writing"}
         /\ \A c \in Calls : step'[c] = "waiting" => step[c] = "waiting"
<1>1. CASE w \in cancelled
  BY <1>1, FailKeeps DEF Enter
<1>2. CASE w \notin cancelled
  <2>1. step' = [step EXCEPT ![w] = "locking"]
    BY <1>2 DEF Enter
  <2> QED
    BY <2>1, Constants DEF Control, Writers
<1> QED
  BY <1>1, <1>2

LEMMA RequestsStep == Typed /\ Requests /\ [Next]_vars => Requests'
<1> SUFFICES ASSUME Typed, Requests, [Next]_vars PROVE Requests'
  OBVIOUS
<1> USE DEF Typed
<1>1. ASSUME NEW c \in Calls, Begin(c) PROVE Requests'
  <2>1. UNCHANGED <<written, answered, inbound, outbound, hold, inbox, server>>
    BY <1>1 DEF Begin, serverVars
  <2>2. Enter(c) /\ step[c] = "idle" /\ c \in Writers
    BY <1>1 DEF Begin, Writers
  <2> QED
    BY <2>1, <2>2, EnterKeeps, RequestsKept
<1>2. ASSUME NEW w \in Writers, Lock(w) PROVE Requests'
  <2>1. UNCHANGED <<written, answered, inbound, outbound, hold, inbox, server>>
    BY <1>2 DEF Lock, serverVars
  <2>2. CASE Fail(w)
    BY <2>1, <2>2, FailKeeps, RequestsKept
  <2>3. CASE step' = [step EXCEPT ![w] = "writing"]
    <3>1. step[w] = "locking"
      BY <1>2 DEF Lock
    <3> QED
      BY <2>1, <2>3, <3>1, RequestsKept DEF Control
  <2> QED
    BY <1>2, <2>2, <2>3 DEF Lock
<1>3. ASSUME NEW w \in Writers, Put(w) PROVE Requests'
  <2>1. /\ step[w] = "writing" /\ server = "up" /\ inbound' = Append(inbound, FrameOf(w))
        /\ step' = [step EXCEPT ![w] = IF w = Reader THEN "reading" ELSE "waiting"]
        /\ written' = written \cup ({w} \cap Calls)
        /\ UNCHANGED <<answered, outbound, hold, inbox, server>>
    BY <1>3 DEF Put, serverVars
  <2>2. FrameOf(w) \in Toward /\ FrameOf(w).from = w
    BY FrameTypes
  <2>3. \A c : Has(inbound', c) <=> Has(inbound, c) \/ w = c
    BY <2>1, <2>2, AppendHas DEF Pipes
  <2>4. w \in Calls => w \notin written
    BY <2>1 DEF Requests
  <2>5. Once(inbound')
    BY <2>1, <2>2, <2>4, AppendOnce DEF Pipes, Requests
  <2>6. Requests'
    <3>1. \A c \in Calls : step'[c] \in {"idle", "locking", "writing"} => c \notin written'
      BY <2>1, Constants DEF Requests, Control, Writers
    <3>2. \A c \in Calls : Has(inbound', c) => c \in written' \ answered'
      BY <2>1, <2>3, <2>4 DEF Requests
    <3> QED
      BY <2>1, <2>5, <3>1, <3>2 DEF Requests
  <2> QED
    BY <2>6
<1>4. ASSUME NEW w \in Writers, Break(w) PROVE Requests'
  <2>1. UNCHANGED <<written, answered, inbound, outbound, hold, inbox, server>>
    BY <1>4 DEF Break, serverVars
  <2> QED
    BY <1>4, <2>1, FailKeeps, RequestsKept DEF Break
<1>5. ASSUME NEW c \in Calls, Select(c) PROVE Requests'
  <2>1. /\ UNCHANGED <<written, answered, inbound, outbound, hold, server>>
        /\ inbox' \subseteq inbox /\ step' = [step EXCEPT ![c] = "returned"]
    BY <1>5 DEF Select, Return, serverVars
  <2> QED
    BY <2>1, RequestsKept DEF Control
<1>6. CASE ReadFrame
  <2>1. /\ outbound # <<>> /\ outbound' = Tail(outbound) /\ inbox' = Deliver(Head(outbound))
        /\ UNCHANGED <<written, answered, inbound, hold, server>>
        /\ Enter(Reader) \/ UNCHANGED step
    BY <1>6 DEF ReadFrame, serverVars
  <2>2. /\ AnswersOf(Tail(outbound), answered)
        /\ Head(outbound).type = "answer" => Head(outbound).from \in answered
    BY <2>1, AnswersTail DEF Pipes, Requests
  <2>3. inbox' \subseteq answered
    BY <2>1, <2>2 DEF Deliver, Requests
  <2>4. \A c \in Calls : step'[c] \in {"idle", "locking", "writing"} =>
                          step[c] \in {"idle", "locking", "writing"}
    BY <2>1, EnterKeeps DEF Writers
  <2> QED
    BY <2>1, <2>2, <2>3, <2>4 DEF Requests
<1>7. CASE ReadEnds
  <2>1. /\ UNCHANGED <<written, answered, inbound, outbound, hold, inbox, server>>
        /\ step' = [step EXCEPT ![Reader] = "gone"]
    BY <1>7 DEF ReadEnds, serverVars
  <2> QED
    BY <2>1, RequestsKept DEF Control
<1>8. ASSUME NEW w \in Writers, Cancel(w) PROVE Requests'
  BY <1>8, RequestsKept DEF Cancel, clientVars, serverVars
<1>9. CASE CloseClient \/ MarkClosed \/ CloseReturns
  BY <1>9, RequestsKept DEF CloseClient, MarkClosed, CloseReturns, clientVars, serverVars
<1>10. CASE Kill \/ Crash
  BY <1>10, RequestsKept DEF Kill, Crash, clientVars
<1>11. CASE CloseStdin
  <2>1. /\ inbound' = inbound \/ inbound' = Append(inbound, Torn)
        /\ UNCHANGED <<written, answered, outbound, hold, inbox, server, step>>
    BY <1>11 DEF CloseStdin, clientVars, serverVars
  <2>2. ASSUME NEW c \in Calls PROVE Has(inbound', c) <=> Has(inbound, c)
    <3>1. Has(Append(inbound, Torn), c) <=> Has(inbound, c) \/ Torn.from = c
      BY FrameTypes, AppendHas DEF Pipes
    <3>2. Torn.from # c
      BY FrameTypes, Constants
    <3> QED
      BY <2>1, <3>1, <3>2
  <2>3. Once(inbound')
    <3>1. Torn \in Toward /\ Torn.from \notin Calls
      BY FrameTypes, Constants
    <3>2. Once(Append(inbound, Torn))
      BY <3>1, AppendOnce DEF Pipes, Requests
    <3> QED
      BY <2>1, <3>2 DEF Requests
  <2> QED
    BY <2>1, <2>2, <2>3 DEF Requests, Flags
<1>12. CASE Serve
  <2>1. /\ inbound # <<>> /\ inbound' = Tail(inbound) /\ hold' = Handle(Head(inbound))
        /\ answered' = answered \cup ({Head(inbound).from} \cap Calls)
        /\ UNCHANGED <<written, outbound, inbox, server, step>>
    BY <1>12 DEF Serve, clientVars
  <2>2. Head(inbound) \in Toward
    BY <2>1, TailElems DEF Pipes
  <2>3. \A c : /\ Has(inbound, c) <=> Has(inbound', c) \/ Head(inbound).from = c
               /\ c \in Calls /\ Head(inbound).from = c => ~Has(inbound', c)
    BY <2>1, TailHas DEF Pipes, Requests
  <2>4. Once(inbound')
    BY <2>1, TailHas DEF Pipes, Requests
  <2>5. AnswersOf(hold', answered')
    <3>1. Head(inbound).type = "request" => Head(inbound).from \in Calls
      BY <2>2 DEF Toward, FrameOf, Torn, Frame
    <3> QED
      BY <2>1, <2>2, <3>1, HandleType DEF AnswersOf
  <2>6. AnswersOf(outbound', answered')
    BY <2>1, AnswersMono DEF Requests
  <2> QED
    BY <2>1, <2>3, <2>4, <2>5, <2>6 DEF Requests
<1>13. CASE Send
  <2>1. /\ hold # <<>> /\ hold' = Tail(hold) /\ outbound' = Append(outbound, Head(hold))
        /\ UNCHANGED <<written, answered, inbound, inbox, server, step>>
    BY <1>13 DEF Send, clientVars
  <2>2. /\ AnswersOf(hold', answered) /\ Head(hold) \in Back
        /\ Head(hold).type = "answer" => Head(hold).from \in answered
    BY <2>1, AnswersTail DEF Pipes, Requests
  <2>3. AnswersOf(outbound', answered)
    BY <2>1, <2>2, AnswersAppend DEF Pipes, Requests
  <2> QED
    BY <2>1, <2>2, <2>3 DEF Requests
<1>14. CASE Leave
  <2>1. /\ server = "up" /\ inbound = <<>> /\ server' = "left"
        /\ UNCHANGED <<written, answered, inbound, outbound, hold, inbox, step>>
    BY <1>14 DEF Leave, clientVars
  <2>2. \A c : ~Has(inbound, c)
    BY <2>1 DEF Has
  <2> QED
    BY <2>1, <2>2 DEF Requests
<1>15. CASE AskClient
  <2>1. /\ hold' = <<Ask>> \o hold
        /\ UNCHANGED <<written, answered, inbound, outbound, inbox, server, step>>
    BY <1>15 DEF AskClient, clientVars
  <2>2. AnswersOf(hold', answered)
    BY <2>1, FrameTypes, AnswersCons DEF Pipes, Requests
  <2> QED
    BY <2>1, <2>2 DEF Requests
<1>16. CASE UNCHANGED vars
  BY <1>16, RequestsKept DEF vars, clientVars, serverVars
<1> QED
  BY <1>1, <1>2, <1>3, <1>4, <1>5, <1>6, <1>7, <1>8, <1>9, <1>10, <1>11, <1>12, <1>13, <1>14,
     <1>15, <1>16
     DEF Next, CallStep, WriteStep, ReaderStep, CloseStep, ServerStep, Writers

-----------------------------------------------------------------------------
(* One place at a time *)

Somewhere(c) == Has(inbound, c) \/ Has(hold, c) \/ Has(outbound, c) \/ c \in inbox

Unique == /\ Once(inbound) /\ Once(hold) /\ Once(outbound)
          /\ \A c \in Calls :
               /\ Has(inbound, c) => ~Has(hold, c) /\ ~Has(outbound, c) /\ c \notin inbox
               /\ Has(hold, c) => ~Has(outbound, c) /\ c \notin inbox
               /\ Has(outbound, c) => c \notin inbox
               /\ step[c] \in {"idle", "locking", "writing"} => ~Somewhere(c)
               /\ step[c] = "waiting" => Somewhere(c)

LEMMA EmptyHas == /\ \A c : ~Has(<<>>, c)
                  /\ Once(<<>>)
BY DEF Has, Once

LEMMA ConsHas ==
  ASSUME NEW S, NEW seq \in Seq(S), NEW x \in S, x.from \notin Calls, Once(seq)
  PROVE  /\ \A c \in Calls : Has(<<x>> \o seq, c) <=> Has(seq, c)
         /\ Once(<<x>> \o seq)
<1> DEFINE cons == <<x>> \o seq
<1>1. /\ Len(cons) = Len(seq) + 1 /\ Len(seq) \in Nat
      /\ cons[1] = x
      /\ \A i \in 1..Len(seq) : cons[i + 1] = seq[i]
  BY ConsElems
<1> HIDE DEF cons
<1>2. ASSUME NEW i \in 1..Len(cons), cons[i].from \in Calls
      PROVE  i - 1 \in 1..Len(seq) /\ cons[i] = seq[i - 1]
  <2>1. i # 1 /\ i - 1 \in 1..Len(seq)
    BY <1>1, <1>2
  <2> QED
    BY <1>1, <2>1
<1>3. \A c \in Calls : Has(seq, c) => Has(cons, c)
  BY <1>1 DEF Has
<1>4. \A c \in Calls : Has(cons, c) => Has(seq, c)
  BY <1>2 DEF Has
<1>5. Once(cons)
  <2> SUFFICES ASSUME NEW i \in 1..Len(cons), NEW j \in 1..Len(cons),
                      cons[i].from \in Calls, cons[i].from = cons[j].from
               PROVE  i = j
    BY DEF Once
  <2>1. i - 1 \in 1..Len(seq) /\ cons[i] = seq[i - 1] /\ j - 1 \in 1..Len(seq) /\ cons[j] = seq[j - 1]
    BY <1>2
  <2>2. i - 1 = j - 1
    BY <2>1 DEF Once
  <2> QED
    BY <2>2
<1> QED
  BY <1>3, <1>4, <1>5 DEF cons

\* One response to a request, of the call that made it; none to the rest.
LEMMA HandleHas ==
  ASSUME NEW frame \in Toward
  PROVE  /\ Once(Handle(frame))
         /\ \A c \in Calls : Has(Handle(frame), c) <=> frame.from = c
<1> DEFINE null == Frame("null", Nobody)
           answer == Frame("answer", frame.from)
<1>1. frame.type \in {"request", "torn", "refusal"}
  BY DEF Frame, Toward, FrameOf, Torn
<1>2. CASE frame.type = "request"
  <2>1. Handle(frame) = <<answer>>
    BY Zenon, <1>2 DEF Handle
  <2>2. answer.from = frame.from
    BY DEF Frame
  <2> HIDE DEF answer
  <2>3. Len(<<answer>>) = 1 /\ <<answer>>[1] = answer
    BY OneElem
  <2> QED
    BY <2>1, <2>2, <2>3 DEF Has, Once
<1>3. CASE frame.type = "torn"
  <2>1. Handle(frame) = <<null>>
    BY Zenon, <1>3 DEF Handle
  <2>2. null.from \notin Calls /\ frame.from \notin Calls
    BY <1>3, Constants DEF Frame, Toward, FrameOf, Torn
  <2> HIDE DEF null
  <2>3. Len(<<null>>) = 1 /\ <<null>>[1] = null
    BY OneElem
  <2> QED
    BY <2>1, <2>2, <2>3 DEF Has, Once
<1>4. CASE frame.type = "refusal"
  <2>1. Handle(frame) = <<>>
    BY Zenon, <1>4 DEF Handle
  <2>2. frame.from \notin Calls
    BY <1>4, Constants DEF Frame, Toward, FrameOf, Torn
  <2> QED
    BY <2>1, <2>2, EmptyHas
<1> QED
  BY <1>1, <1>2, <1>3, <1>4

LEMMA InitUnique == Init => Unique
<1> SUFFICES ASSUME Init PROVE Unique
  OBVIOUS
<1>1. /\ inbox = {} /\ \A c \in Calls : step[c] = "idle"
      /\ inbound = <<>> /\ outbound = <<>> /\ hold = <<>>
  BY Constants DEF Init, Writers
<1> QED
  BY <1>1, EmptyHas DEF Unique, Somewhere

\* A step that leaves frames where they are, and lets go only what no call waits for.
LEMMA UniqueKept ==
  ASSUME Unique, UNCHANGED <<inbound, outbound, hold>>, inbox' \subseteq inbox,
         \A c \in Calls : step'[c] \in {"idle", "locking", "writing"} =>
                           step[c] \in {"idle", "locking", "writing"},
         \A c \in Calls : step'[c] = "waiting" =>
                           step[c] = "waiting" /\ (c \in inbox => c \in inbox')
  PROVE  Unique'
BY DEF Unique, Somewhere

LEMMA UniqueStep == Typed /\ Unique /\ [Next]_vars => Unique'
<1> SUFFICES ASSUME Typed, Unique, [Next]_vars PROVE Unique'
  OBVIOUS
<1> USE DEF Typed
<1>1. ASSUME NEW c \in Calls, Begin(c) PROVE Unique'
  <2>1. UNCHANGED <<inbound, outbound, hold, inbox>> /\ Enter(c) /\ step[c] = "idle" /\ c \in Writers
    BY <1>1 DEF Begin, serverVars, Writers
  <2> QED
    BY <2>1, EnterKeeps, UniqueKept
<1>2. ASSUME NEW w \in Writers, Lock(w) PROVE Unique'
  <2>1. UNCHANGED <<inbound, outbound, hold, inbox>> /\ step[w] = "locking"
    BY <1>2 DEF Lock, serverVars
  <2>2. CASE Fail(w)
    BY <2>1, <2>2, FailKeeps, UniqueKept
  <2>3. CASE step' = [step EXCEPT ![w] = "writing"]
    BY <2>1, <2>3, UniqueKept DEF Control
  <2> QED
    BY <1>2, <2>2, <2>3 DEF Lock
<1>3. ASSUME NEW w \in Writers, Put(w) PROVE Unique'
  <2>1. /\ step[w] = "writing" /\ inbound' = Append(inbound, FrameOf(w))
        /\ step' = [step EXCEPT ![w] = IF w = Reader THEN "reading" ELSE "waiting"]
        /\ UNCHANGED <<outbound, hold, inbox>>
    BY <1>3 DEF Put, serverVars
  <2>2. FrameOf(w) \in Toward /\ FrameOf(w).from = w
    BY FrameTypes
  <2>3. \A c : Has(inbound', c) <=> Has(inbound, c) \/ w = c
    BY <2>1, <2>2, AppendHas DEF Pipes
  <2>4. w \in Calls => ~Somewhere(w)
    BY <2>1 DEF Unique
  <2>5. Once(inbound')
    BY <2>1, <2>2, <2>4, AppendOnce DEF Pipes, Unique, Somewhere
  <2>6. \A c \in Calls : step'[c] = IF c = w THEN "waiting" ELSE step[c]
    BY <2>1, Constants DEF Control, Writers
  <2> QED
    BY <2>1, <2>3, <2>4, <2>5, <2>6 DEF Unique, Somewhere
<1>4. ASSUME NEW w \in Writers, Break(w) PROVE Unique'
  <2>1. UNCHANGED <<inbound, outbound, hold, inbox>> /\ Fail(w)
    BY <1>4 DEF Break, serverVars
  <2> QED
    BY <2>1, FailKeeps, UniqueKept
<1>5. ASSUME NEW c \in Calls, Select(c) PROVE Unique'
  <2>1. /\ UNCHANGED <<inbound, outbound, hold>> /\ inbox' = inbox \ {c}
        /\ step' = [step EXCEPT ![c] = "returned"]
    BY <1>5 DEF Select, Return, serverVars
  <2>2. \A d \in Calls : step'[d] = IF d = c THEN "returned" ELSE step[d]
    BY <2>1 DEF Control, Writers
  <2> QED
    BY <2>1, <2>2, UniqueKept
<1>6. CASE ReadFrame
  <2> DEFINE head == Head(outbound)
  <2>1. /\ outbound # <<>> /\ outbound' = Tail(outbound) /\ inbox' = Deliver(head)
        /\ UNCHANGED <<inbound, hold>>
        /\ Enter(Reader) \/ UNCHANGED step
        /\ outbound \in Seq(Back) /\ Once(outbound)
    BY <1>6 DEF ReadFrame, serverVars, Pipes, Unique
  <2>2. /\ \A c \in Calls : Has(outbound, c) <=> Has(outbound', c) \/ head.from = c
        /\ \A c \in Calls : head.from = c => ~Has(outbound', c)
        /\ Once(outbound')
    BY <2>1, TailHas
  <2>3. head \in Back
    BY <2>1, TailElems
  <2>4. head.from \in Calls <=> head.type = "answer"
    BY <2>3, Constants DEF Back, Frame, Ask
  <2>5. \A c \in Calls : /\ step'[c] \in {"idle", "locking", "writing"} =>
                             step[c] \in {"idle", "locking", "writing"}
                         /\ step'[c] = "waiting" => step[c] = "waiting"
    BY <2>1, EnterKeeps DEF Writers
  <2> HIDE DEF head
  <2>6. \A c \in Calls : c \in inbox' <=> c \in inbox \/ (head.from = c /\ c \in Pending)
    BY <2>1, <2>4 DEF Deliver, Pending
  <2>7. \A c \in Calls : head.from = c => Has(outbound, c) /\ step[c] \notin {"idle", "locking", "writing"}
    BY <2>2 DEF Unique, Somewhere
  <2>8. \A c \in Calls : step'[c] = "waiting" => c \in Pending
    BY <2>5 DEF Pending
  <2> QED
    BY <2>1, <2>2, <2>5, <2>6, <2>7, <2>8 DEF Unique, Somewhere
<1>7. CASE ReadEnds
  <2>1. UNCHANGED <<inbound, outbound, hold, inbox>> /\ step' = [step EXCEPT ![Reader] = "gone"]
    BY <1>7 DEF ReadEnds, serverVars
  <2> QED
    BY <2>1, UniqueKept DEF Control
<1>8. UNCHANGED <<inbound, outbound, hold, inbox, step>> => Unique'
  BY DEF Unique, Somewhere
<1>9. ASSUME NEW w \in Writers, Cancel(w) PROVE Unique'
  BY <1>8, <1>9 DEF Cancel, clientVars, serverVars
<1>10. CASE CloseClient \/ MarkClosed \/ CloseReturns \/ Kill \/ Crash \/ Leave
  BY <1>8, <1>10 DEF CloseClient, MarkClosed, CloseReturns, Kill, Crash, Leave, clientVars, serverVars
<1>11. CASE CloseStdin
  <2>1. /\ inbound' = inbound \/ inbound' = Append(inbound, Torn)
        /\ UNCHANGED <<outbound, hold, inbox, step>>
    BY <1>11 DEF CloseStdin, clientVars, serverVars
  <2>2. CASE inbound' = inbound
    BY <1>8, <2>1, <2>2
  <2>3. CASE inbound' = Append(inbound, Torn)
    <3>1. Torn \in Toward /\ Torn.from \notin Calls
      BY FrameTypes, Constants
    <3>2. \A c \in Calls : Has(inbound', c) <=> Has(inbound, c)
      BY <2>3, <3>1, AppendHas DEF Pipes
    <3>3. Once(inbound')
      BY <2>3, <3>1, AppendOnce DEF Pipes, Unique
    <3> QED
      BY <2>1, <3>2, <3>3 DEF Unique, Somewhere
  <2> QED
    BY <2>1, <2>2, <2>3
<1>12. CASE Serve
  <2> DEFINE head == Head(inbound)
  <2>1. /\ inbound # <<>> /\ inbound' = Tail(inbound) /\ hold = <<>> /\ hold' = Handle(head)
        /\ UNCHANGED <<outbound, inbox, step>>
        /\ inbound \in Seq(Toward) /\ Once(inbound)
    BY <1>12 DEF Serve, clientVars, Pipes, Unique
  <2>2. head \in Toward
    BY <2>1, TailElems
  <2>3. /\ \A c \in Calls : Has(inbound, c) <=> Has(inbound', c) \/ head.from = c
        /\ \A c \in Calls : head.from = c => ~Has(inbound', c)
        /\ Once(inbound')
    BY <2>1, TailHas
  <2>4. Once(hold') /\ \A c \in Calls : Has(hold', c) <=> head.from = c
    BY <2>1, <2>2, HandleHas
  <2>5. \A c \in Calls : ~Has(hold, c)
    BY <2>1, EmptyHas
  <2> HIDE DEF head
  <2> QED
    BY <2>1, <2>3, <2>4, <2>5 DEF Unique, Somewhere
<1>13. CASE Send
  <2> DEFINE head == Head(hold)
  <2>1. /\ hold # <<>> /\ hold' = Tail(hold) /\ outbound' = Append(outbound, head)
        /\ UNCHANGED <<inbound, inbox, step>>
        /\ hold \in Seq(Back) /\ Once(hold) /\ outbound \in Seq(Back) /\ Once(outbound)
    BY <1>13 DEF Send, clientVars, Pipes, Unique
  <2>2. head \in Back
    BY <2>1, TailElems
  <2>3. /\ \A c \in Calls : Has(hold, c) <=> Has(hold', c) \/ head.from = c
        /\ \A c \in Calls : head.from = c => ~Has(hold', c)
        /\ Once(hold')
    BY <2>1, TailHas
  <2> HIDE DEF head
  <2>4. \A c \in Calls : Has(outbound', c) <=> Has(outbound, c) \/ head.from = c
    BY <2>1, <2>2, AppendHas
  <2>5. head.from \in Calls => ~Has(outbound, head.from)
    BY <2>3 DEF Unique
  <2>6. Once(outbound')
    BY <2>1, <2>2, <2>5, AppendOnce
  <2> QED
    BY <2>1, <2>3, <2>4, <2>6 DEF Unique, Somewhere
<1>14. CASE AskClient
  <2>1. hold' = <<Ask>> \o hold /\ UNCHANGED <<inbound, outbound, inbox, step>>
    BY <1>14 DEF AskClient, clientVars
  <2>2. Ask \in Back /\ Ask.from \notin Calls
    BY FrameTypes, Constants DEF Ask, Frame
  <2>3. Once(hold') /\ \A c \in Calls : Has(hold', c) <=> Has(hold, c)
    BY <2>1, <2>2, ConsHas DEF Pipes, Unique
  <2> QED
    BY <2>1, <2>3 DEF Unique, Somewhere
<1>15. CASE UNCHANGED vars
  BY <1>8, <1>15 DEF vars, clientVars, serverVars
<1> QED
  BY <1>1, <1>2, <1>3, <1>4, <1>5, <1>6, <1>7, <1>9, <1>10, <1>11, <1>12, <1>13, <1>14, <1>15
     DEF Next, CallStep, WriteStep, ReaderStep, CloseStep, ServerStep, Writers

\* What Unique says of frames, said of the places.
LEMMA OnePlace == Typed /\ Unique => OneAnswer
<1> SUFFICES ASSUME Typed, Unique, NEW c \in Calls
             PROVE  /\ \A p, q \in Places(c) : p = q
                    /\ step[c] = "waiting" => Places(c) # {}
  BY DEF OneAnswer
<1>1. /\ DOMAIN inbound = 1..Len(inbound) /\ DOMAIN hold = 1..Len(hold)
      /\ DOMAIN outbound = 1..Len(outbound)
  BY DEF Typed, Pipes
<1>2. /\ \A i, j \in At(inbound, c) : i = j
      /\ \A i, j \in At(hold, c) : i = j
      /\ \A i, j \in At(outbound, c) : i = j
  BY <1>1 DEF At, Unique, Once
<1>3. /\ At(inbound, c) # {} <=> Has(inbound, c)
      /\ At(hold, c) # {} <=> Has(hold, c)
      /\ At(outbound, c) # {} <=> Has(outbound, c)
  BY <1>1 DEF At, Has
<1>4. /\ At(inbound, c) # {} => At(hold, c) = {} /\ At(outbound, c) = {} /\ c \notin inbox
      /\ At(hold, c) # {} => At(outbound, c) = {} /\ c \notin inbox
      /\ At(outbound, c) # {} => c \notin inbox
      /\ step[c] = "waiting" => \/ At(inbound, c) # {} \/ At(hold, c) # {}
                                \/ At(outbound, c) # {} \/ c \in inbox
  BY <1>3 DEF Unique, Somewhere
<1>5. \A p : p \in Places(c) <=> \/ \E i \in At(inbound, c) : p = <<"inbound", i>>
                                 \/ \E i \in At(hold, c) : p = <<"hold", i>>
                                 \/ \E i \in At(outbound, c) : p = <<"outbound", i>>
                                 \/ c \in inbox /\ p = <<"inbox", 1>>
  BY DEF Places
<1>6. \A p, q \in Places(c) : p = q
  BY <1>2, <1>4, <1>5
<1>7. step[c] = "waiting" => Places(c) # {}
  BY <1>4, <1>5
<1> QED
  BY <1>6, <1>7

-----------------------------------------------------------------------------
(* Theorems *)

\* Every variable of the session keeps its type, the lock is held by the one
\* who writes, and the pipes keep to their sizes.
THEOREM TypeCorrect == Spec => []TypeOK
<1>1. Typed /\ Requests => TypeOK
  <2> SUFFICES ASSUME Typed, Requests PROVE TypeOK
    OBVIOUS
  <2>1. ended \in BOOLEAN
    BY Zenon DEF Typed, Flags
  <2> QED
    BY Zenon, <2>1 DEF Typed, Control, Steps, Pipes, Flags, Requests, TypeOK
<1> QED
  BY <1>1, InitTyped, TypedStep, InitRequests, RequestsStep, PTL DEF Spec

\* A request and the response to it are in one place at a time, on whatever way
\* through pipes, server and inbox, and somewhere as long as the call waits: for
\* any number of calls a response found to belong to a call can be handed over.
THEOREM AnswerIsOne == Spec => []OneAnswer
BY OnePlace, InitTyped, TypedStep, InitUnique, UniqueStep, PTL DEF Spec

LEMMA InitImplements == Init => P!Init
BY DEF Init, P!Init

\* A call that fails, in the abstract.
LEMMA FailImplements ==
  ASSUME Typed, NEW w \in Writers, Fail(w), step[w] # "returned",
         UNCHANGED <<written, answered, cancelled, ended>>
  PROVE  P!Next \/ UNCHANGED P!vars
<1>1. CASE w \in Calls
  <2>1. result[w] = P!NotYet /\ result' = [result EXCEPT ![w] = P!WriteError]
    BY <1>1 DEF Fail, Typed, Control, Writers
  <2>2. P!Return(w)
    BY <1>1, <2>1 DEF P!Return
  <2> QED
    BY <1>1, <2>2 DEF P!Next
<1>2. CASE w \notin Calls
  BY <1>2 DEF Fail, P!vars
<1> QED
  BY <1>1, <1>2

LEMMA EndImplements ==
  ASSUME ended' = TRUE, UNCHANGED <<written, answered, cancelled, result>>
  PROVE  P!Next
BY DEF P!Next, P!End

LEMMA StepImplements == Typed /\ Requests /\ [Next]_vars => [P!Next]_P!vars
<1> SUFFICES ASSUME Typed, Requests, [Next]_vars PROVE P!Next \/ UNCHANGED P!vars
  OBVIOUS
<1>1. ASSUME NEW w \in Writers, Enter(w), step[w] # "returned",
             UNCHANGED <<written, answered, cancelled, ended>>
      PROVE  P!Next \/ UNCHANGED P!vars
  <2>1. CASE w \in cancelled
    BY <1>1, <2>1, FailImplements DEF Enter
  <2>2. CASE w \notin cancelled
    BY <1>1, <2>2 DEF Enter, P!vars
  <2> QED
    BY <2>1, <2>2
<1>2. ASSUME NEW c \in Calls, Begin(c) PROVE P!Next \/ UNCHANGED P!vars
  BY <1>1, <1>2 DEF Begin, serverVars, Writers
<1>3. ASSUME NEW w \in Writers, Lock(w) PROVE P!Next \/ UNCHANGED P!vars
  <2>1. UNCHANGED <<written, answered, cancelled, ended>> /\ step[w] # "returned"
    BY <1>3 DEF Lock, serverVars
  <2>2. Fail(w) \/ UNCHANGED result
    BY <1>3 DEF Lock
  <2>3. UNCHANGED result => UNCHANGED P!vars
    BY <2>1 DEF P!vars
  <2> QED
    BY <2>1, <2>2, <2>3, FailImplements
<1>4. ASSUME NEW w \in Writers, Put(w) PROVE P!Next \/ UNCHANGED P!vars
  <2>1. /\ step[w] = "writing" /\ written' = written \cup ({w} \cap Calls)
        /\ UNCHANGED <<result, answered, cancelled, ended>>
    BY <1>4 DEF Put, serverVars
  <2>2. CASE w \in Calls
    <3>1. w \notin written /\ result[w] = P!NotYet
      BY <2>1, <2>2 DEF Requests, Typed, Control
    <3>2. P!Ask(w)
      BY <2>1, <2>2, <3>1 DEF P!Ask
    <3> QED
      BY <2>2, <3>2 DEF P!Next
  <2>3. CASE w \notin Calls
    BY <2>1, <2>3 DEF P!vars
  <2> QED
    BY <2>2, <2>3
<1>5. ASSUME NEW w \in Writers, Break(w) PROVE P!Next \/ UNCHANGED P!vars
  BY <1>5, FailImplements DEF Break, serverVars
<1>6. ASSUME NEW c \in Calls, Select(c) PROVE P!Next \/ UNCHANGED P!vars
  <2>1. PICK r : /\ Return(c, r)
                 /\ \/ c \in inbox /\ r = Because("answer", c)
                    \/ c \in cancelled /\ r = Because("ctx", Nobody)
                    \/ ended /\ r = Because("session", Nobody)
    BY <1>6 DEF Select
  <2>2. /\ result[c] = P!NotYet /\ result' = [result EXCEPT ![c] = r]
        /\ UNCHANGED <<written, answered, cancelled, ended>>
    BY <1>6, <2>1 DEF Select, Return, serverVars, Typed, Control, Writers
  <2>3. r \in P!Reasons(c)
    BY <2>1 DEF P!Reasons, Because, Requests
  <2>4. P!Return(c)
    BY <2>2, <2>3 DEF P!Return
  <2> QED
    BY <1>6, <2>4 DEF P!Next
<1>7. CASE ReadFrame
  <2>1. UNCHANGED <<written, answered, cancelled, ended>> /\ step[Reader] # "returned"
    BY <1>7 DEF ReadFrame, serverVars
  <2>2. Enter(Reader) \/ UNCHANGED result
    BY <1>7 DEF ReadFrame
  <2>3. UNCHANGED result => UNCHANGED P!vars
    BY <2>1 DEF P!vars
  <2> QED
    BY <1>1, <2>1, <2>2, <2>3 DEF Writers
<1>8. CASE ReadEnds \/ CloseClient
  BY <1>8, EndImplements DEF ReadEnds, CloseClient, clientVars, serverVars
<1>9. ASSUME NEW w \in Writers, Cancel(w) PROVE P!Next \/ UNCHANGED P!vars
  <2>1. (cancelled \cap Calls)' = (cancelled \cap Calls) \cup ({w} \cap Calls)
        /\ UNCHANGED <<written, answered, ended, result>>
    BY <1>9 DEF Cancel, clientVars, serverVars
  <2> QED
    BY <2>1 DEF P!Next, P!Cancel
<1>10. CASE MarkClosed \/ CloseStdin \/ Kill \/ CloseReturns
  BY <1>10 DEF MarkClosed, CloseStdin, Kill, CloseReturns, clientVars, serverVars, P!vars
<1>11. CASE Serve
  <2>1. /\ inbound # <<>> /\ answered' = answered \cup ({Head(inbound).from} \cap Calls)
        /\ UNCHANGED <<written, cancelled, ended, result>>
    BY <1>11 DEF Serve, clientVars
  <2>2. CASE Head(inbound).from \in Calls
    <3>1. Head(inbound).from \in written \ answered
      BY <2>1, <2>2, TailHas DEF Typed, Pipes, Requests
    <3>2. P!Answer(Head(inbound).from)
      BY <2>1, <2>2, <3>1 DEF P!Answer
    <3> QED
      BY <2>2, <3>2 DEF P!Next
  <2>3. CASE Head(inbound).from \notin Calls
    BY <2>1, <2>3 DEF P!vars
  <2> QED
    BY <2>2, <2>3
<1>12. CASE Send \/ Leave \/ AskClient \/ Crash
  BY <1>12 DEF Send, Leave, AskClient, Crash, clientVars, P!vars
<1>13. CASE UNCHANGED vars
  BY <1>13 DEF vars, clientVars, serverVars, P!vars
<1> QED
  BY <1>2, <1>3, <1>4, <1>5, <1>6, <1>7, <1>8, <1>9, <1>10, <1>11, <1>12, <1>13
     DEF Next, CallStep, WriteStep, ReaderStep, CloseStep, ServerStep, Writers

\* The session as a whole, with its locks, its pipes and the server's loop,
\* implements what RpcCalls promises to callers.
THEOREM SessionImplements == Spec => KeepsPromise
<1>1. Spec => []Typed /\ []Requests
  BY InitTyped, TypedStep, InitRequests, RequestsStep, PTL DEF Spec
<1> QED
  BY <1>1, InitImplements, StepImplements, PTL DEF Spec, KeepsPromise, P!Spec
=============================================================================
