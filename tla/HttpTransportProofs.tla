------------------------- MODULE HttpTransportProofs -------------------------
(***************************************************************************)
(* What holds of HttpTransport for every number of requests and of Closes, *)
(* every queue and streams of every length.                                *)
(*                                                                         *)
(* QueueClosedLast rests on the flag: once it is set no request is counted *)
(* any more, so that those Close waits for are the last.  NoStrangers      *)
(* rests on the order in which an answer passes: its session is noted      *)
(* before its frames exist, its version before its response is queued; no  *)
(* call goes on before the response has been read, and the reader refuses  *)
(* nothing before the first frame.                                         *)
(*                                                                         *)
(* The last part is about event streams, line by line (Keeps): the data    *)
(* the reader has is the text of the event so far but for new lines in     *)
(* front, which TrimSpace takes off, and what has been kept of its         *)
(* payloads is what the events that have ended carried.                    *)
(***************************************************************************)
EXTENDS HttpTransport, SelectionTheorems

\* Before its answer is read a request has produced no frame.
NothingGiven == \A w \in Writes :
  post[w] \in {"idle", "registered", "posting", "handled", "body"} => given[w] = 0

\* A Close that has begun has set the flag, and the queue is closed by a Close.
FlagFirst == /\ \A k \in Closers : closing[k] # "idle" => closed
             /\ ~open => closed

\* The session the server has assigned has been noted.
Assigned == sessions # {} => session

\* Of a frame: the answer to the handshake has begun, and if it is the response
\* itself the version it carries has been noted.
Noted(f) == given[Opening] > 0 /\ (f.of = Opening /\ f.response => version)

FramesNoted == /\ \A i \in 1..Len(frames) : Noted(frames[i])
               /\ \A i \in 1..Len(received) : Noted(received[i])
               /\ \A w \in Writes : post[w] = "pushing" => Noted(holding[w])

SessionFirst ==
  given[Opening] > 0 \/ post[Opening] \in {"body", "streaming", "pushing"} => Assigned

\* Any other request begins after a frame of the answer to the handshake, and
\* after the response itself unless it is a refusal.
Introduced == \A w \in Writes \ {Opening} :
  post[w] # "idle" => given[Opening] > 0 /\ (w \notin refusals => version)

Typed == TypeOK /\ NothingGiven
OrderInv == FramesNoted /\ SessionFirst /\ Introduced /\ NoStrangers

-----------------------------------------------------------------------------
(* Types *)

LEMMA InitTyped == Init => Typed
<1> SUFFICES ASSUME Init PROVE Typed
  OBVIOUS
<1>1. NoFrame \in Frames /\ 0 \in 0..MaxEvents
  BY HttpAssumption DEF NoFrame, Frames
<1>2. NoHeader \in [session : BOOLEAN, version : BOOLEAN]
  BY DEF NoHeader
<1>3. holding \in [Writes -> Frames] /\ header \in [Writes -> [session : BOOLEAN, version : BOOLEAN]]
  BY <1>1, <1>2 DEF Init
<1>4. frames \in Seq(Frames) /\ received \in Seq(Frames) /\ Len(frames) <= QueueSize
  BY HttpAssumption DEF Init
<1> QED
  BY <1>1, <1>3, <1>4 DEF Init, Typed, TypeOK, NothingGiven

\* A frame that is produced is the next of its answer.
LEMMA ProduceTyped ==
  ASSUME Typed, NEW w \in Writes, NEW response \in BOOLEAN,
         given[w] < MaxEvents, Produce(w, response),
         UNCHANGED <<closed, done, aborted, open, session, frames, header, stream,
                     closeVars, readVars, sessions>>
  PROVE  Typed'
<1>1. given' \in [Writes -> 0..MaxEvents] /\ given[w] + 1 \in 0..MaxEvents
  BY HttpAssumption DEF Typed, TypeOK, Produce
<1>2. [of |-> w, n |-> given[w] + 1, response |-> response] \in Frames
  BY <1>1 DEF Frames
<1>3. holding' \in [Writes -> Frames]
  BY <1>2 DEF Typed, TypeOK, Produce
<1>4. version' \in BOOLEAN
  BY DEF Typed, TypeOK, Produce
<1>5. TypeOK'
  BY <1>1, <1>3, <1>4 DEF Typed, TypeOK, Produce, Goto, closeVars, readVars
<1>6. NothingGiven'
  BY DEF Typed, TypeOK, NothingGiven, Produce, Goto
<1> QED
  BY <1>5, <1>6 DEF Typed

LEMMA StepTyped == Typed /\ [Next]_vars => Typed'
<1> SUFFICES ASSUME Typed, [Next]_vars PROVE Typed'
  OBVIOUS
<1> USE HttpAssumption DEF transportVars, postVars, closeVars, readVars
<1>1. ASSUME NEW w \in Writes, Begin(w) PROVE Typed'
  <2>1. refusals' \subseteq Writes
    BY <1>1 DEF Begin, MayBegin, Refuse, Typed, TypeOK
  <2> QED
    BY <1>1, <2>1 DEF Begin, Goto, Typed, TypeOK, NothingGiven
<1>2. ASSUME NEW w \in Writes, Post(w) PROVE Typed'
  <2>1. header' \in [Writes -> [session : BOOLEAN, version : BOOLEAN]]
    BY <1>2 DEF Post, Typed, TypeOK
  <2> QED
    BY <1>2, <2>1 DEF Post, Goto, Typed, TypeOK, NothingGiven
<1>3. ASSUME NEW w \in Writes, Push(w) PROVE Typed'
  <2>1. holding[w] \in Frames
    BY DEF Typed, TypeOK
  <2>2. frames' \in Seq(Frames) /\ Len(frames') <= QueueSize
    BY <1>3, <2>1 DEF Push, Typed, TypeOK
  <2> QED
    BY <1>3, <2>2 DEF Push, Goto, Typed, TypeOK, NothingGiven
<1>4. ASSUME NEW w \in Writes, GiveUp(w) PROVE Typed'
  BY <1>4 DEF GiveUp, Goto, Typed, TypeOK, NothingGiven
<1>5. ASSUME NEW w \in Writes, Handle(w) PROVE Typed'
  <2>1. sessions' \subseteq {Opening}
    BY <1>5 DEF Handle, Typed, TypeOK
  <2> QED
    BY <1>5, <2>1 DEF Handle, Goto, Typed, TypeOK, NothingGiven
<1>6. ASSUME NEW w \in Writes, Respond(w) PROVE Typed'
  <2>1. PICK streaming \in BOOLEAN :
          /\ stream' = [stream EXCEPT ![w] = streaming]
          /\ Goto(w, IF streaming THEN "streaming" ELSE "body")
    BY <1>6 DEF Respond
  <2>2. session' \in BOOLEAN
    BY <1>6 DEF Respond, Typed, TypeOK
  <2> QED
    BY <1>6, <2>1, <2>2 DEF Respond, Goto, Typed, TypeOK, NothingGiven
<1>7. ASSUME NEW w \in Writes, ReadBody(w) PROVE Typed'
  <2>1. CASE Goto(w, "finished") /\ UNCHANGED <<given, holding, version>>
    BY <1>7, <2>1 DEF ReadBody, Goto, Typed, TypeOK, NothingGiven
  <2>2. CASE \E response \in BOOLEAN : Produce(w, response)
    <3>1. given[w] < MaxEvents
      BY <1>7 DEF ReadBody, Typed, NothingGiven
    <3> QED
      BY <1>7, <2>2, <3>1, ProduceTyped DEF ReadBody
  <2> QED
    BY <1>7, <2>1, <2>2 DEF ReadBody
<1>8. ASSUME NEW w \in Writes, Event(w) PROVE Typed'
  BY <1>8, ProduceTyped DEF Event
<1>9. ASSUME NEW w \in Writes, Failing(w) PROVE Typed'
  BY <1>9 DEF Failing, RequestFails, StreamEnds, Goto, Typed, TypeOK, NothingGiven
<1>10. ASSUME NEW k \in Closers, MarkClosed(k) PROVE Typed'
  BY <1>10 DEF MarkClosed, CloseGoto, Typed, TypeOK, NothingGiven
<1>11. ASSUME NEW k \in Closers, CloseDone(k) \/ AbortAll(k) PROVE Typed'
  BY <1>11 DEF CloseDone, AbortAll, CloseGoto, Typed, TypeOK, NothingGiven
<1>12. ASSUME NEW k \in Closers, CloseQueue(k) PROVE Typed'
  BY <1>12 DEF CloseQueue, CloseGoto, Typed, TypeOK, NothingGiven
<1>13. ASSUME NEW k \in Closers, Delete(k) PROVE Typed'
  BY <1>13 DEF Delete, CloseGoto, Typed, TypeOK, NothingGiven
<1>14. ASSUME Receive PROVE Typed'
  <2>1. Head(frames) \in Frames /\ Tail(frames) \in Seq(Frames) /\ Len(Tail(frames)) <= QueueSize
    BY <1>14 DEF Receive, Typed, TypeOK
  <2>2. received' \in Seq(Frames)
    BY <1>14, <2>1 DEF Receive, Typed, TypeOK
  <2> QED
    BY <1>14, <2>1, <2>2 DEF Receive, Typed, TypeOK, NothingGiven
<1>15. ASSUME ReadEnds \/ ReadCanceled PROVE Typed'
  BY <1>15 DEF ReadEnds, ReadCanceled, Typed, TypeOK, NothingGiven
<1>16. ASSUME UNCHANGED vars PROVE Typed'
  BY <1>16 DEF vars, Typed, TypeOK, NothingGiven
<1> QED
  BY <1>1, <1>2, <1>3, <1>4, <1>5, <1>6, <1>7, <1>8, <1>9, <1>10, <1>11, <1>12, <1>13, <1>14,
     <1>15, <1>16 DEF Next, WriteStep, Answering, CloseStep

LEMMA AlwaysTyped == Spec => []Typed
  BY InitTyped, StepTyped, PTL DEF Spec

\* Every variable keeps its type, and the queue its size.
THEOREM TypeCorrect == Spec => []TypeOK
  BY AlwaysTyped, PTL DEF Typed

-----------------------------------------------------------------------------
(* The queue is closed last *)

\* Of the requests: none appears once the flag is set.
LEMMA NoneAfterFlag ==
  ASSUME Typed, [Next]_vars, closed
  PROVE  closed' /\ \A w \in Writes : Outstanding(w)' => Outstanding(w)
<1> USE DEF transportVars, postVars, closeVars, readVars, Typed, TypeOK, Outstanding
<1>1. ASSUME NEW w \in Writes, Begin(w)
      PROVE  closed' /\ \A v \in Writes : Outstanding(v)' => Outstanding(v)
  BY <1>1 DEF Begin, Goto
<1>2. ASSUME NEW w \in Writes, WriteStep(w) \/ Failing(w)
      PROVE  closed' /\ \A v \in Writes : Outstanding(v)' => Outstanding(v)
  BY <1>2 DEF WriteStep, Failing, Post, Push, GiveUp, RequestFails, StreamEnds, Goto
<1>3. ASSUME NEW w \in Writes, Answering(w)
      PROVE  closed' /\ \A v \in Writes : Outstanding(v)' => Outstanding(v)
  <2>1. Outstanding(w) /\ UNCHANGED closed
    BY <1>3 DEF Answering, Handle, Respond, ReadBody, Event
  <2>2. \A v \in Writes \ {w} : post'[v] = post[v]
    BY <1>3 DEF Answering, Handle, Respond, ReadBody, Event, Produce, Goto
  <2> QED
    BY <2>1, <2>2
<1>4. ASSUME NEW k \in Closers, MarkClosed(k) \/ CloseStep(k)
      PROVE  closed' /\ \A v \in Writes : Outstanding(v)' => Outstanding(v)
  BY <1>4 DEF CloseStep, MarkClosed, CloseDone, AbortAll, CloseQueue, Delete
<1>5. ASSUME Receive \/ ReadEnds \/ ReadCanceled \/ UNCHANGED vars
      PROVE  closed' /\ \A v \in Writes : Outstanding(v)' => Outstanding(v)
  BY <1>5 DEF Receive, ReadEnds, ReadCanceled, vars
<1> QED
  BY <1>1, <1>2, <1>3, <1>4, <1>5 DEF Next

LEMMA StepClosed == Typed /\ FlagFirst /\ QueueClosedLast /\ [Next]_vars
                      => (FlagFirst /\ QueueClosedLast)'
<1> SUFFICES ASSUME Typed, FlagFirst, QueueClosedLast, [Next]_vars
             PROVE  (FlagFirst /\ QueueClosedLast)'
  OBVIOUS
<1> USE DEF transportVars, postVars, closeVars, readVars, FlagFirst
<1>1. ASSUME NEW k \in Closers, MarkClosed(k) PROVE (FlagFirst /\ QueueClosedLast)'
  BY <1>1 DEF MarkClosed, CloseGoto, Typed, TypeOK, QueueClosedLast, Outstanding
<1>2. ASSUME NEW k \in Closers, CloseQueue(k) PROVE (FlagFirst /\ QueueClosedLast)'
  BY <1>2 DEF CloseQueue, CloseGoto, Typed, TypeOK, QueueClosedLast, Outstanding
<1>3. ASSUME NEW k \in Closers, CloseDone(k) \/ AbortAll(k) \/ Delete(k)
      PROVE  (FlagFirst /\ QueueClosedLast)'
  BY <1>3 DEF CloseDone, AbortAll, Delete, CloseGoto, Typed, TypeOK, QueueClosedLast, Outstanding
<1>4. ASSUME UNCHANGED <<closed, open, closing>> PROVE (FlagFirst /\ QueueClosedLast)'
  <2>1. FlagFirst'
    BY <1>4
  <2>2. QueueClosedLast'
    BY <1>4, NoneAfterFlag DEF QueueClosedLast
  <2> QED
    BY <2>1, <2>2
<1>5. ASSUME NEW w \in Writes, Begin(w) \/ WriteStep(w) \/ Answering(w) \/ Failing(w)
      PROVE  UNCHANGED <<closed, open, closing>>
  BY <1>5 DEF Begin, WriteStep, Answering, Failing, Post, Push, GiveUp, Handle, Respond,
              ReadBody, Event, RequestFails, StreamEnds
<1>6. ASSUME Receive \/ ReadEnds \/ ReadCanceled \/ UNCHANGED vars
      PROVE  UNCHANGED <<closed, open, closing>>
  BY <1>6 DEF Receive, ReadEnds, ReadCanceled, vars
<1> QED
  BY <1>1, <1>2, <1>3, <1>4, <1>5, <1>6 DEF Next, CloseStep

\* Once the queue is closed no request is left that could push into it or reach
\* the server (Write counts its request under the lock that sets the flag, and
\* Close waits for those counted).
THEOREM ClosedLast == Spec => []QueueClosedLast
<1>1. Init => FlagFirst /\ QueueClosedLast
  BY DEF Init, FlagFirst, QueueClosedLast
<1> QED
  BY <1>1, StepClosed, AlwaysTyped, PTL DEF Spec

-----------------------------------------------------------------------------
(* Requests after the handshake *)

\* What the order of an answer gives in one state: the session has been read.
LEMMA ReadyMeansNoted ==
  ASSUME Typed, FramesNoted, Ready
  PROVE  version /\ given[Opening] > 0
  BY DEF Ready, FramesNoted, Noted

LEMMA RefuseMeansNoted ==
  ASSUME Typed, FramesNoted, NEW w \in Writes, Refuse(w)
  PROVE  given[Opening] > 0
<1>1. received \in Seq(Frames) /\ received # <<>>
  BY DEF Typed, TypeOK, Refuse
<1>2. Len(received) \in 1..Len(received)
  BY <1>1
<1> QED
  BY <1>2 DEF FramesNoted, Noted

\* A step that adds no frame, no session and no request keeps the order.
LEMMA QuietStep ==
  ASSUME Typed, OrderInv,
         UNCHANGED <<session, version, frames, header, given, holding, received, refusals>>,
         sessions' \subseteq sessions,
         \A w \in Writes : post'[w] \notin {"idle", "finished"} => post'[w] = post[w],
         \A w \in Writes : post'[w] # "idle" => post[w] # "idle"
  PROVE  OrderInv'
<1> USE HttpAssumption
<1>1. FramesNoted'
  BY DEF OrderInv, FramesNoted, Noted
<1>2. SessionFirst'
  BY DEF OrderInv, SessionFirst, Assigned
<1>3. Introduced'
  BY DEF OrderInv, Introduced
<1>4. NoStrangers'
  BY DEF OrderInv, NoStrangers
<1> QED
  BY <1>1, <1>2, <1>3, <1>4 DEF OrderInv

\* A frame that comes is noted before it can be queued.
LEMMA ProduceOrdered ==
  ASSUME Typed, OrderInv, NEW w \in Writes, NEW response \in BOOLEAN,
         post[w] \in {"body", "streaming"}, Produce(w, response),
         UNCHANGED <<closed, done, aborted, open, session, frames, header, stream,
                     closeVars, readVars, sessions>>
  PROVE  OrderInv'
<1> USE HttpAssumption DEF closeVars, readVars
<1>1. /\ given'[w] = given[w] + 1 /\ given'[w] > 0
      /\ \A v \in Writes \ {w} : given'[v] = given[v]
  BY DEF Produce, Typed, TypeOK
<1>2. given'[Opening] > 0
  <2>1. w # Opening => given[Opening] > 0
    BY DEF OrderInv, Introduced
  <2> QED
    BY <1>1, <2>1
<1>3. version' = (version \/ (w = Opening /\ response))
  BY DEF Produce
<1>4. /\ post'[w] = "pushing" /\ \A v \in Writes \ {w} : post'[v] = post[v]
      /\ holding'[w] = [of |-> w, n |-> given[w] + 1, response |-> response]
      /\ \A v \in Writes \ {w} : holding'[v] = holding[v]
  BY DEF Produce, Goto, Typed, TypeOK
<1>5. \A f : Noted(f) => Noted(f)'
  BY <1>2, <1>3 DEF Noted
<1>6. Noted(holding[w])'
  <2>1. holding'[w].of = w /\ holding'[w].response = response
    BY <1>4
  <2> QED
    BY <1>2, <1>3, <2>1 DEF Noted
<1>7. FramesNoted'
  <2>1. \A v \in Writes : post'[v] = "pushing" => Noted(holding[v])'
    <3> SUFFICES ASSUME NEW v \in Writes, post'[v] = "pushing" PROVE Noted(holding[v])'
      OBVIOUS
    <3>1. CASE v = w
      BY <1>6, <3>1
    <3>2. CASE v # w
      BY <1>4, <1>5, <3>2 DEF OrderInv, FramesNoted, Noted
    <3> QED
      BY <3>1, <3>2
  <2>2. \A i \in 1..Len(frames) : Noted(frames[i])'
    BY <1>5 DEF OrderInv, FramesNoted, Noted
  <2>3. \A i \in 1..Len(received) : Noted(received[i])'
    BY <1>5 DEF OrderInv, FramesNoted, Noted
  <2> QED
    BY <2>1, <2>2, <2>3 DEF FramesNoted
<1>8. Assigned' = Assigned
  BY DEF Assigned
<1>9. SessionFirst'
  BY <1>1, <1>4, <1>8 DEF OrderInv, SessionFirst
<1>10. Introduced'
  BY <1>2, <1>3, <1>4 DEF OrderInv, Introduced
<1>11. NoStrangers'
  BY <1>4 DEF OrderInv, NoStrangers
<1> QED
  BY <1>7, <1>9, <1>10, <1>11 DEF OrderInv

LEMMA StepOrdered == Typed /\ OrderInv /\ [Next]_vars => OrderInv'
<1> SUFFICES ASSUME Typed, OrderInv, [Next]_vars PROVE OrderInv'
  OBVIOUS
<1> USE HttpAssumption DEF transportVars, postVars, closeVars, readVars
<1>1. ASSUME NEW w \in Writes, Begin(w) PROVE OrderInv'
  <2>1. UNCHANGED <<session, version, frames, header, given, holding, received, sessions>>
    BY <1>1 DEF Begin
  <2>2. post'[w] \in {"finished", "registered"} /\ \A v \in Writes \ {w} : post'[v] = post[v]
    BY <1>1 DEF Begin, Goto, Typed, TypeOK
  <2>3. /\ w # Opening => given[Opening] > 0 /\ (w \notin refusals' => version)
        /\ \A v \in Writes : v \notin refusals' => v \notin refusals
    <3>1. CASE Refuse(w)
      BY <3>1, RefuseMeansNoted DEF Refuse, OrderInv
    <3>2. CASE (w = Opening \/ Ready) /\ UNCHANGED refusals
      BY <3>2, ReadyMeansNoted DEF OrderInv
    <3> QED
      BY <1>1, <3>1, <3>2 DEF Begin, MayBegin
  <2>4. FramesNoted'
    BY <2>1, <2>2 DEF OrderInv, FramesNoted, Noted
  <2>5. SessionFirst'
    BY <2>1, <2>2 DEF OrderInv, SessionFirst, Assigned
  <2>6. Introduced'
    BY <2>1, <2>2, <2>3 DEF OrderInv, Introduced
  <2>7. NoStrangers'
    BY <2>1, <2>2, <2>3 DEF OrderInv, NoStrangers
  <2> QED
    BY <2>4, <2>5, <2>6, <2>7 DEF OrderInv
<1>2. ASSUME NEW w \in Writes, Post(w) PROVE OrderInv'
  <2>1. UNCHANGED <<session, version, frames, given, holding, received, refusals, sessions>>
    BY <1>2 DEF Post
  <2>2. /\ post[w] = "registered" /\ post'[w] = "posting"
        /\ \A v \in Writes \ {w} : post'[v] = post[v] /\ header'[v] = header[v]
        /\ header'[w] = [session |-> session, version |-> version]
    BY <1>2 DEF Post, Goto, Typed, TypeOK
  <2>3. w # Opening => (w \notin refusals => version) /\ Assigned
    BY <2>2 DEF OrderInv, Introduced, SessionFirst
  <2>4. FramesNoted'
    BY <2>1, <2>2 DEF OrderInv, FramesNoted, Noted
  <2>5. SessionFirst'
    BY <2>1, <2>2 DEF OrderInv, SessionFirst, Assigned
  <2>6. Introduced'
    BY <2>1, <2>2 DEF OrderInv, Introduced
  <2>7. NoStrangers'
    BY <2>1, <2>2, <2>3 DEF OrderInv, NoStrangers, Assigned
  <2> QED
    BY <2>4, <2>5, <2>6, <2>7 DEF OrderInv
<1>3. ASSUME NEW w \in Writes, Push(w) PROVE OrderInv'
  <2>1. UNCHANGED <<session, version, header, given, holding, received, refusals, sessions>>
    BY <1>3 DEF Push
  <2>2. /\ post[w] = "pushing" /\ post'[w] \in {"streaming", "finished"}
        /\ \A v \in Writes \ {w} : post'[v] = post[v]
        /\ frames' = Append(frames, holding[w])
    BY <1>3 DEF Push, Goto, Typed, TypeOK
  <2>3. FramesNoted'
    <3>1. Noted(holding[w])
      BY <2>2 DEF OrderInv, FramesNoted
    <3>2. \A f : Noted(f) => Noted(f)'
      BY <2>1 DEF Noted
    <3>3. frames \in Seq(Frames) /\ holding[w] \in Frames
      BY DEF Typed, TypeOK
    <3>4. \A i \in 1..Len(frames') : frames'[i] = holding[w] \/ (i \in 1..Len(frames) /\ frames'[i] = frames[i])
      BY <2>2, <3>3
    <3>5. \A i \in 1..Len(frames') : Noted(frames'[i])
      BY <3>1, <3>4 DEF OrderInv, FramesNoted
    <3> QED
      BY <2>1, <2>2, <3>5 DEF OrderInv, FramesNoted, Noted
  <2>4. SessionFirst'
    BY <2>1, <2>2 DEF OrderInv, SessionFirst, Assigned
  <2>5. Introduced'
    BY <2>1, <2>2 DEF OrderInv, Introduced
  <2>6. NoStrangers'
    BY <2>1, <2>2 DEF OrderInv, NoStrangers
  <2> QED
    BY <2>3, <2>4, <2>5, <2>6 DEF OrderInv
<1>4. ASSUME NEW w \in Writes, GiveUp(w) \/ Failing(w) PROVE OrderInv'
  BY <1>4, QuietStep DEF GiveUp, Failing, RequestFails, StreamEnds, Goto, Typed, TypeOK
<1>5. ASSUME NEW w \in Writes, Handle(w) PROVE OrderInv'
  <2>1. UNCHANGED <<session, version, frames, header, given, holding, received, refusals>>
    BY <1>5 DEF Handle
  <2>2. /\ post[w] = "posting" /\ post'[w] = "handled"
        /\ \A v \in Writes \ {w} : post'[v] = post[v]
        /\ w # Opening => sessions' = sessions
    BY <1>5 DEF Handle, Goto, Typed, TypeOK
  <2>3. w = Opening => ~(given[Opening] > 0)
    BY <2>2 DEF Typed, NothingGiven
  <2>4. FramesNoted'
    BY <2>1, <2>2 DEF OrderInv, FramesNoted, Noted
  <2>5. SessionFirst'
    BY <2>1, <2>2, <2>3 DEF OrderInv, SessionFirst, Assigned
  <2>6. Introduced'
    BY <2>1, <2>2 DEF OrderInv, Introduced
  <2>7. NoStrangers'
    BY <2>1, <2>2, <2>3 DEF OrderInv, NoStrangers, Introduced
  <2> QED
    BY <2>4, <2>5, <2>6, <2>7 DEF OrderInv
<1>6. ASSUME NEW w \in Writes, Respond(w) PROVE OrderInv'
  <2>1. UNCHANGED <<version, frames, header, given, holding, received, refusals, sessions>>
    BY <1>6 DEF Respond
  <2>2. /\ post[w] = "handled" /\ post'[w] \in {"body", "streaming"}
        /\ \A v \in Writes \ {w} : post'[v] = post[v]
        /\ session' = (session \/ w \in sessions)
    BY <1>6 DEF Respond, Goto, Typed, TypeOK
  <2>3. w = Opening => Assigned'
    <3>1. sessions # {} => Opening \in sessions
      BY DEF Typed, TypeOK
    <3> QED
      BY <2>1, <2>2, <3>1 DEF Assigned
  <2>4. Assigned => Assigned'
    BY <2>1, <2>2 DEF Assigned
  <2>5. FramesNoted'
    BY <2>1, <2>2 DEF OrderInv, FramesNoted, Noted
  <2>6. SessionFirst'
    BY <2>1, <2>2, <2>3, <2>4 DEF OrderInv, SessionFirst
  <2>7. Introduced'
    BY <2>1, <2>2 DEF OrderInv, Introduced
  <2>8. NoStrangers'
    BY <2>1, <2>2 DEF OrderInv, NoStrangers
  <2> QED
    BY <2>5, <2>6, <2>7, <2>8 DEF OrderInv
<1>7. ASSUME NEW w \in Writes, ReadBody(w) \/ Event(w) PROVE OrderInv'
  <2>1. CASE \E response \in BOOLEAN : Produce(w, response)
    BY <1>7, <2>1, ProduceOrdered DEF ReadBody, Event
  <2>2. CASE Goto(w, "finished") /\ UNCHANGED <<given, holding, version>>
    BY <1>7, <2>2, QuietStep DEF ReadBody, Event, Goto, Typed, TypeOK
  <2> QED
    BY <1>7, <2>1, <2>2 DEF ReadBody, Event
<1>8. ASSUME NEW k \in Closers, MarkClosed(k) \/ CloseDone(k) \/ AbortAll(k) \/ CloseQueue(k)
      PROVE  OrderInv'
  BY <1>8, QuietStep DEF MarkClosed, CloseDone, AbortAll, CloseQueue
<1>9. ASSUME NEW k \in Closers, Delete(k) PROVE OrderInv'
  <2>1. sessions' \subseteq sessions
    BY <1>9 DEF Delete
  <2> QED
    BY <1>9, <2>1, QuietStep DEF Delete
<1>10. ASSUME Receive PROVE OrderInv'
  <2>1. UNCHANGED <<session, version, header, given, holding, post, refusals, sessions>>
    BY <1>10 DEF Receive
  <2>2. \A f : Noted(f) => Noted(f)'
    BY <2>1 DEF Noted
  <2>3. frames \in Seq(Frames) /\ frames # <<>> /\ received \in Seq(Frames) /\ Head(frames) \in Frames
    BY <1>10 DEF Receive, Typed, TypeOK
  <2>4. \A i \in 1..Len(frames') : i + 1 \in 1..Len(frames) /\ frames'[i] = frames[i + 1]
    BY <1>10, <2>3 DEF Receive
  <2>5. \A i \in 1..Len(received') :
           received'[i] = frames[1] \/ (i \in 1..Len(received) /\ received'[i] = received[i])
    BY <1>10, <2>3 DEF Receive
  <2>6. 1 \in 1..Len(frames)
    BY <2>3
  <2>7. FramesNoted'
    BY <2>1, <2>2, <2>4, <2>5, <2>6 DEF OrderInv, FramesNoted
  <2>8. (SessionFirst /\ Introduced /\ NoStrangers)'
    BY <2>1 DEF OrderInv, SessionFirst, Assigned, Introduced, NoStrangers
  <2> QED
    BY <2>7, <2>8 DEF OrderInv
<1>11. ASSUME ReadEnds \/ ReadCanceled \/ UNCHANGED vars PROVE OrderInv'
  BY <1>11, QuietStep DEF ReadEnds, ReadCanceled, vars
<1> QED
  BY <1>1, <1>2, <1>3, <1>4, <1>5, <1>6, <1>7, <1>8, <1>9, <1>10, <1>11
  DEF Next, WriteStep, Answering, CloseStep

\* Every request after the first carries the session the server assigned, and
\* after the handshake the version it agreed to, whichever form its answer took
\* (Write, captureVersion: the server treats the next request as a stranger's).
THEOREM NoRequestIsAStranger == Spec => []NoStrangers
<1>1. Init => OrderInv
  BY HttpAssumption DEF Init, OrderInv, FramesNoted, SessionFirst, Introduced, NoStrangers
<1> QED
  BY <1>1, StepOrdered, AlwaysTyped, PTL DEF Spec, OrderInv
-----------------------------------------------------------------------------
(* Frames *)

\* A frame that waits for room is the last its answer has produced.
HoldsNext == \A w \in Writes :
  post[w] = "pushing" => holding[w].of = w /\ holding[w].n = given[w]

KeptInv == (done => closed) /\ HoldsNext /\ FramesKept

AnswersTo(f, w) == f.of = w

\* Of two answers' frames only one grows with a frame more.
LEMMA OneFrameMore ==
  ASSUME NEW s \in Seq(Frames), NEW f \in Frames, NEW w
  PROVE  /\ AnswersTo(f, w) => OfAnswer(Append(s, f), w) = Append(OfAnswer(s, w), f)
         /\ ~AnswersTo(f, w) => OfAnswer(Append(s, f), w) = OfAnswer(s, w)
<1> DEFINE t == Append(s, f)
           K == {i \in 1..Len(s) : s[i].of = w}
           L == {i \in 1..Len(t) : t[i].of = w}
<1>1. /\ Len(t) = Len(s) + 1 /\ t[Len(s) + 1] = f /\ Len(s) \in Nat
      /\ \A i \in 1..Len(s) : t[i] = s[i]
  OBVIOUS
<1>2. \A i \in 1..Len(s) : i \in K <=> i \in L
  BY <1>1
<1>3. Len(s) + 1 \in L <=> AnswersTo(f, w)
  BY <1>1 DEF AnswersTo
<1> HIDE DEF K, L
<1>4. Selected(t, L) = IF Len(s) + 1 \in L THEN Append(Selected(s, K), f) ELSE Selected(s, K)
  BY <1>2, SelectedAppend
<1>5. OfAnswer(t, w) = Selected(t, L) /\ OfAnswer(s, w) = Selected(s, K)
  BY DEF OfAnswer, K, L
<1> HIDE DEF t
<1>6. /\ AnswersTo(f, w) => OfAnswer(t, w) = Append(OfAnswer(s, w), f)
      /\ ~AnswersTo(f, w) => OfAnswer(t, w) = OfAnswer(s, w)
  BY <1>3, <1>4, <1>5
<1> QED
  BY <1>6 DEF t

LEMMA PassedTyped ==
  ASSUME Typed
  PROVE  /\ received \o frames \in Seq(Frames)
         /\ \A w : Delivered(w) \in Seq(Frames)
<1>1. received \in Seq(Frames) /\ frames \in Seq(Frames)
  BY DEF Typed, TypeOK
<1> DEFINE p == received \o frames
<1>2. p \in Seq(Frames)
  BY <1>1
<1> HIDE DEF p
<1>3. ASSUME NEW w PROVE OfAnswer(p, w) \in Seq(Frames)
  <2> DEFINE K == {i \in 1..Len(p) : p[i].of = w}
  <2>1. \A i \in 1..Len(p) : i \in K => p[i] \in Frames
    BY <1>2
  <2> HIDE DEF K
  <2>2. Selected(p, K) \in Seq(Frames)
    BY <1>2, <2>1, SelectedTyped
  <2> QED
    BY <2>2 DEF OfAnswer, K
<1> QED
  BY <1>2, <1>3 DEF Delivered, p

\* Steps that move no frame.
LEMMA FramesStay ==
  ASSUME KeptInv, UNCHANGED <<received, frames, given, holding>>, closed => closed',
         done' => closed', \A w \in Writes : post'[w] = "pushing" <=> post[w] = "pushing"
  PROVE  KeptInv'
<1>1. \A w : Delivered(w)' = Delivered(w)
  BY DEF Delivered
<1>2. ASSUME ~closed', NEW w \in Writes
      PROVE  /\ Len(Delivered(w)') = given'[w] - (IF post'[w] = "pushing" THEN 1 ELSE 0)
             /\ \A i \in 1..Len(Delivered(w)') : Delivered(w)'[i].n = i
  BY <1>1, <1>2 DEF KeptInv, FramesKept
<1>3. FramesKept'
  BY <1>2 DEF FramesKept
<1> QED
  BY <1>3 DEF KeptInv, HoldsNext

\* A frame is produced: it is in nobody's hands but its request's.
LEMMA ProduceKept ==
  ASSUME Typed, KeptInv, NEW w \in Writes, NEW response \in BOOLEAN, Produce(w, response),
         post[w] # "pushing", UNCHANGED <<received, frames, closed, done>>
  PROVE  KeptInv'
<1>1. \A v : Delivered(v)' = Delivered(v)
  BY DEF Delivered
<1>2. /\ given' = [given EXCEPT ![w] = @ + 1]
      /\ holding' = [holding EXCEPT ![w] = [of |-> w, n |-> given[w] + 1, response |-> response]]
      /\ post' = [post EXCEPT ![w] = "pushing"]
  BY DEF Produce, Goto
<1>3. /\ given'[w] = given[w] + 1 /\ post'[w] = "pushing" /\ given[w] \in Nat
      /\ holding'[w].of = w /\ holding'[w].n = given[w] + 1
      /\ \A v \in Writes \ {w} : /\ given'[v] = given[v] /\ holding'[v] = holding[v]
                                 /\ post'[v] = post[v]
  BY <1>2, HttpAssumption DEF Typed, TypeOK
<1>4. HoldsNext'
  BY <1>3 DEF KeptInv, HoldsNext
<1>5. ASSUME ~closed', NEW v \in Writes
      PROVE  /\ Len(Delivered(v)') = given'[v] - (IF post'[v] = "pushing" THEN 1 ELSE 0)
             /\ \A i \in 1..Len(Delivered(v)') : Delivered(v)'[i].n = i
  <2>1. /\ Len(Delivered(v)) = given[v] - (IF post[v] = "pushing" THEN 1 ELSE 0)
        /\ \A i \in 1..Len(Delivered(v)) : Delivered(v)[i].n = i
    BY <1>5 DEF KeptInv, FramesKept
  <2>2. CASE v = w
    BY <1>1, <1>3, <2>1, <2>2
  <2>3. CASE v # w
    BY <1>1, <1>3, <2>1, <2>3
  <2> QED
    BY <2>2, <2>3
<1>6. FramesKept'
  BY <1>5 DEF FramesKept
<1> QED
  BY <1>4, <1>6 DEF KeptInv

\* It finds room, and is the last of its answer among those passed on.
LEMMA PushKept ==
  ASSUME Typed, KeptInv, NEW w \in Writes, Push(w)
  PROVE  KeptInv'
<1> DEFINE f == holding[w]
<1>1. /\ post[w] = "pushing" /\ post'[w] # "pushing"
      /\ \A v \in Writes \ {w} : post'[v] = post[v]
      /\ frames' = Append(frames, f) /\ received' = received
      /\ UNCHANGED <<given, holding, closed, done>>
  BY DEF Push, Goto, Typed, TypeOK, transportVars, readVars
<1>2. /\ f \in Frames /\ f.of = w /\ f.n = given[w] /\ given[w] \in Nat
      /\ received \in Seq(Frames) /\ frames \in Seq(Frames)
  BY <1>1, HttpAssumption DEF Typed, TypeOK, KeptInv, HoldsNext
<1>3. received' \o frames' = Append(received \o frames, f)
  BY <1>1, <1>2, AppendRight
<1> HIDE DEF f
<1>4. \A v : Delivered(v)' = IF w = v THEN Append(Delivered(v), f) ELSE Delivered(v)
  <2> DEFINE p == received \o frames
             q == received' \o frames'
  <2>1. p \in Seq(Frames) /\ q = Append(p, f)
    BY <1>3, PassedTyped
  <2> HIDE DEF p, q
  <2>2. f \in Frames /\ (\A v : AnswersTo(f, v) <=> w = v)
    BY <1>2 DEF AnswersTo
  <2>3. \A v : /\ AnswersTo(f, v) => OfAnswer(Append(p, f), v) = Append(OfAnswer(p, v), f)
               /\ ~AnswersTo(f, v) => OfAnswer(Append(p, f), v) = OfAnswer(p, v)
    BY <2>1, <2>2, OneFrameMore
  <2> QED
    BY <2>1, <2>2, <2>3, Zenon DEF Delivered, p, q
<1>5. ASSUME ~closed', NEW v \in Writes
      PROVE  /\ Len(Delivered(v)') = given'[v] - (IF post'[v] = "pushing" THEN 1 ELSE 0)
             /\ \A i \in 1..Len(Delivered(v)') : Delivered(v)'[i].n = i
  <2> DEFINE d == Delivered(v)
             e == Delivered(v)'
  <2>1. /\ Len(d) = given[v] - (IF post[v] = "pushing" THEN 1 ELSE 0)
        /\ \A i \in 1..Len(d) : d[i].n = i
    BY <1>1, <1>5 DEF KeptInv, FramesKept
  <2>2. d \in Seq(Frames)
    BY PassedTyped
  <2>3. e = IF w = v THEN Append(d, f) ELSE d
    BY <1>4
  <2> HIDE DEF d, e
  <2>4. CASE v = w
    <3>1. Len(d) = given[w] - 1 /\ e = Append(d, f) /\ given'[w] = given[w]
      BY <1>1, <2>1, <2>3, <2>4
    <3>2. Len(e) = given[w]
      BY <1>2, <2>2, <3>1
    <3>3. \A i \in 1..Len(e) : e[i] = IF i = given[w] THEN f ELSE d[i]
      BY <1>2, <2>2, <3>1
    <3>4. \A i \in 1..Len(e) : e[i].n = i
      BY <1>2, <2>1, <3>1, <3>2, <3>3
    <3> QED
      BY <1>1, <2>4, <3>1, <3>2, <3>4 DEF e
  <2>5. CASE v # w
    BY <1>1, <2>1, <2>3, <2>5 DEF e
  <2> QED
    BY <2>4, <2>5
<1>6. FramesKept'
  BY <1>5 DEF FramesKept
<1>7. HoldsNext'
  BY <1>1 DEF KeptInv, HoldsNext
<1> QED
  BY <1>1, <1>6, <1>7 DEF KeptInv

LEMMA StepKept == Typed /\ FlagFirst /\ KeptInv /\ [Next]_vars => KeptInv'
<1> SUFFICES ASSUME Typed, FlagFirst, KeptInv, [Next]_vars PROVE KeptInv'
  OBVIOUS
<1> USE DEF transportVars, postVars, closeVars, readVars
<1>0. done => closed
  BY DEF KeptInv
<1>1. ASSUME NEW w \in Writes, Begin(w) \/ Post(w) \/ Handle(w) \/ Respond(w) \/ Failing(w)
      PROVE  KeptInv'
  <2>1. /\ UNCHANGED <<received, frames, given, holding, closed, done>>
        /\ post[w] # "pushing"
    BY <1>1 DEF Begin, Post, Handle, Respond, Failing, RequestFails, StreamEnds
  <2>2. \E label \in {"finished", "registered", "posting", "handled", "streaming", "body"} :
          Goto(w, label)
    BY <1>1 DEF Begin, Post, Handle, Respond, Failing, RequestFails, StreamEnds
  <2>3. \A v \in Writes : post'[v] = "pushing" <=> post[v] = "pushing"
    BY <2>1, <2>2 DEF Goto, Typed, TypeOK
  <2> QED
    BY <1>0, <2>1, <2>3, FramesStay
<1>2. ASSUME NEW w \in Writes, ReadBody(w) PROVE KeptInv'
  <2>1. UNCHANGED <<received, frames, closed, done>> /\ post[w] # "pushing"
    BY <1>2 DEF ReadBody
  <2>2. CASE \E response \in BOOLEAN : Produce(w, response)
    BY <2>1, <2>2, ProduceKept
  <2>3. CASE Goto(w, "finished") /\ UNCHANGED <<given, holding, version>>
    <3>1. \A v \in Writes : post'[v] = "pushing" <=> post[v] = "pushing"
      BY <2>1, <2>3 DEF Goto, Typed, TypeOK
    <3> QED
      BY <1>0, <2>1, <2>3, <3>1, FramesStay
  <2> QED
    BY <1>2, <2>2, <2>3 DEF ReadBody
<1>3. ASSUME NEW w \in Writes, Event(w) PROVE KeptInv'
  BY <1>3, ProduceKept DEF Event
<1>4. ASSUME NEW w \in Writes, Push(w) PROVE KeptInv'
  BY <1>4, PushKept
<1>5. ASSUME NEW w \in Writes, GiveUp(w) PROVE KeptInv'
  <2>1. UNCHANGED <<given, holding, closed, done>> /\ closed
    BY <1>0, <1>5 DEF GiveUp
  <2>2. \A v \in Writes : post'[v] = "pushing" => post[v] = "pushing"
    BY <1>5 DEF GiveUp, Goto, Typed, TypeOK
  <2>3. FramesKept'
    BY <2>1 DEF FramesKept
  <2>4. HoldsNext'
    BY <2>1, <2>2 DEF KeptInv, HoldsNext
  <2> QED
    BY <2>1, <2>3, <2>4 DEF KeptInv
<1>6. ASSUME NEW k \in Closers, MarkClosed(k) \/ CloseStep(k) PROVE KeptInv'
  <2>1. /\ UNCHANGED <<received, frames, given, holding, post>> /\ (closed => closed')
        /\ done' => closed'
    BY <1>0, <1>6 DEF FlagFirst, MarkClosed, CloseStep, CloseDone, AbortAll, CloseQueue, Delete
  <2> QED
    BY <2>1, FramesStay
<1>7. CASE Receive
  <2>1. /\ frames # <<>> /\ received' = Append(received, Head(frames)) /\ frames' = Tail(frames)
        /\ UNCHANGED <<post, given, holding, closed, done>>
    BY <1>7 DEF Receive
  <2>2. received \in Seq(Frames) /\ frames \in Seq(Frames)
    BY DEF Typed, TypeOK
  <2>3. received' \o frames' = received \o frames
    BY <2>1, <2>2, MoveOne
  <2>4. \A w : Delivered(w)' = Delivered(w)
    BY <2>3 DEF Delivered
  <2>5. ASSUME ~closed', NEW w \in Writes
        PROVE  /\ Len(Delivered(w)') = given'[w] - (IF post'[w] = "pushing" THEN 1 ELSE 0)
               /\ \A i \in 1..Len(Delivered(w)') : Delivered(w)'[i].n = i
    BY <2>1, <2>4, <2>5 DEF KeptInv, FramesKept
  <2>6. FramesKept'
    BY <2>5 DEF FramesKept
  <2> QED
    BY <2>1, <2>6 DEF KeptInv, HoldsNext
<1>8. ASSUME ReadEnds \/ ReadCanceled \/ UNCHANGED vars PROVE KeptInv'
  <2>1. UNCHANGED <<received, frames, given, holding, post, closed, done>>
    BY <1>8 DEF ReadEnds, ReadCanceled, vars
  <2> QED
    BY <1>0, <2>1, FramesStay
<1> QED
  BY <1>1, <1>2, <1>3, <1>4, <1>5, <1>6, <1>7, <1>8 DEF Next, WriteStep, Answering

\* Until Close no frame of an answer is lost, repeated or overtaken by a later one
\* of the same answer, however full the queue is and however many answers share
\* it (push waits for room, and gives up only once Close has begun).
THEOREM NoFrameLost == Spec => []FramesKept
<1>1. Init => KeptInv
  <2> SUFFICES ASSUME Init PROVE KeptInv
    OBVIOUS
  <2>1. received \o frames = <<>>
    BY DEF Init
  <2>2. \A w : Delivered(w) = <<>>
    BY <2>1, SelectedEmpty DEF Delivered, OfAnswer
  <2>3. \A w \in Writes : post[w] = "idle" /\ given[w] = 0
    BY DEF Init
  <2>4. FramesKept
    BY <2>2, <2>3 DEF FramesKept
  <2> QED
    BY <2>3, <2>4 DEF Init, KeptInv, HoldsNext
<1>2. Init => FlagFirst /\ QueueClosedLast
  BY DEF Init, FlagFirst, QueueClosedLast
<1>3. KeptInv => FramesKept
  BY DEF KeptInv
<1> QED
  BY <1>1, <1>2, <1>3, StepClosed, StepKept, AlwaysTyped, PTL DEF Spec

-----------------------------------------------------------------------------
(* The frames of an event stream: a character, and what the reader may have *)

Chars == Characters \cup {NewLine}
Readers == [data : Seq(Chars), payloads : Seq(Seq(Chars))]

LEMMA FirstIs ==
  ASSUME NEW P \in SUBSET Nat, P # {}
  PROVE  First(P) \in P /\ \A j \in P : First(P) <= j
<1>1. \E i \in P : \A j \in P : i <= j
  BY LeastNumber
<1> QED
  BY <1>1 DEF First

LEMMA LastIs ==
  ASSUME NEW N \in Nat, NEW P \in SUBSET (0..N), P # {}
  PROVE  Last(P) \in P /\ \A j \in P : Last(P) >= j
<1> DEFINE T == {N - i : i \in P}
<1>1. T \in SUBSET Nat /\ T # {}
  <2>1. ASSUME NEW k \in T PROVE k \in Nat
    <3>1. PICK i \in P : k = N - i
      OBVIOUS
    <3> QED
      BY <3>1
  <2>2. PICK i \in P : TRUE
    OBVIOUS
  <2>3. N - i \in T
    BY <2>2
  <2> QED
    BY <2>1, <2>3
<1>2. PICK m \in T : \A k \in T : m <= k
  BY <1>1, LeastNumber
<1>3. PICK i \in P : m = N - i
  BY <1>2
<1>4. \A j \in P : i >= j
  <2> SUFFICES ASSUME NEW j \in P PROVE i >= j
    OBVIOUS
  <2>1. N - j \in T
    OBVIOUS
  <2>2. N - i <= N - j
    BY <1>2, <1>3, <2>1
  <2> QED
    BY <2>2
<1> HIDE DEF T
<1>5. \E k \in P : \A j \in P : k >= j
  BY <1>4
<1> QED
  BY <1>5 DEF Last

\* Names and values of fields are cut out of the line.
LEMMA ValueTyped ==
  ASSUME NEW C, NEW line \in Seq(C)
  PROVE  Value(line) \in Seq(C)
<1> DEFINE rest == SubSeq(line, FieldColon(line) + 1, Len(line))
<1>1. FieldColon(line) \in 0..Len(line)
  <2>1. CASE Colons(line) = {}
    BY <2>1 DEF FieldColon
  <2>2. CASE Colons(line) # {}
    <3>1. Colons(line) \in SUBSET Nat /\ \A i \in Colons(line) : i \in 0..Len(line)
      BY DEF Colons
    <3> QED
      BY <2>2, <3>1, FirstIs DEF FieldColon
  <2> QED
    BY <2>1, <2>2
<1>2. rest \in Seq(C)
  BY <1>1
<1>3. rest # <<>> => Tail(rest) \in Seq(C)
  BY <1>2
<1> HIDE DEF rest
<1>4. Value(line) = IF FieldColon(line) = 0 THEN <<>>
                    ELSE IF rest # <<>> /\ Head(rest) = Space THEN Tail(rest) ELSE rest
  BY DEF Value, rest
<1> QED
  BY <1>2, <1>3, <1>4

LEMMA PieceTyped ==
  ASSUME NEW line \in Seq(Characters)
  PROVE  Value(line) \in Seq(Chars) /\ Piece(line) \in Seq(Chars)
<1>1. Value(line) \in Seq(Characters)
  BY ValueTyped
<1>2. Value(line) \in Seq(Chars)
  BY <1>1 DEF Chars
<1>3. <<NewLine>> \in Seq(Chars)
  BY DEF Chars
<1>4. <<NewLine>> \o Value(line) \in Seq(Chars)
  BY <1>2, <1>3
<1> QED
  BY <1>2, <1>4 DEF Piece

LEMMA TrimTyped == ASSUME NEW t \in Seq(Chars) PROVE TrimSpace(t) \in Seq(Chars)
<1>1. Shown(t) \in SUBSET (1..Len(t)) /\ Len(t) \in Nat
  BY DEF Shown
<1>2. CASE Shown(t) = {}
  BY <1>2 DEF TrimSpace
<1>3. CASE Shown(t) # {}
  <2>1. First(Shown(t)) \in 1..Len(t) /\ Last(Shown(t)) \in 1..Len(t)
    <3>1. Shown(t) \in SUBSET Nat /\ Shown(t) \in SUBSET (0..Len(t))
      BY <1>1
    <3> QED
      BY <1>1, <1>3, <3>1, FirstIs, LastIs
  <2> QED
    BY <1>3, <2>1 DEF TrimSpace
<1> QED
  BY <1>2, <1>3

-----------------------------------------------------------------------------
(* The reader and the text of an event, line by line *)

LEMMA LineTyped ==
  ASSUME NEW r \in Readers, NEW line \in Seq(Characters)
  PROVE  Yield(r) \in Readers /\ Line(r, line) \in Readers
<1>1. r.data \in Seq(Chars) /\ r.payloads \in Seq(Seq(Chars))
  BY DEF Readers
<1>2. Append(r.payloads, r.data) \in Seq(Seq(Chars)) /\ <<>> \in Seq(Chars)
  BY <1>1
<1>3. Yield(r) \in Readers
  BY <1>1, <1>2 DEF Yield, Readers
<1>4. Value(line) \in Seq(Chars)
  BY PieceTyped
<1>5. Join(r.data, Value(line)) \in Seq(Chars)
  <2> DEFINE d == r.data
             v == Value(line)
             nl == <<NewLine>>
  <2>1. nl \in Seq(Chars)
    BY DEF Chars
  <2> HIDE DEF d, v, nl
  <2>2. d \in Seq(Chars) /\ v \in Seq(Chars)
    BY <1>1, <1>4 DEF d, v
  <2>3. d \o nl \o v \in Seq(Chars)
    BY <2>1, <2>2
  <2> QED
    BY <2>2, <2>3 DEF Join, d, v, nl
<1>6. [r EXCEPT !.data = Join(@, Value(line))] \in Readers
  BY <1>5 DEF Readers
<1> QED
  BY <1>3, <1>6 DEF Line

LEMMA ReadingSteps ==
  ASSUME NEW lines \in Seq(Seq(Characters))
  PROVE  /\ Reading(lines)[0] = Nothing
         /\ \A n \in 0..Len(lines) : Reading(lines)[n] \in Readers
         /\ \A n \in 0..(Len(lines) - 1) :
              Reading(lines)[n + 1] = Line(Reading(lines)[n], lines[n + 1])
<1> DEFINE N == Len(lines)
           Reads(h) == h = [n \in 0..N |-> IF n = 0 THEN Nothing ELSE Line(h[n - 1], lines[n])]
           F == [p \in (1..N) \X Readers |-> Line(p[2], lines[p[1]])]
<1>1. N \in Nat /\ \A n \in 1..N : lines[n] \in Seq(Characters)
  OBVIOUS
<1>2. Nothing \in Readers
  BY DEF Nothing, Readers
<1>3. F \in [(1..N) \X Readers -> Readers]
  <2>1. ASSUME NEW p \in (1..N) \X Readers PROVE Line(p[2], lines[p[1]]) \in Readers
    BY <1>1, LineTyped
  <2> QED
    BY <2>1
<1>4. \A n \in 1..N : \A r \in Readers : F[<<n, r>>] = Line(r, lines[n])
  OBVIOUS
<1> HIDE DEF F, N
<1>5. PICK g \in [0..N -> Readers] : Follows(g, Nothing, F, N)
  BY <1>1, <1>2, <1>3, Recursion, Zenon
<1>6. \A n \in 0..N : g[n] = IF n = 0 THEN Nothing ELSE Line(g[n - 1], lines[n])
  <2> SUFFICES ASSUME NEW n \in 0..N, n # 0 PROVE g[n] = Line(g[n - 1], lines[n])
    BY <1>5 DEF Follows
  <2>1. n \in 1..N /\ n - 1 \in 0..N
    BY <1>1
  <2>2. g[n - 1] \in Readers
    BY <2>1
  <2> QED
    BY <1>4, <1>5, <2>1, <2>2 DEF Follows
<1>7. Reads(g)
  BY <1>6
<1>8. Reading(lines) = CHOOSE h : Reads(h)
  BY DEF Reading, N
<1> DEFINE h == Reading(lines)
<1>9. Reads(h)
  BY <1>7, <1>8
<1> HIDE DEF h
<1>10. \A n \in 0..N : h[n] = IF n = 0 THEN Nothing ELSE Line(h[n - 1], lines[n])
  BY <1>9
<1>11. h[0] = Nothing
  BY <1>1, <1>10
<1>12. ASSUME NEW n \in 0..(N - 1) PROVE h[n + 1] = Line(h[n], lines[n + 1])
  <2>1. n + 1 \in 0..N /\ n + 1 # 0 /\ (n + 1) - 1 = n
    BY <1>1
  <2> QED
    BY <1>10, <2>1
<1> DEFINE T == {n \in Nat : n <= N => h[n] \in Readers}
<1>13. 0 \in T
  BY <1>2, <1>11
<1>14. ASSUME NEW n \in T PROVE n + 1 \in T
  <2> SUFFICES ASSUME n + 1 <= N PROVE h[n + 1] \in Readers
    OBVIOUS
  <2>1. n \in 0..(N - 1) /\ n + 1 \in 1..N /\ h[n] \in Readers
    BY <1>1
  <2>2. lines[n + 1] \in Seq(Characters)
    BY <1>1, <2>1
  <2> QED
    BY <1>12, <2>1, <2>2, LineTyped
<1> HIDE DEF T
<1>15. T = Nat
  BY <1>13, <1>14, Induction DEF T
<1>16. \A n \in 0..N : h[n] \in Readers
  BY <1>15 DEF T
<1> QED
  BY <1>11, <1>12, <1>16 DEF h, N

LEMMA TextSteps ==
  ASSUME NEW e \in Seq(Seq(Characters))
  PROVE  /\ Texts(e)[0] = <<>>
         /\ \A n \in 0..Len(e) : Texts(e)[n] \in Seq(Chars)
         /\ \A n \in 0..(Len(e) - 1) : Texts(e)[n + 1] = Texts(e)[n] \o Piece(e[n + 1])
<1> DEFINE N == Len(e)
           Tells(h) == h = [n \in 0..N |-> IF n = 0 THEN <<>> ELSE h[n - 1] \o Piece(e[n])]
           F == [p \in (1..N) \X Seq(Chars) |-> p[2] \o Piece(e[p[1]])]
<1>1. N \in Nat /\ \A n \in 1..N : e[n] \in Seq(Characters)
  OBVIOUS
<1>2. <<>> \in Seq(Chars)
  OBVIOUS
<1>3. \A n \in 1..N : Piece(e[n]) \in Seq(Chars)
  BY <1>1, PieceTyped
<1>4. F \in [(1..N) \X Seq(Chars) -> Seq(Chars)]
  <2>1. ASSUME NEW p \in (1..N) \X Seq(Chars) PROVE p[2] \o Piece(e[p[1]]) \in Seq(Chars)
    BY <1>3
  <2> QED
    BY <2>1
<1>5. \A n \in 1..N : \A t \in Seq(Chars) : F[<<n, t>>] = t \o Piece(e[n])
  OBVIOUS
<1> HIDE DEF F, N
<1>6. PICK g \in [0..N -> Seq(Chars)] : Follows(g, <<>>, F, N)
  BY <1>1, <1>2, <1>4, Recursion, Zenon
<1>7. \A n \in 0..N : g[n] = IF n = 0 THEN <<>> ELSE g[n - 1] \o Piece(e[n])
  <2> SUFFICES ASSUME NEW n \in 0..N, n # 0 PROVE g[n] = g[n - 1] \o Piece(e[n])
    BY <1>6 DEF Follows
  <2>1. n \in 1..N /\ n - 1 \in 0..N
    BY <1>1
  <2>2. g[n - 1] \in Seq(Chars)
    BY <2>1
  <2> QED
    BY <1>5, <1>6, <2>1, <2>2 DEF Follows
<1>8. Tells(g)
  BY <1>7
<1>9. Texts(e) = CHOOSE h : Tells(h)
  BY DEF Texts, N
<1> DEFINE h == Texts(e)
<1>10. Tells(h)
  BY <1>8, <1>9
<1> HIDE DEF h
<1>11. \A n \in 0..N : h[n] = IF n = 0 THEN <<>> ELSE h[n - 1] \o Piece(e[n])
  BY <1>10
<1>12. h[0] = <<>>
  BY <1>1, <1>11
<1>13. ASSUME NEW n \in 0..(N - 1) PROVE h[n + 1] = h[n] \o Piece(e[n + 1])
  <2>1. n + 1 \in 0..N /\ n + 1 # 0 /\ (n + 1) - 1 = n
    BY <1>1
  <2> QED
    BY <1>11, <2>1
<1> DEFINE T == {n \in Nat : n <= N => h[n] \in Seq(Chars)}
<1>14. 0 \in T
  BY <1>2, <1>12
<1>15. ASSUME NEW n \in T PROVE n + 1 \in T
  <2> SUFFICES ASSUME n + 1 <= N PROVE h[n + 1] \in Seq(Chars)
    OBVIOUS
  <2>1. n \in 0..(N - 1) /\ n + 1 \in 1..N /\ h[n] \in Seq(Chars)
    BY <1>1
  <2>2. h[n] \o Piece(e[n + 1]) \in Seq(Chars)
    BY <1>3, <2>1
  <2> QED
    BY <1>13, <2>1, <2>2
<1> HIDE DEF T
<1>16. T = Nat
  BY <1>14, <1>15, Induction DEF T
<1>17. \A n \in 0..N : h[n] \in Seq(Chars)
  BY <1>16 DEF T
<1> QED
  BY <1>12, <1>13, <1>17 DEF h, N

-----------------------------------------------------------------------------
(* The text of an event *)

TextOf(event) == Texts(event)[Len(event)]

LEMMA TextEmpty == TextOf(<<>>) = <<>>
<1>1. <<>> \in Seq(Seq(Characters)) /\ Len(<<>>) = 0
  OBVIOUS
<1>2. Texts(<<>>)[0] = <<>>
  BY <1>1, TextSteps
<1> QED
  BY <1>1, <1>2 DEF TextOf

LEMMA TextMore ==
  ASSUME NEW e \in Seq(Seq(Characters)), NEW line \in Seq(Characters)
  PROVE  /\ TextOf(e) \in Seq(Chars)
         /\ TextOf(Append(e, line)) = TextOf(e) \o Piece(line)
<1> DEFINE k == Append(e, line)
           u == Texts(e)
           v == Texts(k)
           T == {n \in Nat : n <= Len(e) => u[n] = v[n]}
<1>1. /\ k \in Seq(Seq(Characters)) /\ Len(k) = Len(e) + 1 /\ k[Len(e) + 1] = line
      /\ Len(e) \in Nat /\ \A n \in 1..Len(e) : k[n] = e[n]
  OBVIOUS
<1> HIDE DEF k
<1>2. /\ u[0] = <<>> /\ \A n \in 0..Len(e) : u[n] \in Seq(Chars)
      /\ \A n \in 0..(Len(e) - 1) : u[n + 1] = u[n] \o Piece(e[n + 1])
  BY TextSteps
<1>3. v[0] = <<>> /\ \A n \in 0..(Len(k) - 1) : v[n + 1] = v[n] \o Piece(k[n + 1])
  BY <1>1, TextSteps
<1> HIDE DEF u, v
<1>4. 0 \in T
  BY <1>2, <1>3
<1>5. ASSUME NEW n \in T PROVE n + 1 \in T
  <2> SUFFICES ASSUME n + 1 <= Len(e) PROVE u[n + 1] = v[n + 1]
    OBVIOUS
  <2>1. u[n] = v[n] /\ n \in 0..(Len(e) - 1) /\ n \in 0..(Len(k) - 1) /\ n + 1 \in 1..Len(e)
    BY <1>1
  <2>2. u[n + 1] = u[n] \o Piece(e[n + 1]) /\ v[n + 1] = v[n] \o Piece(k[n + 1])
    BY <1>2, <1>3, <2>1
  <2>3. k[n + 1] = e[n + 1]
    BY <1>1, <2>1
  <2> QED
    BY <2>1, <2>2, <2>3, Zenon
<1> HIDE DEF T
<1>6. T = Nat
  BY <1>4, <1>5, Induction DEF T
<1>7. u[Len(e)] = v[Len(e)] /\ Len(e) \in 0..(Len(k) - 1) /\ Len(e) \in 0..Len(e)
  BY <1>1, <1>6 DEF T
<1>8. v[Len(e) + 1] = u[Len(e)] \o Piece(line)
  <2>1. v[Len(e) + 1] = v[Len(e)] \o Piece(k[Len(e) + 1])
    BY <1>3, <1>7
  <2> QED
    BY <1>1, <1>7, <2>1, Zenon
<1>9. TextOf(k) = v[Len(e) + 1]
  BY <1>1, Zenon DEF TextOf, v
<1>10. TextOf(e) = u[Len(e)] /\ u[Len(e)] \in Seq(Chars)
  BY <1>2, <1>7 DEF TextOf, u
<1>11. TextOf(k) = TextOf(e) \o Piece(line)
  BY <1>8, <1>9, <1>10, Zenon
<1> QED
  BY <1>10, <1>11, Zenon DEF k

\* A blank line begins an event, any other line belongs to the one before it.
LEMMA EventGrows ==
  ASSUME NEW S, NEW lines \in Seq(S), NEW i \in 1..Len(lines)
  PROVE  /\ EventBefore(lines, i) \in Seq(S)
         /\ Blank(lines, i) => EventBefore(lines, i + 1) = <<>>
         /\ ~Blank(lines, i) => EventBefore(lines, i + 1) = Append(EventBefore(lines, i), lines[i])
<1> DEFINE P == {0} \cup {j \in 1..(i - 1) : Blank(lines, j)}
           Q == {0} \cup {j \in 1..i : Blank(lines, j)}
<1>1. P \in SUBSET (0..(i - 1)) /\ P # {} /\ Q \in SUBSET (0..i) /\ Q # {}
  OBVIOUS
<1>2. ~Blank(lines, i) => Q = P
  OBVIOUS
<1>3. Blank(lines, i) => i \in Q
  OBVIOUS
<1>4. (i + 1) - 1 = i /\ i \in Nat /\ i - 1 \in Nat /\ Len(lines) \in Nat
  OBVIOUS
<1>5. /\ EventBefore(lines, i) = SubSeq(lines, Last(P) + 1, i - 1)
      /\ EventBefore(lines, i + 1) = SubSeq(lines, Last(Q) + 1, i)
  BY <1>4 DEF EventBefore
<1> HIDE DEF P, Q
<1>6. Last(P) \in 0..(i - 1)
  BY <1>1, <1>4, LastIs
<1>7. EventBefore(lines, i) \in Seq(S)
  BY <1>4, <1>5, <1>6
<1>8. CASE Blank(lines, i)
  <2>1. Last(Q) \in 0..i /\ Last(Q) >= i
    BY <1>1, <1>3, <1>4, <1>8, LastIs
  <2>2. Last(Q) = i
    BY <1>4, <2>1
  <2>3. SubSeq(lines, i + 1, i) = <<>>
    BY <1>4
  <2> QED
    BY <1>5, <1>7, <1>8, <2>2, <2>3
<1>9. CASE ~Blank(lines, i)
  <2> DEFINE b == Last(P)
             e == SubSeq(lines, b + 1, i - 1)
             d == SubSeq(lines, b + 1, i)
             a == Append(e, lines[i])
  <2>1. b \in 0..(i - 1) /\ b \in Nat
    BY <1>4, <1>6
  <2> HIDE DEF b
  <2>2. e \in Seq(S) /\ Len(e) = (i - 1) - b /\ \A j \in 1..Len(e) : e[j] = lines[b + j]
    BY <1>4, <2>1
  <2>3. d \in Seq(S) /\ Len(d) = i - b /\ \A j \in 1..Len(d) : d[j] = lines[b + j]
    BY <1>4, <2>1
  <2>4. a \in Seq(S) /\ Len(a) = i - b /\ a[i - b] = lines[i] /\ \A j \in 1..Len(e) : a[j] = e[j]
    <3> HIDE DEF e
    <3>1. lines[i] \in S
      OBVIOUS
    <3> QED
      BY <1>4, <2>1, <2>2, <3>1
  <2> HIDE DEF a, d, e
  <2>5. ASSUME NEW j \in 1..Len(d) PROVE d[j] = a[j]
    <3>1. CASE j = i - b
      BY <1>4, <2>1, <2>3, <2>4, <3>1
    <3>2. CASE j # i - b
      <4>1. j \in 1..Len(e)
        BY <1>4, <2>1, <2>2, <2>3, <3>2
      <4> QED
        BY <2>2, <2>3, <2>4, <4>1
    <3> QED
      BY <3>1, <3>2
  <2>6. d = a
    BY <2>3, <2>4, <2>5
  <2>7. EventBefore(lines, i) = e /\ EventBefore(lines, i + 1) = d
    BY <1>2, <1>5, <1>9 DEF b, d, e
  <2> QED
    BY <1>7, <1>9, <2>6, <2>7 DEF a
<1> QED
  BY <1>8, <1>9

LEMMA EventFirst ==
  ASSUME NEW S, NEW lines \in Seq(S)
  PROVE  EventBefore(lines, 1) = <<>>
<1> DEFINE P == {0} \cup {j \in 1..(1 - 1) : Blank(lines, j)}
<1>1. P \in SUBSET (0..0) /\ P # {}
  OBVIOUS
<1>2. EventBefore(lines, 1) = SubSeq(lines, Last(P) + 1, 0)
  BY DEF EventBefore
<1> HIDE DEF P
<1>3. Last(P) \in P
  <2>1. 0 \in Nat
    OBVIOUS
  <2> QED
    BY <1>1, <2>1, LastIs
<1>4. Last(P) = 0
  <2> DEFINE i == Last(P)
  <2>1. i \in 0..0
    BY <1>1, <1>3
  <2> HIDE DEF i
  <2>2. i = 0
    BY <2>1
  <2> QED
    BY <2>2 DEF i
<1> QED
  BY <1>2, <1>4

-----------------------------------------------------------------------------
(* The payload is the text but for the empty lines before it *)

Behind(text, data) ==
  /\ Len(data) <= Len(text)
  /\ \A i \in 1..(Len(text) - Len(data)) : text[i] = NewLine
  /\ \A i \in 1..Len(data) : text[Len(text) - Len(data) + i] = data[i]

LEMMA BehindTrimmed ==
  ASSUME NEW C, NEW t \in Seq(C), NEW d \in Seq(C), Behind(t, d)
  PROVE  TrimSpace(t) = TrimSpace(d)
<1> DEFINE m == Len(t) - Len(d)
<1>1. m \in Nat /\ Len(t) \in Nat /\ Len(d) \in Nat /\ Len(t) = Len(d) + m
  BY DEF Behind
<1>2. /\ \A i \in 1..m : t[i] = NewLine
      /\ \A i \in 1..Len(d) : t[m + i] = d[i]
  BY DEF Behind
<1> HIDE DEF m
<1>3. ASSUME NEW i \in Shown(d) PROVE m + i \in Shown(t)
  BY <1>1, <1>2 DEF Shown
<1>4. ASSUME NEW i \in Shown(t) PROVE i - m \in Shown(d) /\ i > m
  <2>1. i \in 1..Len(t) /\ t[i] \notin {Space, NewLine}
    BY DEF Shown
  <2>2. i > m
    BY <1>1, <1>2, <2>1
  <2>3. i - m \in 1..Len(d) /\ m + (i - m) = i
    BY <1>1, <2>1, <2>2
  <2>4. t[i] = d[i - m]
    BY <1>2, <2>3
  <2> QED
    BY <2>1, <2>2, <2>3, <2>4 DEF Shown
<1>5. CASE Shown(d) = {}
  BY <1>4, <1>5 DEF TrimSpace
<1>6. CASE Shown(d) # {}
  <2> DEFINE a == First(Shown(d))
             b == Last(Shown(d))
  <2>1. /\ Shown(d) \in SUBSET (0..Len(d)) /\ Shown(t) \in SUBSET (0..Len(t))
        /\ Shown(d) \in SUBSET Nat /\ Shown(t) \in SUBSET Nat
        /\ Shown(d) \in SUBSET (1..Len(d))
    BY <1>1 DEF Shown
  <2>2. Shown(t) # {}
    BY <1>3, <1>6
  <2>3. a \in Shown(d) /\ b \in Shown(d) /\ \A i \in Shown(d) : a <= i /\ b >= i
    BY <1>1, <1>6, <2>1, FirstIs, LastIs
  <2>4. /\ First(Shown(t)) \in Shown(t) /\ Last(Shown(t)) \in Shown(t)
        /\ \A i \in Shown(t) : First(Shown(t)) <= i /\ Last(Shown(t)) >= i
    BY <1>1, <2>1, <2>2, FirstIs, LastIs
  <2>5. a \in 1..Len(d) /\ b \in 1..Len(d)
    BY <2>1, <2>3
  <2> HIDE DEF a, b
  <2>6. First(Shown(t)) = m + a
    <3>1. First(Shown(t)) <= m + a
      BY <1>3, <2>3, <2>4
    <3>2. a <= First(Shown(t)) - m
      BY <1>4, <2>3, <2>4
    <3>3. First(Shown(t)) \in Nat
      BY <2>1, <2>4
    <3> QED
      BY <1>1, <2>5, <3>1, <3>2, <3>3
  <2>7. Last(Shown(t)) = m + b
    <3>1. Last(Shown(t)) >= m + b
      BY <1>3, <2>3, <2>4
    <3>2. b >= Last(Shown(t)) - m
      BY <1>4, <2>3, <2>4
    <3>3. Last(Shown(t)) \in Nat
      BY <2>1, <2>4
    <3> QED
      BY <1>1, <2>5, <3>1, <3>2, <3>3
  <2> DEFINE x == SubSeq(t, m + a, m + b)
             y == SubSeq(d, a, b)
  <2>8. a <= b
    BY <2>3
  <2>9. x \in Seq(C) /\ Len(x) = (b - a) + 1 /\ \A i \in 1..Len(x) : x[i] = t[(m + a) + i - 1]
    BY <1>1, <2>5, <2>8
  <2>10. y \in Seq(C) /\ Len(y) = (b - a) + 1 /\ \A i \in 1..Len(y) : y[i] = d[a + i - 1]
    BY <1>1, <2>5, <2>8
  <2>11. ASSUME NEW i \in 1..Len(x) PROVE x[i] = y[i]
    <3> HIDE DEF x, y
    <3>3. i \in 1..((b - a) + 1)
      BY <2>9
    <3>1. a + i - 1 \in 1..Len(d) /\ (m + a) + i - 1 = m + (a + i - 1)
      BY <1>1, <2>5, <3>3
    <3>2. x[i] = t[m + (a + i - 1)] /\ y[i] = d[a + i - 1]
      BY <2>9, <2>10, <3>1
    <3> QED
      BY <1>2, <3>1, <3>2
  <2> HIDE DEF x, y
  <2>12. x = y
    BY <2>9, <2>10, <2>11
  <2>13. TrimSpace(t) = x /\ TrimSpace(d) = y
    BY <1>6, <2>2, <2>6, <2>7 DEF TrimSpace, x, y, a, b
  <2> QED
    BY <2>12, <2>13
<1> QED
  BY <1>5, <1>6

\* One data line more.
LEMMA BehindJoined ==
  ASSUME NEW C, NewLine \in C, NEW t \in Seq(C), NEW d \in Seq(C), NEW v \in Seq(C), Behind(t, d)
  PROVE  Behind(t \o (<<NewLine>> \o v), Join(d, v))
<1> DEFINE nl == <<NewLine>>
           p == nl \o v
           x == Joined(t, p)
           y == Join(d, v)
<1>1. Len(t) \in Nat /\ Len(d) \in Nat /\ Len(v) \in Nat /\ Len(d) <= Len(t)
  BY DEF Behind
<1>2. /\ p \in Seq(C) /\ Len(p) = Len(v) + 1 /\ p[1] = NewLine
      /\ \A i \in 1..Len(v) : p[1 + i] = v[i]
  OBVIOUS
<1> HIDE DEF p
<1>3. /\ Len(x) = Len(t) + 1 + Len(v)
      /\ \A i \in 1..Len(t) : x[i] = t[i]
      /\ \A i \in 1..Len(p) : x[Len(t) + i] = p[i]
  <2> HIDE DEF x
  <2>1. Len(x) = Len(t) + Len(p)
    BY <1>2, JoinedIs DEF x
  <2>2. \A i \in 1..Len(t) : x[i] = t[i]
    BY <1>2, JoinedIs DEF x
  <2>3. ASSUME NEW i \in 1..Len(p) PROVE x[Len(t) + i] = p[i]
    <3>1. p \in Seq(C)
      BY <1>2
    <3>2. \A j \in 1..Len(p) : Joined(t, p)[Len(t) + j] = p[j]
      BY <3>1, JoinedIs
    <3> QED
      BY <3>2 DEF x
  <2> QED
    BY <1>1, <1>2, <2>1, <2>2, <2>3
<1> HIDE DEF x
<1>4. x[Len(t) + 1] = NewLine
  BY <1>1, <1>2, <1>3
<1>5. ASSUME NEW i \in 1..Len(v) PROVE x[(Len(t) + 1) + i] = v[i]
  <2>1. 1 + i \in 1..Len(p) /\ Len(t) + (1 + i) = (Len(t) + 1) + i
    BY <1>1, <1>2
  <2> QED
    BY <1>2, <1>3, <2>1
<1>6. CASE d = <<>>
  <2>1. y = v
    BY <1>6 DEF Join
  <2>2. Len(d) = 0
    BY <1>6
  <2>3. \A i \in 1..Len(t) : t[i] = NewLine
    BY <1>1, <2>2 DEF Behind
  <2>4. \A i \in 1..(Len(t) + 1) : x[i] = NewLine
    BY <1>1, <1>3, <1>4, <2>3
  <2>5. Len(x) - Len(v) = Len(t) + 1 /\ Len(v) <= Len(x)
    BY <1>1, <1>3
  <2>6. Behind(x, v)
    BY <1>5, <2>4, <2>5 DEF Behind
  <2> QED
    BY <2>1, <2>6, Zenon DEF x, p, y, nl, Joined
<1>7. CASE d # <<>>
  <2> DEFINE q == d \o nl
             z == Joined(q, v)
             m == Len(t) - Len(d)
  <2>1. y = z
    BY <1>7, Zenon DEF Join, Joined
  <2>2. /\ q \in Seq(C) /\ Len(q) = Len(d) + 1 /\ q[Len(d) + 1] = NewLine
        /\ \A i \in 1..Len(d) : q[i] = d[i]
    BY <1>1
  <2> HIDE DEF q
  <2>3. /\ Len(z) = Len(d) + 1 + Len(v)
        /\ \A i \in 1..Len(q) : z[i] = q[i]
        /\ \A i \in 1..Len(v) : z[Len(q) + i] = v[i]
    <3> HIDE DEF z
    <3>1. Len(z) = Len(q) + Len(v)
      BY <2>2, JoinedIs DEF z
    <3>2. \A i \in 1..Len(q) : z[i] = q[i]
      BY <2>2, JoinedIs DEF z
    <3>3. ASSUME NEW i \in 1..Len(v) PROVE z[Len(q) + i] = v[i]
      <4>1. q \in Seq(C)
        BY <2>2
      <4>2. \A j \in 1..Len(v) : Joined(q, v)[Len(q) + j] = v[j]
        BY <4>1, JoinedIs
      <4> QED
        BY <4>2 DEF z
    <3> QED
      BY <1>1, <2>2, <3>1, <3>2, <3>3
  <2> HIDE DEF z
  <2>4. Len(x) - Len(z) = m /\ Len(z) <= Len(x) /\ m \in Nat /\ m + Len(d) = Len(t)
    BY <1>1, <1>3, <2>3
  <2>5. /\ \A i \in 1..m : t[i] = NewLine
        /\ \A i \in 1..Len(d) : t[m + i] = d[i]
    BY DEF Behind
  <2> HIDE DEF m
  <2>6. \A i \in 1..m : x[i] = NewLine
    BY <1>1, <1>3, <2>4, <2>5
  <2>7. ASSUME NEW i \in 1..Len(z) PROVE x[m + i] = z[i]
    <3>1. CASE i <= Len(d)
      <4>1. i \in 1..Len(d) /\ i \in 1..Len(q) /\ m + i \in 1..Len(t)
        BY <1>1, <2>2, <2>3, <2>4, <3>1
      <4> QED
        BY <1>3, <2>2, <2>3, <2>5, <4>1
    <3>2. CASE i = Len(d) + 1
      <4>1. i \in 1..Len(q)
        BY <1>1, <2>2, <3>2
      <4>2. m + i = Len(t) + 1
        BY <1>1, <2>4, <3>2
      <4> QED
        BY <1>4, <2>2, <2>3, <3>2, <4>1, <4>2
    <3>3. CASE i > Len(d) + 1
      <4> DEFINE j == i - (Len(d) + 1)
      <4>1. j \in 1..Len(v)
        BY <1>1, <2>3, <3>3
      <4>2. i = Len(q) + j
        BY <1>1, <2>2, <3>3
      <4>3. m + i = (Len(t) + 1) + j
        BY <1>1, <2>4, <3>3
      <4> HIDE DEF j
      <4>4. x[m + i] = v[j] /\ z[i] = v[j]
        BY <1>5, <2>3, <4>1, <4>2, <4>3
      <4> QED
        BY <4>4
    <3> QED
      BY <1>1, <2>3, <3>1, <3>2, <3>3
  <2>8. Behind(x, z)
    BY <2>4, <2>6, <2>7 DEF Behind
  <2> QED
    BY <2>1, <2>8, Zenon DEF x, p, y, nl, Joined
<1> QED
  BY <1>6, <1>7

-----------------------------------------------------------------------------
(* What drainStream keeps, payload by payload *)

FramesOf(r) == NonEmpty(Trimmed(r.payloads))

LEMMA NonEmptyAppend ==
  ASSUME NEW S, NEW all \in Seq(S), NEW x \in S
  PROVE  NonEmpty(Append(all, x)) = IF x # <<>> THEN Append(NonEmpty(all), x) ELSE NonEmpty(all)
<1> DEFINE more == Append(all, x)
           K == {i \in 1..Len(all) : all[i] # <<>>}
           L == {i \in 1..Len(more) : more[i] # <<>>}
<1>1. /\ Len(more) = Len(all) + 1 /\ more[Len(all) + 1] = x /\ Len(all) \in Nat
      /\ \A i \in 1..Len(all) : more[i] = all[i]
  OBVIOUS
<1>2. NonEmpty(more) = Selected(more, L) /\ NonEmpty(all) = Selected(all, K)
  BY DEF NonEmpty
<1> HIDE DEF more
<1>3. \A i \in 1..Len(all) : i \in K <=> i \in L
  BY <1>1
<1>4. Len(all) + 1 \in L <=> x # <<>>
  BY <1>1
<1> HIDE DEF K, L
<1>5. Selected(Append(all, x), L) = IF Len(all) + 1 \in L THEN Append(Selected(all, K), x)
                                    ELSE Selected(all, K)
  BY <1>3, SelectedAppend
<1> QED
  BY <1>2, <1>4, <1>5, Zenon DEF more

LEMMA TrimmedAppend ==
  ASSUME NEW ps \in Seq(Seq(Chars)), NEW d \in Seq(Chars)
  PROVE  /\ Trimmed(ps) \in Seq(Seq(Chars)) /\ TrimSpace(d) \in Seq(Chars)
         /\ Trimmed(Append(ps, d)) = Append(Trimmed(ps), TrimSpace(d))
<1> DEFINE more == Append(ps, d)
           u == Trimmed(more)
           w == Trimmed(ps)
           v == Append(w, TrimSpace(d))
<1>1. /\ more \in Seq(Seq(Chars)) /\ Len(more) = Len(ps) + 1 /\ more[Len(ps) + 1] = d
      /\ Len(ps) \in Nat /\ \A i \in 1..Len(ps) : more[i] = ps[i] /\ ps[i] \in Seq(Chars)
  OBVIOUS
<1>2. TrimSpace(d) \in Seq(Chars) /\ \A i \in 1..Len(ps) : TrimSpace(ps[i]) \in Seq(Chars)
  BY <1>1, TrimTyped
<1> HIDE DEF more
<1>3. w \in Seq(Seq(Chars)) /\ Len(w) = Len(ps) /\ \A i \in 1..Len(ps) : w[i] = TrimSpace(ps[i])
  BY <1>1, <1>2 DEF Trimmed
<1>4. /\ u = [i \in 1..Len(more) |-> TrimSpace(more[i])]
      /\ \A i \in 1..Len(more) : TrimSpace(more[i]) \in Seq(Chars)
  <2>1. \A i \in 1..Len(more) : more[i] \in Seq(Chars)
    BY <1>1
  <2> QED
    BY <2>1, TrimTyped DEF Trimmed
<1>5. u \in Seq(Seq(Chars)) /\ Len(u) = Len(more) /\ \A i \in 1..Len(more) : u[i] = TrimSpace(more[i])
  <2> HIDE DEF u
  <2> QED
    BY <1>1, <1>4
<1> HIDE DEF u, w
<1>6. /\ v \in Seq(Seq(Chars)) /\ Len(v) = Len(ps) + 1 /\ v[Len(ps) + 1] = TrimSpace(d)
      /\ \A i \in 1..Len(ps) : v[i] = w[i]
  BY <1>1, <1>2, <1>3
<1> HIDE DEF v
<1>7. ASSUME NEW i \in 1..Len(u) PROVE u[i] = v[i]
  <2>1. CASE i \in 1..Len(ps)
    BY <1>1, <1>3, <1>5, <1>6, <2>1
  <2>2. CASE i = Len(ps) + 1
    BY <1>1, <1>5, <1>6, <2>2
  <2> QED
    BY <1>1, <1>5, <2>1, <2>2
<1>8. u = v
  BY <1>1, <1>5, <1>6, <1>7, SeqEqual
<1> QED
  BY <1>2, <1>3, <1>8 DEF u, v, w, more

\* The end of an event keeps what it carries unless that is blank.
LEMMA YieldKeeps ==
  ASSUME NEW r \in Readers
  PROVE  /\ Yield(r).data = <<>>
         /\ FramesOf(Yield(r)) = IF TrimSpace(r.data) # <<>> THEN Append(FramesOf(r), TrimSpace(r.data))
                                 ELSE FramesOf(r)
<1> DEFINE d == r.data
           ps == r.payloads
<1>1. d \in Seq(Chars) /\ ps \in Seq(Seq(Chars))
  BY DEF Readers
<1>2. CASE d = <<>>
  <2>1. Yield(r) = r
    BY <1>2 DEF Yield
  <2>2. Shown(<<>>) = {}
    BY DEF Shown
  <2>3. TrimSpace(d) = <<>>
    BY <1>2, <2>2, Zenon DEF TrimSpace
  <2> QED
    BY <1>2, <2>1, <2>3, Zenon
<1>3. CASE d # <<>>
  <2> DEFINE more == Append(ps, d)
  <2>1. Yield(r).data = <<>> /\ Yield(r).payloads = more
    BY <1>3 DEF Yield
  <2> HIDE DEF d, ps
  <2>2. Trimmed(ps) \in Seq(Seq(Chars)) /\ TrimSpace(d) \in Seq(Chars)
    BY <1>1, TrimmedAppend
  <2>3. Trimmed(more) = Append(Trimmed(ps), TrimSpace(d))
    BY <1>1, TrimmedAppend
  <2>4. NonEmpty(Append(Trimmed(ps), TrimSpace(d)))
          = IF TrimSpace(d) # <<>> THEN Append(NonEmpty(Trimmed(ps)), TrimSpace(d))
            ELSE NonEmpty(Trimmed(ps))
    BY <2>2, NonEmptyAppend
  <2>5. FramesOf(Yield(r)) = NonEmpty(Append(Trimmed(ps), TrimSpace(d)))
    BY <2>1, <2>3, Zenon DEF FramesOf
  <2> QED
    BY <2>1, <2>4, <2>5, Zenon DEF FramesOf, d, ps
<1> QED
  BY <1>2, <1>3

-----------------------------------------------------------------------------
(* The two readings of a stream, line by line *)

Ended(lines) ==
  [i \in 1..(Len(lines) + 1) |->
     IF EndsEvent(lines, i) THEN Carried(EventBefore(lines, i)) ELSE <<>>]
Held(lines) == UpTo(Ended(lines), {i \in 1..Len(Ended(lines)) : Ended(lines)[i] # <<>>})

Keeps(lines, n) ==
  /\ Behind(TextOf(EventBefore(lines, n + 1)), Reading(lines)[n].data)
  /\ FramesOf(Reading(lines)[n]) = Held(lines)[n]

LEMMA EventTyped ==
  ASSUME NEW lines \in Seq(Seq(Characters)), NEW i \in 1..(Len(lines) + 1)
  PROVE  /\ EventBefore(lines, i) \in Seq(Seq(Characters))
         /\ TextOf(EventBefore(lines, i)) \in Seq(Chars)
         /\ Carried(EventBefore(lines, i)) \in Seq(Chars)
<1> DEFINE e == EventBefore(lines, i)
<1>1. Len(lines) \in Nat
  OBVIOUS
<1>2. e \in Seq(Seq(Characters))
  <2>1. CASE i = 1
    <3>1. e = <<>>
      BY <2>1, EventFirst
    <3> HIDE DEF e
    <3> QED
      BY <3>1
  <2>2. CASE i # 1
    <3> DEFINE j == i - 1
    <3>1. j \in 1..Len(lines) /\ j + 1 = i /\ lines[j] \in Seq(Characters)
      BY <1>1, <2>2
    <3> HIDE DEF j
    <3>2. /\ EventBefore(lines, j) \in Seq(Seq(Characters))
          /\ Blank(lines, j) => e = <<>>
          /\ ~Blank(lines, j) => e = Append(EventBefore(lines, j), lines[j])
      BY <3>1, EventGrows
    <3> HIDE DEF e
    <3>3. <<>> \in Seq(Seq(Characters))
      OBVIOUS
    <3>4. Append(EventBefore(lines, j), lines[j]) \in Seq(Seq(Characters))
      BY <3>1, <3>2
    <3> QED
      BY <3>2, <3>3, <3>4, Zenon
  <2> QED
    BY <2>1, <2>2
<1> HIDE DEF e
<1>3. Texts(e)[Len(e)] \in Seq(Chars)
  <2>1. Len(e) \in 0..Len(e)
    BY <1>2
  <2> QED
    BY <1>2, <2>1, TextSteps
<1>4. Carried(e) \in Seq(Chars)
  BY <1>3, TrimTyped DEF Carried
<1> QED
  BY <1>2, <1>3, <1>4 DEF TextOf, e

LEMMA HeldSteps ==
  ASSUME NEW lines \in Seq(Seq(Characters))
  PROVE  /\ Held(lines)[0] = <<>>
         /\ Promised(lines) = Held(lines)[Len(lines) + 1]
         /\ \A n \in 0..Len(lines) :
              Held(lines)[n + 1] = IF Ended(lines)[n + 1] # <<>>
                                   THEN Append(Held(lines)[n], Ended(lines)[n + 1])
                                   ELSE Held(lines)[n]
<1> DEFINE E == Ended(lines)
           K == {i \in 1..Len(E) : E[i] # <<>>}
           h == UpTo(E, K)
<1>1. Len(lines) \in Nat
  OBVIOUS
<1>2. \A i \in 1..(Len(lines) + 1) : Carried(EventBefore(lines, i)) \in Seq(Chars)
  BY EventTyped
<1>3. E \in Seq(Seq(Chars)) /\ Len(E) = Len(lines) + 1
  BY <1>1, <1>2 DEF Ended
<1>4. Promised(lines) = Selected(E, K)
  BY DEF Promised, NonEmpty, Ended
<1>5. Held(lines) = h
  BY DEF Held
<1> HIDE DEF E, K
<1>6. /\ h[0] = <<>>
      /\ \A n \in 0..(Len(E) - 1) :
           h[n + 1] = IF n + 1 \in K THEN Append(h[n], E[n + 1]) ELSE h[n]
  <2> DEFINE S == Seq(Chars)
  <2>1. E \in Seq(S)
    BY <1>3
  <2> HIDE DEF S
  <2>2. /\ UpTo(E, K)[0] = <<>>
        /\ \A n \in 0..(Len(E) - 1) :
             UpTo(E, K)[n + 1] = IF n + 1 \in K THEN Append(UpTo(E, K)[n], E[n + 1])
                                 ELSE UpTo(E, K)[n]
    BY <2>1, UpToSteps
  <2> QED
    BY <2>2
<1>7. Promised(lines) = h[Len(lines) + 1]
  BY <1>3, <1>4 DEF Selected
<1> HIDE DEF h
<1>8. ASSUME NEW n \in 0..Len(lines)
      PROVE  h[n + 1] = IF E[n + 1] # <<>> THEN Append(h[n], E[n + 1]) ELSE h[n]
  <2>1. n \in 0..(Len(E) - 1) /\ n + 1 \in 1..Len(E)
    BY <1>1, <1>3
  <2>2. n + 1 \in K <=> E[n + 1] # <<>>
    BY <2>1 DEF K
  <2> QED
    BY <1>6, <2>1, <2>2
<1> QED
  BY <1>5, <1>6, <1>7, <1>8 DEF E

\* The reader yields at the end of an event what the event carries.
LEMMA YieldHeld ==
  ASSUME NEW lines \in Seq(Seq(Characters)), NEW n \in 0..Len(lines),
         EndsEvent(lines, n + 1), Keeps(lines, n)
  PROVE  FramesOf(Yield(Reading(lines)[n])) = Held(lines)[n + 1]
<1> DEFINE r == Reading(lines)[n]
           t == TextOf(EventBefore(lines, n + 1))
<1>1. r \in Readers
  BY ReadingSteps
<1>2. n + 1 \in 1..(Len(lines) + 1)
  OBVIOUS
<1>3. Ended(lines)[n + 1] = TrimSpace(t)
  BY <1>2 DEF Ended, Carried, TextOf
<1>4. Held(lines)[n + 1] = IF Ended(lines)[n + 1] # <<>>
                           THEN Append(Held(lines)[n], Ended(lines)[n + 1])
                           ELSE Held(lines)[n]
  BY HeldSteps
<1>5. Behind(t, r.data) /\ FramesOf(r) = Held(lines)[n]
  BY DEF Keeps
<1>6. t \in Seq(Chars)
  BY <1>2, EventTyped
<1> HIDE DEF r, t
<1>7. r.data \in Seq(Chars)
  BY <1>1 DEF Readers
<1>8. TrimSpace(t) = TrimSpace(r.data)
  BY <1>5, <1>6, <1>7, BehindTrimmed
<1>9. FramesOf(Yield(r)) = IF TrimSpace(r.data) # <<>> THEN Append(FramesOf(r), TrimSpace(r.data))
                           ELSE FramesOf(r)
  BY <1>1, YieldKeeps
<1>10. Ended(lines)[n + 1] = TrimSpace(r.data)
  BY <1>3, <1>8
<1>11. FramesOf(Yield(r)) = Held(lines)[n + 1]
  <2>1. CASE TrimSpace(r.data) = <<>>
    BY <1>4, <1>5, <1>9, <1>10, <2>1
  <2>2. CASE TrimSpace(r.data) # <<>>
    BY <1>4, <1>5, <1>9, <1>10, <2>2
  <2> QED
    BY <2>1, <2>2
<1> QED
  BY <1>11 DEF r

LEMMA KeepsNext ==
  ASSUME NEW lines \in Seq(Seq(Characters)), NEW n \in 0..(Len(lines) - 1), Keeps(lines, n)
  PROVE  Keeps(lines, n + 1)
<1> DEFINE r == Reading(lines)[n]
           s == Reading(lines)[n + 1]
           l == lines[n + 1]
           e == EventBefore(lines, n + 1)
           f == EventBefore(lines, (n + 1) + 1)
<1>1. /\ Len(lines) \in Nat /\ n \in 0..Len(lines) /\ n + 1 \in 1..Len(lines)
      /\ n + 1 \in 1..(Len(lines) + 1) /\ n + 1 # Len(lines) + 1
  OBVIOUS
<1>2. l \in Seq(Characters)
  BY <1>1
<1>3. r \in Readers /\ s = Line(r, l)
  BY <1>1, ReadingSteps
<1>4. Behind(TextOf(e), r.data) /\ FramesOf(r) = Held(lines)[n]
  BY DEF Keeps
<1>5. /\ e \in Seq(Seq(Characters)) /\ TextOf(e) \in Seq(Chars)
      /\ r.data \in Seq(Chars) /\ Value(l) \in Seq(Chars)
  <2>1. e \in Seq(Seq(Characters)) /\ TextOf(e) \in Seq(Chars)
    BY <1>1, EventTyped
  <2>2. r.data \in Seq(Chars)
    <3> HIDE DEF r
    <3> QED
      BY <1>3 DEF Readers
  <2>3. Value(l) \in Seq(Chars)
    <3> HIDE DEF l
    <3> QED
      BY <1>2, PieceTyped
  <2> QED
    BY <2>1, <2>2, <2>3
<1>6. Blank(lines, n + 1) <=> l = <<>>
  BY <1>1 DEF Blank
<1>7. /\ l = <<>> => f = <<>>
      /\ l # <<>> => f = Append(e, l)
  BY <1>1, <1>6, EventGrows
<1>8. l # <<>> => Held(lines)[n + 1] = Held(lines)[n]
  <2> SUFFICES ASSUME l # <<>> PROVE Held(lines)[n + 1] = Held(lines)[n]
    OBVIOUS
  <2>1. ~EndsEvent(lines, n + 1)
    BY <1>1, <1>6 DEF EndsEvent
  <2>2. Ended(lines)[n + 1] = <<>>
    BY <1>1, <2>1 DEF Ended
  <2>3. Held(lines)[n + 1] = IF Ended(lines)[n + 1] # <<>>
                             THEN Append(Held(lines)[n], Ended(lines)[n + 1])
                             ELSE Held(lines)[n]
    BY <1>1, HeldSteps
  <2> QED
    BY <2>2, <2>3, Zenon
<1>9. EndsEvent(lines, n + 1) => FramesOf(Yield(r)) = Held(lines)[n + 1]
  BY <1>1, YieldHeld
<1>10. Keeps(lines, n + 1) <=> Behind(TextOf(f), s.data) /\ FramesOf(s) = Held(lines)[n + 1]
  BY DEF Keeps
<1> HIDE DEF r, s, l, e, f
<1>11. CASE l = <<>>
  <2>1. s = Yield(r)
    BY <1>3, <1>11 DEF Line
  <2>2. s.data = <<>>
    BY <1>3, <2>1, YieldKeeps
  <2>3. TextOf(f) = <<>>
    BY <1>7, <1>11, TextEmpty
  <2>4. Behind(<<>>, <<>>)
    BY DEF Behind
  <2>5. Behind(TextOf(f), s.data)
    BY <2>2, <2>3, <2>4, Zenon
  <2>6. EndsEvent(lines, n + 1)
    BY <1>6, <1>11 DEF EndsEvent
  <2> QED
    BY <1>9, <1>10, <2>1, <2>5, <2>6, Zenon
<1>12. CASE IsData(l)
  <2>1. l # <<>>
    BY <1>12 DEF IsData
  <2>2. s = [r EXCEPT !.data = Join(@, Value(l))]
    BY <1>3, <1>12, <2>1 DEF Line
  <2>3. s.data = Join(r.data, Value(l)) /\ s.payloads = r.payloads
    BY <1>3, <2>2 DEF Readers
  <2>4. TextOf(f) = TextOf(e) \o Piece(l)
    BY <1>2, <1>5, <1>7, <2>1, TextMore, Zenon
  <2>5. Piece(l) = <<NewLine>> \o Value(l)
    BY <1>12, Zenon DEF Piece
  <2>6. NewLine \in Chars
    BY DEF Chars
  <2>7. Behind(TextOf(e) \o (<<NewLine>> \o Value(l)), Join(r.data, Value(l)))
    BY <1>4, <1>5, <2>6, BehindJoined, Zenon
  <2>8. Behind(TextOf(f), s.data)
    BY <2>3, <2>4, <2>5, <2>7, Zenon
  <2>9. FramesOf(s) = FramesOf(r)
    BY <2>3, Zenon DEF FramesOf
  <2> QED
    BY <1>4, <1>8, <1>10, <2>1, <2>8, <2>9, Zenon
<1>13. CASE l # <<>> /\ ~IsData(l)
  <2>1. s = r
    BY <1>3, <1>13, Zenon DEF Line
  <2>2. TextOf(f) = TextOf(e) \o Piece(l)
    BY <1>2, <1>5, <1>7, <1>13, TextMore, Zenon
  <2>3. Piece(l) = <<>>
    BY <1>13, Zenon DEF Piece
  <2>4. TextOf(e) \o <<>> = TextOf(e)
    BY <1>5
  <2> QED
    BY <1>4, <1>8, <1>10, <1>13, <2>1, <2>2, <2>3, <2>4, Zenon
<1> QED
  BY <1>11, <1>12, <1>13

LEMMA StreamRead ==
  ASSUME NEW lines \in Seq(Seq(Characters))
  PROVE  StreamFrames(lines) = Promised(lines)
<1> DEFINE N == Len(lines)
           T == {n \in Nat : n <= N => Keeps(lines, n)}
<1>1. N \in Nat
  OBVIOUS
<1>2. 0 \in T
  <2>1. Reading(lines)[0] = Nothing
    BY ReadingSteps
  <2>2. EventBefore(lines, 1) = <<>> /\ 0 + 1 = 1
    BY EventFirst
  <2>3. Behind(<<>>, <<>>)
    BY DEF Behind
  <2>4. Nothing.data = <<>> /\ Nothing.payloads = <<>>
    BY DEF Nothing
  <2>5. Behind(TextOf(EventBefore(lines, 0 + 1)), Reading(lines)[0].data)
    BY <2>1, <2>2, <2>3, <2>4, TextEmpty, Zenon
  <2>6. FramesOf(Nothing) = <<>>
    <3>1. Trimmed(<<>>) = <<>>
      BY DEF Trimmed
    <3>2. NonEmpty(<<>>) = <<>>
      BY SelectedEmpty DEF NonEmpty
    <3> QED
      BY <2>4, <3>1, <3>2, Zenon DEF FramesOf
  <2>7. Held(lines)[0] = <<>>
    BY HeldSteps
  <2>8. Keeps(lines, 0)
    BY <2>1, <2>5, <2>6, <2>7, Zenon DEF Keeps
  <2> QED
    BY <2>8
<1>3. ASSUME NEW n \in T PROVE n + 1 \in T
  <2> SUFFICES ASSUME n + 1 <= N PROVE Keeps(lines, n + 1)
    OBVIOUS
  <2>1. n \in 0..(Len(lines) - 1) /\ Keeps(lines, n)
    BY <1>1
  <2> QED
    BY <2>1, KeepsNext
<1> HIDE DEF T
<1>4. T = Nat
  BY <1>2, <1>3, Induction DEF T
<1>5. Keeps(lines, N)
  BY <1>1, <1>4 DEF T
<1>6. EndsEvent(lines, N + 1) /\ N \in 0..Len(lines)
  BY <1>1 DEF EndsEvent
<1>7. FramesOf(Yield(Reading(lines)[N])) = Held(lines)[N + 1]
  BY <1>5, <1>6, YieldHeld
<1>8. StreamFrames(lines) = FramesOf(Yield(Reading(lines)[N]))
  BY DEF StreamFrames, Payloads, FramesOf
<1>9. Promised(lines) = Held(lines)[N + 1]
  BY HeldSteps
<1> QED
  BY <1>7, <1>8, <1>9, Zenon

\* Whatever lines a server sends, in whatever order and wherever the stream breaks
\* off, the frames drainStream takes from it are the texts of its events.
THEOREM StreamsRead == ReadAsPromised
<1> SUFFICES ASSUME NEW lines \in Streams PROVE StreamFrames(lines) = Promised(lines)
  BY DEF ReadAsPromised
<1>1. PICK n \in Nat : lines \in [1..n -> Lines]
  BY StreamAssumption DEF Streams
<1>2. Lines \subseteq Seq(Characters)
  BY StreamAssumption
<1>3. lines \in [1..n -> Seq(Characters)]
  BY <1>1, <1>2
<1>4. lines \in Seq(Seq(Characters))
  BY <1>3
<1> QED
  BY <1>4, StreamRead

\* What every answer that is a stream is read as.
THEOREM EventsAreRead == Spec => []EventsRead
<1>1. EventsRead
  BY StreamsRead, Zenon DEF EventsRead
<1> QED
  BY <1>1, PTL
=============================================================================
