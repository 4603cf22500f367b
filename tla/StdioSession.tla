----------------------------- MODULE StdioSession -----------------------------
(***************************************************************************)
(* A whole session over the stdio transport: the calls and the reader      *)
(* goroutine of src/internal/jsonrpc/client.go, the locks of               *)
(* src/internal/transport/stdio.go, both pipes, and the server loop of     *)
(* src/internal/mcpserver/stdio.go at the other end.                       *)
(*                                                                         *)
(* JsonRpcClient, and Stdio, look at each part closely with the other left *)
(* open.  Here they are put together, each kept to where it can wait: for  *)
(* a lock, for room in a pipe, for a frame, for the other end.  A pipe     *)
(* takes whole frames; a frame that does not fit in what is left of it     *)
(* keeps its writer waiting.  The server is one of this repository, which  *)
(* asks nothing, or a foreign one, which sends requests of its own.        *)
(***************************************************************************)
EXTENDS Integers, Sequences

CONSTANTS Calls,    \* the calls made over the session
          Reader,   \* the goroutine of Run, which also writes: its refusals
          Nobody,
          InCap,    \* bound: frames the pipe to the server holds
          OutCap,   \* bound: frames the pipe back holds, and what empties it
          MaxAsks   \* bound: requests of the server's own

ASSUME SessionAssumption ==
  /\ Reader \notin Calls
  /\ Nobody \notin Calls \cup {Reader}
  /\ InCap \in Nat \ {0} /\ OutCap \in Nat \ {0} /\ MaxAsks \in Nat

Writers == Calls \cup {Reader}

VARIABLES step,       \* where each writer is
          result,     \* what each call has returned
          inbox,      \* the calls the reader has handed a response
          written,    \* the calls whose request is in the pipe or further
          lock,       \* who holds writeMu
          cancelled,  \* the writers whose context has ended
          ended,      \* the client's session has ended
          closing,    \* how far Close has come
          inbound,    \* the pipe to the server
          outbound,   \* the pipe back
          server,     \* "up", "left" by itself, or "killed"
          hold,       \* what the server has still to write
          answered,   \* the calls the server has answered
          asks        \* how many requests of its own it has sent

clientVars == <<step, result, inbox, written>>
serverVars == <<server, hold, answered, asks>>
vars == <<clientVars, lock, cancelled, ended, closing, inbound, outbound, serverVars>>

P == INSTANCE RpcCalls WITH asked <- written, cancelled <- cancelled \cap Calls,
                            returned <- result

Frame(type, from) == [type |-> type, from |-> from]
Ask == Frame("ask", Nobody)
Torn == Frame("torn", Nobody)
FrameOf(w) == Frame(IF w = Reader THEN "refusal" ELSE "request", w)
Because(why, whose) == [why |-> why, of |-> whose]

Init == /\ step = [w \in Writers |-> IF w = Reader THEN "reading" ELSE "idle"]
        /\ result = [c \in Calls |-> P!NotYet]
        /\ inbox = {} /\ written = {} /\ answered = {}
        /\ lock = Nobody
        /\ cancelled = {}
        /\ ended = FALSE
        /\ closing = "no"
        /\ inbound = <<>> /\ outbound = <<>> /\ hold = <<>>
        /\ server = "up"
        /\ asks = 0

StdinOpen == closing \in {"no", "client", "marked"}
MarkedClosed == closing \notin {"no", "client"}

-----------------------------------------------------------------------------
(* Writing, by calls and the reader alike *)

\* What a failed write leaves: a call returns it, the reader reads on.
Fail(w) == /\ step' = [step EXCEPT ![w] = IF w = Reader THEN "reading" ELSE "returned"]
           /\ result' = IF w \in Calls THEN [result EXCEPT ![w] = P!WriteError] ELSE result

\* The first look of Write at its context.
Enter(w) == IF w \in cancelled THEN Fail(w)
            ELSE step' = [step EXCEPT ![w] = "locking"] /\ UNCHANGED result

\* A call enters itself in pending and begins its write.
Begin(c) == /\ step[c] = "idle"
            /\ Enter(c)
            /\ UNCHANGED <<inbox, written, lock, cancelled, ended, closing, inbound, outbound,
                           serverVars>>

\* writeMu is taken, and given back at once if the transport is closed or the
\* context over.  Neither is looked at again.
Lock(w) == /\ step[w] = "locking" /\ lock = Nobody
           /\ IF MarkedClosed \/ w \in cancelled
              THEN Fail(w) /\ UNCHANGED lock
              ELSE /\ lock' = w
                   /\ step' = [step EXCEPT ![w] = "writing"]
                   /\ UNCHANGED result
           /\ UNCHANGED <<inbox, written, cancelled, ended, closing, inbound, outbound,
                          serverVars>>

\* The frame goes into the pipe as soon as there is room for it.
Put(w) == /\ step[w] = "writing" /\ StdinOpen /\ server = "up"
          /\ Len(inbound) < InCap
          /\ inbound' = Append(inbound, FrameOf(w))
          /\ lock' = Nobody
          /\ step' = [step EXCEPT ![w] = IF w = Reader THEN "reading" ELSE "waiting"]
          /\ written' = written \cup ({w} \cap Calls)
          /\ UNCHANGED <<result, inbox, cancelled, ended, closing, outbound, serverVars>>

\* The pipe was closed under the write, by Close or by the server's end.
Break(w) == /\ step[w] = "writing" /\ (~StdinOpen \/ server # "up")
            /\ Fail(w)
            /\ lock' = Nobody
            /\ UNCHANGED <<inbox, written, cancelled, ended, closing, inbound, outbound,
                           serverVars>>

-----------------------------------------------------------------------------
(* The rest of a call, and the reader *)

\* With its entry in pending goes what is in its inbox.
Return(c, r) == /\ step' = [step EXCEPT ![c] = "returned"]
                /\ result' = [result EXCEPT ![c] = r]
                /\ inbox' = inbox \ {c}
                /\ UNCHANGED <<written, lock, cancelled, ended, closing, inbound, outbound,
                               serverVars>>

\* The select of Call: whichever is ready.
Select(c) == /\ step[c] = "waiting"
             /\ \/ c \in inbox /\ Return(c, Because("answer", c))
                \/ c \in cancelled /\ Return(c, Because("ctx", Nobody))
                \/ ended /\ Return(c, Because("session", Nobody))

Pending == {c \in Calls : step[c] \in {"locking", "writing", "waiting"}}

\* Mutant: the response is handed to whoever is waiting.
BugDeliver(frame) == IF frame.type = "answer" THEN inbox \cup Pending ELSE inbox

\* A response goes to the call that is still waiting for it.
Deliver(frame) == IF frame.type = "answer" THEN inbox \cup ({frame.from} \cap Pending) ELSE inbox

\* One frame: a response is delivered, a request of the server's is refused by
\* the reader itself.
ReadFrame == /\ step[Reader] = "reading" /\ outbound # <<>>
             /\ outbound' = Tail(outbound)
             /\ inbox' = Deliver(Head(outbound))
             /\ IF Head(outbound) = Ask THEN Enter(Reader) ELSE UNCHANGED <<step, result>>
             /\ UNCHANGED <<written, lock, cancelled, ended, closing, inbound, serverVars>>

\* Read fails once the server's output is over, the transport closed (frames
\* may be left) or the session's context ended; the session ends with it.
ReadEnds == /\ step[Reader] = "reading"
            /\ \/ outbound = <<>> /\ server # "up"
               \/ MarkedClosed
               \/ Reader \in cancelled
            /\ step' = [step EXCEPT ![Reader] = "gone"]
            /\ ended' = TRUE
            /\ UNCHANGED <<result, inbox, written, lock, cancelled, closing, inbound, outbound,
                           serverVars>>

\* A context ends, of a call or of the session; afterwards it makes no difference.
Cancel(w) == /\ w \notin cancelled /\ step[w] \notin {"returned", "gone"}
             /\ cancelled' = cancelled \cup {w}
             /\ UNCHANGED <<clientVars, lock, ended, closing, inbound, outbound, serverVars>>

-----------------------------------------------------------------------------
(* Close *)

\* Client.Close ends the session first, whatever the transport does then.
CloseClient == /\ closing = "no"
               /\ closing' = "client"
               /\ ended' = TRUE
               /\ UNCHANGED <<clientVars, lock, cancelled, inbound, outbound, serverVars>>

MarkClosed == /\ closing = "client"
              /\ closing' = "marked"
              /\ UNCHANGED <<clientVars, lock, cancelled, ended, inbound, outbound, serverVars>>

\* Mutant: standard input is closed under the lock that writers hold.
BugCloseStdin == /\ closing = "marked" /\ lock = Nobody
                 /\ closing' = "waiting"
                 /\ UNCHANGED <<clientVars, lock, cancelled, ended, inbound, outbound,
                                serverVars>>

\* A write in progress may leave part of its frame behind.
CloseStdin == /\ closing = "marked"
              /\ closing' = "waiting"
              /\ \/ UNCHANGED inbound
                 \/ lock # Nobody /\ server = "up" /\ inbound' = Append(inbound, Torn)
              /\ UNCHANGED <<clientVars, lock, cancelled, ended, outbound, serverVars>>

\* The server has not gone within the grace it is given.
Kill == /\ closing = "waiting" /\ server = "up"
        /\ server' = "killed"
        /\ UNCHANGED <<clientVars, lock, cancelled, ended, closing, inbound, outbound, hold,
                       answered, asks>>

CloseReturns == /\ closing = "waiting" /\ server # "up"
                /\ closing' = "done"
                /\ UNCHANGED <<clientVars, lock, cancelled, ended, inbound, outbound, serverVars>>

-----------------------------------------------------------------------------
(* The server: ServeStdio and Handle *)

\* Mutant: a tool that runs on for long gives no response.
BugHandle(frame) == IF frame.type = "torn" THEN <<Frame("null", Nobody)>> ELSE <<>>

\* Mutant: a tool that fails is reported in a result and in an error.
BugHandleTwice(frame) ==
  CASE frame.type = "request" -> <<Frame("answer", frame.from), Frame("answer", frame.from)>>
    [] frame.type = "torn" -> <<Frame("null", Nobody)>>
    [] frame.type = "refusal" -> <<>>

\* One response to each request, with its id, be it a result or an error; an
\* error without an id to a frame that does not parse; nothing to the rest.
Handle(frame) == CASE frame.type = "request" -> <<Frame("answer", frame.from)>>
                   [] frame.type = "torn" -> <<Frame("null", Nobody)>>
                   [] frame.type = "refusal" -> <<>>

\* The loop reads a line and handles it.
Serve == /\ server = "up" /\ hold = <<>> /\ inbound # <<>>
         /\ inbound' = Tail(inbound)
         /\ hold' = Handle(Head(inbound))
         /\ answered' = answered \cup ({Head(inbound).from} \cap Calls)
         /\ UNCHANGED <<clientVars, lock, cancelled, ended, closing, outbound, server, asks>>

\* It writes what it holds before it reads on.
Send == /\ server = "up" /\ hold # <<>> /\ Len(outbound) < OutCap
        /\ outbound' = Append(outbound, Head(hold))
        /\ hold' = Tail(hold)
        /\ UNCHANGED <<clientVars, lock, cancelled, ended, closing, inbound, server, answered,
                       asks>>

\* The input is over: an ordinary shutdown.
Leave == /\ server = "up" /\ hold = <<>> /\ inbound = <<>> /\ ~StdinOpen
         /\ server' = "left"
         /\ UNCHANGED <<clientVars, lock, cancelled, ended, closing, inbound, outbound, hold,
                        answered, asks>>

\* A foreign server asks the client something, before or between its answers.
AskClient == /\ server = "up" /\ Len(hold) < 2 /\ asks < MaxAsks
             /\ hold' = <<Ask>> \o hold
             /\ asks' = asks + 1
             /\ UNCHANGED <<clientVars, lock, cancelled, ended, closing, inbound, outbound,
                            server, answered>>

Crash == /\ server = "up"
         /\ server' = "killed"
         /\ UNCHANGED <<clientVars, lock, cancelled, ended, closing, inbound, outbound, hold,
                        answered, asks>>

-----------------------------------------------------------------------------

WriteStep(w) == Lock(w) \/ Put(w) \/ Break(w)
CallStep(c) == WriteStep(c) \/ Select(c)
ReaderStep == WriteStep(Reader) \/ ReadFrame \/ ReadEnds
CloseStep == MarkClosed \/ CloseStdin \/ Kill \/ CloseReturns
ServerStep == Serve \/ Send \/ Leave

Next == \/ \E c \in Calls : Begin(c) \/ CallStep(c)
        \/ ReaderStep
        \/ \E w \in Writers : Cancel(w)
        \/ CloseClient \/ CloseStep
        \/ ServerStep \/ AskClient \/ Crash

Spec == Init /\ [][Next]_vars

\* Every goroutine and the server's loop go on while they can, and the timer of
\* Close runs out.  Nobody has to call, cancel, close, ask or crash.
Fairness == /\ \A c \in Calls : WF_vars(CallStep(c))
            /\ WF_vars(ReaderStep)
            /\ WF_vars(CloseStep)
            /\ WF_vars(ServerStep)

FairSpec == Spec /\ Fairness

-----------------------------------------------------------------------------
(* Properties *)

Toward == [type : {"request"}, from : Calls] \cup {FrameOf(Reader), Torn}
Back == [type : {"answer"}, from : Calls] \cup {Frame("null", Nobody), Ask}
Results == [why : {"none", "answer", "ctx", "session", "write"}, of : Calls \cup {Nobody}]

\* The lock is held exactly by who writes, the pipes keep to their sizes, and
\* all else has its type.
TypeOK == /\ step \in [Writers -> {"idle", "locking", "writing", "waiting", "returned", "reading",
                                  "gone"}]
          /\ result \in [Calls -> Results]
          /\ \A w \in Writers : step[w] = "writing" <=> lock = w
          /\ \A c \in Calls : step[c] = "returned" <=> result[c] # P!NotYet
          /\ inbox \subseteq Calls /\ written \subseteq Calls /\ answered \subseteq written
          /\ lock \in Writers \cup {Nobody}
          /\ cancelled \subseteq Writers
          /\ ended \in BOOLEAN
          /\ closing \in {"no", "client", "marked", "waiting", "done"}
          /\ inbound \in Seq(Toward) /\ Len(inbound) <= InCap + 1
          /\ outbound \in Seq(Back) /\ Len(outbound) <= OutCap
          /\ hold \in Seq(Back) /\ Len(hold) <= 2
          /\ server \in {"up", "left", "killed"}
          /\ asks \in 0..MaxAsks

\* The session as a whole keeps the promise made to callers (RpcCalls).
KeepsPromise == P!Spec

\* Everyone waits for everyone: the reader wants to write a refusal, the pipe to
\* the server is full under whoever holds the lock, and the server cannot read
\* on before the reader has made room in the pipe back.
AllWait == /\ step[Reader] \in {"locking", "writing"} /\ lock # Nobody
           /\ Len(inbound) >= InCap
           /\ server = "up" /\ hold # <<>> /\ Len(outbound) = OutCap

\* A call that has begun returns, whatever else is called, cancelled or broken,
\* except in the two ways this client has to be closed: its reader's context has
\* ended, or it refuses a server's own request in the midst of full pipes (the
\* reader writes its refusals itself, dispatch).
Answered == \A c \in Calls :
  step[c] # "idle" ~> step[c] = "returned" \/ Reader \in cancelled \/ AllWait

\* Close frees everyone from anything, also from those two: the calls return, the
\* reader goes, the server has ended (the comments of Write and Close).
CloseFrees == closing # "no" ~> /\ closing = "done"
                                /\ step[Reader] = "gone"
                                /\ \A c \in Calls : step[c] \in {"idle", "returned"}

\* Where in the session the request of c is, or the response to it: the places
\* it has in the pipes, in the server's hands and in the inbox of the call.
At(queue, c) == {i \in DOMAIN queue : queue[i].from = c}
Places(c) == ({"inbound"} \X At(inbound, c)) \cup ({"hold"} \X At(hold, c))
               \cup ({"outbound"} \X At(outbound, c)) \cup {<<"inbox", 1>> : d \in {c} \cap inbox}

\* A question and the answer to it are one thing that moves: it is never in two
\* places, so a response for which the reader has found a call finds the inbox
\* of the call free, and the send that follows without a lock or a context
\* cannot block (deliver; Handle answers once).  And it is never nowhere while
\* the call waits, unless the server was killed: neither Close nor a call that
\* gives up takes another's answer along.
OneAnswer == \A c \in Calls :
  /\ \A p, q \in Places(c) : p = q
  /\ step[c] = "waiting" /\ server # "killed" => Places(c) # {}
=============================================================================
