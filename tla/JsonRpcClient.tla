---------------------------- MODULE JsonRpcClient ----------------------------
(***************************************************************************)
(* The JSON-RPC client of src/internal/jsonrpc: several goroutines Call    *)
(* and Notify, one goroutine (Run) reads, any goroutine may Close.         *)
(*                                                                         *)
(* The steps of a call are the points where another goroutine can come in  *)
(* between: the atomic increment of nextID, the two critical sections on   *)
(* the pending map, the call of the frame logger, the transport's Write,   *)
(* the select.  The transport is the contract of transport.go: Write may   *)
(* fail at any time, Read returns frames in order until the peer is gone,  *)
(* the transport is closed or the context ends.  The server is external:   *)
(* it may answer a request it received, in any order and with the id       *)
(* round-tripped through another JSON type, send frames of its own, or go. *)
(***************************************************************************)
EXTENDS Integers, Sequences, FiniteSets

CONSTANTS Calls,       \* the calls made during the session
          Notes,       \* the notifications sent during the session
          Nobody,      \* no call
          Refused,     \* the calls the server answers with an error object
          EchoForms,   \* the JSON types in which the server may echo an id
          Noise,       \* frames the server sends on its own, each at most once
          Logging,     \* whether a FrameLogger is configured
          MaxAnswers,  \* bound: answers the server gives to one request
          MaxInbound   \* bound: frames in flight from the server

NumericForms == {"int", "float", "string"}
Forms == NumericForms \cup {"text", "none"}

\* A raw JSON id: 7, 7.0 and "7" are the same number in three forms, "text" is
\* any id that is no number (null included), "none" an absent id.
RawIds == [n : Nat, form : Forms]
NoId == [n |-> 0, form |-> "none"]

\* A frame as a decoder sees it.  named: it has a method; body: the call whose
\* request it answers (known to the server, not to the client).
Frames == [parses : BOOLEAN, named : BOOLEAN, id : RawIds,
           failed : BOOLEAN, body : Calls \cup {Nobody}]

\* Mutant: a method is enough to be a request.
BugIsRequest(f) == f.named
IsRequest(f) == f.named /\ f.id # NoId
IsNotification(f) == f.named /\ f.id = NoId
IsResponse(f) == ~f.named /\ f.id # NoId

ASSUME ConstantsAssumption ==
  /\ Nobody \notin Calls
  /\ Calls \cap Notes = {}
  /\ Refused \subseteq Calls
  /\ EchoForms \subseteq NumericForms
  /\ Logging \in BOOLEAN
  /\ MaxAnswers \in Nat
  /\ MaxInbound \in Nat

\* The server sends no response with the id of a request it was not sent.
ASSUME NoiseAssumption ==
  /\ Noise \subseteq Frames
  /\ \A f \in Noise : f.body = Nobody
  /\ \A f \in Noise : IsResponse(f) => f.id.form \notin NumericForms

\* Mutant: the raw id is the key.
BugIdKey(raw) == raw

\* idKey: the numeric forms of an id are folded onto one key.
IdKey(raw) == IF raw.form \in NumericForms THEN [n |-> raw.n, form |-> "int"] ELSE raw

\* Mutant: an unbuffered channel.
BugInboxCap == 0

\* The capacity of the channel parked in the pending map.
InboxCap == 1

Errors == {"closed", "ctx", "io"}
NoErr == "none"

VARIABLES
  \* the client
  nextID,        \* the last id minted
  pending,       \* pending map: id key -> the call whose inbox is parked there
  runErr,        \* the error that ended the session; NoErr while it is open
  \* the callers
  pc,            \* how far each call and notification has come
  id,            \* the id each call minted
  inbox,         \* each call's one-slot channel
  outcome,       \* what each call has returned or is about to
  \* the reader goroutine and the goroutine that closes
  run,           \* how far Run has come
  cur,           \* the frame being dispatched
  target,        \* the call whose inbox deliver found
  closer,        \* how far Close has come
  \* the contexts
  cancelled,     \* the calls whose context has ended
  runCancelled,  \* whether the context of the session has ended
  \* the transport and the server
  inbound,       \* frames on their way to the client
  peerGone,      \* whether the server has gone away
  answers,       \* how often the server has answered each call
  emitted,       \* the frames of Noise it has sent
  \* what an observer sees
  log,           \* the frame log, in order
  sent           \* the frames that reached the server, in order

clientVars == <<nextID, pending, runErr>>
callerVars == <<pc, id, inbox, outcome>>
readerVars == <<run, cur, target>>
ctxVars == <<cancelled, runCancelled>>
peerVars == <<inbound, peerGone, answers, emitted>>
wireVars == <<log, sent>>
vars == <<clientVars, callerVars, readerVars, closer, ctxVars, peerVars, wireVars>>

\* The entries of the frame log and of the wire.
Request(c) == [kind |-> "request", what |-> c, id |-> id[c]]
Note(m) == [kind |-> "note", what |-> m, id |-> NoId]
Refusal(raw) == [kind |-> "refusal", what |-> Nobody, id |-> raw]
Incoming(f) == [kind |-> "in", what |-> f.body, id |-> f.id]

NoOutcome == [why |-> "none", of |-> Nobody, err |-> NoErr]
NoFrame == [parses |-> FALSE, named |-> FALSE, id |-> NoId,
            failed |-> FALSE, body |-> Nobody]

\* The client's method log: nothing without a FrameLogger.
Log(entry) == log' = IF Logging THEN Append(log, entry) ELSE log

Closed == runErr # NoErr
TransportClosed == closer = "done"

\* Mutant: without closeOnce the last error wins.
BugShutdown(err) == runErr' = err

\* closeOnce: the first error to end the session is the one that is kept.
Shutdown(err) == runErr' = IF Closed THEN runErr ELSE err

Init == /\ nextID = 0
        /\ pending = [k \in {} |-> Nobody]
        /\ runErr = NoErr
        /\ pc = [p \in Calls \cup Notes |-> "idle"]
        /\ id = [c \in Calls |-> NoId]
        /\ inbox = [c \in Calls |-> <<>>]
        /\ outcome = [c \in Calls |-> NoOutcome]
        /\ run = "reading"
        /\ cur = NoFrame
        /\ target = Nobody
        /\ closer = "idle"
        /\ cancelled = {}
        /\ runCancelled = FALSE
        /\ inbound = <<>>
        /\ peerGone = FALSE
        /\ answers = [c \in Calls |-> 0]
        /\ emitted = {}
        /\ log = <<>>
        /\ sent = <<>>

-----------------------------------------------------------------------------
(* Call *)

Goto(p, label) == pc' = [pc EXCEPT ![p] = label]

\* Mutant: nextID is read and written in two steps, so an increment may be lost.
BugMint(c) == /\ pc[c] = "idle"
              /\ nextID' \in {nextID, nextID + 1}
              /\ id' = [id EXCEPT ![c] = [n |-> nextID + 1, form |-> "int"]]
              /\ Goto(c, "minted")
              /\ UNCHANGED <<pending, runErr, inbox, outcome, readerVars, closer,
                             ctxVars, peerVars, wireVars>>

Mint(c) == /\ pc[c] = "idle"
           /\ nextID' = nextID + 1
           /\ id' = [id EXCEPT ![c] = [n |-> nextID + 1, form |-> "int"]]
           /\ Goto(c, "minted")
           /\ UNCHANGED <<pending, runErr, inbox, outcome, readerVars, closer,
                          ctxVars, peerVars, wireVars>>

Register(c) == /\ pc[c] = "minted"
               /\ LET key == IdKey(id[c])
                  IN pending' = [k \in DOMAIN pending \cup {key} |->
                                   IF k = key THEN c ELSE pending[k]]
               /\ Goto(c, "registered")
               /\ UNCHANGED <<nextID, runErr, id, inbox, outcome, readerVars, closer,
                              ctxVars, peerVars, wireVars>>

\* The outcome is fixed; the deferred delete is still to run.
Settle(c, why, of, err) ==
  /\ outcome' = [outcome EXCEPT ![c] = [why |-> why, of |-> of, err |-> err]]
  /\ Goto(c, "leaving")

\* send, first half: the frame is logged, and Write looks at the context before
\* anything else.  It may end later, while Write runs.
LogRequest(c) == /\ pc[c] = "registered"
                 /\ Log(Request(c))
                 /\ IF c \in cancelled
                    THEN Settle(c, "write", Nobody, NoErr)
                    ELSE Goto(c, "logged") /\ UNCHANGED outcome
                 /\ UNCHANGED <<clientVars, id, inbox, readerVars, closer,
                                ctxVars, peerVars, sent>>

\* Mutant: the frame may be written before it is logged.
BugTransmit(c) == /\ pc[c] \in {"registered", "logged"}
                  /\ ~TransportClosed
                  /\ sent' = Append(sent, Request(c))
                  /\ Goto(c, "written")
                  /\ UNCHANGED <<clientVars, id, inbox, outcome, readerVars, closer,
                                 ctxVars, peerVars, log>>

\* send, second half: the frame reaches the server while Write runs.
Transmit(c) == /\ pc[c] = "logged"
               /\ ~TransportClosed
               /\ sent' = Append(sent, Request(c))
               /\ Goto(c, "written")
               /\ UNCHANGED <<clientVars, id, inbox, outcome, readerVars, closer,
                              ctxVars, peerVars, log>>

WriteReturns(c) == /\ pc[c] = "written"
                   /\ Goto(c, "waiting")
                   /\ UNCHANGED <<clientVars, id, inbox, outcome, readerVars, closer,
                                  ctxVars, peerVars, wireVars>>

\* Mutant: a failed write returns before the delete is deferred.
BugWriteFails(c) == /\ pc[c] \in {"logged", "written"}
                    /\ outcome' = [outcome EXCEPT ![c].why = "write"]
                    /\ Goto(c, "returned")
                    /\ UNCHANGED <<clientVars, id, inbox, readerVars, closer,
                                   ctxVars, peerVars, wireVars>>

\* Write fails, before or after the server got the frame.
WriteFails(c) == /\ pc[c] \in {"logged", "written"}
                 /\ Settle(c, "write", Nobody, NoErr)
                 /\ UNCHANGED <<clientVars, id, inbox, readerVars, closer,
                                ctxVars, peerVars, wireVars>>

\* Mutant: the end of any call's context releases this call.
BugSelectCtx(c) == /\ pc[c] = "waiting"
                   /\ cancelled # {}
                   /\ Settle(c, "ctx", Nobody, NoErr)
                   /\ UNCHANGED <<clientVars, id, inbox, readerVars, closer,
                                  ctxVars, peerVars, wireVars>>

\* The select of Call; with several cases ready it takes any of them.
SelectCtx(c) == /\ pc[c] = "waiting"
                /\ c \in cancelled
                /\ Settle(c, "ctx", Nobody, NoErr)
                /\ UNCHANGED <<clientVars, id, inbox, readerVars, closer,
                               ctxVars, peerVars, wireVars>>

SelectClosed(c) == /\ pc[c] = "waiting"
                   /\ Closed
                   /\ Settle(c, "session", Nobody, runErr)
                   /\ UNCHANGED <<clientVars, id, inbox, readerVars, closer,
                                  ctxVars, peerVars, wireVars>>

SelectInbox(c) == /\ pc[c] = "waiting"
                  /\ inbox[c] # <<>>
                  /\ LET resp == Head(inbox[c])
                     IN Settle(c, IF resp.failed THEN "error" ELSE "result",
                               resp.body, NoErr)
                  /\ inbox' = [inbox EXCEPT ![c] = Tail(@)]
                  /\ UNCHANGED <<clientVars, id, readerVars, closer,
                                 ctxVars, peerVars, wireVars>>

\* The deferred delete, then the return to the caller.
Leave(c) == /\ pc[c] = "leaving"
            /\ pending' = [k \in DOMAIN pending \ {IdKey(id[c])} |-> pending[k]]
            /\ Goto(c, "returned")
            /\ UNCHANGED <<nextID, runErr, id, inbox, outcome, readerVars, closer,
                           ctxVars, peerVars, wireVars>>

-----------------------------------------------------------------------------
(* Notify *)

\* The session's context is an ancestor of a notification's as well.
LogNote(m) == /\ pc[m] = "idle"
              /\ Log(Note(m))
              /\ Goto(m, IF runCancelled THEN "returned" ELSE "logged")
              /\ UNCHANGED <<clientVars, id, inbox, outcome, readerVars, closer,
                             ctxVars, peerVars, sent>>

TransmitNote(m) == /\ pc[m] = "logged"
                   /\ ~TransportClosed
                   /\ sent' = Append(sent, Note(m))
                   /\ Goto(m, "returned")
                   /\ UNCHANGED <<clientVars, id, inbox, outcome, readerVars, closer,
                                  ctxVars, peerVars, log>>

NoteFails(m) == /\ pc[m] = "logged"
                /\ Goto(m, "returned")
                /\ UNCHANGED <<clientVars, id, inbox, outcome, readerVars, closer,
                               ctxVars, peerVars, wireVars>>

-----------------------------------------------------------------------------
(* Run, dispatch and deliver *)

\* A frame is read and logged; one that will not parse is dropped.
ReadFrame == /\ run = "reading"
             /\ inbound # <<>>
             /\ LET f == Head(inbound)
                IN /\ Log(Incoming(f))
                   /\ IF f.parses
                      THEN cur' = f /\ run' = "dispatching"
                      ELSE UNCHANGED <<cur, run>>
             /\ inbound' = Tail(inbound)
             /\ UNCHANGED <<clientVars, callerVars, target, closer, ctxVars,
                            peerGone, answers, emitted, sent>>

ReadFails == /\ run = "reading"
             /\ \E err \in Errors :
                  /\ err = "ctx" => runCancelled
                  /\ err = "closed" => TransportClosed
                  /\ err = "io" => peerGone /\ inbound = <<>>
                  /\ Shutdown(err)
             /\ run' = "returned"
             /\ UNCHANGED <<nextID, pending, callerVars, cur, target, closer, ctxVars,
                            peerVars, wireVars>>

\* deliver, under the lock: who waits for this id?
Lookup == /\ run = "dispatching"
          /\ IsResponse(cur)
          /\ IF IdKey(cur.id) \in DOMAIN pending
             THEN target' = pending[IdKey(cur.id)] /\ run' = "delivering"
             ELSE run' = "reading" /\ UNCHANGED target
          /\ UNCHANGED <<clientVars, callerVars, cur, closer, ctxVars, peerVars, wireVars>>

\* deliver, after the unlock: the send on the channel waits for a free slot.
Deliver == /\ run = "delivering"
           /\ Len(inbox[target]) < InboxCap
           /\ inbox' = [inbox EXCEPT ![target] = Append(@, cur)]
           /\ run' = "reading"
           /\ UNCHANGED <<clientVars, pc, id, outcome, cur, target, closer, ctxVars,
                          peerVars, wireVars>>

\* A notification goes to the handler; a frame of no kind is ignored.
PassOver == /\ run = "dispatching"
            /\ ~IsResponse(cur)
            /\ ~IsRequest(cur)
            /\ run' = "reading"
            /\ UNCHANGED <<clientVars, callerVars, cur, target, closer, ctxVars,
                           peerVars, wireVars>>

\* A request of the server is refused, with its id echoed back unchanged.
LogRefusal == /\ run = "dispatching"
              /\ IsRequest(cur)
              /\ Log(Refusal(cur.id))
              /\ run' = IF runCancelled THEN "reading" ELSE "refusing"
              /\ UNCHANGED <<clientVars, callerVars, cur, target, closer, ctxVars,
                             peerVars, sent>>

TransmitRefusal == /\ run = "refusing"
                   /\ ~TransportClosed
                   /\ sent' = Append(sent, Refusal(cur.id))
                   /\ run' = "reading"
                   /\ UNCHANGED <<clientVars, callerVars, cur, target, closer, ctxVars,
                                  peerVars, log>>

RefusalFails == /\ run = "refusing"
                /\ run' = "reading"
                /\ UNCHANGED <<clientVars, callerVars, cur, target, closer, ctxVars,
                               peerVars, wireVars>>

-----------------------------------------------------------------------------
(* Close and the contexts *)

CloseClient == /\ closer = "idle"
               /\ Shutdown("closed")
               /\ closer' = "shut"
               /\ UNCHANGED <<nextID, pending, callerVars, readerVars, ctxVars,
                              peerVars, wireVars>>

CloseTransport == /\ closer = "shut"
                  /\ closer' = "done"
                  /\ UNCHANGED <<clientVars, callerVars, readerVars, ctxVars,
                                 peerVars, wireVars>>

Cancel(c) == /\ c \notin cancelled
             /\ cancelled' = cancelled \cup {c}
             /\ UNCHANGED <<clientVars, callerVars, readerVars, closer, runCancelled,
                            peerVars, wireVars>>

\* The session's context is an ancestor of every call's context.
CancelRun == /\ ~runCancelled
             /\ runCancelled' = TRUE
             /\ cancelled' = Calls
             /\ UNCHANGED <<clientVars, callerVars, readerVars, closer,
                            peerVars, wireVars>>

-----------------------------------------------------------------------------
(* The server (external) *)

Received(c) == \E i \in 1..Len(sent) : sent[i].kind = "request" /\ sent[i].what = c

Answer(c) == /\ ~peerGone
             /\ Received(c)
             /\ answers[c] < MaxAnswers
             /\ Len(inbound) < MaxInbound
             /\ \E form \in EchoForms :
                  inbound' = Append(inbound,
                    [parses |-> TRUE, named |-> FALSE, id |-> [n |-> id[c].n, form |-> form],
                     failed |-> c \in Refused, body |-> c])
             /\ answers' = [answers EXCEPT ![c] = @ + 1]
             /\ UNCHANGED <<clientVars, callerVars, readerVars, closer, ctxVars,
                            peerGone, emitted, wireVars>>

Emit(f) == /\ ~peerGone
           /\ f \notin emitted
           /\ Len(inbound) < MaxInbound
           /\ inbound' = Append(inbound, f)
           /\ emitted' = emitted \cup {f}
           /\ UNCHANGED <<clientVars, callerVars, readerVars, closer, ctxVars,
                          peerGone, answers, wireVars>>

PeerGoes == /\ ~peerGone
            /\ peerGone' = TRUE
            /\ UNCHANGED <<clientVars, callerVars, readerVars, closer, ctxVars,
                           inbound, answers, emitted, wireVars>>

-----------------------------------------------------------------------------

\* Everything a call does once it has begun.
CallStep(c) == \/ Register(c) \/ LogRequest(c) \/ Transmit(c) \/ WriteReturns(c)
               \/ WriteFails(c) \/ SelectCtx(c) \/ SelectClosed(c) \/ SelectInbox(c)
               \/ Leave(c)
NoteStep(m) == TransmitNote(m) \/ NoteFails(m)
ReaderStep == \/ ReadFrame \/ ReadFails \/ Lookup \/ Deliver \/ PassOver
              \/ LogRefusal \/ TransmitRefusal \/ RefusalFails
Server == \/ \E c \in Calls : Answer(c)
          \/ \E f \in Noise : Emit(f)
          \/ PeerGoes

Next == \/ \E c \in Calls : Mint(c) \/ CallStep(c) \/ Cancel(c)
        \/ \E m \in Notes : LogNote(m) \/ NoteStep(m)
        \/ ReaderStep
        \/ CloseClient \/ CloseTransport
        \/ CancelRun
        \/ Server

Spec == Init /\ [][Next]_vars

\* The Go scheduler runs every goroutine that can go on, and Write returns.
\* Nothing obliges the server, the user or a caller to begin anything.
Fairness == /\ \A c \in Calls : WF_vars(CallStep(c))
            /\ \A m \in Notes : WF_vars(NoteStep(m))
            /\ WF_vars(ReaderStep)
            /\ WF_vars(CloseTransport)

FairSpec == Spec /\ Fairness
-----------------------------------------------------------------------------
(* Properties *)

Whys == {"none", "result", "error", "ctx", "session", "write"}
Entries == [kind : {"request", "note", "refusal", "in"},
            what : Calls \cup Notes \cup {Nobody}, id : RawIds]

\* Every variable keeps its type.
TypeOK ==
  /\ nextID \in Nat
  /\ DOMAIN pending \subseteq RawIds
  /\ pending \in [DOMAIN pending -> Calls]
  /\ runErr \in Errors \cup {NoErr}
  /\ pc \in [Calls \cup Notes -> {"idle", "minted", "registered", "logged", "written",
                                  "waiting", "leaving", "returned"}]
  /\ id \in [Calls -> RawIds]
  /\ inbox \in [Calls -> Seq(Frames)]
  /\ outcome \in [Calls -> [why : Whys, of : Calls \cup {Nobody}, err : Errors \cup {NoErr}]]
  /\ run \in {"reading", "dispatching", "delivering", "refusing", "returned"}
  /\ cur \in Frames
  /\ target \in Calls \cup {Nobody}
  /\ closer \in {"idle", "shut", "done"}
  /\ cancelled \in SUBSET Calls
  /\ runCancelled \in BOOLEAN
  /\ inbound \in Seq(Frames)
  /\ peerGone \in BOOLEAN
  /\ answers \in [Calls -> Nat]
  /\ emitted \in SUBSET Noise
  /\ log \in Seq(Entries)
  /\ sent \in Seq(Entries)

Answered(c) == outcome[c].why \in {"result", "error"}

\* A call that returns a response returns the response to its own request, in
\* whatever order the server answers and however it writes the id back
\* (pending map, deliver and idKey).
Correlation == \A c \in Calls : Answered(c) => outcome[c].of = c

\* The pending map holds exactly the calls between their registration and
\* their deferred delete, each under the key of its own id: nothing leaks on
\* any of the ways out of Call.
PendingIsLive ==
  /\ \A k \in DOMAIN pending : k = IdKey(id[pending[k]])
  /\ {pending[k] : k \in DOMAIN pending} =
       {c \in Calls : pc[c] \in {"registered", "logged", "written", "waiting", "leaving"}}

\* All calls that are released by the end of the session report the same
\* error, the one that ended it first (closeOnce, sessionErr).
OneCause == \A c \in Calls : outcome[c].why = "session" => outcome[c].err = runErr

Refusals == {i \in 1..Len(sent) : sent[i].kind = "refusal"}

\* Every refusal on the wire answers a request the server did send, with its
\* id unchanged, and no request is refused twice; notifications and responses
\* are never answered (dispatch, NewErrorResponse).
RefusalsEcho ==
  /\ \A i \in Refusals : \E f \in emitted : f.named /\ f.id # NoId /\ f.id = sent[i].id
  /\ \A i, j \in Refusals :
       sent[i].id = sent[j].id => i = j \/ Cardinality({f \in emitted : f.id = sent[i].id}) > 1

\* The frame log explains itself: a frame on the wire is in the log already,
\* and a response comes after the request it answers (send logs, then writes).
LogExplains == Logging =>
  /\ \A i \in 1..Len(sent) : \E j \in 1..Len(log) : log[j] = sent[i]
  /\ \A j \in 1..Len(log) : log[j].kind = "in" /\ log[j].what # Nobody =>
       \E i \in 1..(j - 1) : log[i].kind = "request" /\ log[i].what = log[j].what

\* Run returns once the context has ended or Close has closed the transport.
RunEnds == (runCancelled \/ TransportClosed) ~> run = "returned"

\* The reader hands a response over and moves on, even if the call has already
\* given up (comments of Client and of the channel in Call).
ReaderMovesOn == run = "delivering" ~> run # "delivering"

\* The callers see the promises of RpcCalls.
Why(c) == IF Answered(c) THEN "answer" ELSE outcome[c].why
Promise == INSTANCE RpcCalls WITH
  asked <- {c \in Calls : Received(c)},
  answered <- {c \in Calls : answers[c] > 0},
  ended <- Closed,
  returned <- [c \in Calls |-> [why |-> Why(c), of |-> outcome[c].of]]

\* Every step of the client is a step of RpcCalls or invisible to callers.
KeepsPromise == Promise!Spec

\* No answered, cancelled or closed call is left waiting.
PromptReturn == Promise!Prompt
=============================================================================
