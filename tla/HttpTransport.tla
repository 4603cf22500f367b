---------------------------- MODULE HttpTransport ----------------------------
(***************************************************************************)
(* The Streamable HTTP transport of src/internal/transport/http.go.  Every *)
(* Write is a POST of its own; what comes back, one frame or a stream of   *)
(* them, goes through one bounded queue to Read.  Close has to stop all of *)
(* them before it closes the queue.  Which frames a stream carries is what *)
(* EventStream is about.                                                   *)
(*                                                                         *)
(* The first Write is the handshake of src/internal/mcp/session.go: no     *)
(* call begins before its answer has been read.  The reader goroutine of   *)
(* src/internal/jsonrpc/client.go writes too: it refuses what the server   *)
(* asks, and reads on when Write has returned.  The server is external     *)
(* (src/internal/mcpserver/http.go is one, and the session table is taken  *)
(* from there): it may assign a session, answer in either form, keep a     *)
(* stream open, or fail; the network may fail at any time.                 *)
(***************************************************************************)
EXTENDS Integers, Sequences, FiniteSets, Selection, EventStream

CONSTANTS Writes,     \* calls of Write
          Opening,    \* the one that carries the initialize request
          Closers,    \* calls of Close
          QueueSize,  \* the capacity of frames
          MaxEvents   \* bound: frames in one stream

ASSUME HttpAssumption == /\ Opening \in Writes
                         /\ QueueSize \in Nat \ {0}
                         /\ MaxEvents \in Nat \ {0}

VARIABLES
  closed,     \* the flag of Close
  done,       \* the channel done is closed
  aborted,    \* the transport's context has ended
  open,       \* the channel frames has not been closed
  session,    \* a session id has been noted
  version,    \* a protocol version has been noted
  frames,     \* the queue
  post,       \* how far the request of each Write has come
  header,     \* the session and version its request carries
  stream,     \* its answer is a stream, and Write has returned
  given,      \* frames its answer has produced
  holding,    \* the frame it is pushing
  closing,    \* how far each Close has come
  known,      \* whether it saw a session id to delete
  received,   \* what Read has returned, in order
  reader,     \* the goroutine that Reads, or why it stopped
  refusals,   \* the Writes it makes itself, to refuse what the server asks
  sessions    \* the sessions the server keeps

transportVars == <<closed, done, aborted, open, session, version>>
postVars == <<post, header, stream, given, holding>>
closeVars == <<closing, known>>
readVars == <<received, reader, refusals>>
vars == <<transportVars, frames, postVars, closeVars, readVars, sessions>>

\* A frame: the Write it answers, its place in the answer, and whether it is
\* the response itself, successful, and no notification on the way.
NoFrame == [of |-> Opening, n |-> 0, response |-> FALSE]
NoHeader == [session |-> FALSE, version |-> FALSE]

Init == /\ closed = FALSE /\ done = FALSE /\ aborted = FALSE /\ open = TRUE
        /\ session = FALSE /\ version = FALSE
        /\ frames = <<>>
        /\ post = [w \in Writes |-> "idle"]
        /\ header = [w \in Writes |-> NoHeader]
        /\ stream = [w \in Writes |-> FALSE]
        /\ given = [w \in Writes |-> 0]
        /\ holding = [w \in Writes |-> NoFrame]
        /\ closing = [k \in Closers |-> "idle"]
        /\ known = [k \in Closers |-> FALSE]
        /\ received = <<>> /\ reader = "reading" /\ refusals = {}
        /\ sessions = {}

-----------------------------------------------------------------------------
(* Write *)

Goto(w, label) == post' = [post EXCEPT ![w] = label]

\* The answer to the handshake has reached the session.
Ready == \E i \in 1..Len(received) : received[i].of = Opening /\ received[i].response

\* The reader has no Write of its own to wait for.
ReaderFree == \A w \in refusals : post[w] = "finished" \/ stream[w]

\* It refuses a request of the server's, which comes even before the handshake
\* has been answered.
Refuse(w) == /\ w # Opening
             /\ reader = "reading" /\ ReaderFree
             /\ received # <<>> /\ ~received[Len(received)].response
             /\ refusals' = refusals \cup {w}

\* The handshake comes first, and calls after its answer.
MayBegin(w) == Refuse(w) \/ ((w = Opening \/ Ready) /\ UNCHANGED refusals)

\* Under the lock: a closed transport refuses, an open one counts the request.
Begin(w) == /\ post[w] = "idle"
            /\ MayBegin(w)
            /\ Goto(w, IF closed THEN "finished" ELSE "registered")
            /\ UNCHANGED <<transportVars, frames, header, stream, given, holding,
                           closeVars, received, reader, sessions>>

\* applyHeaders, under the lock, and the request is on its way.
Post(w) == /\ post[w] = "registered"
           /\ header' = [header EXCEPT ![w] = [session |-> session, version |-> version]]
           /\ Goto(w, "posting")
           /\ UNCHANGED <<transportVars, frames, stream, given, holding, closeVars,
                          readVars, sessions>>

\* The network fails, or the context of the call or of the transport ends.
RequestFails(w) == /\ post[w] \in {"posting", "handled", "body"}
                   /\ Goto(w, "finished")
                   /\ UNCHANGED <<transportVars, frames, header, stream, given, holding,
                                  closeVars, readVars, sessions>>

\* Mutant: the session id is only looked for in a single-frame answer.
BugRespond(w) == /\ post[w] = "handled"
                 /\ \E streaming \in BOOLEAN :
                      /\ session' = (session \/ (w \in sessions /\ ~streaming))
                      /\ stream' = [stream EXCEPT ![w] = streaming]
                      /\ Goto(w, IF streaming THEN "streaming" ELSE "body")
                 /\ UNCHANGED <<closed, done, aborted, open, version, frames, header, given,
                                holding, closeVars, readVars, sessions>>

\* The head of the response: the session id of a handshake is noted.
Respond(w) == /\ post[w] = "handled"
              /\ session' = (session \/ w \in sessions)
              /\ \E streaming \in BOOLEAN :
                   /\ stream' = [stream EXCEPT ![w] = streaming]
                   /\ Goto(w, IF streaming THEN "streaming" ELSE "body")
              /\ UNCHANGED <<closed, done, aborted, open, version, frames, header, given,
                             holding, closeVars, readVars, sessions>>

\* A frame has come; captureVersion looks at it before it is pushed.
Produce(w, response) ==
  /\ given' = [given EXCEPT ![w] = @ + 1]
  /\ holding' = [holding EXCEPT ![w] = [of |-> w, n |-> given[w] + 1, response |-> response]]
  /\ version' = (version \/ (w = Opening /\ response))
  /\ Goto(w, "pushing")

\* An error status, 202 or an empty body give no frame.
ReadBody(w) == /\ post[w] = "body"
               /\ \/ \E response \in BOOLEAN : Produce(w, response)
                  \/ Goto(w, "finished") /\ UNCHANGED <<given, holding, version>>
               /\ UNCHANGED <<closed, done, aborted, open, session, frames, header, stream,
                              closeVars, readVars, sessions>>

\* drainStream: the next event.
Event(w) == /\ post[w] = "streaming"
            /\ given[w] < MaxEvents
            /\ \E response \in BOOLEAN : Produce(w, response)
            /\ UNCHANGED <<closed, done, aborted, open, session, frames, header, stream,
                           closeVars, readVars, sessions>>

StreamEnds(w) == /\ post[w] = "streaming"
                 /\ Goto(w, "finished")
                 /\ UNCHANGED <<transportVars, frames, header, stream, given, holding,
                                closeVars, readVars, sessions>>

\* Mutant: a frame that finds the queue full is dropped.
BugPush(w) == /\ post[w] = "pushing"
              /\ frames' = IF Len(frames) < QueueSize THEN Append(frames, holding[w]) ELSE frames
              /\ Goto(w, IF stream[w] THEN "streaming" ELSE "finished")
              /\ UNCHANGED <<transportVars, header, stream, given, holding, closeVars,
                             readVars, sessions>>

\* push waits for room, or for the end of the transport.
Push(w) == /\ post[w] = "pushing"
           /\ Len(frames) < QueueSize
           /\ frames' = Append(frames, holding[w])
           /\ Goto(w, IF stream[w] THEN "streaming" ELSE "finished")
           /\ UNCHANGED <<transportVars, header, stream, given, holding, closeVars,
                          readVars, sessions>>

GiveUp(w) == /\ post[w] = "pushing"
             /\ done
             /\ Goto(w, "finished")
             /\ UNCHANGED <<transportVars, frames, header, stream, given, holding,
                            closeVars, readVars, sessions>>

-----------------------------------------------------------------------------
(* Read *)

Receive == /\ reader = "reading" /\ ReaderFree
           /\ frames # <<>>
           /\ received' = Append(received, Head(frames))
           /\ frames' = Tail(frames)
           /\ UNCHANGED <<transportVars, postVars, closeVars, reader, refusals, sessions>>

\* A closed queue is emptied before Read reports the end.
ReadEnds == /\ reader = "reading" /\ ReaderFree
            /\ ~open /\ frames = <<>>
            /\ reader' = "closed"
            /\ UNCHANGED <<transportVars, frames, postVars, closeVars, received, refusals,
                           sessions>>

ReadCanceled == /\ reader = "reading" /\ ReaderFree
                /\ reader' = "ctx"
                /\ UNCHANGED <<transportVars, frames, postVars, closeVars, received, refusals,
                               sessions>>

-----------------------------------------------------------------------------
(* Close *)

CloseGoto(k, label) == closing' = [closing EXCEPT ![k] = label]

\* The flag is set and the session id noted under the lock.
MarkClosed(k) == /\ closing[k] = "idle"
                 /\ closed' = TRUE
                 /\ known' = [known EXCEPT ![k] = session]
                 /\ CloseGoto(k, IF closed THEN "returned" ELSE "marked")
                 /\ UNCHANGED <<done, aborted, open, session, version, frames, postVars,
                                readVars, sessions>>

CloseDone(k) == /\ closing[k] = "marked"
                /\ done' = TRUE
                /\ CloseGoto(k, "signalled")
                /\ UNCHANGED <<closed, aborted, open, session, version, frames, postVars,
                               known, readVars, sessions>>

\* Mutant: idle streams are left open.
BugAbortAll(k) == /\ closing[k] = "signalled"
                  /\ CloseGoto(k, "waiting")
                  /\ UNCHANGED <<transportVars, frames, postVars, known, readVars, sessions>>

AbortAll(k) == /\ closing[k] = "signalled"
               /\ aborted' = TRUE
               /\ CloseGoto(k, "waiting")
               /\ UNCHANGED <<closed, done, open, session, version, frames, postVars,
                              known, readVars, sessions>>

\* Mutant: a request counts as finished when its Write returns.
BugCloseQueue(k) == /\ closing[k] = "waiting"
                    /\ \A w \in Writes : post[w] \in {"idle", "finished"} \/ stream[w]
                    /\ open' = FALSE
                    /\ CloseGoto(k, IF known[k] THEN "deleting" ELSE "returned")
                    /\ UNCHANGED <<closed, done, aborted, session, version, frames,
                                   postVars, known, readVars, sessions>>

\* Every request that was counted has finished: the queue is closed.
CloseQueue(k) == /\ closing[k] = "waiting"
                 /\ \A w \in Writes : post[w] \in {"idle", "finished"}
                 /\ open' = FALSE
                 /\ CloseGoto(k, IF known[k] THEN "deleting" ELSE "returned")
                 /\ UNCHANGED <<closed, done, aborted, session, version, frames, postVars,
                                known, readVars, sessions>>

\* deleteSession: the server is told, or cannot be within the grace period.
Delete(k) == /\ closing[k] = "deleting"
             /\ sessions' \in {{}, sessions}
             /\ CloseGoto(k, "returned")
             /\ UNCHANGED <<transportVars, frames, postVars, known, readVars>>

-----------------------------------------------------------------------------
(* The server *)

\* post and sessionStore.create: a handshake may be given a session.
Handle(w) == /\ post[w] = "posting"
             /\ \E grant \in BOOLEAN :
                  sessions' = IF grant /\ w = Opening THEN sessions \cup {w} ELSE sessions
             /\ Goto(w, "handled")
             /\ UNCHANGED <<transportVars, frames, header, stream, given, holding,
                            closeVars, readVars>>

-----------------------------------------------------------------------------

WriteStep(w) == Post(w) \/ Push(w) \/ GiveUp(w)
Answering(w) == Handle(w) \/ Respond(w) \/ ReadBody(w) \/ Event(w)
Failing(w) == RequestFails(w) \/ StreamEnds(w)
CloseStep(k) == CloseDone(k) \/ AbortAll(k) \/ CloseQueue(k) \/ Delete(k)

Next == \/ \E w \in Writes : Begin(w) \/ WriteStep(w) \/ Answering(w) \/ Failing(w)
        \/ \E k \in Closers : MarkClosed(k) \/ CloseStep(k)
        \/ Receive \/ ReadEnds \/ ReadCanceled

Spec == Init /\ [][Next]_vars

\* Goroutines go on, and a request whose context has ended fails.  Nothing
\* obliges the server to answer or to end a stream, nor anybody to Read.
Fairness == /\ \A w \in Writes : WF_vars(WriteStep(w)) /\ WF_vars(aborted /\ Failing(w))
            /\ \A k \in Closers : WF_vars(CloseStep(k))

FairSpec == Spec /\ Fairness

-----------------------------------------------------------------------------
(* Properties *)

Frames == [of : Writes, n : 0..MaxEvents, response : BOOLEAN]
Outstanding(w) == post[w] \notin {"idle", "finished"}

\* Every variable keeps its type, and the queue its size.
TypeOK ==
  /\ {closed, done, aborted, open, session, version} \subseteq BOOLEAN
  /\ frames \in Seq(Frames) /\ Len(frames) <= QueueSize
  /\ post \in [Writes -> {"idle", "registered", "posting", "handled", "body", "streaming",
                          "pushing", "finished"}]
  /\ header \in [Writes -> [session : BOOLEAN, version : BOOLEAN]]
  /\ stream \in [Writes -> BOOLEAN]
  /\ given \in [Writes -> 0..MaxEvents]
  /\ holding \in [Writes -> Frames]
  /\ closing \in [Closers -> {"idle", "marked", "signalled", "waiting", "deleting", "returned"}]
  /\ known \in [Closers -> BOOLEAN]
  /\ received \in Seq(Frames)
  /\ reader \in {"reading", "closed", "ctx"}
  /\ refusals \subseteq Writes
  /\ sessions \subseteq {Opening}

\* Once the queue is closed no request is left that could still push a frame
\* into it, which would bring the process down, or reach a server that has been
\* told to forget the session (requests in Write and Close).
QueueClosedLast == ~open => \A w \in Writes : ~Outstanding(w)

\* The frames of one answer, among those read and those in the queue.
OfAnswer(s, w) == Selected(s, {i \in 1..Len(s) : s[i].of = w})
Delivered(w) == OfAnswer(received \o frames, w)

\* Until Close no frame of an answer is lost, repeated or overtaken by a later
\* one of the same answer, however full the queue is (push).
FramesKept == ~closed => \A w \in Writes :
  /\ Len(Delivered(w)) = given[w] - (IF post[w] = "pushing" THEN 1 ELSE 0)
  /\ \A i \in 1..Len(Delivered(w)) : Delivered(w)[i].n = i

\* Every request after the first carries the session if the server assigned one,
\* and after the handshake the version it agreed to: they are noted before the
\* answer can be read (Write: the server treats the next one as a stranger).
NoStrangers == \A w \in Writes \ {Opening} :
  post[w] \notin {"idle", "registered", "finished"} =>
    /\ w \notin refusals => header[w].version
    /\ sessions # {} => header[w].session

\* Whichever lines the stream that answers a Write consists of, comments and
\* keep-alives, data over several lines or an end without a blank line, the
\* transport has one frame to push for every event that carries one, whole and
\* in their order (the comments on sseReader and next).  Which frames those are
\* does not depend on the rest of the state.
EventsRead == \A w \in Writes : stream[w] => ReadAsPromised

\* Close gets through, whatever streams are open and however full the queue is,
\* and with it every Write and every stream, also when it is the reader itself
\* that waits for room in the queue (the comment on h.cancel, push).
CloseReleases ==
  (\E k \in Closers : closing[k] # "idle") ~>
    /\ \A k \in Closers : closing[k] \in {"idle", "returned"}
    /\ \A w \in Writes : ~Outstanding(w)
=============================================================================
