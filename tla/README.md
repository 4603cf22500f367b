# A TLA+ model of mcp-chatbot

The program under `src/` is a chat host for the Model Context Protocol: it
starts MCP servers (child processes or HTTP services), speaks JSON-RPC with
them, offers their tools to a language model and lets a person converse with
it. This directory models the parts of it in which several things happen at
once, fail halfway or arrive in an order nobody chose, checks them with TLC on
small instances and proves what is safety among it for all instances with TLAPS.

    tlc -config rpc_calls.cfg MCJsonRpcClient     # one run; the list is below
    tlapm JsonRpcClientProofs.tla                 # one module of proofs

## The system

    person -- TUI or REPL -- Agent -- Gemini provider -- the service
                               |
                            Registry -- Session -- JSON-RPC client -- transport -- MCP server
                                                        |              (stdio, HTTP)
                                                    frame log

| component | state | operations | what is hard about it |
|---|---|---|---|
| JSON-RPC client, `internal/jsonrpc` | next id, pending map of one-slot inboxes, how the session ended | `Call`, `Notify`, `Run` (dispatch, deliver), `Close` | callers, one reader and Close interleave; answers come late, twice, in any order, with ids rewritten |
| stdio transport, `internal/transport/stdio.go` | `closed`, `done`, `writeMu`, the frames channel, the child and its three pipes | `Write`, `Read`, `Close`, the goroutines `readFrames` and `drainStderr` | pipes fill up; the child stops reading, prints banners, logs, ignores the end of input, dies |
| HTTP transport, `internal/transport/http.go` | `closed`, request counter, bounded queue, session id, version | `Write`, `Read`, `Close`, one goroutine per event stream | requests overlap with each other and with Close; a full queue; idle streams |
| session, `internal/mcp` | what the handshake brought | `Initialize`, `ListTools`, `CallTool`, `Close` | a three-step handshake; pagination a server can make endless |
| registry, `internal/registry` | qualified name to server and tool, list of servers | `Add`, `Call`, `Close` | names collide and are cut at a limit; Add fails halfway; Close races with calls |
| selector and startup, `cmd/host/server_selector.go`, `main.go`, `connect.go` | what is marked and confirmed; one result per server | the keys of the screen, `connectAll`, `connectOne` | Enter only asks to quit, and keys go on arriving; each step of a start fails or outlasts a deadline and must be undone |
| agent, `internal/agent` | history, usage | `Ask`, `runTools`, `Reset` | tools of one round run concurrently; model and tools fail; turns run out |
| terminal interfaces, `cmd/host/tui.go`, `repl.go` | busy, cancelling, the context of the request; the log pane, its place and its mark | keys, ticks, the answer as a message; lines and interrupts | answers of cancelled questions; commands during a question; log lines that come while nobody looks |
| Gemini provider, `internal/llm/gemini` | position in the chain of models | `Generate`, `withRetry`, `nextModel` | several callers fail on one model; retries nest in fallbacks |
| event stream decoder, `internal/transport/sse.go` | the data of the event so far | `next` | comments, keep-alives, events over several lines, streams cut short |
| MCP server, `internal/mcpserver` | tools, sessions | `ServeStdio`, `Handle`, HTTP handler | it reads and writes over pipes that fill up; its input ends behind the last request |
| frame log, configuration, schema conversion, netprobe | | | sequential |

Callers pass a context down every layer; its end releases the layer that waits.
`Close` comes from above: the registry closes sessions, a session its client,
the client its transport, whose closing ends the reader, whose end releases the
calls still waiting.

What makes each component correct, in a sentence: a call returns its own
response, once, or the true reason why not, and leaves nothing behind (client,
and the session as a whole); frames are whole, in order and not lost, and Close
always gets through (transports); an event stream yields one frame for every
event that carries one (decoder); no server starts that was not chosen
(selector); a tool call reaches the server that published the tool (registry);
no failed start leaves a server running (startup); results stay paired with
calls and the model always sees a turn of the user (agent); one question at a
time, whose cancellation is its own, and no log line that could be drawn goes
unseen without its mark (TUI); no healthy model is skipped and none asked more
than its budget (provider).

## The modules

| module | models | state and actions |
|---|---|---|
| `RpcCalls` | what a caller of the client is promised, without ids, frames or goroutines | who has asked, been answered, returned and why; the abstract specification |
| `JsonRpcClient` | `client.go`, `message.go` | `pc[c]` is the line each Call or Notify has reached; `run` and `cur` the reader; `pending` and `inbox` as in the code, `runErr` with `Closed` the `closeOnce`; `inbound` is what the server has written. Sending is two actions, because `send` logs and then writes without a lock; the first includes the look at the context both transports begin a Write with, after which the context may still end. |
| `Stdio` | `stdio.go` | a Write goes idle, entering, locked, writing, returned; a frame enters the pipe in `Parts` pieces; Close goes through its five steps; `pump` is readFrames; the child prints, reads, logs and exits as it likes |
| `StdioSession` | `client.go`, `stdio.go` and `mcpserver/stdio.go` put together | `step[w]` of every call and of the reader, which writes its refusals itself; `lock` is `writeMu`; two pipes of whole frames; `hold` is what the server has still to write before it reads on; `closing` goes through Close |
| `HttpTransport` | `http.go`, the order of the handshake of `session.go`, the session table of `mcpserver/http.go` | `post[w]` is how far the request of each Write has come, its stream included; a Write may be the reader's own (`refusals`), which then does not read until it returns; Close marks, signals, aborts, waits, deletes |
| `EventStream` | `sse.go` and the loop of `drainStream` | pure: `Reading` goes through the lines as `next` does, `Promised` cuts the stream at its blank lines; `HttpTransport` says of them that they agree |
| `Selection` | loops that append some elements of a slice to a new one | pure: the elements of a sequence at chosen positions |
| `ToolNames` | `sanitize`, `qualify`, `truncate` | pure operators on sequences of bytes, some of which continue a character |
| `Registry` | `connect.go`, `ListTools`, `registry.go`, the frame `main.go` puts around them | `stage` and `at` are what connectAll is doing to which server; `entries` and `servers` the registry; `call[k]` a tool call from lookup to answer |
| `Startup` | `server_selector.go` and the choice in `main.go`, before `Registry`, which it extends | `marked`, `confirmed`, `quitting` and `interrupted` of the screen, one action per key; the request to quit is consumed later |
| `GeminiMessages` | `toContents`, `toParts`, `fromResult` of `gemini.go` | pure operators on messages and parts |
| `Agent` | `agent.go` | `phase` is where Ask stands; `results` the slots of the running round, filled in any order |
| `Tui` | `tui.go` and `repl.go` on top of `Agent`, which it instantiates on its own variables | one action per key, line, tick and message; the goroutine of a question; the log pane, with `unseen` as a history variable for lines that were never drawn; a request to quit (`quitting`) that is consumed later (`EndScreen`); a window too `small` for a pane |
| `GeminiProvider` | `gemini.go`, `retry.go`, `quota.go` | `stage[c]` of each Generate, the shared `current` |
| `...Proofs` | | the theorems about a module and their proofs; `RegistryProofs` has those about `Startup` too |
| `SelectionTheorems` | | facts about `Selection`, sequences and induction, for all of them |
| `MC...` | | values of the constants for TLC |

`JsonRpcClient` implements `RpcCalls` by `INSTANCE ... WITH`: a call is *asked*
once its request is where the server can read it, *answered* once the server
has answered, *ended* with the session, and *returned* with its reason.
`KeepsPromise` checks that every step of the client is one of `RpcCalls` or
none, and `PromptReturn` its liveness. `StdioSession` implements the same
`RpcCalls` with the transport and the server in it: what the client alone takes
from its transport as given, that a Write returns or fails, is there a matter of
the lock, the pipes and the server's loop. `JsonRpcClient` and `Stdio` look at
each part closely, with ids, inboxes, pieces of frames and the error stream;
`StdioSession` keeps of both where they wait.

`Tui` composes with `Agent`: every step of the Ask is a step of `Agent` on
shared variables, and a key that cancels writes the context the Ask reads.
`Alone` of `Agent` is what an agent needs of its callers, which nothing in
`agent.go` enforces: one Ask after the other, each under one context, and `Reset`
only between them. `UsedAlone` says that the interfaces keep to it.
`Startup` extends `Registry` in the same way: its variables decide which set
`Registry` starts from, and the proofs show that what follows is a behaviour of
`Registry`.

Data are abstracted to what the properties tell apart. A frame is its kind and
its id; a payload is whom it answers. Ids keep their three spellings because
`idKey` folds them, names their bytes because `qualify` counts and cuts them
and `sanitize` goes by characters. Undefined choices of the runtime (which ready case of a `select` is
taken, who gets a mutex) are nondeterministic.

Definitions called `Bug...` are not part of the model: each is the body of one
action or operator with a plausible mistake, kept beside the original to show
that the property it is listed with in `PROJECT.json` does depend on it.

## The runs

| run | question | bounds | states |
|---|---|---|---|
| `rpc_calls` | what calls return, and what they leave behind | two calls (symmetric), one notification, no stray frames, one spelling of ids that differs from the client's; every interleaving of answers, cancellation, Close, write failures, end of the server | 918,000 |
| `rpc_live` | refusals, the log, and that everything returns | one call, with the logger; a request, a notification and a frame that does not parse from the server | 357,000 |
| `rpc_moves_on` | does a repeated answer stop the reader? | one call, two answers; **violation** | |
| `stdio` | frames, losses, Close, logging | two writers, one Close, frames of two pieces, a pipe of one, one banner among the lines printed, short log lines | 277,000 |
| `stdio_stderr` | does an overlong log line stop the draining? | log lines of both lengths; **violation** | |
| `session` | is an answer in one place at a time, does every call return, and what does Close free? | two calls, pipes of one frame each, a server that asks twice, crashes or leaves; cancellation of every context, Close | 525,000 |
| `http` | the queue's end, frames, headers, Close; the frames of event streams | the handshake and one more Write, a call or the reader's refusal, two Closes, a queue of one, two frames per stream; streams of up to five lines of eight kinds | 143,000 |
| `registry` | the choice, routing, failed starts, names | three servers, one of them disabled, whose labels and tools collide after cutting, names of at most six bytes, one character of two bytes, pages with cursors that may come back, one tool call; the selection screen and the run without it | 831,000 |
| `registry_skipped` | does a skipped server offer nothing? | the same; **violation** | |
| `tui` | both interfaces around an Ask and what the agent needs of them, history and usage, the request to the model, the log pane | two questions of two turns of at most two calls of one tool | 569,000 |
| `provider` | the chain of models | two Generates, three models, two attempts | 69,000 |
| `provider_daily` | does nobody wait for tomorrow? | the same; **violation** | |

Why these bounds are enough to see the interesting cases: every race in the
code is between two of a kind (two calls, two writers, two Closes, two
Generates failing on one model) or between one of each (a call, the reader,
Close), and those are all there; every limit is reached (a one-slot inbox gets
a second message, a pipe or queue of one is full whenever something is in it,
the last attempt, turn, page and model are used, names are one byte too long).
The real queue holds sixteen frames and the real pipe 64 KiB: what depends on
them is only whether they are full. Five lines hold two events with two data
lines, or a comment in one. With calls of one tool `tui` sees how many results
there are and not whose, and with one frame `stdio` sees losses and not order:
there it is the proofs that say the rest. The agent's own properties are
checked in `tui`, under both its callers, and the type invariants of the
client, the provider and the transports are proved instead of run.

Deadlock checking is off: every one of these components may come to rest, a
closed transport for instance, and what must not come to rest is stated as a
liveness property.

### What they show

Passing: the client keeps its promises under every interleaving, with no entry
left in the map and one error for all that a session's end releases; the stdio
stream consists of whole frames and loses none before Close, which gets through
a server that ignores it; the HTTP queue is closed after the last push, no
request goes without the session or, after the handshake, the version, and
Close also frees a reader that waits for room in its own queue; event streams
yield the frames the format promises; only chosen servers are launched; a tool
call reaches the server that published the tool; no failed start leaves a
session open; the history pairs every call with its result, and what is sent to
the model is well formed whatever was cancelled before; Esc cancels the question
it was pressed for, and besides those only one that the end of the program
meets is shown as canceled; new log lines keep their mark until they have been
drawn, but for a window too small to draw them (below); the chain of models
behaves under concurrent callers.

`session` puts client, transport and server together. `OneAnswer` says that
between them a request and its response are one thing in one place, so that with
servers that answer once the reader's send into an inbox cannot block. Every call that has begun
returns, but for two cases that `Answered` names. One is a reader whose own
context has ended: `Run` is gone, its transport open, and calls go on waiting
for their contexts or for Close. The other is `AllWait`, a ring: a server that
sends requests of its own makes the reader write refusals (client.go:178); with
the pipe to the server full the reader waits for the server to read, the server
for room in the pipe back, which only the reader makes. A cancelled call stuck
in the pipe then does not return either (stdio.go:133). `CloseFrees` shows that
Close ends both, with every call, the reader and the server. The servers of this
repository send no requests, and with them the ring does not close.

Not as written in the repository:

* `rpc_moves_on`. `deliver` (client.go:194) sends into the one-slot inbox with
  no alternative. If a server answers a request twice and the call leaves by its
  context, the end of the session or a failed write while the first answer lies
  in the slot, a reader that had looked up the second before the deferred delete
  stays at its send for good. A call that takes the first answer frees the slot
  and the reader goes on. The comment at client.go:112 says that the reader can
  move on even if the call has already given up.
* `registry_skipped`. A name collision ends `Add` halfway (registry.go:83); the
  server is reported as unavailable and its session closed, yet the tools
  before the collision stay in the registry and are offered to the model.
* `provider_daily`. A daily limit is a 429, and `withRetry` waits and asks
  again before `Generate` looks whether it was one (retry.go:39 against the
  comment of `quotaExhausted`).
* `stdio_stderr`. `drainStderr` ends at the first line longer than 1 MiB, and
  the server then hangs in the pipe, as the comment above it warns.

Seen while modelling, without a run of their own: in a window under 30x10 `View`
draws no pane (tui.go:316), but new lines, Tab and /log still clear the mark as if
it did (tui.go:163, 230, 287), and the lines may never be looked at, although
README.md:164 calls the mark one for unseen activity; `small` has this, and
`NewsMarked` leaves it out; a question whose answer comes after Ctrl+C or a
signal, and before the request to quit is consumed, is shown as canceled without
Esc (tui.go:206); a model call that fails after
a round of tools leaves the history ending in its results, and the next question
follows them (agent.go:135; the note at the end of `Ask` avoids exactly this;
the request still is one the service accepts, `RequestWellFormed`);
`send` logs before it writes and without a lock, so that the order in the log is
not always that of the wire (client.go:202); a session id that a handshake
brings after `HTTP.Close` has noted that there is none is never deleted
(http.go:176); `Stdio.Write` does not notice the end of its context once it is
in the pipe (stdio.go:141), although the comment of `Call` (client.go:99) says
that a call returns when it is cancelled; `chain` removes the primary among the
fallbacks but not a fallback listed twice (gemini.go:152), which `NoRepeats`
rules out; an interrupt at the prompt of the line interface ends the context of
all later questions but not the wait for a line, so that the loop leaves only
after one more (repl.go:34); keys typed behind Enter on the selection screen
still mark servers and can take the Enter back (server_selector.go:94), which
`Startup` has and `StartIsChosen` allows for by speaking of the last word.

### Fairness

Weak fairness stands for goroutines that go on, timers that fire, writes to a
pipe with room and requests whose context has ended: what the Go runtime and
the operating system do by themselves. Strong fairness is used for `writeMu`
alone, in `Stdio`: a mutex that is freed again and again is granted in the end
(`sync.Mutex` hands over to a waiter that starves). Nothing is assumed of a
server there: it need not read, answer, print, end a stream or exit.
`StdioSession` has the server's loop in it and assumes that it goes on while it
can, as it does for each call, the reader and Close with its timer: a tool
returns, and what the server has written is read. Its `Answered` would say
nothing of a server that hangs; `CloseFrees` does not need the server, as the
grace of Close runs out. `EscFreesInput` assumes that what an Ask waits for
returns once its context has ended. `GenerateEnds` assumes that the service ends
every request somehow. Nobody is obliged to read, to call, to close, to press a
key, to cancel, to ask back or to crash.

`JsonRpcClient` by itself assumes that its transport's `Write` returns, and
`PromptReturn` is to be read with that assumption. `HttpTransport` returns with
the context. `Stdio` does only once the server reads, exits or is closed;
`StdioSession` is the composition without the assumption.

## The proofs

`tlapm` checks these for every value of the constants; the runs check the same
formulas on the instances above, the type invariants of five modules excepted,
and `HistoryOnlyGrows`, which `UsedAlone` entails.

| module | theorems |
|---|---|
| `JsonRpcClientProofs` | `TypeCorrect`; `ResponsesCorrelate`: `[]Correlation`; `NothingLeaks`: `[]PendingIsLive`; `CauseIsOne`: `[]OneCause`; `LogExplainsItself`: `[]LogExplains`; `RefusalsAreForRequests`: `[]RefusalsEcho`; `ClientImplements`: `Spec => KeepsPromise` |
| `StdioProofs` | `TypeCorrect`; `FramesStayWhole`: `[]WholeFrames`; `NoFrameLost`: `[]NothingLost` |
| `StdioSessionProofs` | `TypeCorrect`; `AnswerIsOne`: `[]OneAnswer`; `SessionImplements`: `Spec => KeepsPromise` |
| `HttpTransportProofs` | `TypeCorrect`; `ClosedLast`: `[]QueueClosedLast`; `NoRequestIsAStranger`: `[]NoStrangers`; `NoFrameLost`: `[]FramesKept`; `StreamsRead`: `ReadAsPromised`; `EventsAreRead`: `[]EventsRead` |
| `RegistryProofs` | `TypeCorrect`; `OwnersAnswer`: `[]AnsweredByOwner`; `UsableServersComplete`: `[]UsableIsComplete`; `NobodyOrphaned`: `[]NoOrphans`; `NamesAlwaysFit`: `[]NamesFit`; `StartupImplements`: `StartupSpec => Spec` of `Registry`; `StartedAsChosen`: `[]StartIsChosen` |
| `TuiProofs` | `TypeCorrect`; `OneAskAtATime`: `[]BusyCoversAsk`; `MarkIsKept`: `NewsMarked`; `CanceledOnlyByUser`: `CanceledByUser`; `AgentUsedAlone`: `Spec => UsedAlone`; `HistoryGrows`: `HistoryOnlyGrows`; `ResultsPaired`: `[]HistoryPaired`; `RequestsWellFormed`: `[]RequestWellFormed`; `UsageMatches`: `[]UsageMatchesHistory` |
| `GeminiProviderProofs` | `TypeCorrect`; `ChainIs`; `NoneSkipped`: `[]NoHealthySkipped`; `SpentReportsAreTrue`: `[]SpentIsTrue`; `BudgetKept`: `[]WithinBudget` |
| `SelectionTheorems` | `Induction`, `Recursion`; what `Selected` gives: `SelectedTyped`, `SelectedAppend`, `SelectedConcat`, `SelectedDistinct` and others |

With these every safety property and every action property of the passing runs
is proved. The theorems rest on the `ASSUME`s of the modules, which TLC evaluates
on every run, and on nothing else: a configuration without a fallback listed
twice, a list of servers without repetition, limits of at least one, and a server
that sends no response to a request it was not sent. Along which argument:

* *Loops over data.* Filters and folds are recursive functions, and every fact
  about them is an induction over a length. `Induction` states the principle with
  a set of numbers, from the natural numbers being well-founded; `Recursion` is
  that a recursive definition over a length has a value. The rest of
  `SelectionTheorems` is what a loop keeps when an element is appended or passed
  over, and when two sequences are joined.

* *Client.* That an outcome is the caller's own is not inductive. The
  strengthening follows an answer on its way: ids are minted once, so two calls
  never have the same key; a pending entry is filed under the key of its own
  call; whatever the server writes as an answer carries a spelling of the
  asker's id; the reader's `target` was found under the key of the frame it
  holds. Hence what lies in an inbox answers that inbox's call. The refinement
  of `RpcCalls` adds where a call stands (its place in `Call` decides what it
  has promised and returned) and that every answer on its way was given by the
  server after the request could be read; each action is then a step of
  `RpcCalls` or none. The log is explained along the same way: a response in it
  has a request in it because its sender logged before it wrote. The refusals
  are traced back to requests of the server, each to one of its own that is no
  longer on its way (`Explains`).
* *Stdio.* Frames stay whole because whoever holds the lock is the only one with
  an unfinished frame, and the end of the stream is the piece it has written
  last; once standard input is closed nothing is added. What `Read` has returned
  is the frames among the lines `readFrames` is done with (`FramesRead`).
* *Session.* The refinement follows each request to where it is (not yet
  written, in the pipe, in the server's hands, in the pipe back, in the inbox).
  That this is one place needs that a call writes once, before it waits, that its
  frame leaves a pipe as it enters the next, and that a response is dropped when
  its call has left (`Unique`); that it is some place while the call waits needs
  that only a killed server loses what it has.
* *Startup.* Before a choice is made `Registry` has not moved; the choice is its
  first step, and afterwards the screen's variables stand still. So what the
  launched servers were chosen by is what the screen last said.
* *Interfaces and conversation.* An Ask runs exactly while its request is being
  asked (`Covered`), so that /reset meets none; every step then leaves the
  conversation alone, begins an Ask, is one of its own, or forgets it while none
  runs (`Steps`); that none revives the context of a running Ask is
  `ContextStays`. Pairing needs that the running round belongs to the last
  message and that what has come in lies in its own slots; usage that a message
  more is one more in the count. That the request to the model is well formed
  follows the messages that have parts at all, as those without are left out
  (`TalkInv`): after a reply with calls come its results, and where the next
  request is made the last message is the user's. A cancellation is the user's because on the
  screen only Esc ends the context of a request on its way, or what ends the
  program's (`EndedByEsc`). A mark that is gone leaves only lines that have been
  drawn, as it is cleared where the pane stands at its end, and that is drawn if
  the window has room.
* *Provider.* That no healthy model is skipped needs that a caller which asks
  for the next model has been told that its own is spent. The budget needs how
  far each caller has been: its model sits at a position no further than the
  shared one, and nothing beyond that position has been asked (`Counted`,
  `Fresh`); with a chain without repetitions (`ChainIs`) a new choice is a fresh
  model.
* *HTTP.* The queue is closed last because no request is counted once the flag
  is set, so those Close waits for are all there are. That no request is a
  stranger follows the order of an answer: its session is noted before it has
  frames, its version before the response is queued; calls begin after the
  response has been read, refusals after some frame has. The frames of one answer
  that have been read or queued are numbered from one without a gap, and one that
  waits for room is the next (`KeptInv`).
* *Event streams.* After each line the data the reader has is the text the format
  promises but for new lines in front, which come from data lines without a
  value and which trimming takes off; and the payloads it has returned, trimmed
  and without the empty ones, are those of the events that have ended (`Keeps`).
* *Registry.* An open session is always held by someone who will close it
  (`Held`): the start of its server, the registry, or the list `Close` works
  off. Every entry leads to a tool its server listed under exactly that name
  (`Owned`), and an open session is that of a usable server or of the one being
  connected (`Usable`), so that a call that is answered was answered by a usable
  owner. A server is complete because `Add` reports success only if no name was
  taken. What `Qualify` returns is bounded by cases on how it cut the name.

Only model-checked: liveness, as fairness and ENABLED are beyond the prover. These
are `PromptReturn` and `RunEnds` of the client, `Answered` and `CloseFrees` of the
session, `CloseReleases` of both transports, `LoggingGoesOn`, `EscFreesInput` and
`GenerateEnds`.

## Not modelled

Schema conversion, the tools of netprobe and reading the configuration are
sequential and keep no state that outlives a call. The lengths of delays and
deadlines, log layout, drawing (but for whether a pane is drawn at all) and HTTP statuses are abstracted: a timer may
fire at any time. Of `mcpserver` there is the stdio loop and the session table;
what its methods return and the expiry of HTTP sessions are not, as the client's
properties ask only whether an answer comes. Decoding of results in the session
and the texts the interfaces show are data no property is about; flags, the log
file and the banner of `main` come before and after all that is modelled.

## Plan

Done: the client, both transports and a whole stdio session against one abstract
specification, the decoder of event streams, startup with its selection screen,
the registry, the agent under both interfaces, the provider; the proofs above.

Next, in this order:

1. *HTTP session*: the client over `HttpTransport` as `StdioSession` has it over
   `Stdio`, shown to implement `RpcCalls`.
2. *`McpServer`*: the HTTP handler with the expiry of sessions (the time of a
   session is only set when it is created).
