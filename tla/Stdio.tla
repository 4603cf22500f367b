--------------------------------- MODULE Stdio ---------------------------------
(***************************************************************************)
(* The stdio transport of src/internal/transport/stdio.go: the server is a *)
(* child process, frames go to its standard input and come from its        *)
(* standard output, one per line; its standard error is drained.           *)
(*                                                                         *)
(* Any goroutine may Write and Close, one goroutine Reads.  The transport  *)
(* has two goroutines of its own, readFrames and drainStderr.  The server  *)
(* and the operating system's pipes are external: a pipe holds so much and *)
(* then blocks its writer, and the server may stop reading, print what is  *)
(* no frame, log, ignore the end of its input, or exit at any time.        *)
(***************************************************************************)
EXTENDS Integers, Sequences, FiniteSets, Selection

CONSTANTS Writers,    \* calls of Write, each with a frame and a context
          Closers,    \* calls of Close
          Nobody,     \* nobody holds writeMu
          Output,     \* the lines the server prints, if it gets that far
          JsonLines,  \* those of them that look like a frame
          LogLines,   \* the kinds of lines it logs, of {"short", "long"}
          Parts,      \* bound: pieces in which a frame is written
          PipeSize,   \* bound: pieces or lines a pipe holds
          MaxLogs     \* bound: lines the server logs

ASSUME StdioAssumption == /\ Nobody \notin Writers
                          /\ LogLines \subseteq {"short", "long"}
                          /\ Parts \in Nat \ {0}
                          /\ PipeSize \in Nat \ {0}
                          /\ MaxLogs \in Nat
ASSUME OutputAssumption == Output \in Seq({Output[i] : i \in 1..Len(Output)})

VARIABLES
  closed,      \* the flag of Close, under mu
  done,        \* the channel done is closed
  stdinOpen,   \* the write end of the server's standard input
  reaped,      \* Wait has seen the server exit and closed the pipes
  closing,     \* how far each Close has come
  lock,        \* who holds writeMu
  writing,     \* how far each Write has come
  wrote,       \* the pieces of its frame in the pipe or beyond
  pump,        \* how far readFrames has come
  scanned,     \* the lines readFrames has read
  readErr,     \* why it stopped
  received,    \* what Read has returned, in order
  reader,      \* the goroutine that Reads, or why it stopped
  drain,       \* whether drainStderr still runs
  alive,       \* the server
  busy,        \* whether it is in the middle of a log line
  printed,     \* lines it has printed
  stdin,       \* pieces on their way to it
  heard,       \* pieces it has read
  stderr,      \* lines on their way to drainStderr
  logs         \* lines it has logged

closeVars == <<closed, done, stdinOpen, reaped, closing>>
writeVars == <<lock, writing, wrote>>
readVars == <<pump, scanned, readErr, received, reader>>
serverVars == <<alive, busy, printed, logs>>
vars == <<closeVars, writeVars, readVars, drain, serverVars, stdin, heard, stderr>>

\* NewStdio: the process and both goroutines have started.
Init == /\ closed = FALSE /\ done = FALSE /\ stdinOpen = TRUE /\ reaped = FALSE
        /\ closing = [k \in Closers |-> "idle"]
        /\ lock = Nobody
        /\ writing = [w \in Writers |-> "idle"]
        /\ wrote = [w \in Writers |-> 0]
        /\ pump = "reading" /\ scanned = 0 /\ readErr = "none"
        /\ received = <<>> /\ reader = "reading"
        /\ drain = TRUE
        /\ alive = TRUE /\ busy = FALSE /\ printed = 0 /\ logs = 0
        /\ stdin = <<>> /\ heard = <<>> /\ stderr = <<>>

-----------------------------------------------------------------------------
(* Write *)

\* Write returns; the deferred unlock frees writeMu if it is held.
Finish(w) == /\ writing' = [writing EXCEPT ![w] = "returned"]
             /\ lock' = IF lock = w THEN Nobody ELSE lock

Enter(w, label) == /\ writing' = [writing EXCEPT ![w] = label]
                   /\ UNCHANGED lock

\* The context of a Write may have ended whenever it is looked at.
BeginWrite(w) == /\ writing[w] = "idle"
                 /\ Finish(w) \/ Enter(w, "entering")
                 /\ UNCHANGED <<closeVars, wrote, readVars, drain, serverVars,
                                stdin, heard, stderr>>

\* Mutant: the pipe writes are not serialized.
BugLockWrite(w) == /\ writing[w] = "entering"
                   /\ lock' = w
                   /\ writing' = [writing EXCEPT ![w] = "locked"]
                   /\ UNCHANGED <<closeVars, wrote, readVars, drain,
                                  serverVars, stdin, heard, stderr>>

LockWrite(w) == /\ writing[w] = "entering"
                /\ lock = Nobody
                /\ lock' = w
                /\ writing' = [writing EXCEPT ![w] = "locked"]
                /\ UNCHANGED <<closeVars, wrote, readVars, drain,
                               serverVars, stdin, heard, stderr>>

\* With writeMu held: closed is read under mu, then the context again.
CheckWrite(w) == /\ writing[w] = "locked"
                 /\ \/ Finish(w)
                    \/ ~closed /\ Enter(w, "writing")
                 /\ UNCHANGED <<closeVars, wrote, readVars, drain, serverVars,
                                stdin, heard, stderr>>

\* The pipe takes the frame piece by piece, and blocks while it is full.
WritePart(w) == /\ writing[w] = "writing"
                /\ stdinOpen /\ alive
                /\ Len(stdin) < PipeSize
                /\ stdin' = Append(stdin, <<w, wrote[w] + 1>>)
                /\ wrote' = [wrote EXCEPT ![w] = @ + 1]
                /\ IF wrote[w] + 1 = Parts
                   THEN Finish(w)
                   ELSE UNCHANGED <<lock, writing>>
                /\ UNCHANGED <<closeVars, readVars, drain, serverVars,
                               heard, stderr>>

\* Closing the pipe, or the end of the server, releases a blocked write.
WriteBreaks(w) == /\ writing[w] = "writing"
                  /\ ~stdinOpen \/ ~alive
                  /\ Finish(w)
                  /\ UNCHANGED <<closeVars, wrote, readVars, drain, serverVars,
                                 stdin, heard, stderr>>

WriteStep(w) == LockWrite(w) \/ CheckWrite(w) \/ WritePart(w) \/ WriteBreaks(w)

-----------------------------------------------------------------------------
(* Close *)

CloseGoto(k, label) == closing' = [closing EXCEPT ![k] = label]

\* The second Close finds the flag set and returns.
MarkClosed(k) == /\ closing[k] = "idle"
                 /\ closed' = TRUE
                 /\ CloseGoto(k, IF closed THEN "returned" ELSE "marked")
                 /\ UNCHANGED <<done, stdinOpen, reaped, writeVars, readVars, drain,
                                serverVars, stdin, heard, stderr>>

CloseDone(k) == /\ closing[k] = "marked"
                /\ done' = TRUE
                /\ CloseGoto(k, "signalled")
                /\ UNCHANGED <<closed, stdinOpen, reaped, writeVars, readVars, drain,
                               serverVars, stdin, heard, stderr>>

CloseStdin(k) == /\ closing[k] = "signalled"
                 /\ stdinOpen' = FALSE
                 /\ CloseGoto(k, "waiting")
                 /\ UNCHANGED <<closed, done, reaped, writeVars, readVars, drain,
                                serverVars, stdin, heard, stderr>>

\* The goroutine of cmd.Wait: it closes the pipes once the server has exited.
Reap == /\ \E k \in Closers : closing[k] \in {"waiting", "killed"}
        /\ ~alive /\ ~reaped
        /\ reaped' = TRUE
        /\ UNCHANGED <<closed, done, stdinOpen, closing, writeVars, readVars, drain,
                       serverVars, stdin, heard, stderr>>

\* Mutant: a server that ignores the end of its input is waited for.
BugKill(k) == /\ closing[k] = "waiting"
              /\ CloseGoto(k, "killed")
              /\ UNCHANGED <<closed, done, stdinOpen, reaped, writeVars, readVars, drain,
                             serverVars, stdin, heard, stderr>>

\* The grace period is over.
Kill(k) == /\ closing[k] = "waiting"
           /\ alive' = FALSE
           /\ CloseGoto(k, "killed")
           /\ UNCHANGED <<closed, done, stdinOpen, reaped, writeVars, readVars, drain,
                          busy, printed, logs, stdin, heard, stderr>>

CloseReturns(k) == /\ closing[k] \in {"waiting", "killed"}
                   /\ reaped
                   /\ CloseGoto(k, "returned")
                   /\ UNCHANGED <<closed, done, stdinOpen, reaped, writeVars, readVars,
                                  drain, serverVars, stdin, heard, stderr>>

CloseStep(k) == \/ CloseDone(k) \/ CloseStdin(k) \/ Kill(k) \/ CloseReturns(k)

-----------------------------------------------------------------------------
(* readFrames and Read *)

IsFrame(i) == Output[i] \in JsonLines

\* Mutant: every line counts as a frame.
BugScanLine == /\ pump = "reading"
               /\ scanned < printed /\ ~reaped
               /\ scanned' = scanned + 1
               /\ pump' = "offering"
               /\ UNCHANGED <<closeVars, writeVars, readErr, received, reader, drain,
                              serverVars, stdin, heard, stderr>>

\* A line is read; what cannot be a frame is noticed and ignored.
ScanLine == /\ pump = "reading"
            /\ scanned < printed /\ ~reaped
            /\ scanned' = scanned + 1
            /\ pump' = IF IsFrame(scanned + 1) THEN "offering" ELSE "reading"
            /\ UNCHANGED <<closeVars, writeVars, readErr, received, reader, drain,
                           serverVars, stdin, heard, stderr>>

\* Read takes the frame readFrames offers: the channel has no buffer.
Receive == /\ pump = "offering" /\ reader = "reading"
           /\ received' = Append(received, Output[scanned])
           /\ pump' = "reading"
           /\ UNCHANGED <<closeVars, writeVars, scanned, readErr, reader, drain,
                          serverVars, stdin, heard, stderr>>

PumpDone == /\ pump = "offering" /\ done
            /\ readErr' = "closed"
            /\ pump' = "ended"
            /\ UNCHANGED <<closeVars, writeVars, scanned, received, reader, drain,
                           serverVars, stdin, heard, stderr>>

\* The output has ended, or Wait has closed the pipe under the reader.
PumpEof == /\ pump = "reading"
           /\ reaped \/ (~alive /\ scanned = printed)
           /\ readErr' = "eof"
           /\ pump' = "ended"
           /\ UNCHANGED <<closeVars, writeVars, scanned, received, reader, drain,
                          serverVars, stdin, heard, stderr>>

\* The deferred close of the channel lets Read report the end.
ReadEnds == /\ pump = "ended" /\ reader = "reading"
            /\ reader' = readErr
            /\ UNCHANGED <<closeVars, writeVars, pump, scanned, readErr, received, drain,
                           serverVars, stdin, heard, stderr>>

\* Read's context ends, and nobody reads any more.
ReadCanceled == /\ reader = "reading"
                /\ reader' = "ctx"
                /\ UNCHANGED <<closeVars, writeVars, pump, scanned, readErr, received,
                               drain, serverVars, stdin, heard, stderr>>

PumpStep == ScanLine \/ PumpDone \/ PumpEof

-----------------------------------------------------------------------------
(* drainStderr *)

\* Mutant: one goroutine reads both, the output first.
BugDrainLine == /\ pump = "ended"
                /\ drain /\ stderr # <<>> /\ ~reaped
                /\ drain' = (Head(stderr) # "long")
                /\ stderr' = Tail(stderr)
                /\ UNCHANGED <<closeVars, writeVars, readVars, serverVars, stdin, heard>>

\* A line longer than the scanner's buffer ends the scan.
DrainLine == /\ drain /\ stderr # <<>> /\ ~reaped
             /\ drain' = (Head(stderr) # "long")
             /\ stderr' = Tail(stderr)
             /\ UNCHANGED <<closeVars, writeVars, readVars, serverVars, stdin, heard>>

DrainEnds == /\ drain
             /\ reaped \/ (~alive /\ stderr = <<>>)
             /\ drain' = FALSE
             /\ UNCHANGED <<closeVars, writeVars, readVars, serverVars, stdin, heard, stderr>>

-----------------------------------------------------------------------------
(* The server (external) *)

Idle == alive /\ ~busy

Hear == /\ Idle /\ stdin # <<>>
        /\ heard' = Append(heard, Head(stdin))
        /\ stdin' = Tail(stdin)
        /\ UNCHANGED <<closeVars, writeVars, readVars, drain, serverVars, stderr>>

PrintLine == /\ Idle /\ printed < Len(Output)
             /\ printed - scanned < PipeSize
             /\ printed' = printed + 1
             /\ UNCHANGED <<closeVars, writeVars, readVars, drain, alive, busy, logs,
                            stdin, heard, stderr>>

BeginLog == /\ Idle /\ logs < MaxLogs
            /\ busy' = TRUE
            /\ logs' = logs + 1
            /\ UNCHANGED <<closeVars, writeVars, readVars, drain, alive, printed,
                           stdin, heard, stderr>>

\* While its standard error is full the server does nothing else.
EndLog == /\ alive /\ busy
          /\ Len(stderr) < PipeSize
          /\ \E line \in LogLines : stderr' = Append(stderr, line)
          /\ busy' = FALSE
          /\ UNCHANGED <<closeVars, writeVars, readVars, drain, alive, printed, logs,
                         stdin, heard>>

Exit == /\ alive
        /\ alive' = FALSE
        /\ UNCHANGED <<closeVars, writeVars, readVars, drain, busy, printed, logs,
                       stdin, heard, stderr>>

Server == Hear \/ PrintLine \/ BeginLog \/ EndLog \/ Exit

-----------------------------------------------------------------------------

Next == \/ \E w \in Writers : BeginWrite(w) \/ WriteStep(w)
        \/ \E k \in Closers : MarkClosed(k) \/ CloseStep(k)
        \/ Reap
        \/ PumpStep \/ Receive \/ ReadEnds \/ ReadCanceled
        \/ DrainLine \/ DrainEnds
        \/ Server

Spec == Init /\ [][Next]_vars

\* Goroutines go on, the timer of Close fires, and a write to a pipe with room
\* ends.  Nothing obliges the server to read, print, log or exit, nor anybody
\* to Read or Close.  A mutex and a channel are fair to those that wait for them.
Fairness == /\ \A w \in Writers : SF_vars(LockWrite(w))
            /\ \A w \in Writers : WF_vars(WriteStep(w))
            /\ \A k \in Closers : WF_vars(CloseStep(k))
            /\ WF_vars(Reap)
            /\ WF_vars(PumpStep)
            /\ WF_vars(DrainLine \/ DrainEnds)
            /\ WF_vars(EndLog)

FairSpec == Spec /\ Fairness

-----------------------------------------------------------------------------
(* Properties *)

\* Every variable keeps its type, and the pipes their size.
TypeOK ==
  /\ {closed, done, stdinOpen, reaped, alive, busy, drain} \subseteq BOOLEAN
  /\ closing \in [Closers -> {"idle", "marked", "signalled", "waiting", "killed", "returned"}]
  /\ lock \in Writers \cup {Nobody}
  /\ writing \in [Writers -> {"idle", "entering", "locked", "writing", "returned"}]
  /\ wrote \in [Writers -> 0..Parts]
  /\ pump \in {"reading", "offering", "ended"}
  /\ scanned \in 0..printed
  /\ printed \in 0..Len(Output)
  /\ readErr \in {"none", "closed", "eof"}
  /\ received \in Seq(JsonLines)
  /\ reader \in {"reading", "closed", "eof", "ctx"}
  /\ stdin \in Seq(Writers \X (1..Parts)) /\ Len(stdin) <= PipeSize
  /\ heard \in Seq(Writers \X (1..Parts))
  /\ stderr \in Seq(LogLines) /\ Len(stderr) <= PipeSize
  /\ logs \in 0..MaxLogs

\* What the server reads is one whole frame after another, whichever goroutines
\* write them at once; only its very end may be torn (writeMu).
Stream == heard \o stdin
WholeFrames == \A i \in 1..Len(Stream) :
  /\ Stream[i][2] = 1 \/ (i > 1 /\ Stream[i - 1] = <<Stream[i][1], Stream[i][2] - 1>>)
  /\ Stream[i][2] = Parts \/ i = Len(Stream) \/ Stream[i + 1] = <<Stream[i][1], Stream[i][2] + 1>>

FramesAmong(n) == Selected(SubSeq(Output, 1, n), {i \in 1..n : IsFrame(i)})

\* Read returns the frames the server printed, in order and without gaps, and
\* if it reports the end of the output before Close, it has returned them all.
NothingLost ==
  /\ Len(received) <= Len(FramesAmong(printed))
  /\ received = SubSeq(FramesAmong(printed), 1, Len(received))
  /\ reader = "eof" /\ ~closed => received = FramesAmong(printed)

\* Close gets through whatever the server does with its input, and with it the
\* server goes, readFrames ends even while it offers a frame nobody reads, and
\* every Write that was let in returns even if the pipe is full.
CloseReleases ==
  (\E k \in Closers : closing[k] # "idle") ~>
    /\ ~alive
    /\ pump = "ended"
    /\ \A k \in Closers : closing[k] \in {"idle", "returned"}
    /\ \A w \in Writers : writing[w] \in {"idle", "returned"}

\* The server never hangs in a log line: its standard error is drained for as
\* long as it lives (comment of drainStderr).
LoggingGoesOn == busy ~> (~busy \/ ~alive)
=============================================================================
