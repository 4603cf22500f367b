------------------------------ MODULE StdioProofs ------------------------------
(* Proofs about Stdio, for any writers, Closes, output and sizes of pipes. *)
EXTENDS Stdio, SelectionTheorems

USE DEF closeVars, writeVars, readVars, serverVars

Pieces == Writers \X (1..Parts)

\* Where the writers are, and what of their frames is in the pipe or beyond.
WriteTypes ==
  /\ lock \in Writers \cup {Nobody}
  /\ writing \in [Writers -> {"idle", "entering", "locked", "writing", "returned"}]
  /\ wrote \in [Writers -> 0..Parts]
  /\ stdin \in Seq(Pieces)
  /\ heard \in Seq(Pieces)

\* writeMu: whoever writes holds it, so that at most one does.
LockHeld == \A w \in Writers : writing[w] \in {"locked", "writing"} => lock = w

\* A Write that is let in has written nothing, one that writes has not finished.
Unfinished == \A w \in Writers :
  /\ writing[w] \in {"idle", "entering", "locked"} => wrote[w] = 0
  /\ writing[w] = "writing" => wrote[w] < Parts

PipeUp == stdinOpen /\ alive

\* The last piece on the pipe: while the pipe is up it ends a frame, or its
\* writer still has the lock and goes on with it.
LastPiece ==
  /\ PipeUp /\ Stream # <<>> =>
       \/ Stream[Len(Stream)][2] = Parts
       \/ LET v == Stream[Len(Stream)][1]
          IN writing[v] = "writing" /\ wrote[v] = Stream[Len(Stream)][2]
  /\ \A w \in Writers : PipeUp /\ writing[w] = "writing" /\ wrote[w] > 0 =>
       Stream # <<>> /\ Stream[Len(Stream)] = <<w, wrote[w]>>

WriteInv == WriteTypes /\ LockHeld /\ Unfinished /\ LastPiece /\ WholeFrames

-----------------------------------------------------------------------------

\* In a sequence of pieces, each follows the one before it of its own frame.
Whole(s) ==
  \A i \in 1..Len(s) :
    /\ s[i][2] = 1 \/ (i > 1 /\ s[i - 1] = <<s[i][1], s[i][2] - 1>>)
    /\ s[i][2] = Parts \/ i = Len(s) \/ s[i + 1] = <<s[i][1], s[i][2] + 1>>

\* One more piece: the next of the frame that was on its way, or the first.
LEMMA AppendWhole ==
  ASSUME StdioAssumption, NEW s \in Seq(Pieces), NEW w \in Writers, NEW n \in 1..Parts, Whole(s),
         n = 1 => s = <<>> \/ s[Len(s)][2] = Parts,
         n > 1 => s # <<>> /\ s[Len(s)] = <<w, n - 1>>,
         NEW t, t = Append(s, <<w, n>>)
  PROVE  Whole(t)
<1> USE DEF Whole
<1>1. /\ Len(t) = Len(s) + 1 /\ t[Len(s) + 1] = <<w, n>> /\ Len(s) \in Nat
      /\ \A i \in 1..Len(s) : t[i] = s[i] /\ s[i] \in Pieces
      /\ s # <<>> => Len(s) > 0
  BY DEF Pieces
<1> SUFFICES ASSUME NEW i \in 1..Len(t)
             PROVE  /\ t[i][2] = 1 \/ (i > 1 /\ t[i - 1] = <<t[i][1], t[i][2] - 1>>)
                    /\ t[i][2] = Parts \/ i = Len(t) \/ t[i + 1] = <<t[i][1], t[i][2] + 1>>
  OBVIOUS
<1>2. CASE i < Len(s)
  <2>1. i \in 1..Len(s) /\ i + 1 \in 1..Len(s) /\ (i > 1 => i - 1 \in 1..Len(s))
    BY <1>1, <1>2
  <2> QED
    BY <1>1, <1>2, <2>1
<1>3. CASE i = Len(s)
  <2>1. i \in 1..Len(s) /\ (i > 1 => i - 1 \in 1..Len(s)) /\ s # <<>>
    BY <1>1, <1>3
  <2>2. t[i][2] = 1 \/ (i > 1 /\ t[i - 1] = <<t[i][1], t[i][2] - 1>>)
    BY <1>1, <2>1
  <2>3. CASE n = 1
    BY <1>1, <1>3, <2>1, <2>2, <2>3
  <2>4. CASE n > 1
    <3>1. t[i] = <<w, n - 1>> /\ t[i + 1] = <<w, n>>
      BY <1>1, <1>3, <2>1, <2>4
    <3>2. t[i + 1] = <<t[i][1], t[i][2] + 1>>
      BY <3>1
    <3> QED
      BY <2>2, <3>2
  <2> QED
    BY <2>3, <2>4
<1>4. CASE i = Len(s) + 1
  <2>1. t[i] = <<w, n>>
    BY <1>1, <1>4
  <2>2. n > 1 => i > 1 /\ t[i - 1] = <<w, n - 1>>
    BY <1>1, <1>4
  <2> QED
    BY <1>1, <1>4, <2>1, <2>2
<1> QED
  BY <1>1, <1>2, <1>3, <1>4

-----------------------------------------------------------------------------

LEMMA InitWrite == Init => WriteInv
<1> SUFFICES ASSUME Init PROVE WriteInv
  OBVIOUS
<1>1. WriteTypes /\ LockHeld /\ Unfinished
  BY StdioAssumption DEF Init, WriteTypes, LockHeld, Unfinished
<1>2. Stream = <<>> /\ Len(Stream) = 0
  BY DEF Init, Stream
<1>3. LastPiece /\ WholeFrames
  BY <1>2 DEF Init, LastPiece, WholeFrames
<1> QED
  BY <1>1, <1>3 DEF WriteInv

\* Steps that add nothing to the stream, let nobody in and bring no pipe up.
LEMMA StreamKept ==
  ASSUME WriteInv, Stream' = Stream, wrote' = wrote, PipeUp' => PipeUp,
         \A w \in Writers : PipeUp' /\ wrote[w] > 0 => writing'[w] = writing[w]
  PROVE  LastPiece' /\ WholeFrames'
<1>1. WholeFrames'
  BY DEF WriteInv, WholeFrames
<1>2. LastPiece'
  <2>1. ASSUME PipeUp', Stream' # <<>>
        PROVE  \/ Stream'[Len(Stream')][2] = Parts
               \/ LET v == Stream'[Len(Stream')][1]
                  IN writing'[v] = "writing" /\ wrote'[v] = Stream'[Len(Stream')][2]
    <3> DEFINE p == Stream[Len(Stream)]
    <3>1. p \in Pieces
      <4>1. Stream \in Seq(Pieces)
        BY AppendRight DEF WriteInv, WriteTypes, Stream
      <4> QED
        BY <2>1, <4>1
    <3>2. p[2] = Parts \/ (writing[p[1]] = "writing" /\ wrote[p[1]] = p[2])
      BY <2>1 DEF WriteInv, LastPiece
    <3>3. p[1] \in Writers /\ p[2] > 0
      BY <3>1 DEF Pieces
    <3> QED
      BY <2>1, <3>2, <3>3
  <2>2. ASSUME NEW w \in Writers, PipeUp', writing'[w] = "writing", wrote'[w] > 0
        PROVE  Stream' # <<>> /\ Stream'[Len(Stream')] = <<w, wrote'[w]>>
    BY <2>2 DEF WriteInv, LastPiece
  <2> QED
    BY <2>1, <2>2 DEF LastPiece
<1> QED
  BY <1>1, <1>2

LEMMA WriteSteps == WriteInv /\ [Next]_vars => WriteInv'
<1> SUFFICES ASSUME WriteInv, [Next]_vars PROVE WriteInv'
  OBVIOUS
<1> USE StdioAssumption
<1> USE DEF WriteTypes, LockHeld, Unfinished
<1>1. WriteTypes /\ LockHeld /\ Unfinished /\ LastPiece /\ WholeFrames
  BY DEF WriteInv
<1>2. ASSUME NEW w \in Writers, BeginWrite(w) PROVE WriteInv'
  <2>1. WriteTypes' /\ LockHeld' /\ Unfinished'
    BY <1>1, <1>2 DEF BeginWrite, Finish, Enter
  <2>2. Stream' = Stream /\ PipeUp' = PipeUp
    BY <1>2 DEF BeginWrite, Stream, PipeUp
  <2>3. \A v \in Writers : wrote[v] > 0 => writing'[v] = writing[v]
    BY <1>1, <1>2 DEF BeginWrite, Finish, Enter
  <2> QED
    BY <1>2, <2>1, <2>2, <2>3, StreamKept DEF BeginWrite, WriteInv
<1>3. ASSUME NEW w \in Writers, LockWrite(w) PROVE WriteInv'
  <2>1. WriteTypes' /\ LockHeld' /\ Unfinished'
    BY <1>1, <1>3 DEF LockWrite
  <2>2. Stream' = Stream /\ PipeUp' = PipeUp
    BY <1>3 DEF LockWrite, Stream, PipeUp
  <2>3. \A v \in Writers : wrote[v] > 0 => writing'[v] = writing[v]
    BY <1>1, <1>3 DEF LockWrite
  <2> QED
    BY <1>3, <2>1, <2>2, <2>3, StreamKept DEF LockWrite, WriteInv
<1>4. ASSUME NEW w \in Writers, CheckWrite(w) PROVE WriteInv'
  <2>1. WriteTypes' /\ LockHeld' /\ Unfinished'
    <3>1. wrote' = wrote /\ stdin' = stdin /\ heard' = heard /\ writing[w] = "locked"
      BY <1>4 DEF CheckWrite
    <3>2. WriteTypes'
      BY <1>1, <1>4, <3>1 DEF CheckWrite, Finish, Enter
    <3>3. CASE Finish(w)
      <4>1. lock = w
        BY <1>1, <3>1
      <4>2. lock' = Nobody /\ writing' = [writing EXCEPT ![w] = "returned"]
        BY <3>3, <4>1 DEF Finish
      <4> QED
        BY <1>1, <3>1, <3>2, <4>1, <4>2
    <3>4. CASE Enter(w, "writing")
      <4>1. lock' = lock /\ writing' = [writing EXCEPT ![w] = "writing"]
        BY <3>4 DEF Enter
      <4> QED
        BY <1>1, <3>1, <3>2, <4>1
    <3> QED
      BY <1>4, <3>3, <3>4 DEF CheckWrite
  <2>2. Stream' = Stream /\ PipeUp' = PipeUp
    BY <1>4 DEF CheckWrite, Stream, PipeUp
  <2>3. \A v \in Writers : wrote[v] > 0 => writing'[v] = writing[v]
    BY <1>1, <1>4 DEF CheckWrite, Finish, Enter
  <2> QED
    BY <1>4, <2>1, <2>2, <2>3, StreamKept DEF CheckWrite, WriteInv
<1>5. ASSUME NEW w \in Writers, WritePart(w) PROVE WriteInv'
  <2> DEFINE n == wrote[w] + 1
             e == <<w, n>>
  <2>1. /\ writing[w] = "writing" /\ stdinOpen /\ alive /\ lock = w
        /\ stdin' = Append(stdin, e) /\ heard' = heard
        /\ wrote' = [wrote EXCEPT ![w] = n]
        /\ stdinOpen' = stdinOpen /\ alive' = alive
    BY <1>1, <1>5 DEF WritePart
  <2>2. n \in 1..Parts /\ e \in Pieces
    BY <1>1, <2>1 DEF Pieces
  <2>3. Stream \in Seq(Pieces) /\ Stream' = Append(Stream, e)
    BY <1>1, <2>1, <2>2, AppendRight DEF Stream
  <2>4. /\ n = Parts => writing' = [writing EXCEPT ![w] = "returned"] /\ lock' = Nobody
        /\ n # Parts => writing' = writing /\ lock' = lock
    BY <1>5, <2>1 DEF WritePart, Finish
  <2>5. WriteTypes' /\ LockHeld' /\ Unfinished'
    <3>1. stdin' \in Seq(Pieces) /\ heard' \in Seq(Pieces)
      BY <1>1, <2>1, <2>2
    <3>2. wrote' \in [Writers -> 0..Parts]
      BY <1>1, <2>1, <2>2
    <3>3. CASE n = Parts
      BY <1>1, <2>1, <2>4, <3>1, <3>2, <3>3
    <3>4. CASE n # Parts
      <4>1. n < Parts
        BY <2>2, <3>4
      <4> QED
        BY <1>1, <2>1, <2>4, <3>1, <3>2, <3>4, <4>1
    <3> QED
      BY <3>3, <3>4
  <2>6. WholeFrames'
    <3>1. n = 1 => Stream = <<>> \/ Stream[Len(Stream)][2] = Parts
      <4> SUFFICES ASSUME n = 1, Stream # <<>>, Stream[Len(Stream)][2] # Parts PROVE FALSE
        OBVIOUS
      <4> DEFINE p == Stream[Len(Stream)]
      <4>1. p \in Pieces
        BY <2>3
      <4>2. writing[p[1]] = "writing" /\ wrote[p[1]] = p[2]
        BY <1>1, <2>1 DEF LastPiece, PipeUp
      <4>3. p[1] \in Writers /\ p[2] > 0
        BY <4>1 DEF Pieces
      <4>4. p[1] = w
        BY <1>1, <2>1, <4>2, <4>3
      <4> QED
        BY <1>1, <4>2, <4>3, <4>4
    <3>2. n > 1 => Stream # <<>> /\ Stream[Len(Stream)] = <<w, n - 1>>
      BY <1>1, <2>1, <2>2 DEF LastPiece, PipeUp
    <3> DEFINE s == Stream
               t == Stream'
    <3>3. Whole(s)
      BY <1>1 DEF WholeFrames, Whole
    <3>4. s \in Seq(Pieces) /\ t = Append(s, <<w, n>>)
      BY <2>3
    <3> HIDE DEF n, s, t
    <3>5. Whole(t)
      <4>1. n = 1 => s = <<>> \/ s[Len(s)][2] = Parts
        BY <3>1 DEF s
      <4>2. n > 1 => s # <<>> /\ s[Len(s)] = <<w, n - 1>>
        BY <3>2 DEF s
      <4> QED
        BY <2>2, <3>3, <3>4, <4>1, <4>2, AppendWhole
    <3> QED
      BY <3>5 DEF WholeFrames, Whole, t
  <2>7. LastPiece'
    <3>1. Stream' # <<>> /\ Stream'[Len(Stream')] = e
      BY <2>2, <2>3
    <3>2. n = Parts \/ (writing'[w] = "writing" /\ wrote'[w] = n)
      BY <1>1, <2>1, <2>4
    <3>3. \A v \in Writers : writing'[v] = "writing" => v = w /\ wrote'[v] = n
      BY <1>1, <2>1, <2>4
    <3> HIDE DEF n
    <3> QED
      BY <3>1, <3>2, <3>3 DEF LastPiece
  <2> QED
    BY <2>5, <2>6, <2>7 DEF WriteInv
<1>6. ASSUME NEW w \in Writers, WriteBreaks(w) PROVE WriteInv'
  <2>1. WriteTypes' /\ LockHeld' /\ Unfinished'
    BY <1>1, <1>6 DEF WriteBreaks, Finish
  <2>2. Stream' = Stream /\ PipeUp' = PipeUp /\ ~PipeUp
    BY <1>6 DEF WriteBreaks, Stream, PipeUp
  <2> QED
    BY <1>6, <2>1, <2>2, StreamKept DEF WriteBreaks, WriteInv
<1>7. CASE Hear
  <2>1. heard' = Append(heard, Head(stdin)) /\ stdin' = Tail(stdin) /\ stdin # <<>>
        /\ UNCHANGED <<lock, writing, wrote, stdinOpen, alive>>
    BY <1>7 DEF Hear
  <2>2. Stream' = Stream /\ heard' \in Seq(Pieces) /\ stdin' \in Seq(Pieces)
    BY <1>1, <2>1, MoveOne DEF Stream
  <2>3. WriteTypes' /\ LockHeld' /\ Unfinished'
    BY <1>1, <2>1, <2>2
  <2> QED
    BY <2>1, <2>2, <2>3, StreamKept DEF WriteInv, PipeUp
<1>8. ASSUME UNCHANGED <<writeVars, stdin, heard>>, PipeUp' => PipeUp PROVE WriteInv'
  <2>1. WriteTypes' /\ LockHeld' /\ Unfinished' /\ Stream' = Stream
    BY <1>1, <1>8 DEF Stream
  <2> QED
    BY <1>8, <2>1, StreamKept DEF WriteInv
<1>9. ASSUME NEW k \in Closers, MarkClosed(k) \/ CloseStep(k) PROVE WriteInv'
  <2>1. UNCHANGED <<writeVars, stdin, heard>> /\ (PipeUp' => PipeUp)
    BY <1>9 DEF MarkClosed, CloseStep, CloseDone, CloseStdin, Kill, CloseReturns, PipeUp
  <2> QED
    BY <1>8, <2>1
<1>10. ASSUME Reap \/ PumpStep \/ Receive \/ ReadEnds \/ ReadCanceled PROVE WriteInv'
  <2>1. UNCHANGED <<writeVars, stdin, heard>> /\ (PipeUp' => PipeUp)
    BY <1>10 DEF Reap, PumpStep, ScanLine, PumpDone, PumpEof, Receive, ReadEnds, ReadCanceled,
                 PipeUp
  <2> QED
    BY <1>8, <2>1
<1>11. ASSUME DrainLine \/ DrainEnds \/ PrintLine \/ BeginLog \/ EndLog \/ Exit
       PROVE  WriteInv'
  <2>1. UNCHANGED <<writeVars, stdin, heard>> /\ (PipeUp' => PipeUp)
    BY <1>11 DEF DrainLine, DrainEnds, PrintLine, BeginLog, EndLog, Exit, PipeUp
  <2> QED
    BY <1>8, <2>1
<1>12. CASE UNCHANGED vars
  <2>1. UNCHANGED <<writeVars, stdin, heard>> /\ (PipeUp' => PipeUp)
    BY <1>12 DEF vars, PipeUp
  <2> QED
    BY <1>8, <2>1
<1> QED
  BY <1>2, <1>3, <1>4, <1>5, <1>6, <1>7, <1>9, <1>10, <1>11, <1>12
     DEF Next, WriteStep, Server

\* However many goroutines write at once, and in however many pieces the pipe
\* takes their frames, the server reads one whole frame after another (writeMu).
THEOREM FramesStayWhole == Spec => []WholeFrames
<1>1. WriteInv => WholeFrames
  BY DEF WriteInv
<1> QED
  BY <1>1, InitWrite, WriteSteps, PTL DEF Spec
-----------------------------------------------------------------------------
(* Types *)

\* The types of the variables that are no flags, with what readFrames offers.
Typed == /\ WriteTypes
         /\ closing \in [Closers -> {"idle", "marked", "signalled", "waiting", "killed",
                                     "returned"}]
         /\ pump \in {"reading", "offering", "ended"}
         /\ readErr \in {"none", "closed", "eof"}
         /\ reader \in {"reading", "closed", "eof", "ctx"}
         /\ scanned \in 0..printed
         /\ printed \in 0..Len(Output)
         /\ pump = "offering" => scanned > 0 /\ IsFrame(scanned)
         /\ pump = "ended" => readErr # "none"
         /\ received \in Seq(JsonLines)
         /\ Len(stdin) <= PipeSize
         /\ stderr \in Seq(LogLines) /\ Len(stderr) <= PipeSize
         /\ logs \in 0..MaxLogs

Flags == {closed, done, stdinOpen, reaped, alive, busy, drain} \subseteq BOOLEAN

LEMMA InitTyped == Init => Typed /\ Flags
<1> SUFFICES ASSUME Init PROVE Typed /\ Flags
  OBVIOUS
<1>1. Len(Output) \in Nat
  BY OutputAssumption
<1>2. Typed
  BY <1>1, StdioAssumption DEF Init, Typed, WriteTypes
<1>3. Flags
  BY DEF Init, Flags
<1> QED
  BY <1>2, <1>3

LEMMA TailType ==
  ASSUME NEW S, NEW s \in Seq(S), s # <<>>
  PROVE  Tail(s) \in Seq(S) /\ Len(Tail(s)) = Len(s) - 1 /\ Len(s) \in Nat
  OBVIOUS

LEMMA StepTyped == WriteInv /\ Typed /\ [Next]_vars => Typed'
<1> SUFFICES ASSUME WriteInv, Typed, [Next]_vars PROVE Typed'
  OBVIOUS
<1> USE StdioAssumption
<1>1. WriteTypes'
  BY WriteSteps DEF WriteInv
<1>2. Len(Output) \in Nat
  BY OutputAssumption
<1> USE DEF Typed
<1>3. ASSUME NEW w \in Writers, BeginWrite(w) \/ LockWrite(w) \/ CheckWrite(w) \/ WriteBreaks(w)
      PROVE  Typed'
  BY <1>1, <1>3 DEF BeginWrite, LockWrite, CheckWrite, WriteBreaks, IsFrame
<1>4. ASSUME NEW w \in Writers, WritePart(w) PROVE Typed'
  <2>1. Len(stdin) < PipeSize /\ Len(stdin') = Len(stdin) + 1
    BY <1>4 DEF WritePart, WriteTypes
  <2> QED
    BY <1>1, <1>4, <2>1 DEF WritePart, WriteTypes, IsFrame
<1>5. ASSUME NEW k \in Closers, MarkClosed(k) \/ CloseStep(k) PROVE Typed'
  BY <1>1, <1>5 DEF MarkClosed, CloseStep, CloseDone, CloseStdin, Kill, CloseReturns,
                    CloseGoto, IsFrame
<1>6. CASE Reap \/ ReadEnds \/ ReadCanceled
  BY <1>1, <1>6 DEF Reap, ReadEnds, ReadCanceled, IsFrame
<1>7. CASE PumpStep
  BY <1>1, <1>2, <1>7 DEF PumpStep, ScanLine, PumpDone, PumpEof, IsFrame
<1>8. CASE Receive
  <2>1. Output[scanned] \in JsonLines
    BY <1>8 DEF Receive, IsFrame
  <2> QED
    BY <1>1, <1>8, <2>1 DEF Receive, IsFrame
<1>9. CASE DrainLine \/ DrainEnds
  <2>1. stderr' \in Seq(LogLines) /\ Len(stderr') <= PipeSize
    <3>1. CASE stderr' = stderr
      BY <3>1
    <3>2. CASE stderr # <<>> /\ stderr' = Tail(stderr)
      <4>1. /\ stderr' \in Seq(LogLines)
            /\ Len(stderr') = Len(stderr) - 1 /\ Len(stderr) \in Nat
        BY <3>2, TailType
      <4> QED
        BY <4>1
    <3> QED
      BY <1>9, <3>1, <3>2 DEF DrainLine, DrainEnds
  <2> QED
    BY <1>1, <1>9, <2>1 DEF DrainLine, DrainEnds, IsFrame
<1>10. CASE Hear
  <2>1. Len(stdin') <= PipeSize
    BY <1>10 DEF Hear, WriteTypes
  <2> QED
    BY <1>1, <1>10, <2>1 DEF Hear, IsFrame
<1>11. CASE PrintLine \/ BeginLog \/ Exit
  BY <1>1, <1>2, <1>11 DEF PrintLine, BeginLog, Exit, IsFrame
<1>12. CASE EndLog
  <2>1. stderr' \in Seq(LogLines) /\ Len(stderr') <= PipeSize
    BY <1>12 DEF EndLog
  <2> QED
    BY <1>1, <1>12, <2>1 DEF EndLog, IsFrame
<1>13. CASE UNCHANGED vars
  BY <1>1, <1>13 DEF vars, IsFrame
<1> QED
  BY <1>3, <1>4, <1>5, <1>6, <1>7, <1>8, <1>9, <1>10, <1>11, <1>12, <1>13
     DEF Next, WriteStep, Server

LEMMA StepFlags == Flags /\ [Next]_vars => Flags'
<1> SUFFICES ASSUME Flags, [Next]_vars PROVE Flags'
  OBVIOUS
<1> USE DEF Flags
<1>1. ASSUME NEW w \in Writers, BeginWrite(w) \/ WriteStep(w) PROVE Flags'
  BY <1>1 DEF BeginWrite, WriteStep, LockWrite, CheckWrite, WritePart, WriteBreaks
<1>2. ASSUME NEW k \in Closers, MarkClosed(k) \/ CloseStep(k) PROVE Flags'
  BY <1>2 DEF MarkClosed, CloseStep, CloseDone, CloseStdin, Kill, CloseReturns
<1>3. CASE Reap \/ PumpStep \/ Receive \/ ReadEnds \/ ReadCanceled
  BY <1>3 DEF Reap, PumpStep, ScanLine, PumpDone, PumpEof, Receive, ReadEnds, ReadCanceled
<1>4. CASE DrainLine
  <2>1. drain' \in BOOLEAN
    BY <1>4 DEF DrainLine
  <2> QED
    BY <1>4, <2>1 DEF DrainLine
<1>5. CASE DrainEnds \/ Server
  BY <1>5 DEF DrainEnds, Server, Hear, PrintLine, BeginLog, EndLog, Exit
<1>6. CASE UNCHANGED vars
  BY <1>6 DEF vars
<1> QED
  BY <1>1, <1>2, <1>3, <1>4, <1>5, <1>6 DEF Next

\* Every variable of the transport and its server keeps its type, and the pipes
\* their size: what Read returns are frames the server printed.
THEOREM TypeCorrect == Spec => []TypeOK
<1>1. Typed /\ Flags => TypeOK
  BY Zenon DEF Typed, Flags, WriteTypes, Pieces, TypeOK
<1> QED
  BY <1>1, InitWrite, WriteSteps, InitTyped, StepTyped, StepFlags, PTL DEF Spec
-----------------------------------------------------------------------------
(* Frames *)

FrameLines == {i \in 1..Len(Output) : IsFrame(i)}

LEMMA OutputIsSeq == Output \in Seq({Output[i] : i \in 1..Len(Output)}) /\ Len(Output) \in Nat
BY OutputAssumption

\* With one line more, one frame more if the line is one.
LEMMA OneLineMore ==
  ASSUME NEW n \in 0..(Len(Output) - 1)
  PROVE  FramesAmong(n + 1) = IF IsFrame(n + 1) THEN Append(FramesAmong(n), Output[n + 1])
                              ELSE FramesAmong(n)
<1> DEFINE u == UpTo(Output, FrameLines)
<1>1. /\ n \in 0..Len(Output) /\ n + 1 \in 0..Len(Output) /\ n + 1 \in 1..Len(Output)
  BY OutputIsSeq
<1>2. FramesAmong(n) = u[n]
  <2>1. \A i \in 1..n : i \in {j \in 1..n : IsFrame(j)} <=> i \in FrameLines
    BY <1>1, OutputIsSeq DEF FrameLines
  <2> QED
    BY <1>1, <2>1, OutputIsSeq, SelectedOfPrefix DEF FramesAmong
<1>3. FramesAmong(n + 1) = u[n + 1]
  <2>1. \A i \in 1..(n + 1) : i \in {j \in 1..(n + 1) : IsFrame(j)} <=> i \in FrameLines
    BY <1>1, OutputIsSeq DEF FrameLines
  <2> QED
    BY <1>1, <2>1, OutputIsSeq, SelectedOfPrefix DEF FramesAmong
<1>4. u[n + 1] = IF n + 1 \in FrameLines THEN Append(u[n], Output[n + 1]) ELSE u[n]
  BY OutputIsSeq, UpToSteps
<1>5. n + 1 \in FrameLines <=> IsFrame(n + 1)
  BY <1>1 DEF FrameLines
<1> HIDE DEF u
<1> QED
  BY <1>2, <1>3, <1>4, <1>5

LEMMA NoLine == FramesAmong(0) = <<>>
<1>1. SubSeq(Output, 1, 0) = <<>>
  BY OutputIsSeq
<1> QED
  BY <1>1, SelectedEmpty DEF FramesAmong

\* The frames among the first lines come first among those of more lines.
LEMMA FramesGrow ==
  ASSUME NEW m \in 0..Len(Output), NEW n \in m..Len(Output)
  PROVE  /\ Len(FramesAmong(m)) <= Len(FramesAmong(n))
         /\ FramesAmong(m) = SubSeq(FramesAmong(n), 1, Len(FramesAmong(m)))
         /\ FramesAmong(n) \in Seq(JsonLines)
<1> DEFINE u == UpTo(Output, FrameLines)
           D == {Output[i] : i \in 1..Len(Output)}
<1>1. m \in 0..Len(Output) /\ n \in 0..Len(Output) /\ Len(Output) \in Nat
  BY OutputIsSeq
<1>2. \A k \in 0..Len(Output) : FramesAmong(k) = u[k]
  <2> SUFFICES ASSUME NEW k \in 0..Len(Output) PROVE FramesAmong(k) = u[k]
    OBVIOUS
  <2>1. \A i \in 1..k : i \in {j \in 1..k : IsFrame(j)} <=> i \in FrameLines
    BY <1>1 DEF FrameLines
  <2> QED
    BY <2>1, OutputIsSeq, SelectedOfPrefix DEF FramesAmong
<1>3. Len(u[m]) <= Len(u[n]) /\ u[m] = SubSeq(u[n], 1, Len(u[m]))
  BY OutputIsSeq, UpToGrows
<1>4. u[n] \in Seq(JsonLines)
  <2>1. \A i \in 1..Len(Output) : i \in FrameLines => Output[i] \in JsonLines
    BY DEF FrameLines, IsFrame
  <2> QED
    BY <1>1, <2>1, OutputIsSeq, UpToTyped
<1> HIDE DEF u
<1> QED
  BY <1>1, <1>2, <1>3, <1>4

\* A frame readFrames offers is the next one of those among the lines it has
\* read; the others Read has returned, and all of them once it goes on.
InHand == FramesAmong(scanned) = Append(received, Output[scanned])
AllRead == received = FramesAmong(scanned)

\* It stops with one in hand only after Close, and at the end of the output
\* only after Close or when the server is gone and has been read to its end.
FramesRead ==
  /\ pump = "reading" => AllRead
  /\ pump = "offering" => InHand
  /\ pump = "ended" => AllRead \/ (readErr = "closed" /\ InHand)
  /\ pump = "ended" /\ readErr = "eof" =>
       AllRead /\ (closed \/ (~alive /\ scanned = printed))
  /\ reader = "eof" => pump = "ended" /\ readErr = "eof"

CloseFirst == /\ \A k \in Closers : closing[k] # "idle" => closed
              /\ reaped => closed

ReadInv == FramesRead /\ CloseFirst

LEMMA InitRead == Init => ReadInv
BY NoLine DEF Init, ReadInv, FramesRead, CloseFirst, AllRead

LEMMA CloseFirstSteps == Typed /\ CloseFirst /\ [Next]_vars => CloseFirst'
<1> SUFFICES ASSUME Typed, CloseFirst, [Next]_vars PROVE CloseFirst'
  OBVIOUS
<1> USE DEF CloseFirst
<1>1. ASSUME NEW k \in Closers, MarkClosed(k) \/ CloseStep(k) PROVE CloseFirst'
  BY <1>1 DEF Typed, MarkClosed, CloseStep, CloseDone, CloseStdin, Kill, CloseReturns, CloseGoto
<1>2. CASE Reap
  BY <1>2 DEF Reap
<1>3. ASSUME UNCHANGED <<closing, closed, reaped>> PROVE CloseFirst'
  BY <1>3
<1>4. ASSUME NEW w \in Writers, BeginWrite(w) \/ WriteStep(w) PROVE CloseFirst'
  BY <1>3, <1>4 DEF BeginWrite, WriteStep, LockWrite, CheckWrite, WritePart, WriteBreaks
<1>5. CASE PumpStep \/ Receive \/ ReadEnds \/ ReadCanceled
  BY <1>3, <1>5 DEF PumpStep, ScanLine, PumpDone, PumpEof, Receive, ReadEnds, ReadCanceled
<1>6. CASE DrainLine \/ DrainEnds \/ Server
  BY <1>3, <1>6 DEF DrainLine, DrainEnds, Server, Hear, PrintLine, BeginLog, EndLog, Exit
<1>7. CASE UNCHANGED vars
  BY <1>3, <1>7 DEF vars
<1> QED
  BY <1>1, <1>2, <1>4, <1>5, <1>6, <1>7 DEF Next

\* Steps that let readFrames and Read be, and after which what is closed and
\* gone stays so.
LEMMA ReadingKept ==
  ASSUME FramesRead, UNCHANGED readVars, closed => closed', ~alive => ~alive' /\ printed' = printed
  PROVE  FramesRead'
BY DEF FramesRead, AllRead, InHand, FramesAmong, IsFrame

LEMMA FramesReadSteps == Typed /\ Flags /\ ReadInv /\ [Next]_vars => FramesRead'
<1> SUFFICES ASSUME Typed, Flags, ReadInv, [Next]_vars PROVE FramesRead'
  OBVIOUS
<1>1. FramesRead /\ CloseFirst
  BY DEF ReadInv
<1>2. scanned \in 0..printed /\ printed \in 0..Len(Output) /\ Len(Output) \in Nat
  BY OutputIsSeq DEF Typed
<1>3. ASSUME NEW w \in Writers, BeginWrite(w) \/ WriteStep(w) PROVE FramesRead'
  BY <1>1, <1>3, ReadingKept
     DEF BeginWrite, WriteStep, LockWrite, CheckWrite, WritePart, WriteBreaks
<1>4. ASSUME NEW k \in Closers, MarkClosed(k) \/ CloseStep(k) PROVE FramesRead'
  BY <1>1, <1>4, ReadingKept
     DEF MarkClosed, CloseStep, CloseDone, CloseStdin, Kill, CloseReturns
<1>5. CASE Reap \/ DrainLine \/ DrainEnds
  BY <1>1, <1>5, ReadingKept DEF Reap, DrainLine, DrainEnds
<1>6. CASE Server
  BY <1>1, <1>6, ReadingKept DEF Server, Hear, PrintLine, BeginLog, EndLog, Exit, Idle
<1>7. CASE ScanLine
  <2>1. /\ pump = "reading" /\ scanned < printed /\ scanned' = scanned + 1
        /\ pump' = IF IsFrame(scanned + 1) THEN "offering" ELSE "reading"
        /\ received' = received /\ reader' = reader
    BY <1>7 DEF ScanLine
  <2>2. FramesAmong(scanned + 1) = IF IsFrame(scanned + 1)
                                   THEN Append(FramesAmong(scanned), Output[scanned + 1])
                                   ELSE FramesAmong(scanned)
    BY <1>2, <2>1, OneLineMore
  <2>3. AllRead /\ reader # "eof"
    BY <1>1, <2>1 DEF FramesRead
  <2>4. pump' = "offering" => InHand'
    BY <2>1, <2>2, <2>3 DEF AllRead, InHand, FramesAmong, IsFrame
  <2>5. pump' = "reading" => AllRead'
    BY <2>1, <2>2, <2>3 DEF AllRead, FramesAmong, IsFrame
  <2>6. pump' # "ended"
    BY <2>1
  <2> QED
    BY <2>1, <2>3, <2>4, <2>5, <2>6 DEF FramesRead
<1>8. CASE Receive
  <2>1. /\ pump = "offering" /\ reader = "reading" /\ pump' = "reading" /\ reader' = reader
        /\ received' = Append(received, Output[scanned]) /\ scanned' = scanned
    BY <1>8 DEF Receive
  <2>2. AllRead'
    BY <1>1, <2>1 DEF FramesRead, InHand, AllRead, FramesAmong, IsFrame
  <2> QED
    BY <2>1, <2>2 DEF FramesRead
<1>9. CASE PumpDone
  <2>1. /\ pump = "offering" /\ pump' = "ended" /\ readErr' = "closed" /\ reader' = reader
        /\ received' = received /\ scanned' = scanned
    BY <1>9 DEF PumpDone
  <2>2. InHand' /\ reader # "eof"
    BY <1>1, <2>1 DEF FramesRead, InHand, FramesAmong, IsFrame
  <2> QED
    BY <2>1, <2>2 DEF FramesRead
<1>10. CASE PumpEof
  <2>1. /\ pump = "reading" /\ pump' = "ended" /\ readErr' = "eof" /\ reader' = reader
        /\ received' = received /\ scanned' = scanned /\ printed' = printed
        /\ reaped \/ (~alive /\ scanned = printed)
        /\ closed' = closed /\ alive' = alive
    BY <1>10 DEF PumpEof
  <2>2. AllRead' /\ reader # "eof" /\ (closed \/ (~alive /\ scanned = printed))
    BY <1>1, <2>1 DEF FramesRead, CloseFirst, AllRead, FramesAmong, IsFrame
  <2> QED
    BY <2>1, <2>2 DEF FramesRead
<1>11. CASE ReadEnds \/ ReadCanceled
  <2>1. /\ UNCHANGED <<pump, scanned, readErr, received, closed, alive, printed>>
        /\ reader' = "eof" => pump = "ended" /\ readErr = "eof"
    BY <1>11 DEF ReadEnds, ReadCanceled
  <2> QED
    BY <1>1, <2>1 DEF FramesRead, AllRead, InHand, FramesAmong, IsFrame
<1>12. CASE UNCHANGED vars
  BY <1>1, <1>12, ReadingKept DEF vars
<1> QED
  BY <1>3, <1>4, <1>5, <1>6, <1>7, <1>8, <1>9, <1>10, <1>11, <1>12 DEF Next, PumpStep

LEMMA ReadLosesNothing == Typed /\ ReadInv => NothingLost
<1> SUFFICES ASSUME Typed, ReadInv PROVE NothingLost
  OBVIOUS
<1>1. FramesRead
  BY DEF ReadInv
<1> DEFINE a == FramesAmong(scanned)
           b == FramesAmong(printed)
<1>2. /\ scanned \in 0..Len(Output) /\ printed \in scanned..Len(Output)
      /\ received \in Seq(JsonLines)
  BY OutputIsSeq DEF Typed
<1>3. /\ Len(a) <= Len(b) /\ a = SubSeq(b, 1, Len(a)) /\ b \in Seq(JsonLines)
  BY <1>2, FramesGrow
<1>4. received = a \/ a = Append(received, Output[scanned])
  BY <1>1 DEF Typed, FramesRead, AllRead, InHand
<1>5. pump = "ended" /\ readErr = "eof" /\ ~closed => received = b
  BY <1>1 DEF FramesRead, AllRead
<1>6. reader = "eof" => pump = "ended" /\ readErr = "eof"
  BY <1>1 DEF FramesRead
<1> HIDE DEF a, b
<1>7. Len(received) <= Len(b) /\ received = SubSeq(b, 1, Len(received))
  <2>1. CASE received = a
    BY <1>3, <2>1
  <2>2. CASE a = Append(received, Output[scanned])
    <3>1. Len(a) = Len(received) + 1 /\ Len(received) \in Nat /\ Len(b) \in Nat
      BY <1>2, <1>3, <2>2
    <3>2. Len(received) <= Len(b)
      BY <1>3, <3>1
    <3> DEFINE c == SubSeq(b, 1, Len(received))
    <3>3. c \in Seq(JsonLines) /\ Len(c) = Len(received)
      BY <1>3, <3>1, <3>2
    <3>4. ASSUME NEW i \in 1..Len(received) PROVE c[i] = received[i]
      <4>1. a[i] = received[i]
        BY <1>2, <2>2, <3>1
      <4>2. a[i] = b[i] /\ c[i] = b[i]
        BY <1>3, <3>1, <3>2
      <4> QED
        BY <4>1, <4>2
    <3> HIDE DEF c
    <3>5. c = received
      BY <1>2, <3>3, <3>4, SeqEqual
    <3> QED
      BY <3>2, <3>5 DEF c
  <2> QED
    BY <1>4, <2>1, <2>2
<1> QED
  BY <1>5, <1>6, <1>7 DEF NothingLost, b

\* Read returns the frames among the lines the server printed, in their order and
\* without gaps, whatever the output is and whenever either side stops; and all
\* of them if it reports the end of the output before Close.
THEOREM NoFrameLost == Spec => []NothingLost
<1> QED
  BY InitWrite, WriteSteps, InitTyped, StepTyped, StepFlags, InitRead, CloseFirstSteps,
     FramesReadSteps, ReadLosesNothing, PTL DEF Spec, ReadInv
=============================================================================
