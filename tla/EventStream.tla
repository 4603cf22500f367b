------------------------------ MODULE EventStream ------------------------------
(***************************************************************************)
(* The frames an event stream carries: next and splitField of              *)
(* src/internal/transport/sse.go, called over and over by drainStream of   *)
(* http.go.                                                                *)
(*                                                                         *)
(* A stream is a sequence of lines without their endings, a line one of    *)
(* characters, the name data being one of them.  A stream that breaks off  *)
(* ends in whatever it had of its last line.                               *)
(***************************************************************************)
EXTENDS Integers, Sequences, Selection

CONSTANTS Lines,      \* the lines a server may send
          MaxLines    \* bound: lines of a stream

Data == "data"
Colon == ":"
Space == " "
NewLine == "newline"

Characters == UNION {{line[i] : i \in 1..Len(line)} : line \in Lines}

ASSUME StreamAssumption == /\ Lines # {} /\ Lines \subseteq Seq(Characters)
                           /\ MaxLines \in Nat

Streams == UNION {[1..n -> Lines] : n \in 0..MaxLines}

First(positions) == CHOOSE i \in positions : \A j \in positions : i <= j
Last(positions) == CHOOSE i \in positions : \A j \in positions : i >= j

-----------------------------------------------------------------------------
(* splitField *)

\* Where the name of a field ends; a line without a colon is all name.
Colons(line) == {i \in 1..Len(line) : line[i] = Colon}
FieldColon(line) == IF Colons(line) = {} THEN 0 ELSE First(Colons(line))
Name(line) == IF FieldColon(line) = 0 THEN line ELSE SubSeq(line, 1, FieldColon(line) - 1)

\* What follows the colon, without one leading space.
Value(line) == LET rest == SubSeq(line, FieldColon(line) + 1, Len(line))
               IN IF FieldColon(line) = 0 THEN <<>>
                  ELSE IF rest # <<>> /\ Head(rest) = Space THEN Tail(rest) ELSE rest

IsData(line) == line # <<>> /\ Head(line) # Colon /\ Name(line) = <<Data>>

-----------------------------------------------------------------------------
(* next, over the lines of a stream: the data of the event so far, and the *)
(* payloads it has returned                                                *)

Join(data, value) == IF data = <<>> THEN value ELSE data \o <<NewLine>> \o value

\* An event that brings no data is a keep-alive.
Yield(r) == IF r.data = <<>> THEN r
            ELSE [data |-> <<>>, payloads |-> Append(r.payloads, r.data)]

\* Mutant: a comment, or a field other than data, ends the event.
BugOther(r, line) == IF IsData(line) THEN [r EXCEPT !.data = Join(@, Value(line))]
                     ELSE Yield(r)

Line(r, line) == IF line = <<>> THEN Yield(r)
                 ELSE IF IsData(line) THEN [r EXCEPT !.data = Join(@, Value(line))]
                 ELSE r

\* What the reader has after each number of lines.
Nothing == [data |-> <<>>, payloads |-> <<>>]
Reading(lines) ==
  LET has[n \in 0..Len(lines)] == IF n = 0 THEN Nothing ELSE Line(has[n - 1], lines[n])
  IN has

\* The end of the stream yields what an unfinished event had.
Payloads(lines) == Yield(Reading(lines)[Len(lines)]).payloads

-----------------------------------------------------------------------------
(* drainStream *)

Shown(payload) == {i \in 1..Len(payload) : payload[i] \notin {Space, NewLine}}
TrimSpace(payload) == IF Shown(payload) = {} THEN <<>>
                      ELSE SubSeq(payload, First(Shown(payload)), Last(Shown(payload)))

NonEmpty(all) == Selected(all, {i \in 1..Len(all) : all[i] # <<>>})
Trimmed(payloads) == [i \in 1..Len(payloads) |-> TrimSpace(payloads[i])]
StreamFrames(lines) == NonEmpty(Trimmed(Payloads(lines)))

-----------------------------------------------------------------------------
(* What the format promises: an event ends at a blank line or with the     *)
(* stream, and carries what its data lines say, one below the other        *)

Blank(lines, i) == i \in 1..Len(lines) /\ lines[i] = <<>>
EndsEvent(lines, i) == Blank(lines, i) \/ i = Len(lines) + 1

\* The lines before position i, back to the last blank one.
EventBefore(lines, i) ==
  LET start == Last({0} \cup {j \in 1..(i - 1) : Blank(lines, j)})
  IN SubSeq(lines, start + 1, i - 1)

Piece(line) == IF IsData(line) THEN <<NewLine>> \o Value(line) ELSE <<>>
Texts(event) ==
  LET text[n \in 0..Len(event)] == IF n = 0 THEN <<>> ELSE text[n - 1] \o Piece(event[n])
  IN text
Carried(event) == TrimSpace(Texts(event)[Len(event)])

Promised(lines) ==
  NonEmpty([i \in 1..(Len(lines) + 1) |->
              IF EndsEvent(lines, i) THEN Carried(EventBefore(lines, i)) ELSE <<>>])

\* The two agree on every stream.
ReadAsPromised == \A lines \in Streams : StreamFrames(lines) = Promised(lines)
=============================================================================
