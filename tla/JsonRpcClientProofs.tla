------------------------- MODULE JsonRpcClientProofs -------------------------
(* Proofs about JsonRpcClient, for any calls, notifications and bounds. *)
EXTENDS JsonRpcClient, FiniteSetTheorems, TLAPS

USE DEF clientVars, callerVars, readerVars, ctxVars, peerVars, wireVars

LEMMA InitType == Init => TypeOK
<1> USE ConstantsAssumption
<1> SUFFICES ASSUME Init PROVE TypeOK
  OBVIOUS
<1>1. NoFrame \in Frames
  BY DEF NoFrame, Frames, RawIds, NoId, Forms
<1>2. NoId \in RawIds
  BY DEF NoId, RawIds, Forms
<1> QED
  <2>1. outcome \in [Calls -> [why : Whys, of : Calls \cup {Nobody}, err : Errors \cup {NoErr}]]
    BY DEF Init, NoOutcome, Whys
  <2>2. pending \in [DOMAIN pending -> Calls] /\ DOMAIN pending \subseteq RawIds
    BY DEF Init
  <2>3. pc \in [Calls \cup Notes -> {"idle"}]
    BY DEF Init
  <2>4. inbox \in [Calls -> Seq(Frames)] /\ inbound \in Seq(Frames)
    BY DEF Init
  <2>5. log \in Seq(Entries) /\ sent \in Seq(Entries)
    BY DEF Init
  <2> QED
    BY <1>1, <1>2, <2>1, <2>2, <2>3, <2>4, <2>5 DEF Init, TypeOK

\* The entries of the log and of the wire, and the frames, are well formed.
LEMMA EntryTypes ==
  ASSUME TypeOK
  PROVE  /\ NoId \in RawIds
         /\ \A c \in Calls : Request(c) \in Entries
         /\ \A m \in Notes : Note(m) \in Entries
         /\ \A f \in Frames : Incoming(f) \in Entries /\ Refusal(f.id) \in Entries
<1>1. NoId \in RawIds
  BY DEF NoId, RawIds, Forms
<1>2. ASSUME NEW c \in Calls PROVE Request(c) \in Entries
  <2>1. id[c] \in RawIds
    BY DEF TypeOK
  <2> QED
    BY <2>1 DEF Request, Entries
<1>3. ASSUME NEW m \in Notes PROVE Note(m) \in Entries
  BY <1>1 DEF Note, Entries
<1>4. ASSUME NEW f \in Frames PROVE Incoming(f) \in Entries /\ Refusal(f.id) \in Entries
  BY DEF Frames, Incoming, Refusal, Entries
<1> QED
  BY <1>1, <1>2, <1>3, <1>4

LEMMA LogType ==
  ASSUME log \in Seq(Entries), NEW e \in Entries, Log(e)
  PROVE  log' \in Seq(Entries)
  BY DEF Log

\* What is read from a channel or a pipe has the type of what was put there.
LEMMA HeadTail ==
  ASSUME NEW S, NEW s \in Seq(S), s # <<>>
  PROVE  Head(s) \in S /\ Tail(s) \in Seq(S)
  OBVIOUS

LEMMA NextType == TypeOK /\ [Next]_vars => TypeOK'
<1> USE ConstantsAssumption DEF TypeOK, Goto, Settle
<1> SUFFICES ASSUME TypeOK, [Next]_vars PROVE TypeOK'
  OBVIOUS
<1>1. ASSUME NEW c \in Calls, Mint(c) PROVE TypeOK'
  BY <1>1 DEF Mint, RawIds, Forms, NumericForms
<1>2. ASSUME NEW c \in Calls, Register(c) PROVE TypeOK'
  BY <1>2 DEF Register, IdKey, RawIds, Forms, NumericForms
<1>3. ASSUME NEW c \in Calls, LogRequest(c) PROVE TypeOK'
  <2>1. log' \in Seq(Entries)
    BY <1>3, EntryTypes, LogType DEF LogRequest
  <2>2. CASE c \in cancelled
    <3>1. /\ outcome' = [outcome EXCEPT ![c] = [why |-> "write", of |-> Nobody, err |-> NoErr]]
          /\ pc' = [pc EXCEPT ![c] = "leaving"]
      BY <1>3, <2>2 DEF LogRequest
    <3>2. UNCHANGED <<clientVars, id, inbox, readerVars, closer, ctxVars, peerVars, sent>>
      BY <1>3 DEF LogRequest
    <3>3. outcome' \in [Calls -> [why : Whys, of : Calls \cup {Nobody}, err : Errors \cup {NoErr}]]
      BY <3>1 DEF Whys
    <3>4. pc' \in [Calls \cup Notes -> {"idle", "minted", "registered", "logged", "written",
                                       "waiting", "leaving", "returned"}]
      BY <3>1
    <3> QED
      BY <2>1, <3>2, <3>3, <3>4
  <2>3. CASE c \notin cancelled
    BY <1>3, <2>1, <2>3 DEF LogRequest
  <2> QED
    BY <2>2, <2>3
<1>4. ASSUME NEW c \in Calls, Transmit(c) PROVE TypeOK'
  BY <1>4, EntryTypes DEF Transmit
<1>5. ASSUME NEW c \in Calls, WriteReturns(c) PROVE TypeOK'
  BY <1>5 DEF WriteReturns
<1>6. ASSUME NEW c \in Calls, WriteFails(c) PROVE TypeOK'
  BY <1>6 DEF WriteFails, Whys
<1>7. ASSUME NEW c \in Calls, SelectCtx(c) PROVE TypeOK'
  BY <1>7 DEF SelectCtx, Whys
<1>8. ASSUME NEW c \in Calls, SelectClosed(c) PROVE TypeOK'
  BY <1>8 DEF SelectClosed, Whys
<1>9. ASSUME NEW c \in Calls, SelectInbox(c) PROVE TypeOK'
  <2>1. Head(inbox[c]) \in Frames /\ Tail(inbox[c]) \in Seq(Frames)
    BY <1>9, HeadTail DEF SelectInbox
  <2>2. Head(inbox[c]).body \in Calls \cup {Nobody}
    BY <2>1 DEF Frames
  <2> QED
    BY <1>9, <2>1, <2>2 DEF SelectInbox, Whys
<1>10. ASSUME NEW c \in Calls, Leave(c) PROVE TypeOK'
  BY <1>10 DEF Leave
<1>11. ASSUME NEW c \in Calls, Cancel(c) PROVE TypeOK'
  BY <1>11 DEF Cancel
<1>12. ASSUME NEW m \in Notes, LogNote(m) PROVE TypeOK'
  <2>1. log' \in Seq(Entries)
    BY <1>12, EntryTypes, LogType DEF LogNote
  <2> QED
    BY <1>12, <2>1 DEF LogNote
<1>13. ASSUME NEW m \in Notes, NoteStep(m) PROVE TypeOK'
  <2>1. CASE TransmitNote(m)
    <3>1. Note(m) \in Entries
      BY EntryTypes
    <3>2. sent' \in Seq(Entries)
      BY <2>1, <3>1 DEF TransmitNote
    <3> QED
      BY <2>1, <3>2 DEF TransmitNote
  <2>2. CASE NoteFails(m)
    BY <2>2 DEF NoteFails
  <2> QED
    BY <1>13, <2>1, <2>2 DEF NoteStep
<1>14. ASSUME ReadFrame PROVE TypeOK'
  <2>1. Head(inbound) \in Frames /\ Tail(inbound) \in Seq(Frames)
    BY <1>14, HeadTail DEF ReadFrame
  <2>2. log' \in Seq(Entries)
    BY <1>14, <2>1, EntryTypes, LogType DEF ReadFrame
  <2> QED
    BY <1>14, <2>1, <2>2 DEF ReadFrame
<1>15. ASSUME ReadFails PROVE TypeOK'
  BY <1>15 DEF ReadFails, Shutdown
<1>16. ASSUME Lookup PROVE TypeOK'
  BY <1>16 DEF Lookup
<1>17. ASSUME Deliver PROVE TypeOK'
  <2>1. CASE target \in Calls
    <3>1. Append(inbox[target], cur) \in Seq(Frames)
      BY <2>1
    <3>2. inbox' \in [Calls -> Seq(Frames)]
      BY <1>17, <3>1 DEF Deliver
    <3> QED
      BY <1>17, <3>2 DEF Deliver
  <2>2. CASE target \notin Calls
    BY <1>17, <2>2 DEF Deliver
  <2> QED
    BY <2>1, <2>2
<1>18. ASSUME PassOver PROVE TypeOK'
  BY <1>18 DEF PassOver
<1>19. ASSUME LogRefusal PROVE TypeOK'
  <2>1. log' \in Seq(Entries)
    BY <1>19, EntryTypes, LogType DEF LogRefusal
  <2> QED
    BY <1>19, <2>1 DEF LogRefusal
<1>20. ASSUME TransmitRefusal \/ RefusalFails PROVE TypeOK'
  <2>1. CASE TransmitRefusal
    <3>1. Refusal(cur.id) \in Entries
      BY EntryTypes
    <3>2. sent' \in Seq(Entries)
      BY <2>1, <3>1 DEF TransmitRefusal
    <3> QED
      BY <2>1, <3>2 DEF TransmitRefusal
  <2>2. CASE RefusalFails
    BY <2>2 DEF RefusalFails
  <2> QED
    BY <1>20, <2>1, <2>2
<1>21. ASSUME CloseClient \/ CloseTransport PROVE TypeOK'
  BY <1>21 DEF CloseClient, CloseTransport, Shutdown, Errors
<1>22. ASSUME CancelRun PROVE TypeOK'
  BY <1>22 DEF CancelRun
<1>23. ASSUME NEW c \in Calls, Answer(c) PROVE TypeOK'
  <2>1. PICK form \in EchoForms :
          inbound' = Append(inbound,
            [parses |-> TRUE, named |-> FALSE, id |-> [n |-> id[c].n, form |-> form],
             failed |-> c \in Refused, body |-> c])
    BY <1>23 DEF Answer
  <2>2. [n |-> id[c].n, form |-> form] \in RawIds
    BY DEF RawIds, Forms, NumericForms
  <2>3. [parses |-> TRUE, named |-> FALSE, id |-> [n |-> id[c].n, form |-> form],
         failed |-> c \in Refused, body |-> c] \in Frames
    BY <2>2 DEF Frames
  <2>4. inbound' \in Seq(Frames)
    BY <2>1, <2>3
  <2> QED
    BY <1>23, <2>4 DEF Answer
<1>24. ASSUME NEW f \in Noise, Emit(f) PROVE TypeOK'
  BY <1>24, NoiseAssumption DEF Emit
<1>25. ASSUME PeerGoes PROVE TypeOK'
  BY <1>25 DEF PeerGoes
<1>26. CASE UNCHANGED vars
  BY <1>26 DEF vars
<1> QED
  BY <1>1, <1>2, <1>3, <1>4, <1>5, <1>6, <1>7, <1>8, <1>9, <1>10, <1>11, <1>12, <1>13,
     <1>14, <1>15, <1>16, <1>17, <1>18, <1>19, <1>20, <1>21, <1>22, <1>23, <1>24, <1>25,
     <1>26 DEF Next, CallStep, ReaderStep, Server

\* Every variable keeps its type: in particular the pending map only ever
\* holds calls, and no reader step leaves its states (TypeOK).
THEOREM TypeCorrect == Spec => []TypeOK
<1>1. Init => TypeOK
  BY InitType
<1>2. TypeOK /\ [Next]_vars => TypeOK'
  BY NextType
<1> QED
  BY <1>1, <1>2, PTL DEF Spec
-----------------------------------------------------------------------------
(* Correlation *)

Begun(c) == pc[c] # "idle"

\* Ids are minted once each.
IdsDistinct ==
  /\ \A c \in Calls : Begun(c) => id[c].form = "int" /\ id[c].n \in 1..nextID
  /\ \A c, d \in Calls : Begun(c) /\ Begun(d) /\ id[c].n = id[d].n => c = d

\* A call is parked in the pending map under the id it minted.
ParkedUnderOwnId == \A k \in DOMAIN pending : Begun(pending[k]) /\ k = id[pending[k]]

\* The server only sees requests of calls that minted an id.
SentBegun == \A i \in 1..Len(sent) :
  sent[i].kind = "request" => sent[i].what \in Calls /\ Begun(sent[i].what)

\* A response with a numeric id carries the number of the call it answers.
Genuine(f) == IsResponse(f) /\ f.id.form \in NumericForms =>
  f.body \in Calls /\ Begun(f.body) /\ f.id.n = id[f.body].n

InFlightGenuine == /\ \A i \in 1..Len(inbound) : Genuine(inbound[i])
                   /\ Genuine(cur)

\* What deliver hands over belongs to the call it found.
DeliversOwn == run = "delivering" => target \in Calls /\ cur.body = target
HoldsOwn == \A c \in Calls : \A i \in 1..Len(inbox[c]) : inbox[c][i].body = c

CorrelationInv == /\ TypeOK
                  /\ IdsDistinct
                  /\ ParkedUnderOwnId
                  /\ SentBegun
                  /\ InFlightGenuine
                  /\ DeliversOwn
                  /\ HoldsOwn
                  /\ Correlation
\* Which actions write which variable; all others leave it alone.
LEMMA Writers ==
  ASSUME [Next]_vars
  PROVE  /\ id' = id \/ \E c \in Calls : Mint(c)
         /\ pending' = pending \/ \E c \in Calls : Register(c) \/ Leave(c)
         /\ inbox' = inbox \/ Deliver \/ \E c \in Calls : SelectInbox(c)
         /\ outcome' = outcome \/ \E c \in Calls : LogRequest(c) \/
              WriteFails(c) \/ SelectCtx(c) \/ SelectClosed(c) \/ SelectInbox(c)
         /\ cur' = cur \/ ReadFrame
         /\ (run' = run /\ target' = target) \/ ReaderStep
         /\ inbound' = inbound \/ ReadFrame \/ (\E c \in Calls : Answer(c))
              \/ (\E f \in Noise : Emit(f))
         /\ sent' = sent \/ (\E c \in Calls : Transmit(c))
              \/ (\E m \in Notes : TransmitNote(m)) \/ TransmitRefusal
<1> USE DEF Goto, Settle
<1>1. CASE \E c \in Calls : Mint(c) \/ CallStep(c) \/ Cancel(c)
  BY <1>1 DEF Mint, CallStep, Cancel, Register, LogRequest, Transmit, WriteReturns,
              WriteFails, SelectCtx, SelectClosed, SelectInbox, Leave
<1>2. CASE \E m \in Notes : LogNote(m) \/ NoteStep(m)
  BY <1>2 DEF LogNote, NoteStep, TransmitNote, NoteFails
<1>3. CASE ReaderStep
  BY <1>3 DEF ReaderStep, ReadFrame, ReadFails, Lookup, Deliver, PassOver, LogRefusal,
              TransmitRefusal, RefusalFails
<1>4. CASE CloseClient \/ CloseTransport \/ CancelRun
  BY <1>4 DEF CloseClient, CloseTransport, CancelRun
<1>5. CASE Server
  BY <1>5 DEF Server, Answer, Emit, PeerGoes
<1>6. CASE UNCHANGED vars
  BY <1>6 DEF vars
<1> QED
  BY <1>1, <1>2, <1>3, <1>4, <1>5, <1>6 DEF Next

\* Once a call has begun it keeps its id, and ids are only minted upwards; no
\* step but Mint begins a call or touches an id.
LEMMA IdsStable ==
  ASSUME TypeOK, [Next]_vars
  PROVE  /\ \A c \in Calls : Begun(c) => Begun(c)' /\ id'[c] = id[c]
         /\ \/ \E c \in Calls : Mint(c)
            \/ /\ id' = id
               /\ nextID' = nextID
               /\ \A c \in Calls : Begun(c)' = Begun(c)
<1> USE ConstantsAssumption DEF Goto, Settle, Begun, TypeOK
<1>1. ASSUME NEW d \in Calls, Mint(d)
      PROVE  \A c \in Calls : Begun(c) => Begun(c)' /\ id'[c] = id[c]
  BY <1>1 DEF Mint
<1>2. ASSUME NEW d \in Calls, CallStep(d) \/ Cancel(d)
      PROVE  id' = id /\ nextID' = nextID /\ \A c \in Calls : Begun(c)' = Begun(c)
  BY <1>2 DEF CallStep, Cancel, Register, LogRequest, Transmit, WriteReturns,
              WriteFails, SelectCtx, SelectClosed, SelectInbox, Leave
<1>3. ASSUME NEW m \in Notes, LogNote(m) \/ NoteStep(m)
      PROVE  id' = id /\ nextID' = nextID /\ \A c \in Calls : Begun(c)' = Begun(c)
  BY <1>3 DEF LogNote, NoteStep, TransmitNote, NoteFails
<1>4. CASE ReaderStep
  BY <1>4 DEF ReaderStep, ReadFrame, ReadFails, Lookup, Deliver, PassOver, LogRefusal,
              TransmitRefusal, RefusalFails
<1>5. CASE CloseClient \/ CloseTransport \/ CancelRun
  BY <1>5 DEF CloseClient, CloseTransport, CancelRun
<1>6. CASE Server
  BY <1>6 DEF Server, Answer, Emit, PeerGoes
<1>7. CASE UNCHANGED vars
  BY <1>7 DEF vars
<1> QED
  BY <1>1, <1>2, <1>3, <1>4, <1>5, <1>6, <1>7 DEF Next

LEMMA InitCorrelation == Init => CorrelationInv
<1> SUFFICES ASSUME Init PROVE CorrelationInv
  OBVIOUS
<1>1. TypeOK
  BY InitType
<1>2. \A c \in Calls : ~Begun(c)
  BY DEF Init, Begun
<1>3. IdsDistinct /\ ParkedUnderOwnId /\ SentBegun
  BY <1>2 DEF Init, IdsDistinct, ParkedUnderOwnId, SentBegun
<1>4. InFlightGenuine
  BY DEF Init, InFlightGenuine, Genuine, NoFrame, IsResponse, NoId
<1>5. DeliversOwn /\ HoldsOwn /\ Correlation
  BY DEF Init, DeliversOwn, HoldsOwn, Correlation, Answered, NoOutcome
<1> QED
  BY <1>1, <1>3, <1>4, <1>5 DEF CorrelationInv

LEMMA NextCorrelation == CorrelationInv /\ [Next]_vars => CorrelationInv'
<1> SUFFICES ASSUME CorrelationInv, [Next]_vars PROVE CorrelationInv'
  OBVIOUS
<1> USE ConstantsAssumption
<1>1. TypeOK /\ TypeOK'
  BY NextType DEF CorrelationInv
<1>2. IdsDistinct'
  <2>1. ASSUME NEW e \in Calls, Mint(e) PROVE IdsDistinct'
    BY <1>1, <2>1 DEF Mint, Goto, CorrelationInv, IdsDistinct, Begun, TypeOK
  <2> QED
    BY <1>1, <2>1, IdsStable DEF CorrelationInv, IdsDistinct
<1>3. ParkedUnderOwnId'
  <2>1. \A k \in DOMAIN pending : pc'[pending[k]] # "idle" /\ k = id'[pending[k]]
    BY <1>1, IdsStable DEF CorrelationInv, ParkedUnderOwnId, TypeOK, Begun
  <2>2. ASSUME NEW c \in Calls, Register(c) PROVE ParkedUnderOwnId'
    <3>1. Begun(c)' /\ id'[c] = id[c] /\ IdKey(id[c]) = id[c]
      BY <1>1, <2>2, IdsStable
         DEF Register, Begun, IdKey, CorrelationInv, IdsDistinct, TypeOK, RawIds
    <3> QED
      BY <1>1, <2>1, <2>2, <3>1 DEF Register, ParkedUnderOwnId, Begun
  <2>3. ASSUME NEW c \in Calls, Leave(c) PROVE ParkedUnderOwnId'
    BY <2>1, <2>3 DEF Leave, ParkedUnderOwnId, Begun
  <2>4. CASE pending' = pending
    BY <2>1, <2>4 DEF ParkedUnderOwnId, Begun
  <2> QED
    BY <2>2, <2>3, <2>4, Writers
<1>4. SentBegun'
  <2>1. \A i \in 1..Len(sent) :
          sent[i].kind = "request" => sent[i].what \in Calls /\ pc'[sent[i].what] # "idle"
    BY <1>1, IdsStable DEF CorrelationInv, SentBegun, Begun
  <2>2. ASSUME NEW e \in Entries, sent' = Append(sent, e),
               e.kind = "request" => e.what \in Calls /\ Begun(e.what)'
        PROVE  SentBegun'
    BY <1>1, <2>1, <2>2 DEF SentBegun, Begun, TypeOK
  <2>3. ASSUME NEW c \in Calls, Transmit(c) PROVE SentBegun'
    <3>1. Begun(c)'
      BY <1>1, <2>3 DEF Transmit, Goto, Begun, TypeOK
    <3>2. Request(c) \in Entries /\ Request(c).kind = "request" /\ Request(c).what = c
      BY <1>1, EntryTypes DEF Request
    <3> QED
      BY <2>2, <2>3, <3>1, <3>2 DEF Transmit
  <2>4. ASSUME NEW m \in Notes, TransmitNote(m) PROVE SentBegun'
    <3>1. Note(m) \in Entries /\ Note(m).kind # "request"
      BY <1>1, EntryTypes DEF Note
    <3> QED
      BY <2>2, <2>4, <3>1 DEF TransmitNote
  <2>5. CASE TransmitRefusal
    <3>1. Refusal(cur.id) \in Entries /\ Refusal(cur.id).kind # "request"
      BY <1>1, EntryTypes DEF Refusal, TypeOK
    <3> QED
      BY <2>2, <2>5, <3>1 DEF TransmitRefusal
  <2>6. CASE sent' = sent
    BY <2>1, <2>6 DEF SentBegun, Begun
  <2> QED
    BY <2>3, <2>4, <2>5, <2>6, Writers
<1>5. InFlightGenuine'
  <2>1. \A f \in Frames : Genuine(f) => Genuine(f)'
    BY <1>1, IdsStable DEF Genuine, Begun
  <2>2. \A i \in 1..Len(inbound) : inbound[i] \in Frames /\ Genuine(inbound[i])
    BY <1>1 DEF CorrelationInv, InFlightGenuine, TypeOK
  <2>3. cur \in Frames /\ Genuine(cur)
    BY <1>1 DEF CorrelationInv, InFlightGenuine, TypeOK
  <2>4. CASE ReadFrame
    <3>1. inbound \in Seq(Frames) /\ inbound # <<>> /\ inbound' = Tail(inbound)
      BY <1>1, <2>4 DEF ReadFrame, TypeOK
    <3>2. \A i \in 1..Len(inbound') : inbound'[i] \in Frames /\ Genuine(inbound'[i])
      <4>1. ASSUME NEW i \in 1..Len(inbound')
            PROVE  i + 1 \in 1..Len(inbound) /\ inbound'[i] = inbound[i + 1]
        BY <3>1
      <4> QED
        BY <2>2, <4>1
    <3>3. cur' \in Frames /\ Genuine(cur')
      BY <2>2, <2>3, <2>4, <3>1 DEF ReadFrame
    <3> QED
      BY <2>1, <3>2, <3>3 DEF InFlightGenuine, Genuine, Begun
  <2>5. ASSUME NEW f \in Frames, inbound' = Append(inbound, f), cur' = cur, Genuine(f)'
        PROVE  InFlightGenuine'
    <3>0. inbound \in Seq(Frames) /\ inbound' = Append(inbound, f)
      BY <1>1, <2>5 DEF TypeOK
    <3>1. ASSUME NEW i \in 1..Len(inbound')
          PROVE  inbound'[i] = f \/ (i \in 1..Len(inbound) /\ inbound'[i] = inbound[i])
      BY <3>0
    <3> QED
      BY <2>1, <2>2, <2>3, <2>5, <3>1 DEF InFlightGenuine, Genuine, Begun
  <2>6. ASSUME NEW c \in Calls, Answer(c) PROVE InFlightGenuine'
    <3>1. PICK form \in EchoForms :
            inbound' = Append(inbound,
              [parses |-> TRUE, named |-> FALSE, id |-> [n |-> id[c].n, form |-> form],
               failed |-> c \in Refused, body |-> c])
      BY <2>6 DEF Answer
    <3> DEFINE f == [parses |-> TRUE, named |-> FALSE,
                     id |-> [n |-> id[c].n, form |-> form],
                     failed |-> c \in Refused, body |-> c]
    <3>2. f \in Frames
      BY <1>1 DEF Frames, TypeOK, RawIds, Forms
    <3>3. Begun(c) /\ Begun(c)' /\ id'[c] = id[c]
      BY <1>1, <2>6, IdsStable DEF Answer, Received, CorrelationInv, SentBegun
    <3>4. Genuine(f)'
      BY <3>3 DEF Genuine, Begun
    <3> QED
      BY <2>5, <2>6, <3>1, <3>2, <3>4 DEF Answer
  <2>7. ASSUME NEW f \in Noise, Emit(f) PROVE InFlightGenuine'
    BY <2>5, <2>7, NoiseAssumption DEF Emit, Genuine
  <2>8. CASE inbound' = inbound /\ cur' = cur
    BY <1>1, <2>1, <2>2, <2>3, <2>8 DEF InFlightGenuine, TypeOK, Genuine, Begun
  <2>9. ReadFrame \/ cur' = cur
    BY Writers
  <2> QED
    BY <2>4, <2>6, <2>7, <2>8, <2>9, Writers
<1>6. DeliversOwn'
  <2>1. CASE Lookup
    <3>1. SUFFICES ASSUME run' = "delivering"
                   PROVE  target' \in Calls /\ cur'.body = target'
      BY DEF DeliversOwn
    <3> DEFINE key == IdKey(cur.id)
    <3>2. key \in DOMAIN pending /\ target' = pending[key] /\ cur' = cur
      BY <2>1, <3>1 DEF Lookup
    <3>3. target' \in Calls /\ Begun(target') /\ key = id[target']
      BY <1>1, <3>2 DEF CorrelationInv, ParkedUnderOwnId, TypeOK
    <3>4. key.form = "int"
      BY <3>3 DEF CorrelationInv, IdsDistinct
    <3>5. cur.id.form \in NumericForms /\ key.n = cur.id.n
      BY <1>1, <3>4 DEF IdKey, NumericForms
    <3>6. cur.body \in Calls /\ Begun(cur.body) /\ cur.id.n = id[cur.body].n
      BY <2>1, <3>5 DEF Lookup, CorrelationInv, InFlightGenuine, Genuine
    <3>7. cur.body = target'
      BY <3>3, <3>5, <3>6 DEF CorrelationInv, IdsDistinct
    <3> QED
      BY <3>2, <3>3, <3>7
  <2>2. CASE ReaderStep /\ ~Lookup
    BY <2>2 DEF ReaderStep, ReadFrame, ReadFails, Deliver, PassOver, LogRefusal,
                TransmitRefusal, RefusalFails, DeliversOwn, CorrelationInv
  <2>3. CASE run' = run /\ target' = target /\ cur' = cur
    BY <2>3 DEF DeliversOwn, CorrelationInv
  <2> QED
    BY <2>1, <2>2, <2>3, Writers DEF ReaderStep
<1>7. HoldsOwn'
  <2>1. CASE Deliver
    <3>1. target \in Calls /\ cur.body = target /\ inbox[target] \in Seq(Frames)
      BY <1>1, <2>1 DEF Deliver, CorrelationInv, DeliversOwn, TypeOK
    <3>2. \A c \in Calls \ {target} : inbox'[c] = inbox[c]
      BY <1>1, <2>1 DEF Deliver, TypeOK
    <3>3. inbox'[target] = Append(inbox[target], cur)
      BY <1>1, <2>1, <3>1 DEF Deliver, TypeOK
    <3>4. \A i \in 1..Len(inbox'[target]) : inbox'[target][i].body = target
      BY <3>1, <3>3 DEF CorrelationInv, HoldsOwn
    <3> QED
      BY <3>2, <3>4 DEF CorrelationInv, HoldsOwn
  <2>2. ASSUME NEW c \in Calls, SelectInbox(c) PROVE HoldsOwn'
    <3>1. inbox[c] \in Seq(Frames) /\ inbox[c] # <<>>
      BY <1>1, <2>2 DEF SelectInbox, TypeOK
    <3>2. /\ inbox'[c] = Tail(inbox[c])
          /\ \A d \in Calls \ {c} : inbox'[d] = inbox[d]
      BY <1>1, <2>2 DEF SelectInbox, TypeOK
    <3>3. \A i \in 1..Len(inbox'[c]) : inbox'[c][i].body = c
      BY <3>1, <3>2 DEF CorrelationInv, HoldsOwn
    <3> QED
      BY <3>2, <3>3 DEF CorrelationInv, HoldsOwn
  <2>3. CASE inbox' = inbox
    BY <2>3 DEF CorrelationInv, HoldsOwn
  <2> QED
    BY <2>1, <2>2, <2>3, Writers
<1>8. Correlation'
  <2>1. ASSUME NEW c \in Calls, SelectInbox(c) PROVE Correlation'
    <3>1. Head(inbox[c]).body = c
      <4>1. inbox[c] \in Seq(Frames) /\ inbox[c] # <<>>
        BY <1>1, <2>1 DEF SelectInbox, TypeOK
      <4>2. Head(inbox[c]) = inbox[c][1] /\ 1 \in 1..Len(inbox[c])
        BY <4>1
      <4> QED
        BY <4>2 DEF CorrelationInv, HoldsOwn
    <3> QED
      BY <1>1, <2>1, <3>1
         DEF SelectInbox, Settle, CorrelationInv, Correlation, Answered, TypeOK
  <2>2. ASSUME NEW c \in Calls, outcome' # outcome,
               LogRequest(c) \/ WriteFails(c) \/ SelectCtx(c) \/ SelectClosed(c)
        PROVE  Correlation'
    <3>1. \E why \in {"write", "ctx", "session"}, err \in Errors \cup {NoErr} :
            outcome' = [outcome EXCEPT ![c] = [why |-> why, of |-> Nobody, err |-> err]]
      BY <1>1, <2>2 DEF LogRequest, WriteFails, SelectCtx, SelectClosed, Settle, TypeOK
    <3> QED
      BY <1>1, <3>1 DEF CorrelationInv, Correlation, Answered, TypeOK
  <2>3. CASE outcome' = outcome
    BY <2>3 DEF CorrelationInv, Correlation, Answered
  <2> QED
    BY <2>1, <2>2, <2>3, Writers
<1> QED
  BY <1>1, <1>2, <1>3, <1>4, <1>5, <1>6, <1>7, <1>8 DEF CorrelationInv

\* A call never returns the response to another call, however the server
\* orders its answers and writes the ids back (pending map, deliver, idKey).
THEOREM ResponsesCorrelate == Spec => []Correlation
<1>1. CorrelationInv => Correlation
  BY DEF CorrelationInv
<1> QED
  BY <1>1, InitCorrelation, NextCorrelation, PTL DEF Spec
-----------------------------------------------------------------------------
(* The pending map and the cause of the end *)

InMap == {"registered", "logged", "written", "waiting", "leaving"}

\* The steps other than Register and Leave neither touch the map nor move a
\* call into or out of the part of Call in which it has an entry.
LEMMA EntryMoves ==
  ASSUME TypeOK, [Next]_vars
  PROVE  \/ \E c \in Calls : Register(c) \/ Leave(c)
         \/ pending' = pending /\ \A c \in Calls : pc'[c] \in InMap <=> pc[c] \in InMap
<1> USE ConstantsAssumption DEF Goto, Settle, InMap, TypeOK
<1>1. ASSUME NEW d \in Calls, Mint(d) \/ Cancel(d)
      PROVE  pending' = pending /\ \A c \in Calls : pc'[c] \in InMap <=> pc[c] \in InMap
  BY <1>1 DEF Mint, Cancel
<1>2. ASSUME NEW d \in Calls,
             LogRequest(d) \/ Transmit(d) \/ WriteReturns(d) \/ WriteFails(d)
      PROVE  pending' = pending /\ \A c \in Calls : pc'[c] \in InMap <=> pc[c] \in InMap
  BY <1>2 DEF LogRequest, Transmit, WriteReturns, WriteFails
<1>3. ASSUME NEW d \in Calls, SelectCtx(d) \/ SelectClosed(d) \/ SelectInbox(d)
      PROVE  pending' = pending /\ \A c \in Calls : pc'[c] \in InMap <=> pc[c] \in InMap
  BY <1>3 DEF SelectCtx, SelectClosed, SelectInbox
<1>4. ASSUME NEW m \in Notes, LogNote(m) \/ NoteStep(m)
      PROVE  pending' = pending /\ \A c \in Calls : pc'[c] \in InMap <=> pc[c] \in InMap
  BY <1>4 DEF LogNote, NoteStep, TransmitNote, NoteFails
<1>5. CASE ReaderStep
  BY <1>5 DEF ReaderStep, ReadFrame, ReadFails, Lookup, Deliver, PassOver, LogRefusal,
              TransmitRefusal, RefusalFails
<1>6. CASE CloseClient \/ CloseTransport \/ CancelRun
  BY <1>6 DEF CloseClient, CloseTransport, CancelRun
<1>7. CASE Server
  BY <1>7 DEF Server, Answer, Emit, PeerGoes
<1>8. CASE UNCHANGED vars
  BY <1>8 DEF vars
<1> QED
  BY <1>1, <1>2, <1>3, <1>4, <1>5, <1>6, <1>7, <1>8 DEF Next, CallStep

LEMMA InitLive == Init => PendingIsLive
BY ConstantsAssumption DEF Init, PendingIsLive

OwnKeys == \A k \in DOMAIN pending : k = IdKey(id[pending[k]])

LEMMA KeysFold == CorrelationInv => OwnKeys
BY DEF OwnKeys, CorrelationInv, ParkedUnderOwnId, IdsDistinct, IdKey, NumericForms, TypeOK, RawIds

LEMMA NextLive == CorrelationInv /\ PendingIsLive /\ [Next]_vars => PendingIsLive'
<1> SUFFICES ASSUME CorrelationInv, PendingIsLive, [Next]_vars PROVE PendingIsLive'
  OBVIOUS
<1> USE ConstantsAssumption
<1> DEFINE Live == {c \in Calls : pc[c] \in InMap}
           Parked == {pending[k] : k \in DOMAIN pending}
<1>1. /\ TypeOK /\ IdsDistinct /\ ParkedUnderOwnId
      /\ Parked = Live
      /\ \A k \in DOMAIN pending : pending[k] \in Calls /\ k = id[pending[k]]
  BY DEF CorrelationInv, ParkedUnderOwnId, PendingIsLive, TypeOK, InMap
<1>2. \A c \in Calls : Begun(c) => IdKey(id[c]) = id[c]
  BY <1>1 DEF IdsDistinct, IdKey, NumericForms, TypeOK, RawIds
<1>3. \A c, d \in Calls : Begun(c) /\ Begun(d) /\ id[c] = id[d] => c = d
  BY <1>1 DEF IdsDistinct
<1>4. OwnKeys'
  <2>1. CorrelationInv'
    BY NextCorrelation
  <2> QED
    BY <2>1, KeysFold, PTL
<1>5. Parked' = Live'
  <2>1. ASSUME NEW c \in Calls, Register(c) PROVE Parked' = Live'
    <3>1. /\ pc[c] = "minted" /\ pc' = [pc EXCEPT ![c] = "registered"]
          /\ pending' = [k \in DOMAIN pending \cup {id[c]} |->
                           IF k = id[c] THEN c ELSE pending[k]]
      BY <1>2, <2>1 DEF Register, Goto, Begun
    <3>2. id[c] \notin DOMAIN pending
      <4>1. ASSUME id[c] \in DOMAIN pending PROVE FALSE
        <5>1. pending[id[c]] = c
          BY <1>1, <1>3, <3>1, <4>1 DEF ParkedUnderOwnId, Begun
        <5> QED
          BY <1>1, <3>1, <4>1, <5>1 DEF InMap
      <4> QED
        BY <4>1
    <3>3. Parked' = Parked \cup {c}
      BY <3>1, <3>2
    <3>4. Live' = Live \cup {c}
      BY <1>1, <3>1 DEF InMap, TypeOK
    <3> QED
      BY <1>1, <3>3, <3>4
  <2>2. ASSUME NEW c \in Calls, Leave(c) PROVE Parked' = Live'
    <3>1. /\ pc[c] = "leaving" /\ pc' = [pc EXCEPT ![c] = "returned"]
          /\ pending' = [k \in DOMAIN pending \ {id[c]} |-> pending[k]]
      BY <1>2, <2>2 DEF Leave, Goto, Begun
    <3>2. \A k \in DOMAIN pending : pending[k] = c <=> k = id[c]
      BY <1>1, <1>3, <3>1 DEF ParkedUnderOwnId, Begun
    <3>3. Parked' = Parked \ {c}
      BY <3>1, <3>2
    <3>4. Live' = Live \ {c}
      BY <1>1, <3>1 DEF InMap, TypeOK
    <3> QED
      BY <1>1, <3>3, <3>4
  <2>3. CASE pending' = pending /\ \A c \in Calls : pc'[c] \in InMap <=> pc[c] \in InMap
    BY <1>1, <2>3
  <2> QED
    BY <1>1, <2>1, <2>2, <2>3, EntryMoves
<1> QED
  BY <1>4, <1>5 DEF PendingIsLive, OwnKeys, InMap

\* Whichever way a call leaves, it takes its entry out of the pending map, and
\* while it is waiting nobody else's delete takes it (Call's deferred delete).
THEOREM NothingLeaks == Spec => []PendingIsLive
BY InitCorrelation, NextCorrelation, InitLive, NextLive, PTL DEF Spec

\* What a call is told of the end is what ended the session.
Caused == \A c \in Calls : outcome[c].why = "session" => Closed /\ outcome[c].err = runErr

LEMMA InitCaused == Init => Caused
BY DEF Init, Caused, NoOutcome

LEMMA NextCaused == TypeOK /\ Caused /\ [Next]_vars => Caused'
<1> SUFFICES ASSUME TypeOK, Caused, [Next]_vars PROVE Caused'
  OBVIOUS
<1>1. Closed => runErr' = runErr
  <2>1. CASE \E c \in Calls : Mint(c) \/ CallStep(c) \/ Cancel(c)
    BY <2>1 DEF Mint, CallStep, Cancel, Register, LogRequest, Transmit, WriteReturns,
                WriteFails, SelectCtx, SelectClosed, SelectInbox, Leave
  <2>2. CASE \E m \in Notes : LogNote(m) \/ NoteStep(m)
    BY <2>2 DEF LogNote, NoteStep, TransmitNote, NoteFails
  <2>3. CASE ReaderStep
    BY <2>3 DEF ReaderStep, ReadFrame, ReadFails, Lookup, Deliver, PassOver, LogRefusal,
                TransmitRefusal, RefusalFails, Shutdown
  <2>4. CASE CloseClient \/ CloseTransport \/ CancelRun
    BY <2>4 DEF CloseClient, CloseTransport, CancelRun, Shutdown
  <2>5. CASE Server
    BY <2>5 DEF Server, Answer, Emit, PeerGoes
  <2>6. CASE UNCHANGED vars
    BY <2>6 DEF vars
  <2> QED
    BY <2>1, <2>2, <2>3, <2>4, <2>5, <2>6 DEF Next
<1>2. ASSUME NEW c \in Calls, SelectClosed(c) PROVE Caused'
  BY <1>1, <1>2 DEF SelectClosed, Settle, Caused, Closed, TypeOK
<1>3. ASSUME NEW c \in Calls, outcome' # outcome,
             LogRequest(c) \/ WriteFails(c) \/ SelectCtx(c) \/ SelectInbox(c)
      PROVE  Caused'
  <2>1. /\ outcome'[c].why # "session"
        /\ \A d \in Calls \ {c} : outcome'[d] = outcome[d]
    <3>1. CASE LogRequest(c) \/ WriteFails(c)
      BY <1>3, <3>1 DEF LogRequest, WriteFails, Settle, TypeOK
    <3>2. CASE SelectCtx(c)
      BY <3>2 DEF SelectCtx, Settle, TypeOK
    <3>3. CASE SelectInbox(c)
      BY <3>3 DEF SelectInbox, Settle, TypeOK
    <3> QED
      BY <1>3, <3>1, <3>2, <3>3
  <2> QED
    BY <1>1, <2>1 DEF Caused, Closed
<1>4. CASE outcome' = outcome
  BY <1>1, <1>4 DEF Caused, Closed
<1> QED
  BY <1>2, <1>3, <1>4, Writers

\* However many things end a session at once, every call it releases is told
\* the same: what ended it first (closeOnce).
THEOREM CauseIsOne == Spec => []OneCause
<1>1. Caused => OneCause
  BY DEF Caused, OneCause
<1> QED
  BY <1>1, InitType, NextType, InitCaused, NextCaused, PTL DEF Spec
-----------------------------------------------------------------------------
(* The client keeps the promise of RpcCalls *)

\* Who has been answered: a frame that answers a call was sent by the server.
Backed(f) == f.body \in Calls => answers[f.body] > 0
AnswersBacked == /\ \A i \in 1..Len(inbound) : Backed(inbound[i])
                 /\ Backed(cur)
                 /\ \A c \in Calls : inbox[c] # <<>> => answers[c] > 0

\* How far a call's return and its request have come, from where it stands.
Progress == \A c \in Calls :
  /\ pc[c] \in {"idle", "minted", "registered", "logged"} => ~Received(c)
  /\ pc[c] \notin {"leaving", "returned"} => outcome[c] = NoOutcome

\* The server has received what it had before, and what is written now.
LEMMA AppendReceived ==
  ASSUME TypeOK, NEW e \in Entries, sent' = Append(sent, e), NEW c
  PROVE  Received(c)' <=> Received(c) \/ (e.kind = "request" /\ e.what = c)
<1>1. /\ Len(sent') = Len(sent) + 1 /\ sent'[Len(sent) + 1] = e /\ Len(sent) \in Nat
      /\ \A i \in 1..Len(sent) : sent'[i] = sent[i]
  BY DEF TypeOK
<1>2. ASSUME Received(c) PROVE Received(c)'
  BY <1>1, <1>2 DEF Received
<1>3. ASSUME e.kind = "request", e.what = c PROVE Received(c)'
  BY <1>1, <1>3 DEF Received
<1>4. ASSUME Received(c)' PROVE Received(c) \/ (e.kind = "request" /\ e.what = c)
  <2>1. PICK i \in 1..(Len(sent) + 1) : sent'[i].kind = "request" /\ sent'[i].what = c
    BY <1>1, <1>4 DEF Received
  <2>2. i \in 1..Len(sent) \/ i = Len(sent) + 1
    BY <1>1, <2>1
  <2> QED
    BY <1>1, <2>1, <2>2 DEF Received
<1> QED
  BY <1>2, <1>3, <1>4

\* Only Transmit brings the request of a call to the server.
LEMMA ReceivedMoves ==
  ASSUME TypeOK, [Next]_vars
  PROVE  \/ \E c \in Calls : Transmit(c) /\ \A d : Received(d)' <=> Received(d) \/ d = c
         \/ \A d : Received(d)' <=> Received(d)
<1>1. ASSUME NEW c \in Calls, Transmit(c)
      PROVE  \A d : Received(d)' <=> Received(d) \/ d = c
  <2>1. Request(c) \in Entries /\ Request(c).kind = "request" /\ Request(c).what = c
    BY EntryTypes DEF Request
  <2>2. sent' = Append(sent, Request(c))
    BY <1>1 DEF Transmit
  <2> QED
    BY <2>1, <2>2, AppendReceived
<1>2. ASSUME NEW m \in Notes, TransmitNote(m) PROVE \A d : Received(d)' <=> Received(d)
  <2>1. Note(m) \in Entries /\ Note(m).kind # "request"
    BY EntryTypes DEF Note
  <2>2. sent' = Append(sent, Note(m))
    BY <1>2 DEF TransmitNote
  <2> QED
    BY <2>1, <2>2, AppendReceived
<1>3. ASSUME TransmitRefusal PROVE \A d : Received(d)' <=> Received(d)
  <2>1. Refusal(cur.id) \in Entries /\ Refusal(cur.id).kind # "request"
    BY EntryTypes DEF Refusal, TypeOK
  <2>2. sent' = Append(sent, Refusal(cur.id))
    BY <1>3 DEF TransmitRefusal
  <2> QED
    BY <2>1, <2>2, AppendReceived
<1>4. ASSUME sent' = sent PROVE \A d : Received(d)' <=> Received(d)
  BY <1>4 DEF Received
<1> QED
  BY <1>1, <1>2, <1>3, <1>4, Writers

\* Which step moves a call on, and what it does to its outcome.
LEMMA CallMoves ==
  ASSUME TypeOK, [Next]_vars, NEW c \in Calls
  PROVE  \/ pc'[c] = pc[c] /\ outcome'[c] = outcome[c]
         \/ /\ pc[c] \in {"idle", "minted", "registered"} /\ outcome'[c] = outcome[c]
            /\ pc'[c] \in {"minted", "registered", "logged"}
         \/ Transmit(c) /\ outcome'[c] = outcome[c] /\ pc'[c] = "written"
         \/ /\ pc[c] = "written" /\ pc'[c] = "waiting" /\ outcome'[c] = outcome[c]
         \/ pc[c] \in {"registered", "logged", "written", "waiting"} /\ pc'[c] = "leaving"
         \/ pc[c] = "leaving" /\ pc'[c] = "returned"
<1> USE ConstantsAssumption DEF Goto, Settle, TypeOK
<1>1. ASSUME NEW d \in Calls, Mint(d) \/ Cancel(d)
      PROVE  \/ pc'[c] = pc[c] /\ outcome'[c] = outcome[c]
             \/ /\ pc[c] = "idle" /\ outcome'[c] = outcome[c]
                /\ pc'[c] = "minted"
  BY <1>1 DEF Mint, Cancel
<1>2. ASSUME NEW d \in Calls, Register(d) \/ LogRequest(d)
      PROVE  \/ pc'[c] = pc[c] /\ outcome'[c] = outcome[c]
             \/ /\ pc[c] \in {"minted", "registered"} /\ outcome'[c] = outcome[c]
                /\ pc'[c] \in {"registered", "logged"}
             \/ pc[c] = "registered" /\ pc'[c] = "leaving"
  BY <1>2 DEF Register, LogRequest
<1>3. ASSUME NEW d \in Calls, Transmit(d) \/ WriteReturns(d) \/ Leave(d)
      PROVE  \/ pc'[c] = pc[c] /\ outcome'[c] = outcome[c]
             \/ Transmit(c) /\ outcome'[c] = outcome[c] /\ pc'[c] = "written"
             \/ /\ pc[c] = "written" /\ pc'[c] = "waiting" /\ outcome'[c] = outcome[c]
             \/ pc[c] = "leaving" /\ pc'[c] = "returned"
  BY <1>3 DEF Transmit, WriteReturns, Leave
<1>4. ASSUME NEW d \in Calls,
             WriteFails(d) \/ SelectCtx(d) \/ SelectClosed(d) \/ SelectInbox(d)
      PROVE  \/ pc'[c] = pc[c] /\ outcome'[c] = outcome[c]
             \/ pc[c] \in {"logged", "written", "waiting"} /\ pc'[c] = "leaving"
  BY <1>4 DEF WriteFails, SelectCtx, SelectClosed, SelectInbox
<1>5. ASSUME NEW m \in Notes, LogNote(m) \/ NoteStep(m)
      PROVE  pc'[c] = pc[c] /\ outcome'[c] = outcome[c]
  BY <1>5 DEF LogNote, NoteStep, TransmitNote, NoteFails
<1>6. CASE ReaderStep
  BY <1>6 DEF ReaderStep, ReadFrame, ReadFails, Lookup, Deliver, PassOver, LogRefusal,
              TransmitRefusal, RefusalFails
<1>7. CASE CloseClient \/ CloseTransport \/ CancelRun
  BY <1>7 DEF CloseClient, CloseTransport, CancelRun
<1>8. CASE Server
  BY <1>8 DEF Server, Answer, Emit, PeerGoes
<1>9. CASE UNCHANGED vars
  BY <1>9 DEF vars
<1> QED
  BY <1>1, <1>2, <1>3, <1>4, <1>5, <1>6, <1>7, <1>8, <1>9 DEF Next, CallStep

LEMMA InitProgress == Init => Progress /\ AnswersBacked
BY ConstantsAssumption
   DEF Init, Progress, AnswersBacked, Backed, Received, NoFrame

LEMMA NextProgress == TypeOK /\ Progress /\ [Next]_vars => Progress'
<1> SUFFICES ASSUME TypeOK, Progress, [Next]_vars, NEW c \in Calls
             PROVE  /\ pc'[c] \in {"idle", "minted", "registered", "logged"} => ~Received(c)'
                    /\ pc'[c] \notin {"leaving", "returned"} => outcome'[c] = NoOutcome
  BY DEF Progress
<1>1. /\ pc[c] \in {"idle", "minted", "registered", "logged"} => ~Received(c)
      /\ pc[c] \notin {"leaving", "returned"} => outcome[c] = NoOutcome
  BY DEF Progress
<1>2. pc'[c] \notin {"leaving", "returned"} => outcome'[c] = NoOutcome
  BY <1>1, CallMoves DEF Transmit
<1>3. ASSUME pc'[c] \in {"idle", "minted", "registered", "logged"} PROVE ~Received(c)'
  <2>1. pc[c] \in {"idle", "minted", "registered", "logged"} /\ ~Transmit(c)
    <3>1. Transmit(c) => pc'[c] = "written"
      BY ConstantsAssumption DEF Transmit, Goto, TypeOK
    <3> QED
      BY <1>3, <3>1, CallMoves
  <2>2. ASSUME NEW d \in Calls, Transmit(d), Transmit(c) PROVE FALSE
    BY <2>1, <2>2
  <2>3. Received(c)' => Received(c)
    BY <2>1, ReceivedMoves
  <2> QED
    BY <1>1, <2>1, <2>3
<1> QED
  BY <1>2, <1>3

LEMMA NextBacked == CorrelationInv /\ AnswersBacked /\ [Next]_vars => AnswersBacked'
<1> SUFFICES ASSUME CorrelationInv, AnswersBacked, [Next]_vars PROVE AnswersBacked'
  OBVIOUS
<1> DEFINE After(f) == f.body \in Calls => answers'[f.body] > 0
<1>1. TypeOK /\ TypeOK'
  BY NextType DEF CorrelationInv
<1>2. answers' = answers \/ \E c \in Calls : Answer(c)
  <2>1. CASE \E c \in Calls : Mint(c) \/ CallStep(c) \/ Cancel(c)
    BY <2>1 DEF Mint, CallStep, Cancel, Register, LogRequest, Transmit, WriteReturns,
                WriteFails, SelectCtx, SelectClosed, SelectInbox, Leave
  <2>2. CASE \E m \in Notes : LogNote(m) \/ NoteStep(m)
    BY <2>2 DEF LogNote, NoteStep, TransmitNote, NoteFails
  <2>3. CASE ReaderStep
    BY <2>3 DEF ReaderStep, ReadFrame, ReadFails, Lookup, Deliver, PassOver, LogRefusal,
                TransmitRefusal, RefusalFails
  <2>4. CASE CloseClient \/ CloseTransport \/ CancelRun
    BY <2>4 DEF CloseClient, CloseTransport, CancelRun
  <2>5. CASE Server
    BY <2>5 DEF Server, Emit, PeerGoes
  <2>6. CASE UNCHANGED vars
    BY <2>6 DEF vars
  <2> QED
    BY <2>1, <2>2, <2>3, <2>4, <2>5, <2>6 DEF Next
<1>3. \A c \in Calls : answers[c] > 0 => answers'[c] > 0
  <2>1. ASSUME NEW c \in Calls, Answer(c) PROVE \A d \in Calls : answers[d] > 0 => answers'[d] > 0
    BY <1>1, <2>1 DEF Answer, TypeOK
  <2> QED
    BY <1>2, <2>1
<1>4. \A f : Backed(f) => After(f)
  BY <1>3 DEF Backed
<1>5. \A i \in 1..Len(inbound) : Backed(inbound[i]) /\ inbound[i] \in Frames
  BY <1>1 DEF AnswersBacked, TypeOK
<1>6. ASSUME NEW f \in Frames, inbound' = Append(inbound, f), After(f)
      PROVE  \A i \in 1..Len(inbound') : After(inbound'[i])
  BY <1>1, <1>4, <1>5, <1>6 DEF TypeOK
<1>7. \A i \in 1..Len(inbound') : After(inbound'[i])
  <2>1. CASE ReadFrame
    <3>1. inbound \in Seq(Frames) /\ inbound # <<>> /\ inbound' = Tail(inbound)
      BY <1>1, <2>1 DEF ReadFrame, TypeOK
    <3> QED
      BY <1>4, <1>5, <3>1
  <2>2. ASSUME NEW c \in Calls, Answer(c)
        PROVE  \A i \in 1..Len(inbound') : After(inbound'[i])
    <3>1. PICK form \in EchoForms :
            inbound' = Append(inbound,
              [parses |-> TRUE, named |-> FALSE, id |-> [n |-> id[c].n, form |-> form],
               failed |-> c \in Refused, body |-> c])
      BY <2>2 DEF Answer
    <3> DEFINE f == [parses |-> TRUE, named |-> FALSE, id |-> [n |-> id[c].n, form |-> form],
                     failed |-> c \in Refused, body |-> c]
    <3>2. f \in Frames
      <4>1. [n |-> id[c].n, form |-> form] \in RawIds
        BY <1>1, ConstantsAssumption DEF RawIds, Forms, NumericForms, TypeOK
      <4> QED
        BY <4>1 DEF Frames
    <3>3. answers'[c] > 0
      BY <1>1, <2>2 DEF Answer, TypeOK
    <3>4. After(f)
      BY <3>3 DEF Backed
    <3>5. inbound' = Append(inbound, f)
      BY <3>1
    <3> HIDE DEF f
    <3> QED
      BY <1>6, <3>2, <3>4, <3>5
  <2>3. ASSUME NEW f \in Noise, Emit(f)
        PROVE  \A i \in 1..Len(inbound') : After(inbound'[i])
    <3>1. f \in Frames /\ After(f) /\ inbound' = Append(inbound, f)
      BY <2>3, ConstantsAssumption, NoiseAssumption DEF Emit, Backed
    <3> QED
      BY <1>6, <3>1
  <2>4. CASE inbound' = inbound
    BY <1>4, <1>5, <2>4
  <2> QED
    BY <2>1, <2>2, <2>3, <2>4, Writers
<1>8. After(cur')
  <2>1. CASE ReadFrame
    <3>1. Head(inbound) = inbound[1] /\ 1 \in 1..Len(inbound)
      BY <1>1, <2>1 DEF ReadFrame, TypeOK
    <3>2. cur' = Head(inbound) \/ cur' = cur
      BY <2>1 DEF ReadFrame
    <3> QED
      BY <1>4, <1>5, <3>1, <3>2 DEF AnswersBacked
  <2>2. CASE cur' = cur
    BY <1>4, <2>2 DEF AnswersBacked
  <2> QED
    BY <2>1, <2>2, Writers
<1>9. \A c \in Calls : inbox'[c] # <<>> => answers'[c] > 0
  <2>1. CASE Deliver
    <3>1. target \in Calls /\ answers[target] > 0
      BY <2>1 DEF Deliver, CorrelationInv, DeliversOwn, AnswersBacked, Backed
    <3>2. \A c \in Calls \ {target} : inbox'[c] = inbox[c]
      BY <1>1, <2>1 DEF Deliver, TypeOK
    <3> QED
      BY <1>3, <3>1, <3>2 DEF AnswersBacked
  <2>2. ASSUME NEW c \in Calls, SelectInbox(c)
        PROVE  \A d \in Calls : inbox'[d] # <<>> => answers'[d] > 0
    <3>1. inbox[c] # <<>> /\ \A d \in Calls \ {c} : inbox'[d] = inbox[d]
      BY <1>1, <2>2 DEF SelectInbox, TypeOK
    <3> QED
      BY <1>3, <3>1 DEF AnswersBacked
  <2>3. CASE inbox' = inbox
    BY <1>3, <2>3 DEF AnswersBacked
  <2> QED
    BY <2>1, <2>2, <2>3, Writers
<1> QED
  BY <1>7, <1>8, <1>9 DEF AnswersBacked, Backed

PromiseInv == CorrelationInv /\ Progress /\ AnswersBacked

LEMMA InitPromise == Init => Promise!Init
BY DEF Init, Promise!Init, Promise!NotYet, Received, Why, Answered, NoOutcome, Closed

\* A step on which nothing depends that a caller can see.
LEMMA Invisible ==
  ASSUME UNCHANGED <<outcome, answers, cancelled, runErr>>,
         \A d : Received(d)' <=> Received(d)
  PROVE  UNCHANGED Promise!vars
<1>1. {d \in Calls : Received(d)}' = {d \in Calls : Received(d)}
  OBVIOUS
<1> QED
  BY <1>1 DEF Promise!vars, Why, Answered, Closed

\* A step that only ends the session is End, if it has not ended before.
LEMMA EndOrNothing ==
  ASSUME NEW err \in Errors, Shutdown(err), UNCHANGED <<outcome, answers, cancelled>>,
         \A d : Received(d)' <=> Received(d)
  PROVE  Promise!Next \/ UNCHANGED Promise!vars
<1>1. CASE Closed
  BY <1>1, Invisible DEF Shutdown
<1>2. CASE ~Closed
  <2>1. Closed'
    BY <1>2 DEF Shutdown, Closed, Errors, NoErr
  <2>2. {d \in Calls : Received(d)}' = {d \in Calls : Received(d)}
    OBVIOUS
  <2>3. Closed' = TRUE
    BY <2>1 DEF Closed
  <2>4. Promise!End
    BY <2>2, <2>3 DEF Promise!End, Why, Answered
  <2> QED
    BY <2>4 DEF Promise!Next
<1> QED
  BY <1>1, <1>2

\* A call that settles for a reason it has returns with that reason.
LEMMA SettleReturns ==
  ASSUME TypeOK, Progress, NEW c \in Calls, pc[c] \notin {"leaving", "returned"},
         NEW why \in {"result", "error", "ctx", "session", "write"},
         NEW of, NEW err, Settle(c, why, of, err),
         UNCHANGED <<answers, cancelled, runErr>>,
         \A d : Received(d)' <=> Received(d),
         NEW r \in Promise!Reasons(c) \cup {Promise!WriteError},
         r = [why |-> IF why \in {"result", "error"} THEN "answer" ELSE why, of |-> of]
  PROVE  Promise!Next
<1> DEFINE Seen(o) == [why |-> IF o.why \in {"result", "error"} THEN "answer" ELSE o.why,
                       of |-> o.of]
           returned == [d \in Calls |-> [why |-> Why(d), of |-> outcome[d].of]]
<1>1. returned = [d \in Calls |-> Seen(outcome[d])]
  BY DEF Why, Answered
<1>2. returned' = [d \in Calls |-> Seen(outcome'[d])]
  BY DEF Why, Answered
<1>3. outcome[c] = NoOutcome
  BY DEF Progress
<1>5. /\ Seen(outcome'[c]) = r
      /\ \A d \in Calls \ {c} : outcome'[d] = outcome[d]
  BY DEF Settle, TypeOK
<1>6. returned[c] = Promise!NotYet /\ returned' = [returned EXCEPT ![c] = r]
  <2>1. returned[c] = Promise!NotYet
    BY <1>3 DEF Why, Answered, NoOutcome, Promise!NotYet
  <2>2. ASSUME NEW d \in Calls PROVE returned'[d] = IF d = c THEN r ELSE returned[d]
    <3>1. returned'[d] = Seen(outcome'[d])
      BY <1>2
    <3>2. returned[d] = Seen(outcome[d])
      BY <1>1
    <3>3. CASE d = c
      BY <1>5, <3>1, <3>3
    <3>4. CASE d # c
      <4>1. outcome'[d] = outcome[d]
        BY <1>5, <3>4
      <4> QED
        BY <3>1, <3>2, <3>4, <4>1
    <3> QED
      BY <3>3, <3>4
  <2>3. returned' = [d \in Calls |-> returned'[d]] /\ DOMAIN returned = Calls
    OBVIOUS
  <2> HIDE DEF returned
  <2>4. returned' = [d \in Calls |-> IF d = c THEN r ELSE returned[d]]
    BY <2>2, <2>3
  <2> QED
    BY <2>1, <2>3, <2>4
<1>7. {d \in Calls : Received(d)}' = {d \in Calls : Received(d)}
  OBVIOUS
<1>8. Closed' = Closed
  BY DEF Closed
<1>9. Promise!Return(c)
  BY <1>6, <1>7, <1>8 DEF Promise!Return
<1> QED
  BY <1>9 DEF Promise!Next

\* Every step of the client is one of RpcCalls or invisible there.
LEMMA StepPromise == PromiseInv /\ [Next]_vars => [Promise!Next]_Promise!vars
<1> SUFFICES ASSUME PromiseInv, [Next]_vars
             PROVE  Promise!Next \/ UNCHANGED Promise!vars
  OBVIOUS
<1>1. TypeOK /\ Progress /\ AnswersBacked /\ CorrelationInv
  BY DEF PromiseInv, CorrelationInv
<1>2. sent' = sent => \A d : Received(d)' <=> Received(d)
  BY DEF Received
<1>3. ASSUME NEW c \in Calls,
             \/ Mint(c) \/ Register(c) \/ WriteReturns(c) \/ Leave(c)
             \/ (LogRequest(c) /\ c \notin cancelled)
      PROVE  UNCHANGED Promise!vars
  BY <1>2, <1>3, Invisible DEF Mint, Register, LogRequest, WriteReturns, Leave
<1>4. ASSUME NEW c \in Calls, Transmit(c) PROVE Promise!Next
  <2>1. /\ pc[c] = "logged" /\ UNCHANGED <<outcome, answers, cancelled, runErr>>
        /\ sent' = Append(sent, Request(c))
    BY <1>4 DEF Transmit
  <2>2. ~Received(c) /\ outcome[c] = NoOutcome
    BY <1>1, <2>1 DEF Progress
  <2>3. Request(c) \in Entries /\ Request(c).kind = "request" /\ Request(c).what = c
    BY <1>1, EntryTypes DEF Request
  <2>4. \A d : Received(d)' <=> Received(d) \/ d = c
    BY <1>1, <2>1, <2>3, AppendReceived
  <2>5. {d \in Calls : Received(d)}' = {d \in Calls : Received(d)} \cup {c}
    BY <2>4
  <2>6. c \notin {d \in Calls : Received(d)}
    BY <2>2
  <2>7. [d \in Calls |-> [why |-> Why(d), of |-> outcome[d].of]][c] = Promise!NotYet
    BY <2>2 DEF Why, Answered, NoOutcome, Promise!NotYet
  <2>8. Promise!Ask(c)
    BY <2>1, <2>5, <2>6, <2>7 DEF Promise!Ask, Why, Answered, Closed
  <2> QED
    BY <2>8 DEF Promise!Next
<1>5. ASSUME NEW c \in Calls, WriteFails(c) \/ (LogRequest(c) /\ c \in cancelled)
      PROVE  Promise!Next
  <2>1. Promise!WriteError \in Promise!Reasons(c) \cup {Promise!WriteError}
    OBVIOUS
  <2>2. Promise!WriteError = [why |-> "write", of |-> Nobody]
    BY DEF Promise!WriteError
  <2> QED
    BY <1>1, <1>2, <1>5, <2>1, <2>2, SettleReturns DEF WriteFails, LogRequest
<1>6. ASSUME NEW c \in Calls, SelectCtx(c) PROVE Promise!Next
  <2>1. [why |-> "ctx", of |-> Nobody] \in Promise!Reasons(c) \cup {Promise!WriteError}
    BY <1>6 DEF SelectCtx, Promise!Reasons
  <2> QED
    BY <1>1, <1>2, <1>6, <2>1, SettleReturns DEF SelectCtx
<1>7. ASSUME NEW c \in Calls, SelectClosed(c) PROVE Promise!Next
  <2>1. [why |-> "session", of |-> Nobody] \in Promise!Reasons(c) \cup {Promise!WriteError}
    BY <1>7 DEF SelectClosed, Promise!Reasons
  <2> QED
    BY <1>1, <1>2, <1>7, <2>1, SettleReturns DEF SelectClosed
<1>8. ASSUME NEW c \in Calls, SelectInbox(c) PROVE Promise!Next
  <2>1. Head(inbox[c]).body = c
    <3>1. inbox[c] \in Seq(Frames) /\ inbox[c] # <<>>
      BY <1>1, <1>8 DEF SelectInbox, TypeOK
    <3>2. Head(inbox[c]) = inbox[c][1] /\ 1 \in 1..Len(inbox[c])
      BY <3>1
    <3> QED
      BY <1>1, <3>2 DEF CorrelationInv, HoldsOwn
  <2>2. c \in {d \in Calls : answers[d] > 0}
    BY <1>1, <1>8 DEF SelectInbox, AnswersBacked
  <2>3. [why |-> "answer", of |-> c] \in Promise!Reasons(c) \cup {Promise!WriteError}
    BY <2>2 DEF Promise!Reasons
  <2>4. PICK why \in {"result", "error"} : Settle(c, why, c, NoErr)
    BY <1>8, <2>1 DEF SelectInbox
  <2> QED
    BY <1>1, <1>2, <1>8, <2>3, <2>4, SettleReturns DEF SelectInbox
<1>9. ASSUME NEW c \in Calls, Cancel(c) PROVE Promise!Next
  <2>1. /\ cancelled' = cancelled \cup {c} /\ {c} \in SUBSET Calls
        /\ UNCHANGED <<outcome, answers, runErr, sent>>
    BY <1>9 DEF Cancel
  <2>2. {d \in Calls : Received(d)}' = {d \in Calls : Received(d)}
    BY <1>2, <2>1
  <2> QED
    BY <2>1, <2>2 DEF Promise!Next, Promise!Cancel, Why, Answered, Closed
<1>10. ASSUME NEW m \in Notes, LogNote(m) \/ NoteStep(m) PROVE UNCHANGED Promise!vars
  <2>1. UNCHANGED <<outcome, answers, cancelled, runErr>>
    BY <1>10 DEF LogNote, NoteStep, TransmitNote, NoteFails
  <2>2. \A d : Received(d)' <=> Received(d)
    <3>1. CASE TransmitNote(m)
      <4>1. Note(m) \in Entries /\ Note(m).kind # "request"
        BY <1>1, EntryTypes DEF Note
      <4> QED
        BY <1>1, <3>1, <4>1, AppendReceived DEF TransmitNote
    <3>2. CASE LogNote(m) \/ NoteFails(m)
      BY <1>2, <3>2 DEF LogNote, NoteFails
    <3> QED
      BY <1>10, <3>1, <3>2 DEF NoteStep
  <2> QED
    BY <2>1, <2>2, Invisible
<1>11. CASE ReadFails
  <2>1. PICK err \in Errors : Shutdown(err)
    BY <1>11 DEF ReadFails
  <2> QED
    BY <1>2, <1>11, <2>1, EndOrNothing DEF ReadFails
<1>12. CASE ReadFrame \/ Lookup \/ Deliver \/ PassOver \/ LogRefusal \/ RefusalFails
  BY <1>2, <1>12, Invisible
     DEF ReadFrame, Lookup, Deliver, PassOver, LogRefusal, RefusalFails
<1>13. CASE TransmitRefusal
  <2>1. Refusal(cur.id) \in Entries /\ Refusal(cur.id).kind # "request"
    BY <1>1, EntryTypes DEF Refusal, TypeOK
  <2>2. \A d : Received(d)' <=> Received(d)
    BY <1>1, <1>13, <2>1, AppendReceived DEF TransmitRefusal
  <2> QED
    BY <1>13, <2>2, Invisible DEF TransmitRefusal
<1>14. CASE CloseClient
  BY <1>2, <1>14, EndOrNothing DEF CloseClient, Errors
<1>15. CASE CloseTransport \/ PeerGoes \/ \E f \in Noise : Emit(f)
  BY <1>2, <1>15, Invisible DEF CloseTransport, PeerGoes, Emit
<1>16. CASE CancelRun
  <2>1. /\ cancelled' = cancelled \cup Calls /\ Calls \in SUBSET Calls
        /\ UNCHANGED <<outcome, answers, runErr, sent>>
    BY <1>1, <1>16 DEF CancelRun, TypeOK
  <2>2. {d \in Calls : Received(d)}' = {d \in Calls : Received(d)}
    BY <1>2, <2>1
  <2> QED
    BY <2>1, <2>2 DEF Promise!Next, Promise!Cancel, Why, Answered, Closed
<1>17. ASSUME NEW c \in Calls, Answer(c) PROVE Promise!Next \/ UNCHANGED Promise!vars
  <2>1. /\ Received(c) /\ answers' = [answers EXCEPT ![c] = @ + 1]
        /\ UNCHANGED <<outcome, cancelled, runErr, sent>>
    BY <1>17 DEF Answer
  <2>2. {d \in Calls : answers[d] > 0}' = {d \in Calls : answers[d] > 0} \cup {c}
    BY <1>1, <2>1 DEF TypeOK
  <2>3. {d \in Calls : Received(d)}' = {d \in Calls : Received(d)}
    BY <1>2, <2>1
  <2>4. c \in {d \in Calls : Received(d)}
    BY <2>1
  <2>5. CASE answers[c] > 0
    <3>1. {d \in Calls : answers[d] > 0}' = {d \in Calls : answers[d] > 0}
      BY <2>2, <2>5
    <3> QED
      BY <2>1, <2>3, <3>1 DEF Promise!vars, Why, Answered, Closed
  <2>6. CASE ~(answers[c] > 0)
    <3>1. c \notin {d \in Calls : answers[d] > 0}
      BY <2>6
    <3>2. Promise!Answer(c)
      BY <2>1, <2>2, <2>3, <2>4, <3>1 DEF Promise!Answer, Why, Answered, Closed
    <3> QED
      BY <3>2 DEF Promise!Next
  <2> QED
    BY <2>5, <2>6
<1>18. CASE UNCHANGED vars
  BY <1>2, <1>18, Invisible DEF vars
<1> QED
  BY <1>3, <1>4, <1>5, <1>6, <1>7, <1>8, <1>9, <1>10, <1>11, <1>12, <1>13, <1>14, <1>15,
     <1>16, <1>17, <1>18 DEF Next, CallStep, ReaderStep, Server

\* The client implements RpcCalls: whatever interleaving its goroutines, the
\* server and the contexts find, every call returns at most once, and what it
\* returns is explained by what had happened by then.
THEOREM ClientImplements == Spec => KeepsPromise
<1>1. Init => PromiseInv
  BY InitCorrelation, InitProgress DEF PromiseInv
<1>2. PromiseInv /\ [Next]_vars => PromiseInv'
  BY NextCorrelation, NextProgress, NextBacked DEF PromiseInv, CorrelationInv
<1> QED
  BY <1>1, <1>2, InitPromise, StepPromise, PTL DEF Spec, KeepsPromise, Promise!Spec
-----------------------------------------------------------------------------
(* The frame log *)

InLog(e) == \E j \in 1..Len(log) : log[j] = e

\* What is about to be written has been logged, and so has what was written.
RequestsLogged == Logging => \A c \in Calls : pc[c] = "logged" => InLog(Request(c))
NotesLogged == Logging => \A m \in Notes : pc[m] = "logged" => InLog(Note(m))
RefusalLogged == Logging => (run = "refusing" => InLog(Refusal(cur.id)))
SentLogged == Logging => \A i \in 1..Len(sent) : InLog(sent[i])

\* The server answers what it has received.
AnswersReceived == \A c \in Calls : answers[c] > 0 => Received(c)

\* In the log an answer comes after its request.
LogOrdered == Logging =>
  \A j \in 1..Len(log) : log[j].kind = "in" /\ log[j].what # Nobody =>
    \E i \in 1..(j - 1) : log[i].kind = "request" /\ log[i].what = log[j].what

LogInv == /\ RequestsLogged
          /\ NotesLogged
          /\ RefusalLogged
          /\ SentLogged
          /\ AnswersReceived
          /\ LogOrdered

\* An entry logged is in the log, and so is what was in it before.
LEMMA LogGrows ==
  ASSUME TypeOK, NEW e \in Entries, Log(e)
  PROVE  /\ \A f : InLog(f) => \E j \in 1..Len(log') : log'[j] = f
         /\ Logging => \E j \in 1..Len(log') : log'[j] = e
<1>1. CASE Logging
  <2>1. /\ Len(log') = Len(log) + 1 /\ log'[Len(log) + 1] = e /\ Len(log) \in Nat
        /\ \A i \in 1..Len(log) : log'[i] = log[i]
    BY <1>1 DEF Log, TypeOK
  <2> QED
    BY <2>1 DEF InLog
<1>2. CASE ~Logging
  BY <1>2 DEF Log, InLog
<1> QED
  BY <1>1, <1>2

\* Which steps log.
LEMMA LogWriters ==
  ASSUME TypeOK, [Next]_vars
  PROVE  \/ log' = log
         \/ \E c \in Calls : LogRequest(c)
         \/ \E m \in Notes : LogNote(m)
         \/ LogRefusal
         \/ ReadFrame
<1>1. CASE \E c \in Calls : Mint(c) \/ CallStep(c) \/ Cancel(c)
  BY <1>1 DEF Mint, CallStep, Cancel, Register, Transmit, WriteReturns,
              WriteFails, SelectCtx, SelectClosed, SelectInbox, Leave
<1>2. CASE \E m \in Notes : LogNote(m) \/ NoteStep(m)
  BY <1>2 DEF NoteStep, TransmitNote, NoteFails
<1>3. CASE ReaderStep
  BY <1>3 DEF ReaderStep, ReadFails, Lookup, Deliver, PassOver, TransmitRefusal, RefusalFails
<1>4. CASE CloseClient \/ CloseTransport \/ CancelRun
  BY <1>4 DEF CloseClient, CloseTransport, CancelRun
<1>5. CASE Server
  BY <1>5 DEF Server, Answer, Emit, PeerGoes
<1>6. CASE UNCHANGED vars
  BY <1>6 DEF vars
<1> QED
  BY <1>1, <1>2, <1>3, <1>4, <1>5, <1>6 DEF Next

\* A step that logs, logs one entry.
LEMMA LogsOne ==
  ASSUME TypeOK, [Next]_vars
  PROVE  log' = log \/ \E e \in Entries : Log(e)
<1>1. ASSUME NEW c \in Calls, LogRequest(c) PROVE \E e \in Entries : Log(e)
  BY <1>1, EntryTypes DEF LogRequest
<1>2. ASSUME NEW m \in Notes, LogNote(m) PROVE \E e \in Entries : Log(e)
  BY <1>2, EntryTypes DEF LogNote
<1>3. ASSUME LogRefusal PROVE \E e \in Entries : Log(e)
  BY <1>3, EntryTypes DEF LogRefusal, TypeOK
<1>4. ASSUME ReadFrame PROVE \E e \in Entries : Log(e)
  <2>1. Head(inbound) \in Frames
    BY <1>4, HeadTail DEF ReadFrame, TypeOK
  <2> QED
    BY <1>4, <2>1, EntryTypes DEF ReadFrame
<1> QED
  BY <1>1, <1>2, <1>3, <1>4, LogWriters

LEMMA LogMonotone ==
  ASSUME TypeOK, [Next]_vars
  PROVE  \A f : InLog(f) => \E j \in 1..Len(log') : log'[j] = f
<1>1. CASE log' = log
  BY <1>1 DEF InLog
<1>2. ASSUME NEW e \in Entries, Log(e)
      PROVE  \A f : InLog(f) => \E j \in 1..Len(log') : log'[j] = f
  BY <1>2, LogGrows
<1> QED
  BY <1>1, <1>2, LogsOne

\* How anybody comes to stand behind a line of the log.
LEMMA LoggedBy ==
  ASSUME TypeOK, [Next]_vars
  PROVE  /\ \A c \in Calls : pc'[c] = "logged" => pc[c] = "logged" \/ LogRequest(c)
         /\ \A m \in Notes : pc'[m] = "logged" => pc[m] = "logged" \/ LogNote(m)
         /\ run' = "refusing" => (run = "refusing" /\ cur' = cur) \/ LogRefusal
<1> USE ConstantsAssumption DEF Goto, Settle, TypeOK
<1> DEFINE Claim == /\ \A c \in Calls : pc'[c] = "logged" => pc[c] = "logged" \/ LogRequest(c)
                    /\ \A m \in Notes : pc'[m] = "logged" => pc[m] = "logged" \/ LogNote(m)
                    /\ run' = "refusing" => (run = "refusing" /\ cur' = cur) \/ LogRefusal
<1>1. ASSUME NEW d \in Calls, Mint(d) \/ Register(d) \/ Transmit(d) \/ WriteReturns(d) \/ Leave(d)
      PROVE  Claim
  BY <1>1 DEF Mint, Register, Transmit, WriteReturns, Leave
<1>2. ASSUME NEW d \in Calls,
             \/ WriteFails(d) \/ SelectCtx(d) \/ SelectClosed(d) \/ SelectInbox(d) \/ Cancel(d)
      PROVE  Claim
  BY <1>2 DEF WriteFails, SelectCtx, SelectClosed, SelectInbox, Cancel
<1>3. ASSUME NEW d \in Calls, LogRequest(d) PROVE Claim
  <2>1. \A p \in (Calls \cup Notes) \ {d} : pc'[p] = pc[p]
    BY <1>3 DEF LogRequest
  <2>2. UNCHANGED <<run, cur>> /\ d \notin Notes
    BY <1>3 DEF LogRequest
  <2> QED
    BY <1>3, <2>1, <2>2
<1>4. ASSUME NEW n \in Notes, LogNote(n) PROVE Claim
  <2>1. \A p \in (Calls \cup Notes) \ {n} : pc'[p] = pc[p]
    BY <1>4 DEF LogNote
  <2>2. UNCHANGED <<run, cur>> /\ n \notin Calls
    BY <1>4 DEF LogNote
  <2> QED
    BY <1>4, <2>1, <2>2
<1>5. ASSUME NEW n \in Notes, NoteStep(n) PROVE Claim
  BY <1>5 DEF NoteStep, TransmitNote, NoteFails
<1>6. CASE ReaderStep
  BY <1>6 DEF ReaderStep, ReadFrame, ReadFails, Lookup, Deliver, PassOver, TransmitRefusal,
              RefusalFails, LogRefusal
<1>7. CASE CloseClient \/ CloseTransport \/ CancelRun
  BY <1>7 DEF CloseClient, CloseTransport, CancelRun
<1>8. CASE Server
  BY <1>8 DEF Server, Answer, Emit, PeerGoes
<1>9. CASE UNCHANGED vars
  BY <1>9 DEF vars
<1> QED
  BY <1>1, <1>2, <1>3, <1>4, <1>5, <1>6, <1>7, <1>8, <1>9 DEF Next, CallStep

\* An entry that is no answer, or that comes after its request, keeps the order.
LEMMA AppendOrdered ==
  ASSUME TypeOK, LogOrdered, NEW e \in Entries, Log(e),
         Logging /\ e.kind = "in" /\ e.what # Nobody =>
           \E i \in 1..Len(log) : log[i].kind = "request" /\ log[i].what = e.what
  PROVE  LogOrdered'
<1> SUFFICES ASSUME Logging, NEW j \in 1..Len(log'), log'[j].kind = "in", log'[j].what # Nobody
             PROVE  \E i \in 1..(j - 1) :
                      log'[i].kind = "request" /\ log'[i].what = log'[j].what
  BY DEF LogOrdered
<1>1. /\ Len(log') = Len(log) + 1 /\ log'[Len(log) + 1] = e /\ Len(log) \in Nat
      /\ \A i \in 1..Len(log) : log'[i] = log[i]
  BY DEF Log, TypeOK
<1>2. CASE j \in 1..Len(log)
  <2>1. PICK i \in 1..(j - 1) : log[i].kind = "request" /\ log[i].what = log[j].what
    BY <1>1, <1>2 DEF LogOrdered
  <2>2. i \in 1..Len(log)
    BY <1>1, <1>2, <2>1
  <2> QED
    BY <1>1, <1>2, <2>1, <2>2
<1>3. CASE j = Len(log) + 1
  <2>1. PICK i \in 1..Len(log) : log[i].kind = "request" /\ log[i].what = e.what
    BY <1>1, <1>3
  <2> QED
    BY <1>1, <1>3, <2>1
<1> QED
  BY <1>1, <1>2, <1>3

LEMMA InitLog == Init => LogInv
BY ConstantsAssumption
   DEF Init, LogInv, RequestsLogged, NotesLogged, RefusalLogged, SentLogged, AnswersReceived,
       LogOrdered

LEMMA NextLog == PromiseInv /\ LogInv /\ [Next]_vars => LogInv'
<1> SUFFICES ASSUME PromiseInv, LogInv, [Next]_vars PROVE LogInv'
  OBVIOUS
<1>1. TypeOK /\ CorrelationInv
  BY DEF PromiseInv, CorrelationInv
<1> DEFINE InNew(f) == \E j \in 1..Len(log') : log'[j] = f
<1>2. \A f : InLog(f) => InNew(f)
  BY <1>1, LogMonotone
<1>3. RequestsLogged'
  <2> SUFFICES ASSUME Logging, NEW c \in Calls, pc'[c] = "logged" PROVE InNew(Request(c)')
    BY DEF RequestsLogged, InLog
  <2>1. CASE pc[c] = "logged"
    <3>1. Request(c)' = Request(c)
      BY <1>1, <2>1, IdsStable DEF Request, Begun
    <3>2. InLog(Request(c))
      BY <2>1 DEF LogInv, RequestsLogged
    <3> QED
      BY <1>2, <3>1, <3>2
  <2>2. CASE LogRequest(c)
    <3>1. Request(c)' = Request(c) /\ Log(Request(c))
      BY <2>2 DEF LogRequest, Request
    <3>2. InNew(Request(c))
      BY <1>1, <3>1, EntryTypes, LogGrows
    <3> QED
      BY <3>1, <3>2
  <2> QED
    BY <1>1, <2>1, <2>2, LoggedBy
<1>4. NotesLogged'
  <2> SUFFICES ASSUME Logging, NEW m \in Notes, pc'[m] = "logged" PROVE InNew(Note(m))
    BY DEF NotesLogged, InLog, Note
  <2>1. CASE pc[m] = "logged"
    BY <1>2, <2>1 DEF LogInv, NotesLogged
  <2>2. CASE LogNote(m)
    BY <1>1, <2>2, EntryTypes, LogGrows DEF LogNote
  <2> QED
    BY <1>1, <2>1, <2>2, LoggedBy
<1>5. RefusalLogged'
  <2> SUFFICES ASSUME Logging, run' = "refusing" PROVE InNew(Refusal(cur'.id))
    BY DEF RefusalLogged, InLog, Refusal
  <2>1. CASE run = "refusing" /\ cur' = cur
    BY <1>2, <2>1 DEF LogInv, RefusalLogged
  <2>2. CASE LogRefusal
    <3>1. Log(Refusal(cur.id)) /\ cur' = cur /\ Refusal(cur.id) \in Entries
      BY <1>1, <2>2, EntryTypes DEF LogRefusal, TypeOK
    <3> QED
      BY <1>1, <3>1, LogGrows
  <2> QED
    BY <1>1, <2>1, <2>2, LoggedBy
<1>6. SentLogged'
  <2> SUFFICES ASSUME Logging PROVE \A i \in 1..Len(sent') : InNew(sent'[i])
    BY DEF SentLogged, InLog
  <2>1. \A i \in 1..Len(sent) : InNew(sent[i])
    BY <1>2 DEF LogInv, SentLogged
  <2>2. ASSUME NEW e \in Entries, sent' = Append(sent, e), InLog(e)
        PROVE  \A i \in 1..Len(sent') : InNew(sent'[i])
    <3>1. /\ Len(sent') = Len(sent) + 1 /\ sent'[Len(sent) + 1] = e /\ Len(sent) \in Nat
          /\ \A i \in 1..Len(sent) : sent'[i] = sent[i]
      BY <1>1, <2>2 DEF TypeOK
    <3>2. InNew(e)
      BY <1>2, <2>2
    <3> HIDE DEF InNew
    <3>3. ASSUME NEW i \in 1..Len(sent') PROVE InNew(sent'[i])
      <4>1. i \in 1..Len(sent) \/ i = Len(sent) + 1
        BY <3>1
      <4> QED
        BY <2>1, <3>1, <3>2, <4>1
    <3> QED
      BY <3>3
  <2>3. ASSUME NEW c \in Calls, Transmit(c) PROVE \A i \in 1..Len(sent') : InNew(sent'[i])
    <3>1. InLog(Request(c)) /\ sent' = Append(sent, Request(c)) /\ Request(c) \in Entries
      BY <1>1, <2>3, EntryTypes DEF Transmit, LogInv, RequestsLogged
    <3> QED
      BY <2>2, <3>1
  <2>4. ASSUME NEW m \in Notes, TransmitNote(m) PROVE \A i \in 1..Len(sent') : InNew(sent'[i])
    <3>1. InLog(Note(m)) /\ sent' = Append(sent, Note(m)) /\ Note(m) \in Entries
      BY <1>1, <2>4, EntryTypes DEF TransmitNote, LogInv, NotesLogged
    <3> QED
      BY <2>2, <3>1
  <2>5. ASSUME TransmitRefusal PROVE \A i \in 1..Len(sent') : InNew(sent'[i])
    <3>1. /\ InLog(Refusal(cur.id)) /\ sent' = Append(sent, Refusal(cur.id))
          /\ Refusal(cur.id) \in Entries
      BY <1>1, <2>5, EntryTypes DEF TransmitRefusal, LogInv, RefusalLogged, TypeOK
    <3> QED
      BY <2>2, <3>1
  <2> QED
    BY <1>1, <2>1, <2>3, <2>4, <2>5, Writers
<1>7. AnswersReceived'
  <2>1. \A c \in Calls : Received(c) => Received(c)'
    BY <1>1, ReceivedMoves
  <2>2. ASSUME NEW c \in Calls PROVE answers'[c] = answers[c] \/ Answer(c)
    <3>1. CASE \E d \in Calls : Mint(d) \/ CallStep(d) \/ Cancel(d)
      BY <3>1 DEF Mint, CallStep, Cancel, Register, LogRequest, Transmit, WriteReturns,
                  WriteFails, SelectCtx, SelectClosed, SelectInbox, Leave
    <3>2. CASE \E m \in Notes : LogNote(m) \/ NoteStep(m)
      BY <3>2 DEF LogNote, NoteStep, TransmitNote, NoteFails
    <3>3. CASE ReaderStep
      BY <3>3 DEF ReaderStep, ReadFrame, ReadFails, Lookup, Deliver, PassOver, LogRefusal,
                  TransmitRefusal, RefusalFails
    <3>4. CASE CloseClient \/ CloseTransport \/ CancelRun
      BY <3>4 DEF CloseClient, CloseTransport, CancelRun
    <3>5. ASSUME NEW d \in Calls, Answer(d), d # c PROVE answers'[c] = answers[c]
      BY <1>1, <3>5 DEF Answer, TypeOK
    <3>6. CASE PeerGoes \/ \E f \in Noise : Emit(f)
      BY <3>6 DEF Emit, PeerGoes
    <3>7. CASE UNCHANGED vars
      BY <3>7 DEF vars
    <3> QED
      BY <3>1, <3>2, <3>3, <3>4, <3>5, <3>6, <3>7 DEF Next, Server
  <2>3. \A c \in Calls : Answer(c) => Received(c)
    BY DEF Answer
  <2> QED
    BY <2>1, <2>2, <2>3 DEF LogInv, AnswersReceived
<1>8. LogOrdered'
  <2>1. CASE log' = log
    BY <2>1 DEF LogInv, LogOrdered
  <2>2. ASSUME NEW e \in Entries, Log(e), e.kind # "in" PROVE LogOrdered'
    BY <1>1, <2>2, AppendOrdered DEF LogInv
  <2>3. ASSUME NEW c \in Calls, LogRequest(c) PROVE LogOrdered'
    <3>1. Request(c) \in Entries /\ Request(c).kind # "in" /\ Log(Request(c))
      BY <1>1, <2>3, EntryTypes DEF LogRequest, Request
    <3> QED
      BY <2>2, <3>1
  <2>4. ASSUME NEW m \in Notes, LogNote(m) PROVE LogOrdered'
    <3>1. Note(m) \in Entries /\ Note(m).kind # "in" /\ Log(Note(m))
      BY <1>1, <2>4, EntryTypes DEF LogNote, Note
    <3> QED
      BY <2>2, <3>1
  <2>5. CASE LogRefusal
    <3>1. Refusal(cur.id) \in Entries /\ Refusal(cur.id).kind # "in" /\ Log(Refusal(cur.id))
      BY <1>1, <2>5, EntryTypes DEF LogRefusal, Refusal, TypeOK
    <3> QED
      BY <2>2, <3>1
  <2>6. CASE ReadFrame
    <3> DEFINE f == Head(inbound)
    <3>1. f \in Frames /\ f = inbound[1] /\ 1 \in 1..Len(inbound)
      BY <1>1, <2>6, HeadTail DEF ReadFrame, TypeOK
    <3>2. Backed(f)
      BY <3>1 DEF PromiseInv, AnswersBacked
    <3>3. Incoming(f) \in Entries /\ Incoming(f).what = f.body /\ Log(Incoming(f))
      BY <1>1, <2>6, <3>1, EntryTypes DEF Incoming, ReadFrame
    <3>4. f.body # Nobody => f.body \in Calls /\ Received(f.body)
      BY <3>1, <3>2 DEF Frames, Backed, LogInv, AnswersReceived
    <3>5. ASSUME Logging, f.body # Nobody
          PROVE  \E i \in 1..Len(log) : log[i].kind = "request" /\ log[i].what = f.body
      <4>1. PICK i \in 1..Len(sent) : sent[i].kind = "request" /\ sent[i].what = f.body
        BY <3>4, <3>5 DEF Received
      <4>2. PICK j \in 1..Len(log) : log[j] = sent[i]
        BY <3>5, <4>1 DEF LogInv, SentLogged, InLog
      <4> QED
        BY <4>1, <4>2
    <3> HIDE DEF f
    <3> QED
      BY <1>1, <3>3, <3>5, AppendOrdered DEF LogInv
  <2> QED
    BY <1>1, <2>1, <2>3, <2>4, <2>5, <2>6, LogWriters
<1> QED
  BY <1>3, <1>4, <1>5, <1>6, <1>7, <1>8 DEF LogInv

\* Nothing is on the wire that is not in the log already, and the log never
\* shows an answer before the request it answers, though the senders log and
\* write without a lock (send, logFrame).
THEOREM LogExplainsItself == Spec => []LogExplains
<1>1. Init => PromiseInv
  BY InitCorrelation, InitProgress DEF PromiseInv
<1>2. PromiseInv /\ [Next]_vars => PromiseInv'
  BY NextCorrelation, NextProgress, NextBacked DEF PromiseInv, CorrelationInv
<1>3. LogInv => LogExplains
  BY DEF LogInv, SentLogged, InLog, LogOrdered, LogExplains
<1> QED
  BY <1>1, <1>2, <1>3, InitLog, NextLog, PTL DEF Spec
-----------------------------------------------------------------------------
(* Refusals *)

\* The request of the server's that dispatch is about to refuse.
InHand == run \in {"dispatching", "refusing"} /\ IsRequest(cur)
InFlight(f) == (\E k \in 1..Len(inbound) : inbound[k] = f) \/ (InHand /\ cur = f)

\* A request of the server's is in one place at a time, and is one it has sent.
RequestsOnce ==
  /\ \A k \in 1..Len(inbound) : IsRequest(inbound[k]) => inbound[k] \in emitted
  /\ \A k, l \in 1..Len(inbound) :
       IsRequest(inbound[k]) /\ inbound[k] = inbound[l] => k = l
  /\ InHand => cur \in emitted /\ \A k \in 1..Len(inbound) : inbound[k] # cur
  /\ run = "refusing" => IsRequest(cur)

\* A refusal on the wire and the request it is for.
Echoes(f, e) == IsRequest(f) /\ f.id = e.id

\* Each refusal is for a request of its own, which is not on its way any more.
Explains(g) ==
  /\ g \in [Refusals -> emitted]
  /\ \A i \in Refusals : Echoes(g[i], sent[i]) /\ ~InFlight(g[i])
  /\ \A i, j \in Refusals : g[i] = g[j] => i = j

EchoInv == RequestsOnce /\ (\E g : Explains(g)) /\ IsFiniteSet(emitted)

LEMMA InitEcho == Init => EchoInv
<1> SUFFICES ASSUME Init PROVE EchoInv
  OBVIOUS
<1>1. Refusals = {} /\ emitted = {} /\ Len(inbound) = 0 /\ run = "reading"
  BY DEF Init, Refusals
<1>2. RequestsOnce
  BY <1>1 DEF RequestsOnce, InHand
<1>3. Explains([i \in Refusals |-> NoFrame])
  BY <1>1 DEF Explains
<1> QED
  BY <1>1, <1>2, <1>3, FS_EmptySet DEF EchoInv

\* Steps without a refusal, that send no request on its way a second time.
LEMMA ExplainsKept ==
  ASSUME \E g : Explains(g), Refusals' = Refusals, \A i \in Refusals : sent'[i] = sent[i],
         emitted \subseteq emitted', \A f \in emitted : IsRequest(f) /\ InFlight(f)' => InFlight(f)
  PROVE  \E g : Explains(g)'
<1>1. PICK g : Explains(g)
  OBVIOUS
<1>2. \A i \in Refusals : g[i] \in emitted /\ IsRequest(g[i]) /\ ~InFlight(g[i])
  BY <1>1 DEF Explains, Echoes
<1>3. \A i \in Refusals : ~InFlight(g[i])'
  BY <1>2
<1>4. g \in [Refusals' -> emitted']
  BY <1>1 DEF Explains
<1>5. Explains(g)'
  BY <1>1, <1>3, <1>4 DEF Explains
<1> QED
  BY <1>5

\* Steps that leave alone what is on its way.
LEMMA EchoStays ==
  ASSUME EchoInv, UNCHANGED <<inbound, cur, emitted>>, InHand' => InHand,
         run' = "refusing" => IsRequest(cur),
         Refusals' = Refusals, \A i \in Refusals : sent'[i] = sent[i]
  PROVE  EchoInv'
<1>1. RequestsOnce'
  BY DEF EchoInv, RequestsOnce
<1>2. \A f \in emitted : InFlight(f)' => InFlight(f)
  BY DEF InFlight
<1>3. \E g : Explains(g)'
  BY <1>2, ExplainsKept DEF EchoInv
<1> QED
  BY <1>1, <1>3 DEF EchoInv

LEMMA ReadFrameEcho == TypeOK /\ EchoInv /\ ReadFrame => EchoInv'
<1> SUFFICES ASSUME TypeOK, EchoInv, ReadFrame PROVE EchoInv'
  OBVIOUS
<1>1. /\ run = "reading" /\ inbound # <<>> /\ inbound' = Tail(inbound)
      /\ \/ cur' = Head(inbound) /\ run' = "dispatching"
         \/ cur' = cur /\ run' = run
      /\ emitted' = emitted /\ sent' = sent
  BY DEF ReadFrame
<1>2. /\ Len(inbound) \in Nat /\ Len(inbound) > 0 /\ Len(inbound') = Len(inbound) - 1
      /\ Head(inbound) = inbound[1] /\ 1 \in 1..Len(inbound)
      /\ \A k \in 1..Len(inbound') : k + 1 \in 1..Len(inbound) /\ inbound'[k] = inbound[k + 1]
  BY <1>1 DEF TypeOK
<1>3. ~InHand /\ RequestsOnce
  BY <1>1 DEF InHand, EchoInv
<1>4. InHand' => cur' = inbound[1] /\ IsRequest(inbound[1])
  BY <1>1, <1>2 DEF InHand
<1>5. RequestsOnce'
  <2>1. ASSUME NEW k \in 1..Len(inbound'), IsRequest(inbound'[k]) PROVE inbound'[k] \in emitted'
    BY <1>1, <1>2, <1>3, <2>1 DEF RequestsOnce
  <2>2. ASSUME NEW k \in 1..Len(inbound'), NEW l \in 1..Len(inbound'),
               IsRequest(inbound'[k]), inbound'[k] = inbound'[l]
        PROVE  k = l
    <3>1. k + 1 = l + 1
      BY <1>2, <1>3, <2>2 DEF RequestsOnce
    <3> QED
      BY <3>1
  <2>3. ASSUME InHand' PROVE cur' \in emitted' /\ \A k \in 1..Len(inbound') : inbound'[k] # cur'
    <3>1. inbound[1] \in emitted /\ cur' = inbound[1] /\ IsRequest(inbound[1])
      BY <1>2, <1>3, <1>4, <2>3 DEF RequestsOnce
    <3>2. ASSUME NEW k \in 1..Len(inbound'), inbound'[k] = cur' PROVE FALSE
      <4>1. k + 1 = 1
        BY <1>2, <1>3, <3>1, <3>2 DEF RequestsOnce
      <4> QED
        BY <4>1
    <3> QED
      BY <1>1, <3>1, <3>2
  <2>4. run' # "refusing"
    BY <1>1
  <2> QED
    BY <2>1, <2>2, <2>3, <2>4 DEF RequestsOnce
<1>6. \A f \in emitted : InFlight(f)' => InFlight(f)
  BY <1>2, <1>4 DEF InFlight
<1>7. Refusals' = Refusals /\ \A i \in Refusals : sent'[i] = sent[i]
  BY <1>1 DEF Refusals
<1>8. \E g : Explains(g)'
  BY <1>1, <1>6, <1>7, ExplainsKept DEF EchoInv
<1> QED
  BY <1>1, <1>5, <1>8 DEF EchoInv

\* The server sends one frame more.
LEMMA InboundEcho ==
  ASSUME TypeOK, EchoInv, NEW f \in Frames, inbound' = Append(inbound, f),
         IsRequest(f) => f \notin emitted /\ f \in emitted',
         UNCHANGED <<run, cur, sent>>, emitted \subseteq emitted'
  PROVE  RequestsOnce' /\ \E g : Explains(g)'
<1> DEFINE n == Len(inbound)
<1>1. /\ Len(inbound') = n + 1 /\ inbound'[n + 1] = f /\ n \in Nat
      /\ \A k \in 1..n : inbound'[k] = inbound[k]
  BY DEF TypeOK
<1>2. \A k \in 1..Len(inbound') : k \in 1..n \/ k = n + 1
  BY <1>1
<1> HIDE DEF n
<1>3. RequestsOnce
  BY DEF EchoInv
<1>4. \A k \in 1..n : IsRequest(inbound[k]) => inbound[k] \in emitted /\ inbound[k] # f
  BY <1>3 DEF RequestsOnce, n
<1>5. InHand' = InHand /\ (InHand => cur \in emitted /\ cur # f /\ IsRequest(cur))
  BY <1>3 DEF RequestsOnce, InHand
<1>6. RequestsOnce'
  <2>1. ASSUME NEW k \in 1..Len(inbound'), IsRequest(inbound'[k]) PROVE inbound'[k] \in emitted'
    BY <1>1, <1>2, <1>4, <2>1
  <2>2. ASSUME NEW k \in 1..Len(inbound'), NEW l \in 1..Len(inbound'),
               IsRequest(inbound'[k]), inbound'[k] = inbound'[l]
        PROVE  k = l
    <3>1. CASE k \in 1..n /\ l \in 1..n
      BY <1>1, <1>3, <2>2, <3>1 DEF RequestsOnce, n
    <3>2. CASE k = n + 1 \/ l = n + 1
      BY <1>1, <1>2, <1>4, <2>2, <3>2
    <3> QED
      BY <1>2, <3>1, <3>2
  <2>3. ASSUME InHand' PROVE cur' \in emitted' /\ \A k \in 1..Len(inbound') : inbound'[k] # cur'
    <3>1. cur \in emitted /\ cur # f /\ \A k \in 1..n : inbound[k] # cur
      BY <1>3, <1>5, <2>3 DEF RequestsOnce, n
    <3> QED
      BY <1>1, <1>2, <3>1
  <2>4. run' = "refusing" => IsRequest(cur')
    BY <1>3 DEF RequestsOnce
  <2> QED
    BY <2>1, <2>2, <2>3, <2>4 DEF RequestsOnce
<1>7. ASSUME NEW h \in emitted, IsRequest(h), InFlight(h)' PROVE InFlight(h)
  <2>1. CASE \E k \in 1..Len(inbound') : inbound'[k] = h
    <3>1. PICK k \in 1..Len(inbound') : inbound'[k] = h
      BY <2>1
    <3>2. k \in 1..n /\ inbound[k] = h
      BY <1>1, <1>2, <1>7, <3>1
    <3> QED
      BY <3>2 DEF InFlight, n
  <2>2. CASE InHand' /\ cur' = h
    BY <1>5, <2>2 DEF InFlight
  <2> QED
    BY <1>7, <2>1, <2>2 DEF InFlight
<1>8. Refusals' = Refusals /\ \A i \in Refusals : sent'[i] = sent[i]
  BY DEF Refusals
<1>9. \E g : Explains(g)'
  BY <1>7, <1>8, ExplainsKept DEF EchoInv
<1> QED
  BY <1>6, <1>9

LEMMA ServerEcho == TypeOK /\ EchoInv /\ Server => EchoInv'
<1> SUFFICES ASSUME TypeOK, EchoInv, Server PROVE EchoInv'
  OBVIOUS
<1>1. ASSUME NEW c \in Calls, Answer(c) PROVE EchoInv'
  <2>1. PICK form \in EchoForms :
          inbound' = Append(inbound,
            [parses |-> TRUE, named |-> FALSE, id |-> [n |-> id[c].n, form |-> form],
             failed |-> c \in Refused, body |-> c])
    BY <1>1 DEF Answer
  <2> DEFINE f == [parses |-> TRUE, named |-> FALSE, id |-> [n |-> id[c].n, form |-> form],
                   failed |-> c \in Refused, body |-> c]
  <2>2. ~IsRequest(f)
    BY DEF IsRequest
  <2>3. f \in Frames
    <3>1. [n |-> id[c].n, form |-> form] \in RawIds
      BY ConstantsAssumption DEF TypeOK, RawIds, Forms
    <3> QED
      BY <3>1 DEF Frames
  <2>4. inbound' = Append(inbound, f) /\ UNCHANGED <<run, cur, sent, emitted>>
    BY <1>1, <2>1 DEF Answer
  <2> HIDE DEF f
  <2> QED
    BY <2>2, <2>3, <2>4, InboundEcho DEF EchoInv
<1>2. ASSUME NEW f \in Noise, Emit(f) PROVE EchoInv'
  <2>1. f \in Frames
    BY NoiseAssumption
  <2>2. /\ inbound' = Append(inbound, f) /\ UNCHANGED <<run, cur, sent>>
        /\ f \notin emitted /\ emitted' = emitted \cup {f}
    BY <1>2 DEF Emit
  <2>3. IsFiniteSet(emitted')
    BY <2>2, FS_AddElement DEF EchoInv
  <2>4. (IsRequest(f) => f \notin emitted /\ f \in emitted') /\ emitted \subseteq emitted'
    BY <2>2
  <2>5. RequestsOnce' /\ \E g : Explains(g)'
    BY <2>1, <2>2, <2>4, InboundEcho
  <2> QED
    BY <2>3, <2>5 DEF EchoInv
<1>3. CASE PeerGoes
  <2>1. UNCHANGED <<inbound, cur, emitted, run, sent>>
    BY <1>3 DEF PeerGoes
  <2>2. (InHand' => InHand) /\ (run' = "refusing" => IsRequest(cur))
    BY <2>1 DEF InHand, EchoInv, RequestsOnce
  <2>3. Refusals' = Refusals /\ \A i \in Refusals : sent'[i] = sent[i]
    BY <2>1 DEF Refusals
  <2> QED
    BY <2>1, <2>2, <2>3, EchoStays
<1> QED
  BY <1>1, <1>2, <1>3 DEF Server

\* What is written goes behind what has been.
LEMMA SentMore ==
  ASSUME TypeOK, NEW e \in Entries, sent' = Append(sent, e)
  PROVE  /\ \A i \in Refusals : i \in 1..Len(sent) /\ sent'[i] = sent[i]
         /\ Refusals' = IF e.kind = "refusal" THEN Refusals \cup {Len(sent) + 1} ELSE Refusals
         /\ sent'[Len(sent) + 1] = e /\ Len(sent) + 1 \notin Refusals
<1>1. /\ Len(sent') = Len(sent) + 1 /\ sent'[Len(sent) + 1] = e /\ Len(sent) \in Nat
      /\ \A i \in 1..Len(sent) : sent'[i] = sent[i]
  BY DEF TypeOK
<1>2. \A i : i \in 1..Len(sent') <=> i \in 1..Len(sent) \/ i = Len(sent) + 1
  BY <1>1
<1>3. Len(sent) + 1 \notin 1..Len(sent)
  BY <1>1
<1> QED
  BY <1>1, <1>2, <1>3 DEF Refusals

LEMMA RefusalEcho == TypeOK /\ EchoInv /\ TransmitRefusal => EchoInv'
<1> SUFFICES ASSUME TypeOK, EchoInv, TransmitRefusal PROVE EchoInv'
  OBVIOUS
<1> DEFINE e == Refusal(cur.id)
           m == Len(sent) + 1
<1>1. /\ run = "refusing" /\ run' = "reading" /\ sent' = Append(sent, e)
      /\ UNCHANGED <<cur, inbound, emitted>>
  BY DEF TransmitRefusal
<1>2. e \in Entries /\ e.kind = "refusal" /\ e.id = cur.id
  BY EntryTypes DEF TypeOK, Refusal
<1> HIDE DEF e
<1>3. /\ \A i \in Refusals : i \in 1..Len(sent) /\ sent'[i] = sent[i]
      /\ Refusals' = Refusals \cup {m} /\ sent'[m] = e /\ m \notin Refusals
  BY <1>1, <1>2, SentMore
<1> HIDE DEF m
<1>4. InHand /\ cur \in emitted /\ ~InHand' /\ InFlight(cur)
  BY <1>1 DEF EchoInv, RequestsOnce, InHand, InFlight
<1>5. RequestsOnce'
  BY <1>1, <1>4 DEF EchoInv, RequestsOnce
<1>6. Echoes(cur, e)
  BY <1>2, <1>4 DEF Echoes, InHand
<1>7. \A f : InFlight(f)' => InFlight(f) /\ f # cur
  BY <1>1, <1>4 DEF InFlight, EchoInv, RequestsOnce
<1>8. PICK g : Explains(g)
  BY DEF EchoInv
<1> PICK h : h = [i \in Refusals' |-> IF i \in Refusals THEN g[i] ELSE cur]
  OBVIOUS
<1>9. /\ \A i \in Refusals : h[i] = g[i] /\ g[i] \in emitted /\ g[i] # cur
                             /\ Echoes(g[i], sent[i]) /\ ~InFlight(g[i])
      /\ h[m] = cur
  BY <1>3, <1>4, <1>8 DEF Explains
<1>10. h \in [Refusals' -> emitted']
  BY <1>1, <1>3, <1>4, <1>9
<1>11. \A i \in Refusals' : Echoes(h[i], sent'[i]) /\ ~InFlight(h[i])'
  BY <1>3, <1>6, <1>7, <1>9
<1>12. \A i, j \in Refusals' : h[i] = h[j] => i = j
  BY <1>3, <1>8, <1>9 DEF Explains
<1>13. Explains(h)'
  BY <1>10, <1>11, <1>12 DEF Explains
<1> QED
  BY <1>1, <1>5, <1>13 DEF EchoInv

LEMMA NextEcho == TypeOK /\ EchoInv /\ [Next]_vars => EchoInv'
<1> SUFFICES ASSUME TypeOK, EchoInv, [Next]_vars PROVE EchoInv'
  OBVIOUS
<1>1. ASSUME UNCHANGED <<inbound, cur, emitted, sent>>, InHand' => InHand,
             run' = "refusing" => IsRequest(cur)
      PROVE  EchoInv'
  <2>1. Refusals' = Refusals /\ \A i \in Refusals : sent'[i] = sent[i]
    BY <1>1 DEF Refusals
  <2> QED
    BY <1>1, <2>1, EchoStays
<1>2. InHand => IsRequest(cur)
  BY DEF InHand
<1>3. run = "refusing" => IsRequest(cur)
  BY DEF EchoInv, RequestsOnce
<1>4. ASSUME UNCHANGED <<inbound, cur, emitted, sent, run>> PROVE EchoInv'
  <2>1. InHand' => InHand
    BY <1>4 DEF InHand
  <2> QED
    BY <1>1, <1>3, <1>4, <2>1
<1>5. ASSUME NEW e \in Entries, e.kind # "refusal", sent' = Append(sent, e),
             UNCHANGED <<inbound, cur, emitted, run>>
      PROVE  EchoInv'
  <2>1. Refusals' = Refusals /\ \A i \in Refusals : sent'[i] = sent[i]
    BY <1>5, SentMore
  <2>2. InHand' => InHand
    BY <1>5 DEF InHand
  <2> QED
    BY <1>3, <1>5, <2>1, <2>2, EchoStays
<1>6. ASSUME NEW c \in Calls, Transmit(c) PROVE EchoInv'
  <2>1. Request(c) \in Entries /\ Request(c).kind # "refusal"
    BY EntryTypes DEF Request
  <2> QED
    BY <1>5, <1>6, <2>1 DEF Transmit
<1>7. ASSUME NEW c \in Calls, Mint(c) \/ Cancel(c) \/ Register(c) \/ LogRequest(c)
             \/ WriteReturns(c) \/ WriteFails(c) \/ SelectCtx(c) \/ SelectClosed(c)
             \/ SelectInbox(c) \/ Leave(c)
      PROVE  EchoInv'
  BY <1>4, <1>7 DEF Mint, Cancel, Register, LogRequest, WriteReturns, WriteFails, SelectCtx,
                    SelectClosed, SelectInbox, Leave
<1>8. ASSUME NEW m \in Notes, TransmitNote(m) PROVE EchoInv'
  <2>1. Note(m) \in Entries /\ Note(m).kind # "refusal"
    BY EntryTypes DEF Note
  <2> QED
    BY <1>5, <1>8, <2>1 DEF TransmitNote
<1>9. ASSUME NEW m \in Notes, LogNote(m) \/ NoteFails(m) PROVE EchoInv'
  BY <1>4, <1>9 DEF LogNote, NoteFails
<1>10. ASSUME ReadFails \/ Lookup \/ Deliver \/ PassOver \/ RefusalFails PROVE EchoInv'
  <2>1. UNCHANGED <<inbound, cur, emitted, sent>>
    BY <1>10 DEF ReadFails, Lookup, Deliver, PassOver, RefusalFails
  <2>2. run' \in {"returned", "reading", "delivering"}
    BY <1>10 DEF ReadFails, Lookup, Deliver, PassOver, RefusalFails
  <2>3. ~InHand' /\ run' # "refusing"
    BY <2>2 DEF InHand
  <2> QED
    BY <1>1, <2>1, <2>3
<1>11. CASE LogRefusal
  <2>1. UNCHANGED <<inbound, cur, emitted, sent>> /\ run = "dispatching" /\ IsRequest(cur)
    BY <1>11 DEF LogRefusal
  <2>2. InHand
    BY <2>1 DEF InHand
  <2> QED
    BY <1>1, <2>1, <2>2
<1>12. CASE CloseClient \/ CloseTransport \/ CancelRun \/ UNCHANGED vars
  BY <1>4, <1>12 DEF CloseClient, CloseTransport, CancelRun, vars
<1> QED
  BY <1>6, <1>7, <1>8, <1>9, <1>10, <1>11, <1>12, ReadFrameEcho, RefusalEcho, ServerEcho
     DEF Next, CallStep, NoteStep, ReaderStep

\* Two different elements of a finite set make more than one.
LEMMA TwoAreMore ==
  ASSUME NEW S, IsFiniteSet(S), NEW a \in S, NEW b \in S, a # b
  PROVE  Cardinality(S) > 1
<1>1. IsFiniteSet({a}) /\ Cardinality({a}) = 1
  BY FS_Singleton
<1>2. Cardinality({a}) <= Cardinality(S) /\ Cardinality(S) \in Nat
  BY FS_Subset, FS_CardinalityType
<1>3. Cardinality({a}) # Cardinality(S)
  <2>1. {a} \subseteq S /\ {a} # S
    OBVIOUS
  <2> QED
    BY <2>1, FS_Subset
<1> QED
  BY <1>1, <1>2, <1>3

LEMMA EchoEnough == EchoInv => RefusalsEcho
<1> SUFFICES ASSUME EchoInv PROVE RefusalsEcho
  OBVIOUS
<1>1. PICK g : Explains(g)
  BY DEF EchoInv
<1>2. \A i \in Refusals : /\ g[i] \in emitted /\ g[i].named /\ g[i].id # NoId
                          /\ g[i].id = sent[i].id
  BY <1>1 DEF Explains, Echoes, IsRequest
<1>3. ASSUME NEW i \in Refusals, NEW j \in Refusals, sent[i].id = sent[j].id, i # j
      PROVE  Cardinality({f \in emitted : f.id = sent[i].id}) > 1
  <2> DEFINE S == {f \in emitted : f.id = sent[i].id}
  <2>1. g[i] \in S /\ g[j] \in S
    BY <1>2, <1>3
  <2>2. g[i] # g[j]
    BY <1>1, <1>3 DEF Explains
  <2>3. IsFiniteSet(S)
    <3>1. S \subseteq emitted /\ IsFiniteSet(emitted)
      BY DEF EchoInv
    <3> HIDE DEF S
    <3> QED
      BY <3>1, FS_Subset
  <2> HIDE DEF S
  <2>4. Cardinality(S) > 1
    BY <2>1, <2>2, <2>3, TwoAreMore
  <2> QED
    BY <2>4 DEF S
<1> QED
  BY <1>2, <1>3 DEF RefusalsEcho

\* Every refusal on the wire answers a request the server did send, with its id
\* unchanged, and no request is refused twice, whatever the server sends besides
\* and wherever the session ends (dispatch, NewErrorResponse).
THEOREM RefusalsAreForRequests == Spec => []RefusalsEcho
<1> QED
  BY TypeCorrect, InitEcho, NextEcho, EchoEnough, PTL DEF Spec
=============================================================================
