---------------------------- MODULE RegistryProofs ----------------------------
(***************************************************************************)
(* What holds of Registry for every list of servers, labels and catalogs,  *)
(* every number of tool calls and every limit, and of Startup, whose steps *)
(* are steps of Registry, for every set of disabled servers besides.       *)
(*                                                                         *)
(* NoOrphans rests on where an open session is accounted for: with the     *)
(* server being connected, in the registry, or in the list Close works     *)
(* off.  AnsweredByOwner and UsableIsComplete rest on every entry leading  *)
(* to a tool its server listed under exactly that name, and on a server    *)
(* that is usable having taken every one of its names itself.              *)
(* StartIsChosen rests on the choice being made once and on every place    *)
(* where a server can turn up afterwards: the one being connected, the     *)
(* registry, what Close works off, and the sessions themselves.            *)
(***************************************************************************)
EXTENDS Startup, SequenceTheorems, FiniteSetTheorems, TLAPS

Names == Seq(Bytes)
Fits(name) == name \in Names /\ Len(name) \in 1..MaxNameLength

-----------------------------------------------------------------------------
(* Names *)

LEMMA ShortNames ==
  ASSUME NEW c \in Bytes
  PROVE  <<c>> \in Names /\ Len(<<c>>) = 1 /\ <<c, c>> \in Names /\ Len(<<c, c>>) = 2
BY DEF Names

LEMMA ConcatNames ==
  ASSUME NEW p \in Names, NEW q \in Names
  PROVE  p \o q \in Names /\ Len(p \o q) = Len(p) + Len(q)
BY DEF Names

LEMMA UnderscoreNames ==
  /\ <<"_">> \in Names /\ Len(<<"_">>) = 1
  /\ Separator \in Names /\ Len(Separator) = 2
<1>1. "_" \in Bytes
  BY NamesAssumption
<1> QED
  BY Zenon, <1>1, ShortNames DEF Separator

\* Sanitizing leaves a name that is not empty.
LEMMA SanitizeType ==
  ASSUME NEW name \in Names
  PROVE  Sanitize(name) \in Names /\ Len(Sanitize(name)) >= 1
<1> DEFINE N == Cardinality(Begins(name))
           out(c) == [n \in 1..N |->
                        IF Character(name, n) \in Plain THEN Character(name, n) ELSE c]
<1>1. "_" \in Bytes
  BY NamesAssumption
<1>2. \A c \in Bytes : out(c) \in Names
  <2>1. N \in Nat
    <3>1. IsFiniteSet(1..Len(name)) /\ Begins(name) \subseteq 1..Len(name)
      BY FS_Interval DEF Begins, Names
    <3> QED
      BY <3>1, FS_Subset, FS_CardinalityType
  <2> HIDE DEF N
  <2>2. ASSUME NEW c \in Bytes PROVE out(c) \in [1..N -> Bytes]
    <3>1. Plain \subseteq Bytes
      BY NamesAssumption DEF Plain
    <3> QED
      BY <2>2, <3>1
  <2> QED
    BY <2>1, <2>2 DEF Names
<1>3. Unnamed \in Names /\ Len(Unnamed) = 1
  <2>1. (CHOOSE l \in Letters : TRUE) \in Bytes
    BY NamesAssumption
  <2> QED
    BY <2>1, ShortNames DEF Unnamed
<1> HIDE DEF out
<1> DEFINE o == out("_")
           u == <<"_">>
<1>4. o \in Names /\ u \in Names /\ Len(u) = 1
  BY Zenon, <1>1, <1>2, UnderscoreNames
<1>5. Sanitize(name) = IF o = <<>> THEN Unnamed ELSE IF o[1] \in Digits THEN u \o o ELSE o
  BY Zenon DEF Sanitize, out
<1> HIDE DEF o, u
<1>6. Len(o) \in Nat /\ (o # <<>> => Len(o) >= 1)
  BY <1>4 DEF Names
<1>7. u \o o \in Names /\ Len(u \o o) = 1 + Len(o)
  BY <1>4, ConcatNames
<1> QED
  BY <1>3, <1>4, <1>5, <1>6, <1>7

\* Every qualified name is a name that fits, whichever way it was cut short.
LEMMA QualifyFits ==
  ASSUME NEW prefix \in Names, NEW tool \in Names
  PROVE  Fits(Qualify(prefix, tool))
<1> DEFINE name == prefix \o Separator \o tool
<1>1. Separator \in Names /\ Len(Separator) = 2
  BY UnderscoreNames
<1>2. \A p \in Names : /\ p \o Separator \o tool \in Names
                       /\ Len(p \o Separator \o tool) = Len(p) + 2 + Len(tool)
  <2> TAKE p \in Names
  <2>1. p \o Separator \o tool \in Names /\ Len(p \o Separator) = Len(p) + 2
    BY <1>1, ConcatNames
  <2> QED
    BY <1>1, <2>1, ConcatNames
<1>3. Len(prefix) \in Nat /\ Len(tool) \in Nat /\ MaxNameLength \in Nat /\ MaxNameLength >= 3
  <2>1. Len(prefix) \in Nat /\ Len(tool) \in Nat
    BY DEF Names
  <2> QED
    BY <2>1, NamesAssumption
<1>4. CASE Len(name) <= MaxNameLength
  BY <1>2, <1>3, <1>4 DEF Qualify, Fits
<1>5. CASE Len(name) > MaxNameLength /\ Room(tool) < 1
  <2>1. Sanitize(tool) \in Names /\ Len(Sanitize(tool)) >= 1
    BY SanitizeType
  <2>2. CASE Len(Sanitize(tool)) <= MaxNameLength
    BY <1>2, <1>3, <1>5, <2>1, <2>2 DEF Qualify, Truncate, Fits
  <2>3. CASE Len(Sanitize(tool)) > MaxNameLength
    <3>1. \A i \in 1..MaxNameLength : Sanitize(tool)[i] \in Bytes
      BY <1>3, <2>1, <2>3, ElementOfSeq DEF Names
    <3>2. /\ SubSeq(Sanitize(tool), 1, MaxNameLength) \in Names
          /\ Len(SubSeq(Sanitize(tool), 1, MaxNameLength)) = MaxNameLength
      BY <1>3, <3>1, SubSeqProperties DEF Names
    <3> QED
      BY <1>2, <1>3, <1>5, <2>1, <2>3, <3>2 DEF Qualify, Truncate, Fits
  <2> QED
    BY <1>3, <2>1, <2>2, <2>3, LenProperties DEF Names
<1>6. CASE Len(name) > MaxNameLength /\ Room(tool) >= 1
  <2>1. Room(tool) = MaxNameLength - 2 - Len(tool) /\ Room(tool) \in 1..Len(prefix)
    BY <1>1, <1>2, <1>3, <1>6 DEF Room
  <2>2. \A i \in 1..Room(tool) : prefix[i] \in Bytes
    BY <1>3, <2>1, ElementOfSeq DEF Names
  <2>3. SubSeq(prefix, 1, Room(tool)) \in Names /\ Len(SubSeq(prefix, 1, Room(tool))) = Room(tool)
    BY <2>1, <2>2, <1>3, SubSeqProperties DEF Names
  <2> QED
    BY <1>2, <1>3, <1>6, <2>1, <2>3 DEF Qualify, Fits
<1> QED
  BY <1>1, <1>2, <1>3, <1>4, <1>5, <1>6 DEF Room

-----------------------------------------------------------------------------
(* Types *)

Connecting == stage \in {"choose", "launch", "initialize", "list", "add", "abort"}
Attached == stage \in {"initialize", "list", "add", "abort"}
Calls == [state : {"idle", "unknown", "found", "answered", "failed"}, name : Names,
          server : Servers \cup {Nothing}, local : Names]

\* TypeOK with what keeps it: a server being connected is one of Order, and a
\* page is asked for only below the limit.
Startup == /\ stage \in {"choose", "launch", "initialize", "list", "add", "abort",
                         "connected", "serving", "closing", "closed"}
           /\ enabled \subseteq Servers
           /\ stage = "choose" => at = 1
           /\ at \in 1..(Len(Order) + 1)
           /\ Connecting <=> at <= Len(Order)
           /\ page \in 0..MaxPages
           /\ stage = "list" => page < MaxPages
           /\ cursor \in Cursors \cup {NoCursor}

Lists == /\ listed \in [Servers -> Seq(Tools)]
         /\ \A s \in Servers : listed[s] \in Seq(Catalog[s]) /\ Len(listed[s]) <= MaxListed

Tables == /\ session \in [Servers -> {"none", "open", "closed"}]
          /\ result \in [Servers -> {"none", "ok", "failed"}]
          /\ \A q \in DOMAIN entries : entries[q] \in [server : Servers, local : Tools]
          /\ servers \in Seq(Servers)
          /\ closing \in Seq(Servers)
          /\ call \in [Callers -> Calls]

Typed == Startup /\ Lists /\ Tables

LEMMA OrderFacts ==
  /\ Len(Order) \in Nat
  /\ \A i \in 1..Len(Order) : Order[i] \in Servers
  /\ \A i, j \in 1..Len(Order) : Order[i] = Order[j] => i = j
  /\ \A s \in Servers : \E i \in 1..Len(Order) : s = Order[i]
<1>1. Order \in Seq(Servers) /\ \A i, j \in 1..Len(Order) : Order[i] = Order[j] => i = j
  BY RegistryAssumption
<1> QED
  BY <1>1 DEF Servers

LEMMA CurrentServer == Startup /\ Connecting => at \in 1..Len(Order) /\ Current \in Servers
BY OrderFacts DEF Startup, Current

LEMMA ToolNamesAre == Tools \subseteq Names /\ \A s \in Servers : Catalog[s] \subseteq Tools
BY RegistryAssumption DEF Tools, Names

LEMMA TypedImpliesTypeOK == Typed => TypeOK
<1> SUFFICES ASSUME Typed PROVE TypeOK
  OBVIOUS
<1>1. ASSUME NEW s \in Servers
      PROVE  listed[s] \in UNION {[1..n -> Catalog[s]] : n \in 0..MaxListed}
  <2>1. /\ listed[s] \in [1..Len(listed[s]) -> Catalog[s]]
        /\ Len(listed[s]) \in Nat /\ Len(listed[s]) <= MaxListed /\ MaxListed \in Nat
    BY <1>1, LenProperties, RegistryAssumption DEF Typed, Lists
  <2> QED
    BY <2>1
<1>2. \A k \in Callers : call[k].state \in {"idle", "unknown", "found", "answered", "failed"}
  BY DEF Typed, Tables, Calls
<1> QED
  BY <1>1, <1>2 DEF Typed, Startup, Tables, TypeOK

\* What a server lists under, and what a call may ask for, is a name.
LEMMA NameFits ==
  ASSUME Lists, NEW s \in Servers, NEW i \in 1..Len(listed[s])
  PROVE  Fits(Name(s, i))
<1>1. listed[s][i] \in Names /\ Label[s] \in Names
  <2>1. listed[s] \in Seq(Tools)
    BY DEF Lists
  <2>2. Label[s] \in Seq(Bytes)
    BY RegistryAssumption
  <2> QED
    BY <2>1, <2>2, ElementOfSeq, ToolNamesAre DEF Names
<1> QED
  BY <1>1, SanitizeType, QualifyFits DEF Name

LEMMA Asked == ASSUME Lists, NEW q \in Askable PROVE q \in Names
<1>1. CASE q = Invented
  BY Zenon, <1>1, UnderscoreNames DEF Invented
<1>2. CASE q # Invented
  <2>1. q \in UNION {{Name(s, i) : i \in 1..Len(listed[s])} : s \in Servers}
    BY Zenon, <1>2 DEF Askable
  <2>2. PICK s \in Servers : \E i \in 1..Len(listed[s]) : q = Name(s, i)
    BY Zenon, <2>1
  <2> QED
    BY <2>2, NameFits DEF Fits
<1> QED
  BY <1>1, <1>2

LEMMA NewCallType == NewCall \in Calls
BY DEF NewCall, Calls, Names

LEMMA InitTyped == Init => Typed
<1> SUFFICES ASSUME Init PROVE Typed
  OBVIOUS
<1>1. Startup
  <2>1. Order # <<>> => Len(Order) >= 1
    BY RegistryAssumption, EmptySeq
  <2> QED
    BY <2>1, OrderFacts, RegistryAssumption DEF Init, Startup, Connecting
<1>2. Lists
  BY RegistryAssumption DEF Init, Lists
<1>3. Tables
  BY NewCallType DEF Init, Tables
<1> QED
  BY <1>1, <1>2, <1>3 DEF Typed

\* Choosing servers and stepping over those not chosen touch nothing else.
Choosing == StepOver \/ \E chosen \in SUBSET Servers : Choose(chosen)

LEMMA ChoosingLeaves ==
  ASSUME Choosing
  PROVE  /\ UNCHANGED <<page, cursor, listed, session, result, entries, servers, closing, call>>
         /\ stage \in {"choose", "launch"} /\ stage' \in {"launch", "connected"}
         /\ \/ stage' = "launch" /\ at' = at
            \/ at' = at + 1 /\ stage' = IF at < Len(Order) THEN "launch" ELSE "connected"
BY DEF Choosing, Choose, StepOver, Advance

LEMMA StartupStep == Startup /\ [Next]_vars => Startup'
<1> SUFFICES ASSUME Startup, [Next]_vars PROVE Startup'
  OBVIOUS
<1> USE DEF Startup, Connecting
<1>1. MaxPages \in Nat \ {0} /\ Len(Order) \in Nat
  BY RegistryAssumption, OrderFacts
<1>2. ASSUME NEW v, Connecting, stage # "choose", Report(v), UNCHANGED <<enabled, page, cursor>>
      PROVE Startup'
  BY <1>1, <1>2 DEF Report, Advance
<1>3. CASE LaunchFails
  BY <1>2, <1>3 DEF LaunchFails
<1>4. CASE Launch
  BY <1>4 DEF Launch
<1>5. CASE Initialize
  BY <1>1, <1>5 DEF Initialize
<1>6. CASE RequestFails
  BY <1>6 DEF RequestFails
<1>7. CASE ListPage
  <2>1. PICK next \in Cursors \cup {NoCursor} :
          /\ cursor' = next
          /\ page' = page + 1
          /\ stage' = IF next = NoCursor THEN "add"
                      ELSE IF next = cursor \/ page + 1 = MaxPages THEN "abort"
                      ELSE "list"
    BY <1>7 DEF ListPage
  <2> QED
    BY <1>1, <1>7, <2>1 DEF ListPage
<1>8. CASE Add
  BY <1>2, <1>8 DEF Add
<1>9. CASE Abort
  BY <1>2, <1>9 DEF Abort
<1>10. CASE Serve \/ Close
  BY <1>10 DEF Serve, Close
<1>11. ASSUME NEW k \in Callers, LookUp(k) \/ Forward(k) PROVE Startup'
  BY <1>11 DEF LookUp, Forward
<1>12. CASE CloseNext
  BY <1>12 DEF CloseNext
<1>14. CASE Choosing
  BY <1>1, <1>14, ChoosingLeaves DEF Choosing, Choose, StepOver, Advance
<1>13. CASE UNCHANGED vars
  BY <1>13 DEF vars
<1> QED
  BY <1>3, <1>4, <1>5, <1>6, <1>7, <1>8, <1>9, <1>10, <1>11, <1>12, <1>13, <1>14 DEF Next, Connect, Choosing

LEMMA ConcatFacts ==
  ASSUME NEW S, NEW s \in Seq(S), NEW t \in Seq(S)
  PROVE  /\ s \o t \in Seq(S)
         /\ Len(s \o t) = Len(s) + Len(t)
         /\ \A i \in 1..Len(s) : (s \o t)[i] = s[i]
OBVIOUS

\* A page goes at the end of the list of the server being connected.
LEMMA PageAppended ==
  ASSUME Startup, Lists, NEW tools \in Pages(Current), stage = "list",
         listed' = [listed EXCEPT ![Current] = @ \o tools]
  PROVE  /\ Lists'
         /\ \A i \in 1..Len(listed[Current]) : listed'[Current][i] = listed[Current][i]
         /\ Len(listed[Current]) \in Nat /\ Len(listed'[Current]) \in Nat
         /\ Len(listed[Current]) <= Len(listed'[Current])
<1> DEFINE old == listed[Current]
<1>1. Current \in Servers
  BY CurrentServer DEF Connecting
<1>2. old \in Seq(Catalog[Current]) /\ Len(old) \in Nat /\ Len(old) <= MaxListed
      /\ MaxListed \in Nat
  BY <1>1, RegistryAssumption, LenProperties DEF Lists
<1>3. PICK n \in 0..(MaxListed - Len(old)) : tools \in [1..n -> Catalog[Current]]
  BY DEF Pages
<1>4. n \in Nat /\ tools \in Seq(Catalog[Current]) /\ Len(tools) = n
  BY <1>2, <1>3
<1>5. /\ old \o tools \in Seq(Catalog[Current])
      /\ Len(old \o tools) = Len(old) + Len(tools)
      /\ \A i \in 1..Len(old) : (old \o tools)[i] = old[i]
  BY Zenon, <1>2, <1>4, ConcatFacts
<1>6. old \o tools \in Seq(Tools)
  BY <1>1, <1>5, ToolNamesAre, SeqMonotonic
<1>7. listed'[Current] = old \o tools
  BY <1>1 DEF Lists
<1>8. \A s \in Servers : s # Current => listed'[s] = listed[s]
  BY DEF Lists
<1>9. listed' \in [Servers -> Seq(Tools)]
  BY <1>6 DEF Lists
<1>10. ASSUME NEW s \in Servers PROVE listed'[s] \in Seq(Catalog[s]) /\ Len(listed'[s]) <= MaxListed
  BY <1>2, <1>4, <1>5, <1>7, <1>8 DEF Lists
<1> HIDE DEF old
<1> QED
  BY <1>2, <1>4, <1>5, <1>7, <1>9, <1>10 DEF Lists, old

LEMMA TablesStep == Startup /\ Lists /\ Tables /\ [Next]_vars => Tables'
<1> SUFFICES ASSUME Startup, Lists, Tables, [Next]_vars PROVE Tables'
  OBVIOUS
<1>1. Connecting => Current \in Servers
  BY CurrentServer
<1>2. ASSUME NEW v \in {"ok", "failed"}, Connecting, Report(v)
      PROVE  result' \in [Servers -> {"none", "ok", "failed"}]
  BY <1>1, <1>2 DEF Report, Advance, Tables
<1>3. CASE LaunchFails
  BY <1>2, <1>3 DEF LaunchFails, Tables, Connecting
<1>4. CASE Launch
  BY <1>1, <1>4 DEF Launch, Tables, Connecting
<1>5. CASE Initialize \/ RequestFails \/ ListPage \/ Serve
  BY <1>5 DEF Initialize, RequestFails, ListPage, Serve, Tables
<1>6. CASE Add
  <2>1. Connecting
    BY <1>6 DEF Add, Connecting
  <2>2. listed[Current] \in Seq(Tools) /\ Current \in Servers
    BY <1>1, <2>1 DEF Lists
  <2>3. ASSUME NEW q \in DOMAIN entries'
        PROVE  entries'[q] \in [server : Servers, local : Tools]
    <3>1. CASE q \in DOMAIN entries
      BY <1>6, <3>1 DEF Add, Tables
    <3>2. CASE q \notin DOMAIN entries
      <4> DEFINE i == CHOOSE j \in Kept(Current) : Name(Current, j) = q
      <4>1. i \in Kept(Current)
        BY <1>6, <2>3, <3>2 DEF Add
      <4>2. i \in 1..Len(listed[Current])
        BY <4>1 DEF Kept
      <4>3. entries'[q] = [server |-> Current, local |-> listed[Current][i]]
        BY <1>6, <2>3, <3>2 DEF Add
      <4> HIDE DEF i
      <4>4. listed[Current][i] \in Tools
        BY <2>2, <4>2, ElementOfSeq
      <4> QED
        BY <2>2, <4>3, <4>4
    <3> QED
      BY <3>1, <3>2
  <2>4. servers' \in Seq(Servers)
    BY <1>6, <2>2 DEF Add, Tables
  <2>5. result' \in [Servers -> {"none", "ok", "failed"}]
    BY <1>2, <1>6, <2>1 DEF Add, Tables
  <2> QED
    BY <1>6, <2>3, <2>4, <2>5 DEF Add, Tables
<1>7. CASE Abort
  BY <1>1, <1>2, <1>7 DEF Abort, Tables, Connecting
<1>8. ASSUME NEW k \in Callers, LookUp(k) PROVE Tables'
  <2>1. PICK q \in Askable : call' = [call EXCEPT ![k] =
                    IF q \in DOMAIN entries
                    THEN [state |-> "found", name |-> q, server |-> entries[q].server,
                          local |-> entries[q].local]
                    ELSE [NewCall EXCEPT !.state = "unknown", !.name = q]]
    BY <1>8 DEF LookUp
  <2>2. q \in Names
    BY Asked
  <2>3. CASE q \in DOMAIN entries
    <3>1. entries[q].server \in Servers /\ entries[q].local \in Names
      BY <2>3, ToolNamesAre DEF Tables
    <3>2. [state |-> "found", name |-> q, server |-> entries[q].server,
           local |-> entries[q].local] \in Calls
      BY <2>2, <3>1 DEF Calls
    <3> QED
      BY <1>8, <2>1, <2>3, <3>2 DEF LookUp, Tables
  <2>4. CASE q \notin DOMAIN entries
    <3>1. NewCall \in Calls
      BY NewCallType
    <3>2. [NewCall EXCEPT !.state = "unknown", !.name = q] \in Calls
      BY <2>2, <3>1 DEF Calls
    <3> QED
      BY <1>8, <2>1, <2>4, <3>2 DEF LookUp, Tables
  <2> QED
    BY <2>3, <2>4
<1>9. ASSUME NEW k \in Callers, Forward(k) PROVE Tables'
  <2>1. PICK end \in {"answered", "failed"} : call' = [call EXCEPT ![k].state = end]
    BY <1>9 DEF Forward
  <2>2. call' \in [Callers -> Calls]
    BY <2>1 DEF Tables, Calls
  <2> QED
    BY <1>9, <2>2 DEF Forward, Tables
<1>10. CASE Close
  BY <1>10 DEF Close, Tables
<1>11. CASE CloseNext
  <2>1. CASE closing = <<>>
    BY <1>11, <2>1 DEF CloseNext, Tables
  <2>2. CASE closing # <<>>
    <3>1. Head(closing) \in Servers /\ Tail(closing) \in Seq(Servers)
      BY <2>2, HeadTailProperties DEF Tables
    <3> QED
      BY <1>11, <2>2, <3>1 DEF CloseNext, Tables
  <2> QED
    BY <2>1, <2>2
<1>13. CASE Choosing
  BY <1>13, ChoosingLeaves DEF Tables
<1>12. CASE UNCHANGED vars
  BY <1>12 DEF vars, Tables
<1> QED
  BY <1>3, <1>4, <1>5, <1>6, <1>7, <1>8, <1>9, <1>10, <1>11, <1>12, <1>13 DEF Next, Connect, Choosing

LEMMA ListsStep == Startup /\ Lists /\ [Next]_vars => Lists'
<1> SUFFICES ASSUME Startup, Lists, [Next]_vars PROVE Lists'
  OBVIOUS
<1>1. CASE ListPage
  <2>1. PICK tools \in Pages(Current) : listed' = [listed EXCEPT ![Current] = @ \o tools]
    BY <1>1 DEF ListPage
  <2> QED
    BY <1>1, <2>1, PageAppended DEF ListPage
<1>2. CASE UNCHANGED listed
  BY <1>2 DEF Lists
<1>3. ListPage \/ UNCHANGED listed
  BY DEF Next, Connect, Choose, StepOver, LaunchFails, Launch, Initialize, RequestFails, Add, Abort, Serve,
         LookUp, Forward, Close, CloseNext, vars
<1> QED
  BY <1>1, <1>2, <1>3

LEMMA TypedStep == Typed /\ [Next]_vars => Typed'
BY StartupStep, ListsStep, TablesStep DEF Typed

\* The variables of startup, routing and shutdown keep their types.
THEOREM TypeCorrect == Spec => []TypeOK
<1>1. Typed => TypeOK
  BY TypedImpliesTypeOK
<1> QED
  BY InitTyped, TypedStep, <1>1, PTL DEF Spec

-----------------------------------------------------------------------------
(* Names that fit *)

\* Every registered name fits what providers accept.
LEMMA NamesFitStep == Typed /\ NamesFit /\ [Next]_vars => NamesFit'
<1> SUFFICES ASSUME Typed, NamesFit, [Next]_vars PROVE NamesFit'
  OBVIOUS
<1>1. CASE Add
  <2>1. Current \in Servers
    BY <1>1, CurrentServer DEF Add, Connecting, Typed
  <2>2. \A i \in Kept(Current) : Len(Name(Current, i)) \in 1..MaxNameLength
    BY <2>1, NameFits DEF Typed, Kept, Fits
  <2> QED
    BY <1>1, <2>2 DEF Add, NamesFit
<1>2. CASE Close
  BY <1>2 DEF Close, NamesFit
<1>3. CASE UNCHANGED entries
  BY <1>3 DEF NamesFit
<1>4. Add \/ Close \/ UNCHANGED entries
  BY DEF Next, Connect, Choose, StepOver, LaunchFails, Launch, Initialize, RequestFails, ListPage, Abort,
         Serve, LookUp, Forward, CloseNext, vars
<1> QED
  BY <1>1, <1>2, <1>3, <1>4

\* Every name the model is offered has 1 to MaxNameLength bytes, whatever
\* the labels and the tools are called (Qualify, sanitize, truncate).
THEOREM NamesAlwaysFit == Spec => []NamesFit
<1>1. Init => NamesFit
  BY DEF Init, NamesFit
<1> QED
  BY <1>1, InitTyped, TypedStep, NamesFitStep, PTL DEF Spec

-----------------------------------------------------------------------------
(* No session is left open *)

Among(s, seq) == \E i \in 1..Len(seq) : seq[i] = s

\* Whoever will close an open session.
Held == \A s \in Servers : session[s] = "open" =>
  Among(s, servers) \/ Among(s, closing) \/ (Attached /\ s = Current)

Handover == /\ stage \in {"closing", "closed"} => servers = <<>>
            /\ stage \notin {"closing", "closed"} => closing = <<>>
            /\ stage = "closed" => closing = <<>>

LEMMA HandoverStep == Handover /\ [Next]_vars => Handover'
<1> SUFFICES ASSUME Handover, [Next]_vars PROVE Handover'
  OBVIOUS
<1> USE DEF Handover
<1>1. CASE LaunchFails \/ Launch \/ Initialize \/ RequestFails
  BY <1>1 DEF LaunchFails, Launch, Initialize, RequestFails, Report, Advance
<1>2. CASE ListPage
  <2>1. stage' \in {"add", "abort", "list"}
    BY <1>2 DEF ListPage
  <2> QED
    BY <1>2, <2>1 DEF ListPage
<1>3. CASE Add
  <2>1. stage' \in {"launch", "connected", "abort"}
    BY <1>3 DEF Add, Report, Advance
  <2> QED
    BY <1>3, <2>1 DEF Add
<1>4. CASE Abort \/ Serve
  BY <1>4 DEF Abort, Serve, Report, Advance
<1>5. ASSUME NEW k \in Callers, LookUp(k) \/ Forward(k) PROVE Handover'
  BY <1>5 DEF LookUp, Forward
<1>6. CASE Close
  BY <1>6 DEF Close
<1>7. CASE CloseNext
  BY <1>7 DEF CloseNext
<1>9. CASE Choosing
  BY <1>9, ChoosingLeaves
<1>8. CASE UNCHANGED vars
  BY <1>8 DEF vars
<1> QED
  BY <1>1, <1>2, <1>3, <1>4, <1>5, <1>6, <1>7, <1>8, <1>9 DEF Next, Connect, Choosing

LEMMA AppendAmong ==
  ASSUME NEW S, NEW seq \in Seq(S), NEW x \in S
  PROVE  Among(x, Append(seq, x)) /\ \A s : Among(s, seq) => Among(s, Append(seq, x))
BY DEF Among

LEMMA TailAmong ==
  ASSUME NEW S, NEW seq \in Seq(S), seq # <<>>, NEW s, Among(s, seq), s # Head(seq)
  PROVE  Among(s, Tail(seq))
<1>1. PICK i \in 1..Len(seq) : seq[i] = s
  BY DEF Among
<1>2. i # 1
  BY <1>1
<1>3. i - 1 \in 1..Len(Tail(seq)) /\ Tail(seq)[i - 1] = s
  BY <1>1, <1>2, HeadTailProperties
<1> QED
  BY <1>3 DEF Among

LEMMA HeldStep == Typed /\ Handover /\ Held /\ [Next]_vars => Held'
<1> SUFFICES ASSUME Typed, Handover, Held, [Next]_vars,
                    NEW s \in Servers, session'[s] = "open"
             PROVE  Among(s, servers') \/ Among(s, closing') \/ (Attached' /\ s = Current')
  BY DEF Held, Among
<1>1. Connecting => Current \in Servers
  BY CurrentServer DEF Typed
<1>2. session \in [Servers -> {"none", "open", "closed"}] /\ servers \in Seq(Servers)
      /\ closing \in Seq(Servers)
  BY DEF Typed, Tables
<1>3. CASE LaunchFails
  BY <1>3 DEF LaunchFails, Held, Attached
<1>4. CASE Launch
  BY <1>1, <1>2, <1>4 DEF Launch, Held, Attached, Connecting, Current
<1>5. CASE Initialize \/ RequestFails
  BY <1>5 DEF Initialize, RequestFails, Held, Attached, Current
<1>6. CASE ListPage
  <2>1. stage' \in {"add", "abort", "list"}
    BY <1>6 DEF ListPage
  <2> QED
    BY <1>6, <2>1 DEF ListPage, Held, Attached, Current
<1>7. CASE Add
  <2>1. servers' = Append(servers, Current) /\ Current \in Servers /\ session' = session
        /\ closing' = closing /\ Attached
    BY <1>1, <1>7 DEF Add, Connecting, Attached
  <2>2. Among(s, servers) \/ Among(s, closing) \/ s = Current
    BY <2>1 DEF Held
  <2> QED
    BY <1>2, <2>1, <2>2, AppendAmong
<1>8. CASE Abort
  BY <1>1, <1>2, <1>8 DEF Abort, Held, Attached, Connecting
<1>9. CASE Serve
  BY <1>9 DEF Serve, Held, Attached
<1>10. ASSUME NEW k \in Callers, LookUp(k) \/ Forward(k)
       PROVE  Among(s, servers') \/ Among(s, closing') \/ (Attached' /\ s = Current')
  BY <1>10 DEF LookUp, Forward, Held, Attached, Current
<1>11. CASE Close
  BY <1>11 DEF Close, Held, Attached, Handover
<1>12. CASE CloseNext
  <2>1. CASE closing = <<>>
    BY <1>12, <2>1 DEF CloseNext, Held, Attached
  <2>2. CASE closing # <<>>
    <3>1. session' = [session EXCEPT ![Head(closing)] = "closed"] /\ closing' = Tail(closing)
          /\ servers' = servers /\ ~Attached
      BY <1>12, <2>2 DEF CloseNext, Attached
    <3>2. Head(closing) \in Servers
      BY <1>2, <2>2, HeadTailProperties
    <3>3. s # Head(closing) /\ session[s] = "open"
      BY <1>2, <3>1, <3>2
    <3>4. Among(s, servers) \/ Among(s, closing)
      BY <3>1, <3>3 DEF Held
    <3> QED
      BY <1>2, <2>2, <3>1, <3>3, <3>4, TailAmong
  <2> QED
    BY <2>1, <2>2
<1>14. CASE Choosing
  BY <1>14, ChoosingLeaves DEF Held, Attached
<1>13. CASE UNCHANGED vars
  BY <1>13 DEF vars, Held, Attached, Current
<1> QED
  BY <1>3, <1>4, <1>5, <1>6, <1>7, <1>8, <1>9, <1>10, <1>11, <1>12, <1>13, <1>14 DEF Next, Connect, Choosing

\* Whichever steps of bringing the servers up failed, no session is left open
\* once the registry has been closed.
THEOREM NobodyOrphaned == Spec => []NoOrphans
<1>1. Init => Held /\ Handover
  BY OrderFacts DEF Init, Held, Handover
<1>2. Held /\ Handover => NoOrphans
  <2> SUFFICES ASSUME Held, Handover, stage = "closed", NEW s \in Servers
               PROVE  session[s] # "open"
    BY DEF NoOrphans
  <2>1. servers = <<>> /\ closing = <<>> /\ ~Attached
    BY DEF Handover, Attached
  <2>2. ~Among(s, <<>>)
    BY DEF Among
  <2> QED
    BY <2>1, <2>2 DEF Held
<1> QED
  BY <1>1, <1>2, InitTyped, TypedStep, HandoverStep, HeldStep, PTL DEF Spec

-----------------------------------------------------------------------------
(* A usable server is complete *)

\* A server is reported once, after it has been connected.
Unreported == \A i \in 1..Len(Order) : i >= at => result[Order[i]] = "none"

LEMMA UnreportedStep == Typed /\ Unreported /\ [Next]_vars => Unreported'
<1> SUFFICES ASSUME Typed, Unreported, [Next]_vars PROVE Unreported'
  OBVIOUS
<1>1. ASSUME NEW v, Connecting, Report(v) PROVE Unreported'
  <2>1. at \in Nat /\ at' = at + 1 /\ result' = [result EXCEPT ![Current] = v]
    BY <1>1 DEF Report, Advance, Typed, Startup
  <2>2. ASSUME NEW i \in 1..Len(Order), i >= at' PROVE result'[Order[i]] = "none"
    <3>1. i >= at /\ Order[i] # Order[at]
      BY <1>1, <2>1, <2>2, OrderFacts, CurrentServer DEF Typed
    <3> QED
      BY <2>1, <3>1 DEF Unreported, Current
  <2> QED
    BY <2>2 DEF Unreported
<1>2. CASE UNCHANGED <<at, result>>
  BY <1>2 DEF Unreported
<1>3. \/ UNCHANGED <<at, result>> \/ Choosing
      \/ \E v \in {"ok", "failed"} : Connecting /\ Report(v)
  <2>1. CASE LaunchFails \/ Add \/ Abort
    BY <2>1 DEF LaunchFails, Add, Abort, Connecting
  <2>2. CASE ~(LaunchFails \/ Add \/ Abort)
    BY <2>2 DEF Next, Connect, Choosing, Launch, Initialize, RequestFails, ListPage, Serve,
                LookUp, Forward, Close, CloseNext, vars
  <2> QED
    BY <2>1, <2>2
<1>4. CASE Choosing
  BY <1>4, ChoosingLeaves DEF Unreported, Typed, Startup
<1> QED
  BY <1>1, <1>2, <1>3, <1>4

\* The name of the tool at i of those s has listed leads to it.
Leads(s, i) == /\ Name(s, i) \in DOMAIN entries
               /\ entries[Name(s, i)] = [server |-> s, local |-> listed[s][i]]

\* A server all of whose names are kept has every one of them leading to its tool.
LEMMA AllKept ==
  ASSUME Add, Typed, Kept(Current) = 1..Len(listed[Current]),
         NEW i \in 1..Len(listed[Current])
  PROVE  LET q == Name(Current, i)
         IN q \in DOMAIN entries' /\ entries'[q] = [server |-> Current, local |-> listed[Current][i]]
<1> DEFINE q == Name(Current, i)
           c == CHOOSE j \in Kept(Current) : Name(Current, j) = q
<1>1. i \in Kept(Current) /\ Len(listed[Current]) \in Nat
  BY CurrentServer, LenProperties DEF Add, Typed, Lists, Connecting
<1>2. ~Taken(Current, i)
  BY <1>1 DEF Kept
<1>3. q \notin DOMAIN entries
  BY <1>2 DEF Taken
<1>4. q \in DOMAIN entries' /\ entries'[q] = [server |-> Current, local |-> listed[Current][c]]
  BY <1>1, <1>3 DEF Add
<1>5. c \in Kept(Current) /\ Name(Current, c) = q
  BY <1>1
<1> HIDE DEF c
<1>6. c \in 1..Len(listed[Current]) /\ ~Taken(Current, c)
  BY <1>5 DEF Kept
<1>7. c = i
  BY <1>1, <1>2, <1>5, <1>6 DEF Taken
<1> QED
  BY <1>4, <1>7

LEMMA CompleteStep ==
  Typed /\ Unreported /\ UsableIsComplete /\ [Next]_vars => UsableIsComplete'
<1> SUFFICES ASSUME Typed, Unreported, UsableIsComplete, [Next]_vars,
                    stage' \notin {"closing", "closed"},
                    NEW s \in Servers, result'[s] = "ok", NEW i \in 1..Len(listed'[s])
             PROVE  Leads(s, i)'
  BY DEF UsableIsComplete, Leads
<1>1. stage \notin {"closing", "closed"} /\ result[s] = "ok" /\ i \in 1..Len(listed[s])
      => Leads(s, i)
  BY DEF UsableIsComplete, Leads
<1>2. Connecting => result[Current] = "none" /\ Current \in Servers
  BY CurrentServer DEF Typed, Startup, Unreported, Current
<1>3. ASSUME Connecting, Report("failed") PROVE result[s] = "ok"
  BY <1>2, <1>3 DEF Report, Advance, Typed, Tables
<1>4. CASE LaunchFails \/ Abort
  BY <1>1, <1>3, <1>4 DEF LaunchFails, Abort, Connecting, Leads, Name
<1>5. CASE Launch \/ Initialize \/ RequestFails \/ Serve
  BY <1>1, <1>5 DEF Launch, Initialize, RequestFails, Serve, Leads, Name
<1>6. CASE ListPage
  <2>1. result[s] = "ok" /\ s # Current /\ entries' = entries /\ stage = "list"
    BY <1>2, <1>6 DEF ListPage, Connecting
  <2>2. listed'[s] = listed[s]
    BY <1>6, <2>1 DEF ListPage, Typed, Lists
  <2> QED
    BY <1>1, <2>1, <2>2 DEF Leads, Name
<1>7. CASE Add
  <2>1. listed' = listed /\ stage = "add" /\ Connecting
    BY <1>7 DEF Add, Connecting
  <2>2. CASE s = Current
    <3>1. Kept(Current) = 1..Len(listed[Current])
      BY <1>2, <1>7, <2>1, <2>2 DEF Add
    <3> QED
      BY <1>7, <2>1, <2>2, <3>1, AllKept DEF Leads, Name
  <2>3. CASE s # Current
    <3>1. result[s] = "ok"
      BY <1>2, <1>7, <2>1, <2>3 DEF Add, Report, Advance, Typed, Tables
    <3>2. Leads(s, i)
      BY <1>1, <2>1, <3>1
    <3>3. \A q \in DOMAIN entries : q \in DOMAIN entries' /\ entries'[q] = entries[q]
      BY <1>7 DEF Add
    <3> QED
      BY <2>1, <3>2, <3>3 DEF Leads, Name
  <2> QED
    BY <2>2, <2>3
<1>8. ASSUME NEW k \in Callers, LookUp(k) \/ Forward(k) PROVE Leads(s, i)'
  BY <1>1, <1>8 DEF LookUp, Forward, Leads, Name
<1>9. CASE Close \/ CloseNext
  BY <1>9 DEF Close, CloseNext
<1>11. CASE Choosing
  BY <1>1, <1>11, ChoosingLeaves DEF Leads, Name
<1>10. CASE UNCHANGED vars
  BY <1>1, <1>10 DEF vars, Leads, Name
<1> QED
  BY <1>4, <1>5, <1>6, <1>7, <1>8, <1>9, <1>10, <1>11 DEF Next, Connect, Choosing

\* A server reported usable has every tool it listed registered as its own.
THEOREM UsableServersComplete == Spec => []UsableIsComplete
<1>1. Init => Unreported /\ UsableIsComplete
  BY OrderFacts DEF Init, Unreported, UsableIsComplete
<1> QED
  BY <1>1, InitTyped, TypedStep, UnreportedStep, CompleteStep, PTL DEF Spec

-----------------------------------------------------------------------------
(* Calls reach the server that listed the tool *)

\* The entry e of the name q belongs to a server that listed its tool under it.
Owned(e, q) == /\ e.server \in Servers
               /\ e.local \in Listed(e.server)
               /\ q = Qualify(Sanitize(Label[e.server]), e.local)

EntriesOwned == \A q \in DOMAIN entries : Owned(entries[q], q)

\* Calls begin once the servers are up; one that found an entry goes by it.
CallsOwned == \A k \in Callers :
  /\ call[k].state # "idle" => Up
  /\ call[k].state \in {"found", "answered"} => Owned(call[k], call[k].name)
  /\ call[k].state = "answered" => result[call[k].server] = "ok"

\* An open session is that of a usable server or of the one being connected;
\* those still to be connected have none.
Usable == \A s \in Servers : session[s] = "open" =>
  result[s] = "ok" \/ (Attached /\ s = Current)

Untouched == \A i \in 1..Len(Order) :
  i > at \/ (i = at /\ stage \in {"choose", "launch"}) => session[Order[i]] = "none"

LEMMA UntouchedStep == Typed /\ Untouched /\ [Next]_vars => Untouched'
<1> SUFFICES ASSUME Typed, Untouched, [Next]_vars,
                    NEW i \in 1..Len(Order), i > at' \/ (i = at' /\ stage' \in {"choose", "launch"})
             PROVE  session'[Order[i]] = "none"
  BY DEF Untouched
<1>1. /\ at \in Nat /\ i \in Nat /\ at <= Len(Order) + 1
      /\ (Connecting => Current = Order[at] /\ at \in 1..Len(Order))
      /\ \A j \in 1..Len(Order) : Order[i] = Order[j] => i = j
  BY OrderFacts, CurrentServer DEF Typed, Startup, Current
<1>2. session \in [Servers -> {"none", "open", "closed"}] /\ Order[i] \in Servers
  BY OrderFacts DEF Typed, Tables
<1>3. CASE LaunchFails
  BY <1>1, <1>3 DEF LaunchFails, Report, Advance, Untouched
<1>4. CASE Launch
  BY <1>1, <1>2, <1>4 DEF Launch, Untouched, Connecting
<1>5. CASE Initialize \/ RequestFails \/ Serve
  BY <1>1, <1>5 DEF Initialize, RequestFails, Serve, Untouched
<1>6. CASE ListPage
  <2>1. stage' \in {"add", "abort", "list"}
    BY <1>6 DEF ListPage
  <2> QED
    BY <1>1, <1>6, <2>1 DEF ListPage, Untouched
<1>7. CASE Add
  <2>1. i > at /\ session' = session
    BY <1>1, <1>7 DEF Add, Report, Advance
  <2> QED
    BY <2>1 DEF Untouched
<1>8. CASE Abort
  <2>1. i > at /\ session' = [session EXCEPT ![Current] = "closed"] /\ Connecting
    BY <1>1, <1>8 DEF Abort, Report, Advance, Connecting
  <2>2. Order[i] # Current /\ session[Order[i]] = "none"
    BY <1>1, <2>1 DEF Untouched
  <2> QED
    BY <1>2, <2>1, <2>2
<1>9. ASSUME NEW k \in Callers, LookUp(k) \/ Forward(k) PROVE session'[Order[i]] = "none"
  BY <1>9 DEF LookUp, Forward, Untouched
<1>10. CASE Close
  BY <1>1, <1>10 DEF Close, Untouched
<1>11. CASE CloseNext
  <2>1. at = Len(Order) + 1 /\ at' = at /\ stage' # "launch"
    BY <1>1, <1>11 DEF CloseNext, Typed, Startup, Connecting
  <2> QED
    BY <1>1, <2>1
<1>13. CASE Choosing
  BY <1>1, <1>13, ChoosingLeaves DEF Untouched
<1>12. CASE UNCHANGED vars
  BY <1>12 DEF vars, Untouched
<1> QED
  BY <1>3, <1>4, <1>5, <1>6, <1>7, <1>8, <1>9, <1>10, <1>11, <1>12, <1>13 DEF Next, Connect, Choosing

LEMMA UsableStep == Typed /\ Untouched /\ Usable /\ [Next]_vars => Usable'
<1> SUFFICES ASSUME Typed, Untouched, Usable, [Next]_vars,
                    NEW s \in Servers, session'[s] = "open"
             PROVE  result'[s] = "ok" \/ (Attached' /\ s = Current')
  BY DEF Usable
<1>1. Connecting => at \in 1..Len(Order) /\ Current = Order[at] /\ Current \in Servers
  BY CurrentServer DEF Typed, Current
<1>2. /\ session \in [Servers -> {"none", "open", "closed"}]
      /\ result \in [Servers -> {"none", "ok", "failed"}]
      /\ session[s] = "open" => result[s] = "ok" \/ (Attached /\ s = Current)
  BY DEF Typed, Tables, Usable
<1>3. CASE LaunchFails
  <2>1. session[Current] = "none"
    BY <1>1, <1>3 DEF LaunchFails, Untouched, Connecting
  <2> QED
    BY <1>2, <1>3, <2>1 DEF LaunchFails, Report, Advance, Attached
<1>4. CASE Launch
  BY <1>1, <1>2, <1>4 DEF Launch, Attached, Connecting, Current
<1>5. CASE Initialize \/ RequestFails
  BY <1>2, <1>5 DEF Initialize, RequestFails, Attached, Current
<1>6. CASE ListPage
  <2>1. stage' \in {"add", "abort", "list"}
    BY <1>6 DEF ListPage
  <2> QED
    BY <1>2, <1>6, <2>1 DEF ListPage, Attached, Current
<1>7. CASE Add
  <2>1. session[s] = "open" /\ (Report("ok") \/ (stage' = "abort" /\ UNCHANGED <<at, result>>))
    BY <1>7 DEF Add
  <2> QED
    BY <1>2, <2>1 DEF Report, Advance, Attached, Current
<1>8. CASE Abort
  BY <1>1, <1>2, <1>8 DEF Abort, Report, Advance, Connecting
<1>9. CASE Serve
  BY <1>2, <1>9 DEF Serve, Attached
<1>10. ASSUME NEW k \in Callers, LookUp(k) \/ Forward(k)
       PROVE  result'[s] = "ok" \/ (Attached' /\ s = Current')
  BY <1>2, <1>10 DEF LookUp, Forward, Attached, Current
<1>11. CASE Close
  BY <1>2, <1>11 DEF Close, Attached
<1>12. CASE CloseNext
  BY <1>2, <1>12 DEF CloseNext, Attached
<1>14. CASE Choosing
  BY <1>2, <1>14, ChoosingLeaves DEF Attached
<1>13. CASE UNCHANGED vars
  BY <1>2, <1>13 DEF vars, Attached, Current
<1> QED
  BY <1>3, <1>4, <1>5, <1>6, <1>7, <1>8, <1>9, <1>10, <1>11, <1>12, <1>13, <1>14 DEF Next, Connect, Choosing

\* What a server has listed it has listed for good.
LEMMA ListedGrows ==
  Typed /\ [Next]_vars => \A s \in Servers : Listed(s) \subseteq Listed(s)'
<1> SUFFICES ASSUME Typed, [Next]_vars, NEW s \in Servers PROVE Listed(s) \subseteq Listed(s)'
  OBVIOUS
<1>1. CASE ListPage /\ s = Current
  <2>1. PICK tools \in Pages(Current) : listed' = [listed EXCEPT ![Current] = @ \o tools]
    BY <1>1 DEF ListPage
  <2>2. /\ \A i \in 1..Len(listed[s]) : listed'[s][i] = listed[s][i]
        /\ Len(listed[s]) \in Nat /\ Len(listed'[s]) \in Nat
        /\ Len(listed[s]) <= Len(listed'[s])
    BY <1>1, <2>1, PageAppended DEF ListPage, Typed
  <2> QED
    BY <2>2 DEF Listed
<1>2. CASE ListPage /\ s # Current
  <2>1. listed'[s] = listed[s]
    BY <1>2 DEF ListPage, Typed, Lists
  <2> QED
    BY <2>1 DEF Listed
<1>3. CASE UNCHANGED listed
  BY <1>3 DEF Listed
<1>4. ListPage \/ UNCHANGED listed
  BY DEF Next, Connect, Choose, StepOver, LaunchFails, Launch, Initialize, RequestFails, Add, Abort, Serve,
         LookUp, Forward, Close, CloseNext, vars
<1> QED
  BY <1>1, <1>2, <1>3, <1>4

LEMMA OwnedStays ==
  ASSUME Typed, [Next]_vars, NEW e, NEW q, Owned(e, q)
  PROVE  Owned(e, q)'
BY ListedGrows DEF Owned

LEMMA EntriesStep == Typed /\ EntriesOwned /\ [Next]_vars => EntriesOwned'
<1> SUFFICES ASSUME Typed, EntriesOwned, [Next]_vars, NEW q \in DOMAIN entries'
             PROVE  Owned(entries[q], q)'
  BY DEF EntriesOwned
<1>1. ASSUME q \in DOMAIN entries, entries'[q] = entries[q] PROVE Owned(entries[q], q)'
  <2>1. PICK e : e = entries[q]
    OBVIOUS
  <2>2. Owned(e, q)'
    BY <1>1, <2>1, OwnedStays DEF EntriesOwned
  <2> QED
    BY <1>1, <2>1, <2>2 DEF Owned, Listed
<1>2. CASE Add
  <2>1. CASE q \in DOMAIN entries
    BY <1>1, <1>2, <2>1 DEF Add
  <2>2. CASE q \notin DOMAIN entries
    <3>1. PICK s : s = Current
      OBVIOUS
    <3>2. PICK i \in Kept(s) : /\ Name(s, i) = q
                               /\ entries'[q] = [server |-> s, local |-> listed[s][i]]
      <4> DEFINE c == CHOOSE j \in Kept(Current) : Name(Current, j) = q
      <4>1. c \in Kept(Current) /\ Name(Current, c) = q
        BY <1>2, <2>2 DEF Add
      <4>2. entries'[q] = [server |-> Current, local |-> listed[Current][c]]
        BY <1>2, <2>2 DEF Add
      <4> HIDE DEF c
      <4> QED
        BY <3>1, <4>1, <4>2
    <3>3. s \in Servers /\ listed' = listed /\ i \in 1..Len(listed[s])
      BY <1>2, <3>1, <3>2, CurrentServer DEF Add, Connecting, Typed, Kept
    <3>4. Owned([server |-> s, local |-> listed[s][i]], q)
      BY <3>2, <3>3 DEF Owned, Name, Listed
    <3> QED
      BY <3>2, <3>3, <3>4 DEF Owned, Listed
  <2> QED
    BY <2>1, <2>2
<1>3. CASE Close
  BY <1>3 DEF Close
<1>4. CASE UNCHANGED entries
  BY <1>1, <1>4
<1>5. Add \/ Close \/ UNCHANGED entries
  BY DEF Next, Connect, Choose, StepOver, LaunchFails, Launch, Initialize, RequestFails, ListPage, Abort,
         Serve, LookUp, Forward, CloseNext, vars
<1> QED
  BY <1>2, <1>3, <1>4, <1>5

\* Once a call has begun, what servers were reported to be no longer changes.
LEMMA ResultsSettled == Up /\ [Next]_vars => UNCHANGED result /\ Up'
BY DEF Up, Next, Connect, Choose, StepOver, LaunchFails, Launch, Initialize, RequestFails, ListPage, Add, Abort,
       Serve, LookUp, Forward, Close, CloseNext, vars

LEMMA CallsStep ==
  Typed /\ EntriesOwned /\ Usable /\ CallsOwned /\ [Next]_vars => CallsOwned'
<1> SUFFICES ASSUME Typed, EntriesOwned, Usable, CallsOwned, [Next]_vars, NEW k \in Callers
             PROVE  (/\ call[k].state # "idle" => Up
                     /\ call[k].state \in {"found", "answered"} => Owned(call[k], call[k].name)
                     /\ call[k].state = "answered" => result[call[k].server] = "ok")'
  BY DEF CallsOwned
<1>1. ASSUME call'[k] = call[k]
      PROVE  (/\ call[k].state # "idle" => Up
              /\ call[k].state \in {"found", "answered"} => Owned(call[k], call[k].name)
              /\ call[k].state = "answered" => result[call[k].server] = "ok")'
  <2>1. PICK c : c = call[k]
    OBVIOUS
  <2>2. c.state # "idle" => Up' /\ UNCHANGED result
    BY <2>1, ResultsSettled DEF CallsOwned
  <2>3. c.state \in {"found", "answered"} => Owned(c, c.name)'
    BY <2>1, OwnedStays DEF CallsOwned
  <2>4. c.state = "answered" => result'[c.server] = "ok"
    BY <2>1, <2>2 DEF CallsOwned
  <2> QED
    BY <1>1, <2>1, <2>2, <2>3, <2>4 DEF Owned, Listed
<1>2. call \in [Callers -> Calls]
  BY DEF Typed, Tables
<1>3. CASE LookUp(k)
  <2>1. PICK q : call' = [call EXCEPT ![k] =
                    IF q \in DOMAIN entries
                    THEN [state |-> "found", name |-> q, server |-> entries[q].server,
                          local |-> entries[q].local]
                    ELSE [NewCall EXCEPT !.state = "unknown", !.name = q]]
    BY <1>3 DEF LookUp
  <2>2. Up' /\ UNCHANGED <<entries, listed>>
    BY <1>3, ResultsSettled DEF LookUp
  <2>3. CASE q \in DOMAIN entries
    <3>1. PICK e : e = entries[q]
      OBVIOUS
    <3>2. call'[k] = [state |-> "found", name |-> q, server |-> e.server, local |-> e.local]
      BY <1>2, <2>1, <2>3, <3>1
    <3>3. Owned(e, q)'
      BY <2>3, <3>1, OwnedStays DEF EntriesOwned
    <3> QED
      BY <2>2, <3>2, <3>3 DEF Owned, Listed
  <2>4. CASE q \notin DOMAIN entries
    <3>1. call'[k].state = "unknown"
      BY <1>2, <2>1, <2>4 DEF NewCall
    <3> QED
      BY <2>2, <3>1
  <2> QED
    BY <2>3, <2>4
<1>4. CASE Forward(k)
  <2>1. PICK end \in {"answered", "failed"} :
          /\ end = "answered" => session[call[k].server] = "open"
          /\ call' = [call EXCEPT ![k].state = end]
    BY <1>4 DEF Forward
  <2>2. PICK c : c = call[k]
    OBVIOUS
  <2>3. c \in Calls /\ c.state = "found"
    BY <1>2, <1>4, <2>2 DEF Forward
  <2>4. Up /\ Owned(c, c.name)
    BY <2>2, <2>3 DEF CallsOwned
  <2>5. Up' /\ UNCHANGED <<result, listed>>
    BY <1>4, <2>4, ResultsSettled DEF Forward
  <2>6. call'[k] = [state |-> end, name |-> c.name, server |-> c.server, local |-> c.local]
    BY <1>2, <2>1, <2>2, <2>3 DEF Calls
  <2>7. end = "answered" => result[c.server] = "ok"
    BY <2>1, <2>2, <2>4 DEF Usable, Up, Attached, Owned
  <2> QED
    BY <2>4, <2>5, <2>6, <2>7 DEF Owned, Listed
<1>5. ASSUME NEW l \in Callers, l # k, LookUp(l) \/ Forward(l) PROVE call'[k] = call[k]
  BY <1>2, <1>5 DEF LookUp, Forward
<1>6. CASE UNCHANGED call
  BY <1>1, <1>6
<1>7. UNCHANGED call \/ \E l \in Callers : LookUp(l) \/ Forward(l)
  BY DEF Next, Connect, Choose, StepOver, LaunchFails, Launch, Initialize, RequestFails, ListPage, Add, Abort,
         Serve, Close, CloseNext, vars
<1> QED
  BY <1>1, <1>3, <1>4, <1>5, <1>6, <1>7

\* A tool call is answered only by the server that listed the tool, under the
\* name that server gave it, and only if that server was reported usable.
THEOREM OwnersAnswer == Spec => []AnsweredByOwner
<1>1. Init => EntriesOwned /\ CallsOwned /\ Usable /\ Untouched
  BY OrderFacts DEF Init, EntriesOwned, CallsOwned, Usable, Untouched, NewCall
<1>2. CallsOwned => AnsweredByOwner
  BY DEF CallsOwned, Owned, AnsweredByOwner
<1> QED
  BY <1>1, <1>2, InitTyped, TypedStep, UntouchedStep, UsableStep, EntriesStep, CallsStep, PTL
     DEF Spec

-----------------------------------------------------------------------------
(* The screen before the registry *)

Screen == /\ tui \in BOOLEAN
          /\ row \in 1..Len(Order)
          /\ marked \subseteq Servers

LEMMA RowServer == Screen => Order[row] \in Servers
BY OrderFacts DEF Screen

LEMMA ScreenStep == Screen /\ [StartupNext]_<<vars, selector>> => Screen'
<1> SUFFICES ASSUME Screen, [StartupNext]_<<vars, selector>> PROVE Screen'
  OBVIOUS
<1>1. Len(Order) \in Nat
  BY OrderFacts
<1>2. CASE MoveUp \/ MoveDown
  BY <1>1, <1>2 DEF MoveUp, MoveDown, Screen
<1>3. CASE Toggle
  BY <1>3, RowServer DEF Toggle, Screen
<1>4. UNCHANGED <<tui, row, marked>> \/ MoveUp \/ MoveDown \/ Toggle
  BY DEF StartupNext, Enter, Leave, Interrupt, GiveUp, Fail, StartMarked, StartEnabled,
         BringUpAndServe, selector
<1> QED
  BY <1>2, <1>3, <1>4 DEF Screen

LEMMA StepImplements == Screen /\ [StartupNext]_<<vars, selector>> => [Next]_vars
<1> SUFFICES ASSUME Screen, [StartupNext]_<<vars, selector>> PROVE [Next]_vars
  OBVIOUS
<1>1. CASE MoveUp \/ MoveDown \/ Toggle
  BY <1>1 DEF MoveUp, MoveDown, Toggle
<1>2. CASE Enter \/ Leave \/ Interrupt
  BY <1>2 DEF Enter, Leave, Interrupt
<1>3. CASE GiveUp \/ Fail
  BY <1>3 DEF GiveUp, Fail
<1>4. CASE BringUpAndServe
  BY <1>4 DEF BringUpAndServe
<1>5. CASE StartEnabled
  BY <1>5 DEF StartEnabled, Next
<1>6. CASE StartMarked
  BY <1>6 DEF StartMarked, Screen, Next
<1>7. CASE UNCHANGED <<vars, selector>>
  BY <1>7
<1> QED
  BY <1>1, <1>2, <1>3, <1>4, <1>5, <1>6, <1>7 DEF StartupNext

LEMMA ScreenInit == StartupInit => Screen
<1>1. Order # <<>> => Len(Order) >= 1
  BY RegistryAssumption, EmptySeq
<1> QED
  BY <1>1, OrderFacts, RegistryAssumption DEF StartupInit, Screen

\* Startup implements Registry: whatever is marked, typed and interrupted, what
\* main then brings up, serves and closes is a behavior of Registry.
THEOREM StartupImplements == StartupSpec => Spec
<1>1. StartupInit => Init
  BY DEF StartupInit
<1> QED
  BY <1>1, ScreenInit, ScreenStep, StepImplements, PTL DEF StartupSpec, Spec

-----------------------------------------------------------------------------
(* Only what was chosen *)

\* A server that has been touched, or is about to be, is an enabled one.
Touched(s) == \/ session[s] # "none" \/ result[s] # "none"
              \/ Among(s, servers) \/ Among(s, closing)
              \/ Attached /\ s = Current

OnlyEnabled == \A s \in Servers : Touched(s) => s \in enabled

\* Until the choice is made nothing is enabled.
NotYet == stage = "choose" => enabled = {}

LEMMA AppendedAmong ==
  ASSUME NEW S, NEW seq \in Seq(S), NEW x \in S, NEW s, Among(s, Append(seq, x))
  PROVE  Among(s, seq) \/ s = x
<1>1. PICK i \in 1..Len(Append(seq, x)) : Append(seq, x)[i] = s
  BY DEF Among
<1> QED
  BY <1>1 DEF Among

LEMMA AmongTail ==
  ASSUME NEW S, NEW seq \in Seq(S), seq # <<>>, NEW s, Among(s, Tail(seq))
  PROVE  Among(s, seq)
<1>1. PICK i \in 1..Len(Tail(seq)) : Tail(seq)[i] = s
  BY DEF Among
<1>2. i + 1 \in 1..Len(seq) /\ seq[i + 1] = s
  BY <1>1, HeadTailProperties
<1> QED
  BY <1>2 DEF Among

LEMMA HeadAmong ==
  ASSUME NEW S, NEW seq \in Seq(S), seq # <<>>
  PROVE  Among(Head(seq), seq)
<1>1. 1 \in 1..Len(seq) /\ Head(seq) = seq[1]
  BY EmptySeq
<1> QED
  BY <1>1 DEF Among

\* Connecting touches no server but an enabled one.
LEMMA OnlyEnabledStep ==
  ASSUME Typed, OnlyEnabled, [Next]_vars, stage # "choose", NEW s \in Servers, Touched(s)'
  PROVE  s \in enabled /\ enabled' = enabled
<1>1. enabled' = enabled
  BY DEF Next, Connect, Choose, StepOver, LaunchFails, Launch, Initialize, RequestFails,
         ListPage, Add, Abort, Serve, LookUp, Forward, Close, CloseNext, vars
<1> SUFFICES s \in enabled
  BY <1>1
<1>2. session \in [Servers -> {"none", "open", "closed"}] /\ servers \in Seq(Servers)
      /\ closing \in Seq(Servers) /\ result \in [Servers -> {"none", "ok", "failed"}]
  BY DEF Typed, Tables
<1>3. Connecting => Current \in Servers
  BY CurrentServer DEF Typed
<1> USE DEF OnlyEnabled, Touched
<1>4. CASE LaunchFails
  BY <1>2, <1>3, <1>4 DEF LaunchFails, Report, Advance, Attached, Connecting
<1>5. CASE Launch
  BY <1>2, <1>3, <1>5 DEF Launch, Attached, Connecting, Current
<1>6. CASE Initialize \/ RequestFails
  BY <1>6 DEF Initialize, RequestFails, Attached, Current
<1>7. CASE ListPage
  <2>1. UNCHANGED <<session, result, servers, closing, at>> /\ Attached
    BY <1>7 DEF ListPage, Attached
  <2>2. Touched(s)
    BY <2>1 DEF Current, Among
  <2> QED
    BY <2>2
<1>8. CASE Add
  <2>1. /\ servers' = Append(servers, Current) /\ UNCHANGED <<session, closing>>
        /\ Attached /\ Current \in Servers
    BY <1>3, <1>8 DEF Add, Attached, Connecting
  <2>2. \/ UNCHANGED <<at, result>>
        \/ result' = [result EXCEPT ![Current] = "ok"] /\ ~Attached'
    BY <1>8 DEF Add, Report, Advance, Attached
  <2>3. Among(s, servers') => Among(s, servers) \/ s = Current
    BY <1>2, <2>1, AppendedAmong
  <2>4. CASE s = Current
    BY <2>1, <2>4
  <2>5. CASE s # Current
    <3>1. result'[s] = result[s] /\ ~(Attached' /\ s = Current')
      BY <1>2, <2>2, <2>5 DEF Current
    <3>2. Among(s, closing') => Among(s, closing)
      BY <2>1
    <3>3. session'[s] = session[s]
      BY <2>1
    <3> QED
      BY <2>3, <2>5, <3>1, <3>2, <3>3
  <2> QED
    BY <2>4, <2>5
<1>9. CASE Abort
  BY <1>2, <1>3, <1>9 DEF Abort, Report, Advance, Attached, Connecting
<1>10. CASE StepOver \/ Serve
  BY <1>10 DEF StepOver, Advance, Serve, Attached
<1>11. ASSUME NEW k \in Callers, LookUp(k) \/ Forward(k) PROVE Touched(s)
  BY <1>11 DEF LookUp, Forward, Attached, Current
<1>12. CASE Close
  <2>1. ~Among(s, <<>>)
    BY DEF Among
  <2> QED
    BY <1>12, <2>1 DEF Close, Attached
<1>13. CASE CloseNext
  <2>1. CASE closing = <<>>
    BY <1>13, <2>1 DEF CloseNext, Attached
  <2>2. CASE closing # <<>>
    <3>1. /\ session' = [session EXCEPT ![Head(closing)] = "closed"]
          /\ closing' = Tail(closing) /\ UNCHANGED <<servers, result, stage>> /\ ~Attached
      BY <1>13, <2>2 DEF CloseNext, Attached
    <3>2. Head(closing) \in Servers /\ Among(Head(closing), closing)
      BY <1>2, <2>2, HeadTailProperties, HeadAmong
    <3>3. Among(s, closing') => Among(s, closing)
      BY <1>2, <2>2, <3>1, AmongTail
    <3>4. CASE s = Head(closing)
      BY <3>2, <3>4
    <3>5. CASE s # Head(closing)
      <4>1. session'[s] = session[s] /\ ~Attached'
        BY <1>2, <3>1, <3>5 DEF Attached
      <4>2. Among(s, servers') => Among(s, servers)
        BY <3>1
      <4> QED
        BY <3>1, <3>3, <4>1, <4>2
    <3> QED
      BY <3>4, <3>5
  <2> QED
    BY <2>1, <2>2
<1>14. CASE UNCHANGED vars
  BY <1>14 DEF vars, Attached, Current
<1>15. ~\E chosen \in SUBSET Servers : Choose(chosen)
  BY DEF Choose
<1> QED
  BY <1>4, <1>5, <1>6, <1>7, <1>8, <1>9, <1>10, <1>11, <1>12, <1>13, <1>14, <1>15
     DEF Next, Connect

\* What the choice was, once it is made.
Chosen == /\ confirmed => decision = "enter"
          /\ stage # "choose" =>
               IF tui THEN decision = "enter" /\ enabled = marked /\ ~interrupted /\ ~over
               ELSE enabled = Servers \ Disabled

LEMMA StageLeavesChoose ==
  ASSUME [Next]_vars, stage # "choose"
  PROVE  stage' # "choose" /\ enabled' = enabled
BY DEF Next, Connect, Choose, StepOver, LaunchFails, Launch, Initialize, RequestFails, ListPage,
       Add, Abort, Report, Advance, Serve, LookUp, Forward, Close, CloseNext, vars

LEMMA ChosenStep == Screen /\ Chosen /\ NotYet /\ [StartupNext]_<<vars, selector>> =>
  Chosen' /\ NotYet'
<1> SUFFICES ASSUME Screen, Chosen, NotYet, [StartupNext]_<<vars, selector>>
             PROVE  Chosen' /\ NotYet'
  OBVIOUS
<1> USE DEF Chosen, NotYet
<1>1. CASE MoveUp \/ MoveDown \/ Toggle \/ Interrupt
  BY <1>1 DEF MoveUp, MoveDown, Toggle, Interrupt, Selecting, Undecided, vars
<1>2. CASE Enter \/ Leave
  BY <1>2 DEF Enter, Leave, Selecting, Undecided, vars
<1>3. CASE GiveUp \/ Fail
  BY <1>3 DEF GiveUp, Fail, Selecting, Undecided, vars
<1>4. CASE StartMarked
  BY <1>4 DEF StartMarked, Accepted, Selecting, Undecided, Choose, selector
<1>5. CASE StartEnabled
  BY <1>5 DEF StartEnabled, Undecided, Choose, selector
<1>6. CASE BringUpAndServe
  BY <1>6, StageLeavesChoose DEF BringUpAndServe, selector
<1>7. CASE UNCHANGED <<vars, selector>>
  BY <1>7 DEF vars, selector
<1> QED
  BY <1>1, <1>2, <1>3, <1>4, <1>5, <1>6, <1>7 DEF StartupNext

LEMMA ChoiceStep ==
  Typed /\ Screen /\ OnlyEnabled /\ NotYet /\ [StartupNext]_<<vars, selector>> => OnlyEnabled'
<1> SUFFICES ASSUME Typed, Screen, OnlyEnabled, NotYet, [StartupNext]_<<vars, selector>>,
                    NEW s \in Servers, Touched(s)'
             PROVE  s \in enabled'
  BY DEF OnlyEnabled, Touched, Among, Attached, Current
<1>1. [Next]_vars
  BY StepImplements
<1>2. CASE stage # "choose"
  BY <1>1, <1>2, OnlyEnabledStep
<1>3. CASE stage = "choose"
  <2>1. ~Touched(s)
    BY <1>3 DEF OnlyEnabled, NotYet
  <2>2. UNCHANGED <<session, result, servers, closing>> /\ ~Attached'
    BY <1>1, <1>3 DEF Next, Connect, Choose, StepOver, LaunchFails, Launch, Initialize,
       RequestFails, ListPage, Add, Abort, Serve, LookUp, Forward, Up, Close, CloseNext, vars,
       Attached
  <2> QED
    BY <2>1, <2>2 DEF Touched, Among
<1> QED
  BY <1>2, <1>3

\* No server is launched but those on the screen when it went, the user's last
\* word being Enter; and without the screen none that is disabled.
THEOREM StartedAsChosen == StartupSpec => []StartIsChosen
<1>1. StartupInit => Typed /\ OnlyEnabled /\ NotYet /\ Chosen
  <2>1. StartupInit => Typed
    BY InitTyped DEF StartupInit
  <2>2. \A s : ~Among(s, <<>>)
    BY DEF Among
  <2> QED
    BY <2>1, <2>2 DEF StartupInit, Init, OnlyEnabled, Touched, Attached, NotYet, Chosen
<1>2. Typed /\ OnlyEnabled /\ NotYet /\ Chosen => StartIsChosen
  BY DEF OnlyEnabled, Touched, NotYet, Chosen, StartIsChosen
<1>3. Typed /\ Screen /\ [StartupNext]_<<vars, selector>> => Typed'
  BY StepImplements, TypedStep
<1> QED
  BY <1>1, <1>2, <1>3, ScreenInit, ScreenStep, ChosenStep, ChoiceStep, PTL DEF StartupSpec
=============================================================================
