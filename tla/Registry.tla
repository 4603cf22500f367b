------------------------------- MODULE Registry -------------------------------
(***************************************************************************)
(* Bringing the servers up, routing tool calls to them and shutting them   *)
(* down: connectAll and connectOne of src/cmd/host/connect.go, ListTools of*)
(* src/internal/mcp/session.go, and src/internal/registry.                 *)
(*                                                                         *)
(* Of the configured servers some are chosen: those not disabled, or those *)
(* marked on the selection screen, see Startup.  connectAll goes through   *)
(* the chosen ones one by one.  A server is external: it may fail to       *)
(* start, fail or outlast the deadline of any request, list any of its     *)
(* tools over any number of pages and hand back any cursor.                *)
(* Afterwards tool calls come from goroutines of their own, and may still  *)
(* be on their way when the registry is closed.                            *)
(***************************************************************************)
EXTENDS ToolNames

CONSTANTS Order,     \* the configured servers, sorted by label
          Label,       \* their labels in the configuration
          Catalog,     \* the tools each of them may list
          Cursors,     \* the page cursors a server may hand back
          Callers,     \* tool calls, each made by a goroutine of its own
          MaxPages,    \* maxToolPages
          MaxListed    \* bound: tools listed by one server

NoCursor == "end"
Nothing == "nothing"

Servers == {Order[i] : i \in 1..Len(Order)}

ASSUME RegistryAssumption ==
  /\ Order \in Seq(Servers) /\ Order # <<>>
  /\ \A i, j \in 1..Len(Order) : Order[i] = Order[j] => i = j
  /\ Label \in [Servers -> Seq(Bytes)]
  /\ DOMAIN Catalog = Servers
  /\ \A s \in Servers : Catalog[s] \subseteq Seq(Bytes)
  /\ Nothing \notin Servers
  /\ NoCursor \notin Cursors
  /\ MaxPages \in Nat \ {0}
  /\ MaxListed \in Nat

VARIABLES
  stage,      \* what main, and connectAll for it, is doing
  enabled,    \* the servers to connect to, once they are chosen
  at,         \* the position in Order of the server being connected
  page,       \* pages of its tool list received so far
  cursor,     \* the cursor of the next page
  listed,     \* the tools each server has listed
  session,    \* each server's session: none, open, closed
  result,     \* what connectOne reported of each server
  entries,    \* the registry: qualified name -> server and local name
  servers,    \* the registry's servers, in the order they were added
  closing,    \* the servers Close has still to close
  call        \* each tool call: its name, where it was routed, how it ended

vars == <<stage, enabled, at, page, cursor, listed, session, result, entries, servers, closing,
          call>>

Current == Order[at]
NewCall == [state |-> "idle", name |-> <<>>, server |-> Nothing, local |-> <<>>]

Init == /\ stage = "choose"
        /\ enabled = {}
        /\ at = 1
        /\ page = 0
        /\ cursor = NoCursor
        /\ listed = [s \in Servers |-> <<>>]
        /\ session = [s \in Servers |-> "none"]
        /\ result = [s \in Servers |-> "none"]
        /\ entries = [q \in {} |-> Nothing]
        /\ servers = <<>>
        /\ closing = <<>>
        /\ call = [k \in Callers |-> NewCall]

-----------------------------------------------------------------------------
(* connectOne *)

\* connectAll starts with the servers chosen.
Choose(chosen) == /\ stage = "choose"
                  /\ stage' = "launch"
                  /\ enabled' = chosen
                  /\ UNCHANGED <<at, page, cursor, listed, session, result, entries, servers,
                                 closing, call>>

\* On to the next server.
Advance == /\ at' = at + 1
           /\ stage' = IF at < Len(Order) THEN "launch" ELSE "connected"

\* A server that was not chosen is not among those connectAll goes through.
StepOver == /\ stage = "launch"
            /\ Current \notin enabled
            /\ Advance
            /\ UNCHANGED <<enabled, page, cursor, listed, session, result, entries, servers,
                           closing, call>>

\* The result is recorded and connectAll steps on.
Report(verdict) == /\ result' = [result EXCEPT ![Current] = verdict]
                   /\ Advance

LaunchFails == /\ stage = "launch"
               /\ Current \in enabled
               /\ Report("failed")
               /\ UNCHANGED <<enabled, page, cursor, listed, session, entries, servers, closing,
                              call>>

Launch == /\ stage = "launch"
          /\ Current \in enabled
          /\ session' = [session EXCEPT ![Current] = "open"]
          /\ stage' = "initialize"
          /\ UNCHANGED <<enabled, at, page, cursor, listed, result, entries, servers, closing,
                         call>>

\* The handshake: initialize, then the notification that confirms it.
Initialize == /\ stage = "initialize"
              /\ stage' = "list"
              /\ page' = 0
              /\ cursor' = NoCursor
              /\ UNCHANGED <<enabled, at, listed, session, result, entries, servers, closing,
                             call>>

\* The handshake or the request for a page fails, or the deadline passes.
RequestFails == /\ stage \in {"initialize", "list"}
                /\ stage' = "abort"
                /\ UNCHANGED <<enabled, at, page, cursor, listed, session, result, entries,
                               servers,
                               closing, call>>

Pages(s) == UNION {[1..n -> Catalog[s]] : n \in 0..(MaxListed - Len(listed[s]))}

\* Mutant: nothing bounds the number of pages.
BugListPage == /\ stage = "list"
               /\ \E tools \in Pages(Current), next \in Cursors \cup {NoCursor} :
                    /\ listed' = [listed EXCEPT ![Current] = @ \o tools]
                    /\ cursor' = next
                    /\ page' = page + 1
                    /\ stage' = IF next = NoCursor THEN "add"
                                ELSE IF next = cursor THEN "abort" ELSE "list"
               /\ UNCHANGED <<enabled, at, session, result, entries, servers, closing, call>>

\* One page; a repeated cursor and one page too many end the listing.
ListPage == /\ stage = "list"
            /\ \E tools \in Pages(Current), next \in Cursors \cup {NoCursor} :
                 /\ listed' = [listed EXCEPT ![Current] = @ \o tools]
                 /\ cursor' = next
                 /\ page' = page + 1
                 /\ stage' = IF next = NoCursor THEN "add"
                             ELSE IF next = cursor \/ page + 1 = MaxPages THEN "abort"
                             ELSE "list"
            /\ UNCHANGED <<enabled, at, session, result, entries, servers, closing, call>>

Name(s, i) == Qualify(Sanitize(Label[s]), listed[s][i])

\* Mutant: the registry is not asked whether the name is taken.
BugTaken(s, i) == \E j \in 1..(i - 1) : Name(s, j) = Name(s, i)

Taken(s, i) == \/ Name(s, i) \in DOMAIN entries
               \/ \E j \in 1..(i - 1) : Name(s, j) = Name(s, i)

\* Add stops at the first tool whose name is taken, keeping those before it.
Kept(s) == {i \in 1..Len(listed[s]) : \A j \in 1..i : ~Taken(s, j)}

\* Add, all of it under the lock.
Add == /\ stage = "add"
       /\ servers' = Append(servers, Current)
       /\ LET new == {Name(Current, i) : i \in Kept(Current)}
          IN entries' = [q \in DOMAIN entries \cup new |->
               IF q \in DOMAIN entries THEN entries[q]
               ELSE [server |-> Current,
                     local |-> listed[Current][CHOOSE i \in Kept(Current) :
                                                 Name(Current, i) = q]]]
       /\ IF Kept(Current) = 1..Len(listed[Current])
          THEN Report("ok")
          ELSE stage' = "abort" /\ UNCHANGED <<at, result>>
       /\ UNCHANGED <<enabled, page, cursor, listed, session, closing, call>>

\* Mutant: the session of a server that failed is left as it is.
BugAbort == /\ stage = "abort"
            /\ Report("failed")
            /\ UNCHANGED <<enabled, page, cursor, listed, session, entries, servers, closing,
                           call>>

\* A failure after the launch closes the session.
Abort == /\ stage = "abort"
         /\ session' = [session EXCEPT ![Current] = "closed"]
         /\ Report("failed")
         /\ UNCHANGED <<enabled, page, cursor, listed, entries, servers, closing, call>>

\* main goes on if any tool was registered.
Serve == /\ stage = "connected"
         /\ DOMAIN entries # {}
         /\ stage' = "serving"
         /\ UNCHANGED <<enabled, at, page, cursor, listed, session, result, entries, servers,
                        closing, call>>

-----------------------------------------------------------------------------
(* Call *)

Up == stage \in {"serving", "closing", "closed"}

\* What the model may ask for: any tool that was ever listed, or an invention.
Invented == <<"_">>
Askable == {Invented} \cup UNION {{Name(s, i) : i \in 1..Len(listed[s])} : s \in Servers}

\* The entry is looked up under the read lock; an unknown name is answered.
LookUp(k) == /\ Up
             /\ call[k].state = "idle"
             /\ \E q \in Askable :
                  call' = [call EXCEPT ![k] =
                    IF q \in DOMAIN entries
                    THEN [state |-> "found", name |-> q, server |-> entries[q].server,
                          local |-> entries[q].local]
                    ELSE [NewCall EXCEPT !.state = "unknown", !.name = q]]
             /\ UNCHANGED <<enabled, stage, at, page, cursor, listed, session, result, entries,
                            servers, closing>>

\* The call is forwarded after the lock is gone; a closed session fails it.
Forward(k) == /\ call[k].state = "found"
              /\ \E end \in {"answered", "failed"} :
                   /\ end = "answered" => session[call[k].server] = "open"
                   /\ call' = [call EXCEPT ![k].state = end]
              /\ UNCHANGED <<enabled, stage, at, page, cursor, listed, session, result, entries,
                             servers, closing>>

-----------------------------------------------------------------------------
(* Close, deferred in main: the user quits, or no server came up *)

Close == /\ \/ stage = "serving"
            \/ stage = "connected" /\ DOMAIN entries = {}
         /\ stage' = "closing"
         /\ closing' = servers
         /\ servers' = <<>>
         /\ entries' = [q \in {} |-> Nothing]
         /\ UNCHANGED <<enabled, at, page, cursor, listed, session, result, call>>

CloseNext == /\ stage = "closing"
             /\ IF closing = <<>>
                THEN stage' = "closed" /\ UNCHANGED <<session, closing>>
                ELSE /\ session' = [session EXCEPT ![Head(closing)] = "closed"]
                     /\ closing' = Tail(closing)
                     /\ UNCHANGED stage
             /\ UNCHANGED <<enabled, at, page, cursor, listed, result, entries, servers, call>>

Connect == \/ LaunchFails \/ Launch \/ Initialize \/ RequestFails \/ ListPage
           \/ Add \/ Abort \/ StepOver
Next == \/ \E chosen \in SUBSET Servers : Choose(chosen)
        \/ Connect \/ Serve
        \/ \E k \in Callers : LookUp(k) \/ Forward(k)
        \/ Close \/ CloseNext

Spec == Init /\ [][Next]_vars

-----------------------------------------------------------------------------
(* Properties *)

Tools == UNION {Catalog[s] : s \in Servers}

\* The variables of startup, routing and shutdown keep their types.
TypeOK ==
  /\ stage \in {"choose", "launch", "initialize", "list", "add", "abort", "connected",
                "serving", "closing", "closed"}
  /\ enabled \subseteq Servers
  /\ at \in 1..(Len(Order) + 1)
  /\ page \in 0..MaxPages
  /\ cursor \in Cursors \cup {NoCursor}
  /\ \A s \in Servers : listed[s] \in UNION {[1..n -> Catalog[s]] : n \in 0..MaxListed}
  /\ session \in [Servers -> {"none", "open", "closed"}]
  /\ result \in [Servers -> {"none", "ok", "failed"}]
  /\ \A q \in DOMAIN entries : entries[q] \in [server : Servers, local : Tools]
  /\ servers \in Seq(Servers)
  /\ closing \in Seq(Servers)
  /\ \A k \in Callers : call[k].state \in {"idle", "unknown", "found", "answered", "failed"}

Listed(s) == {listed[s][i] : i \in 1..Len(listed[s])}

\* A tool call is answered only by the server that listed the tool, under the
\* name that server gave it, and only if that server is reported usable: not
\* by a server that was stepped over and not through another server's name.
AnsweredByOwner == \A k \in Callers : call[k].state = "answered" =>
  LET s == call[k].server
  IN /\ result[s] = "ok"
     /\ call[k].local \in Listed(s)
     /\ call[k].name = Qualify(Sanitize(Label[s]), call[k].local)

\* A server reported usable has every tool it listed registered as its own.
UsableIsComplete == stage \notin {"closing", "closed"} =>
  \A s \in Servers : result[s] = "ok" => \A i \in 1..Len(listed[s]) :
    /\ Name(s, i) \in DOMAIN entries
    /\ entries[Name(s, i)] = [server |-> s, local |-> listed[s][i]]

\* When the registry has been closed no session is left open, whichever step of
\* bringing it up failed (Close attempts all, connectOne closes the others).
NoOrphans == stage = "closed" => \A s \in Servers : session[s] # "open"

\* Every registered name fits what providers accept, cut short or not.
NamesFit == \A q \in DOMAIN entries : Len(q) \in 1..MaxNameLength

\* A server that is reported and skipped offers the model nothing (comment of
\* Add, README).
SkippedOffersNothing == \A q \in DOMAIN entries : result[entries[q].server] # "failed"
=============================================================================
