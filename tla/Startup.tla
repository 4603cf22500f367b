-------------------------------- MODULE Startup --------------------------------
(***************************************************************************)
(* Which servers main brings up: runWithSelector of src/cmd/host/main.go   *)
(* with the selection screen of src/cmd/host/server_selector.go, before    *)
(* what Registry describes.                                                *)
(*                                                                         *)
(* With the terminal interface the user marks servers on a screen that     *)
(* starts with those not disabled.  Enter and Esc only ask the program to  *)
(* quit: the keys typed until that request is consumed still change what   *)
(* is marked and whether it is confirmed, and what is marked is read when  *)
(* the program has ended.  An interrupt becomes a request to quit as well. *)
(***************************************************************************)
EXTENDS Registry

CONSTANT Disabled   \* the servers the configuration disables

ASSUME StartupAssumption == Disabled \subseteq Servers

VARIABLES
  tui,          \* whether the terminal interface was asked for
  row,          \* the row of the screen the cursor is on
  marked,       \* the servers marked on the screen
  confirmed,    \* whether Enter was accepted and not taken back
  quitting,     \* whether a request to quit is on its way
  interrupted,  \* whether a signal ended main's context
  over,         \* whether main returned without bringing any server up
  decision      \* ghost: the last of the user's decisions

selector == <<tui, row, marked, confirmed, quitting, interrupted, over, decision>>

StartupInit == /\ Init
               /\ tui \in BOOLEAN
               /\ row = 1
               /\ marked = Servers \ Disabled
               /\ confirmed = FALSE
               /\ quitting = FALSE
               /\ interrupted = FALSE
               /\ over = FALSE
               /\ decision = "none"

Undecided == stage = "choose" /\ ~over
Selecting == tui /\ Undecided

-----------------------------------------------------------------------------
(* The keys of the selection screen *)

MoveUp == /\ Selecting
          /\ row' = IF row = 1 THEN 1 ELSE row - 1
          /\ UNCHANGED <<vars, tui, marked, confirmed, quitting, interrupted, over, decision>>

MoveDown == /\ Selecting
            /\ row' = IF row = Len(Order) THEN row ELSE row + 1
            /\ UNCHANGED <<vars, tui, marked, confirmed, quitting, interrupted, over, decision>>

Toggle == /\ Selecting
          /\ marked' = IF Order[row] \in marked THEN marked \ {Order[row]}
                       ELSE marked \cup {Order[row]}
          /\ UNCHANGED <<vars, tui, row, confirmed, quitting, interrupted, over, decision>>

\* Enter with nothing marked only brings a notice.
Enter == /\ Selecting
         /\ marked # {}
         /\ confirmed' = TRUE
         /\ quitting' = TRUE
         /\ decision' = "enter"
         /\ UNCHANGED <<vars, tui, row, marked, interrupted, over>>

\* Mutant: Esc leaves an earlier Enter confirmed.
BugLeave == /\ Selecting
            /\ quitting' = TRUE
            /\ decision' = "leave"
            /\ UNCHANGED <<vars, tui, row, marked, confirmed, interrupted, over>>

\* Esc and Ctrl+C.
Leave == /\ Selecting
         /\ confirmed' = FALSE
         /\ quitting' = TRUE
         /\ decision' = "leave"
         /\ UNCHANGED <<vars, tui, row, marked, interrupted, over>>

Interrupt == /\ Selecting
             /\ interrupted' = TRUE
             /\ quitting' = TRUE
             /\ UNCHANGED <<vars, tui, row, marked, confirmed, over, decision>>

-----------------------------------------------------------------------------
(* main, once the screen is gone *)

Accepted == confirmed /\ ~interrupted /\ marked # {}

\* The request to quit is consumed and what is marked by then is brought up.
StartMarked == /\ Selecting
               /\ quitting
               /\ Accepted
               /\ Choose(marked)
               /\ UNCHANGED selector

\* Canceled, interrupted, or nothing is marked any more.
GiveUp == /\ Selecting
          /\ quitting
          /\ ~Accepted
          /\ over' = TRUE
          /\ UNCHANGED <<vars, tui, row, marked, confirmed, quitting, interrupted, decision>>

\* The configuration, the screen, the log file or the provider fails main.
Fail == /\ Undecided
        /\ over' = TRUE
        /\ UNCHANGED <<vars, tui, row, marked, confirmed, quitting, interrupted, decision>>

\* Without the terminal interface: every server that is not disabled.
StartEnabled == /\ ~tui
                /\ Undecided
                /\ Choose(Servers \ Disabled)
                /\ UNCHANGED selector

BringUpAndServe == stage # "choose" /\ Next /\ UNCHANGED selector

StartupNext == \/ MoveUp \/ MoveDown \/ Toggle \/ Enter \/ Leave \/ Interrupt
               \/ StartMarked \/ GiveUp \/ Fail \/ StartEnabled
               \/ BringUpAndServe

StartupSpec == StartupInit /\ [][StartupNext]_<<vars, selector>>

-----------------------------------------------------------------------------

\* No server is launched but those on the screen when it went, at least one of
\* them marked and the user's last word being Enter; and without the screen
\* none that the configuration disables.
StartIsChosen ==
  \A s \in Servers : session[s] # "none" \/ result[s] # "none" =>
    IF tui THEN decision = "enter" /\ s \in marked /\ ~interrupted /\ ~over
    ELSE s \notin Disabled
=============================================================================
