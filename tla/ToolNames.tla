------------------------------ MODULE ToolNames ------------------------------
(***************************************************************************)
(* The names under which the model sees the servers' tools: sanitize,      *)
(* qualify and truncate of src/internal/registry/registry.go.  A name is   *)
(* the sequence of its bytes, which is what qualify counts and cuts; a     *)
(* character outside ASCII is a byte and the bytes that continue it.       *)
(***************************************************************************)
EXTENDS Integers, Sequences, FiniteSets

CONSTANTS Bytes,            \* the bytes of labels and tool names
          Letters, Digits,  \* those of them that are ASCII letters and digits
          Continuing,       \* those that continue a character of several bytes
          MaxNameLength     \* the longest name providers accept

ASSUME NamesAssumption == /\ Letters \cup Digits \cup {"_", "-"} \subseteq Bytes
                          /\ Continuing \cap (Letters \cup Digits \cup {"_", "-"}) = {}
                          /\ Letters # {}
                          /\ Letters \cap Digits = {}
                          /\ {"_", "-"} \cap (Letters \cup Digits) = {}
                          /\ MaxNameLength \in Nat
                          /\ MaxNameLength >= 3

Separator == <<"_", "_">>

\* The characters sanitize lets through.
Plain == Letters \cup Digits \cup {"_", "-"}

\* An empty label becomes the word server, here one letter of it.
Unnamed == <<CHOOSE l \in Letters : TRUE>>

\* The first byte of the n-th character.
Begins(name) == {i \in 1..Len(name) : name[i] \notin Continuing}
Character(name, n) ==
  name[CHOOSE i \in Begins(name) : Cardinality({j \in Begins(name) : j <= i}) = n]

\* One character for each character, whatever it takes in bytes.
Sanitize(name) ==
  LET out == [n \in 1..Cardinality(Begins(name)) |->
                IF Character(name, n) \in Plain THEN Character(name, n) ELSE "_"]
  IN IF out = <<>> THEN Unnamed
     ELSE IF out[1] \in Digits THEN <<"_">> \o out
     ELSE out

Truncate(s, max) == IF Len(s) <= max THEN s ELSE SubSeq(s, 1, max)

\* Mutant: the separator is counted as one byte.
BugRoom(tool) == MaxNameLength - 1 - Len(tool)

\* What is left for the prefix when the whole name is too long.
Room(tool) == MaxNameLength - Len(Separator) - Len(tool)

Qualify(prefix, tool) ==
  LET name == prefix \o Separator \o tool
  IN IF Len(name) <= MaxNameLength THEN name
     ELSE IF Room(tool) < 1 THEN Truncate(Sanitize(tool), MaxNameLength)
     ELSE SubSeq(prefix, 1, Room(tool)) \o Separator \o tool
=============================================================================
