------------------------------ MODULE Selection ------------------------------
(***************************************************************************)
(* The elements of a sequence at chosen positions, in their order: what a  *)
(* loop leaves that appends some elements to a new slice and passes over   *)
(* the others.  SelectSeq of the standard modules, with the positions as a *)
(* set, so that SelectionTheorems can state what it does.                  *)
(***************************************************************************)
EXTENDS Naturals, Sequences

\* What the loop has after each number of elements.
UpTo(s, K) ==
  LET kept[n \in 0..Len(s)] == IF n = 0 THEN <<>>
                               ELSE IF n \in K THEN Append(kept[n - 1], s[n])
                               ELSE kept[n - 1]
  IN kept

Selected(s, K) == UpTo(s, K)[Len(s)]
=============================================================================
