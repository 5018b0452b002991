------------------------------- MODULE WriteOnce -------------------------------
(***************************************************************************)
(* What a table of immutable records promises: each cell is written at     *)
(* most once, cells are written one at a time, and what was written stays. *)
(***************************************************************************)
CONSTANTS
  Cells,   \* what the records are about
  Empty    \* the content of a cell not yet written

VARIABLE cell

Init == cell = [c \in Cells |-> Empty]

Write(c) ==
  /\ cell[c] = Empty
  /\ cell'[c] # Empty
  /\ cell' = [cell EXCEPT ![c] = cell'[c]]

Next == \E c \in Cells : Write(c)

Spec == Init /\ [][Next]_cell
===============================================================================
