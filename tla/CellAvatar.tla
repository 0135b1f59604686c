----------------------------- MODULE CellAvatar -----------------------------
(***************************************************************************)
(* What an avatar promises to the rest of the game, without pixels and     *)
(* frames: it stands in a cell or is on its way to a neighbouring one; it  *)
(* leaves only towards a cell that is no wall, always arrives in the cell  *)
(* it left for, and, once dead, is on no cell until it is put back to its  *)
(* start.  Avatar.tla is shown to implement it.                            *)
(***************************************************************************)
EXTENDS Integers

CONSTANTS
  Cols,      \* the distance between a cell and the one below it
  Wall,      \* cells that nobody may enter
  Start      \* the start cell

VARIABLES
  alive,
  cell,      \* the cell it stands in or has left last, Nowhere while dead
  target     \* the cell it is on its way to, or cell when it is not walking

vars == <<alive, cell, target>>

Nowhere == -1

Init == alive = FALSE /\ cell = Nowhere /\ target = Nowhere

Spawn == alive' = TRUE /\ cell' = Start /\ target' = Start

Die == alive' = FALSE /\ cell' = Nowhere /\ target' = Nowhere

Depart ==
  /\ alive /\ target = cell
  /\ target' \in {cell - 1, cell + 1, cell - Cols, cell + Cols} \ Wall
  /\ UNCHANGED <<alive, cell>>

Arrive ==
  /\ alive /\ target # cell
  /\ cell' = target
  /\ UNCHANGED <<alive, target>>

Next == Spawn \/ Die \/ Depart \/ Arrive

Spec == Init /\ [][Next]_vars
=============================================================================
