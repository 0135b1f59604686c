-------------------------------- MODULE Maps --------------------------------
(***************************************************************************)
(* The wall map of the game, a 144-bit constant that Wall.sv, Map.sv and   *)
(* Game_Hub.sv write down in the same way: bit 12 * row + column, counted  *)
(* from the top left cell.                                                 *)
(***************************************************************************)
EXTENDS Integers

(* The columns whose bit is set, row by row from the top (bits 11:0).      *)
WallCols ==
  << 0 .. 11,
     {0, 11},
     {0, 2, 3, 4, 7, 8, 9, 11},
     {0, 2, 9, 11},
     {0, 2, 4, 6, 7, 9, 11},
     {0, 4, 11},
     {0, 7, 11},
     {0, 2, 4, 5, 7, 9, 11},
     {0, 2, 9, 11},
     {0, 2, 3, 4, 7, 8, 9, 11},
     {0, 11},
     0 .. 11 >>

Wall_Map == UNION {{12 * (r - 1) + c : c \in WallCols[r]} : r \in 1 .. 12}
=============================================================================
