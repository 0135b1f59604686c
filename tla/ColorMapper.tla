---------------------------- MODULE ColorMapper ----------------------------
(***************************************************************************)
(* What the picture of the game shows at a pixel (Color_Mapper_Final.sv,   *)
(* state 2'b01): which texel of an avatar's sprite sheet, and what lies    *)
(* under it.  The colours, the sprites themselves and the texts beside the *)
(* board are data.                                                         *)
(***************************************************************************)
EXTENDS Integers

width == 20
height == 40

(***************************************************************************)
(* A screen coordinate is unsigned and is compared with the difference or  *)
(* sum of two ints, so as 32-bit unsigned numbers; the 16 bits of the      *)
(* model are as far beyond the 10 bits of any coordinate.                  *)
(***************************************************************************)
Unsigned(i) == i % 2^16
Between(draw, low, high) == draw >= Unsigned(low) /\ draw < Unsigned(high)

av_on_OneColumnMore(x, y, X0, Y0) ==
  Between(x, X0 - width, X0 + width + 1) /\ Between(y, Y0 - height, Y0 + width)

(* The pixel (x, y) shows the avatar at (X0, Y0), whose centre is the      *)
(* centre of a cell and which is one and a half cells tall.                *)
av_on(x, y, X0, Y0) ==
  Between(x, X0 - width, X0 + width) /\ Between(y, Y0 - height, Y0 + width)

(* A sheet holds three poses of 60 rows.  The sheet for the left is the    *)
(* one for the right, mirrored.                                            *)
Pose(step) ==
  IF step < 2 \/ step > 37 THEN 60 ELSE IF (step \div 4) % 2 = 0 THEN 120 ELSE 0
Row(y, Y0, step) == y - Y0 + height + Pose(step)
Column(x, X0, dir) == IF dir = "left" THEN 39 - (x - X0 + width) ELSE x - X0 + width

cell_at_FromCenter(x, y) == 12 * ((y - 20) \div 40) + (x - 20) \div 40

(* The map bit of the cell a pixel of the board is in. *)
cell_at(x, y) == 12 * (y \div 40) + x \div 40

(* The 16 by 16 pixels of a treasure, of the 40 by 40 of its cell. *)
coin_at(x, y) == x % 40 \in 13 .. 28 /\ y % 40 \in 13 .. 28

(* What lies on a cell hides what is behind it in this list. *)
Layer(x, y, Bomb_Map, Wall_Map, Flame_Map, Tree_Map, Treasure_Map) ==
  LET at(Map) == x < 480 /\ cell_at(x, y) \in Map
  IN  CASE x >= 480 -> "beside"
        [] at(Bomb_Map) -> "bomb"
        [] at(Wall_Map \ Bomb_Map) -> "wall"
        [] at(Flame_Map \ (Bomb_Map \cup Wall_Map)) -> "flame"
        [] at(Tree_Map \ (Bomb_Map \cup Wall_Map \cup Flame_Map)) -> "tree"
        [] at(Treasure_Map \ (Bomb_Map \cup Wall_Map \cup Flame_Map \cup Tree_Map))
             /\ coin_at(x, y) -> "coin"
        [] OTHER -> "ground"
=============================================================================
