------------------------------- MODULE Avatar -------------------------------
(***************************************************************************)
(* One player's avatar (Avatar_1.sv; Avatar_2.sv is the same circuit with  *)
(* its own five key codes).  Every action is one rising edge of Frame_Clk, *)
(* that is, one video frame.  The avatar walks one cell at a time: a key   *)
(* accepted while Ready starts a step that takes Cell frames of one pixel  *)
(* each, and no key is looked at before the step is over.                  *)
(*                                                                         *)
(* Reset, Keycode and the bomb, tree and flame maps are inputs of the      *)
(* circuit; the model chooses at every frame what the circuit reads from   *)
(* them.  So the reads that fall outside the 144-bit maps, whose value the *)
(* language leaves undefined, are covered by the same choice.              *)
(***************************************************************************)
EXTENDS Integers

CONSTANTS
  Half,       \* half the side of a cell in pixels (10'd20)
  Cols,       \* cells in a row, and rows (12)
  Modulus,    \* 2^10: positions and motions are 10-bit unsigned
  Wall,       \* the cell indices whose bit is set in Wall_Map
  StartCol,   \* the start cell, as Avatar_X_Center and Avatar_Y_Center
  StartRow

Cell == 2 * Half
Board == 0 .. Cols * Cols - 1
CenterOf(c) == Half + Cell * c

(***************************************************************************)
(* Nothing in the circuit bounds a position: what keeps an avatar on the   *)
(* board is that the wall map passed to it has a closed border.            *)
(***************************************************************************)
Bordered ==
  \A col, row \in 0 .. Cols - 1 :
    (col \in {0, Cols - 1} \/ row \in {0, Cols - 1}) => Cols * row + col \in Wall

ASSUME SizeAssumption ==
  /\ Half \in 1 .. 128              \* Step_Count counts to 2 * Half in 8 bits
  /\ Cols \in Nat /\ Cols >= 3
  /\ Modulus \in Nat /\ Cell * Cols + Half < Modulus

ASSUME WallAssumption == Wall \subseteq Board /\ Bordered

ASSUME StartAssumption ==
  /\ StartCol \in 0 .. Cols - 1 /\ StartRow \in 0 .. Cols - 1
  /\ Cols * StartRow + StartCol \notin Wall

VARIABLES
  Powered,      \* the register Init, inverted: FALSE until the first frame
  Ready,        \* no step is under way
  X, Y,         \* Avatar_X_Pos, Avatar_Y_Pos: the centre of the avatar
  XMotion, YMotion,   \* added to the position in every frame of a step
  Step_Count,   \* frames of the current step that have gone by
  Dir,          \* Avatar_Dir: which way the avatar faces
  Bomb_Index,   \* the cell a bomb is asked for in, 0 for none
  Is_Dead

place == <<X, Y, XMotion, YMotion>>
vars == <<Powered, Ready, place, Step_Count, Dir, Bomb_Index, Is_Dead>>

Directions == {"up", "left", "down", "right"}
MinusOne == Modulus - 1            \* ~10'd1 + 1'b1

FlagsOK == Powered \in BOOLEAN /\ Ready \in BOOLEAN /\ Is_Dead \in BOOLEAN
NumbersOK ==
  /\ X \in 0 .. Modulus - 1 /\ Y \in 0 .. Modulus - 1
  /\ XMotion \in {0, 1, MinusOne} /\ YMotion \in {0, 1, MinusOne}
  /\ Step_Count \in 0 .. Cell - 1
  /\ Dir \in Directions
  /\ Bomb_Index \in Nat

TypeOK == FlagsOK /\ NumbersOK

-----------------------------------------------------------------------------
(* The cell an avatar is in, by 10-bit subtraction and truncating division *)

X_C == ((X - Half) % Modulus) \div Cell
Y_C == ((Y - Half) % Modulus) \div Cell
Index == Cols * Y_C + X_C

Neighbour(i, d) ==
  CASE d = "left"  -> i - 1
    [] d = "right" -> i + 1
    [] d = "up"    -> i - Cols
    [] d = "down"  -> i + Cols

Can_WallsOpen(d, occupied) == ~occupied

(* A wall, or a bomb or tree read there (occupied), closes a direction.    *)
Can(d, occupied) == ~occupied /\ Neighbour(Index, d) \notin Wall

(***************************************************************************)
(* The code tests the old motion with >= 0 and < 0, which on an unsigned   *)
(* vector are always true and never true: the new motion is the key's.     *)
(***************************************************************************)
XMotionOf(d) == CASE d = "left" -> MinusOne [] d = "right" -> 1 [] OTHER -> 0
YMotionOf(d) == CASE d = "up" -> MinusOne [] d = "down" -> 1 [] OTHER -> 0

Init ==
  /\ Powered = FALSE /\ Ready = TRUE
  /\ X = 0 /\ Y = 0 /\ XMotion = 0 /\ YMotion = 0
  /\ Step_Count = 0 /\ Dir = "down" /\ Bomb_Index = 0 /\ Is_Dead = FALSE

ResetFrame_BombStays ==
  /\ Powered' = TRUE
  /\ X' = CenterOf(StartCol) /\ Y' = CenterOf(StartRow)
  /\ XMotion' = 0 /\ YMotion' = 0
  /\ Step_Count' = 0 /\ Dir' = "down" /\ Is_Dead' = FALSE
  /\ UNCHANGED <<Ready, Bomb_Index>>

ResetFrame_MotionStays ==
  /\ Powered' = TRUE
  /\ X' = CenterOf(StartCol) /\ Y' = CenterOf(StartRow)
  /\ Step_Count' = 0 /\ Dir' = "down" /\ Bomb_Index' = 0 /\ Is_Dead' = FALSE
  /\ UNCHANGED <<Ready, XMotion, YMotion>>

(***************************************************************************)
(* Reset, or the first frame after configuration.  Ready is not among the  *)
(* registers it writes.                                                    *)
(***************************************************************************)
ResetFrame ==
  /\ Powered' = TRUE
  /\ X' = CenterOf(StartCol) /\ Y' = CenterOf(StartRow)
  /\ XMotion' = 0 /\ YMotion' = 0
  /\ Step_Count' = 0 /\ Dir' = "down" /\ Bomb_Index' = 0 /\ Is_Dead' = FALSE
  /\ UNCHANGED Ready

(* Flame_Map[Index] is read as one. *)
Burn ==
  /\ Powered
  /\ Is_Dead' = TRUE
  /\ X' = 0 /\ Y' = 0 /\ XMotion' = 0 /\ YMotion' = 0
  /\ UNCHANGED <<Powered, Ready, Step_Count, Dir, Bomb_Index>>

(* One of the keys w, a, s, d while no step is under way. *)
Turn(d, occupied) ==
  /\ Powered /\ Ready
  /\ Dir' = d /\ Bomb_Index' = 0
  /\ \/ /\ Can(d, occupied)
        /\ Ready' = FALSE
        /\ XMotion' = XMotionOf(d) /\ YMotion' = YMotionOf(d)
     \/ /\ ~Can(d, occupied)
        /\ XMotion' = 0 /\ YMotion' = 0
        /\ UNCHANGED Ready
  /\ UNCHANGED <<Powered, X, Y, Step_Count, Is_Dead>>

DropBomb ==
  /\ Powered /\ Ready
  /\ Bomb_Index' = Index
  /\ UNCHANGED <<Powered, Ready, place, Step_Count, Dir, Is_Dead>>

(* Any other key code, or none. *)
Idle ==
  /\ Powered /\ Ready
  /\ Bomb_Index' = 0
  /\ UNCHANGED <<Powered, Ready, place, Step_Count, Dir, Is_Dead>>

Stride_NoWrap ==
  /\ Powered /\ ~Ready
  /\ Bomb_Index' = 0
  /\ X' = X + XMotion /\ Y' = Y + YMotion
  /\ Step_Count' = (Step_Count + 1) % Cell /\ Ready' = (Step_Count = Cell - 1)
  /\ UNCHANGED <<Powered, XMotion, YMotion, Dir, Is_Dead>>

Stride_EndsOneFrameEarly ==
  /\ Powered /\ ~Ready
  /\ Bomb_Index' = 0
  /\ X' = (X + XMotion) % Modulus /\ Y' = (Y + YMotion) % Modulus
  /\ Step_Count' = (Step_Count + 1) % (Cell - 1)
  /\ Ready' = (Step_Count = Cell - 2)
  /\ UNCHANGED <<Powered, XMotion, YMotion, Dir, Is_Dead>>

Stride_NeverReady ==
  /\ Powered /\ ~Ready
  /\ Bomb_Index' = 0
  /\ X' = (X + XMotion) % Modulus /\ Y' = (Y + YMotion) % Modulus
  /\ Step_Count' = (Step_Count + 1) % Cell
  /\ UNCHANGED <<Powered, Ready, XMotion, YMotion, Dir, Is_Dead>>

(* A frame of a step: the keys are not looked at. *)
Stride ==
  /\ Powered /\ ~Ready
  /\ Bomb_Index' = 0
  /\ X' = (X + XMotion) % Modulus /\ Y' = (Y + YMotion) % Modulus
  /\ \/ /\ Step_Count = Cell - 1
        /\ Step_Count' = 0 /\ Ready' = TRUE
     \/ /\ Step_Count # Cell - 1
        /\ Step_Count' = Step_Count + 1 /\ UNCHANGED Ready
  /\ UNCHANGED <<Powered, XMotion, YMotion, Dir, Is_Dead>>

Next ==
  \/ ResetFrame
  \/ Burn
  \/ \E d \in Directions, occupied \in BOOLEAN : Turn(d, occupied)
  \/ DropBomb
  \/ Idle
  \/ Stride

Spec == Init /\ [][Next]_vars

(***************************************************************************)
(* The frame clock never stops (it comes from the free-running VGA         *)
(* counters) and neither Reset nor a flame is there at every frame, so a   *)
(* step that is under way gets its next frame.                             *)
(***************************************************************************)
FairSpec == Spec /\ WF_vars(Stride)

-----------------------------------------------------------------------------
(***************************************************************************)
(* Properties.  An avatar that is not dead is described by the cell it     *)
(* left last (its position less the way it has come in this step) and the  *)
(* cell it goes to.                                                        *)
(***************************************************************************)
Alive == Powered /\ ~Is_Dead

Way(motion) ==
  CASE motion = MinusOne -> 0 - Step_Count
    [] motion = 1        -> Step_Count
    [] OTHER             -> 0

FromX == X - Way(XMotion)
FromY == Y - Way(YMotion)
FromCell == Cols * ((FromY - Half) \div Cell) + ((FromX - Half) \div Cell)

Walking == ~Ready /\ (XMotion # 0 \/ YMotion # 0)
ToCell == IF Walking THEN Neighbour(FromCell, Dir) ELSE FromCell

(* A living avatar is always exactly on the line between the centres of    *)
(* two neighbouring cells, neither of them a wall, along the way it faces: *)
(* no sequence of keys, bombs, resets and frames brings it off the grid.   *)
OnTheGrid ==
  Alive =>
    /\ (FromX - Half) % Cell = 0 /\ (FromY - Half) % Cell = 0
    /\ {FromCell, ToCell} \subseteq Board \ Wall
    /\ Walking => XMotion = XMotionOf(Dir) /\ YMotion = YMotionOf(Dir)

(* While an avatar lives, the map bits the circuit reads for it (its own   *)
(* cell for flames, the four neighbours for walls, bombs and trees) are    *)
(* among the 144 bits there are, although nothing in the code checks it,   *)
(* and its own cell is one of the two it is between.                       *)
ReadsOnBoard ==
  Alive => /\ Index \in {FromCell, ToCell}
           /\ \A d \in Directions : Neighbour(Index, d) \in Board

(* A bomb is asked for only in the cell its avatar stands in, and that     *)
(* cell is never 0, the value of Bomb_Index that stands for "no bomb".     *)
BombWhereItStands ==
  Alive => Bomb_Index \in {0, FromCell} /\ FromCell # 0

(* Only a reset revives: a dead avatar that is not dead in the next frame  *)
(* is at its start, faces down and has no bomb.                            *)
DeathLastsUntilReset ==
  [][Is_Dead /\ ~Is_Dead' =>
       /\ X' = CenterOf(StartCol) /\ Y' = CenterOf(StartRow)
       /\ Dir' = "down" /\ Bomb_Index' = 0]_vars

(***************************************************************************)
(* The inductive invariant behind these: a living avatar has left, on its  *)
(* way along the direction it faces, the centre of a cell (c, r) that is   *)
(* no wall for a neighbour that is none.                                   *)
(***************************************************************************)
LeftFrom(c, r) ==
  /\ Cols * r + c \notin Wall
  /\ FromX = CenterOf(c) /\ FromY = CenterOf(r)
  /\ Bomb_Index \in {0, Cols * r + c}
  /\ Walking => /\ XMotion = XMotionOf(Dir) /\ YMotion = YMotionOf(Dir)
                /\ Neighbour(Cols * r + c, Dir) \notin Wall

GridInv ==
  /\ TypeOK
  /\ Ready => Step_Count = 0
  /\ Alive => \E c, r \in 0 .. Cols - 1 : LeftFrom(c, r)

(* The pixel by pixel avatar implements the cell by cell one. *)
Game == INSTANCE CellAvatar WITH
  Start  <- Cols * StartRow + StartCol,
  alive  <- Alive,
  cell   <- IF Alive THEN FromCell ELSE -1,
  target <- IF Alive THEN ToCell ELSE -1

ImplementsCellAvatar == Game!Spec

(* A step that has begun ends, and the keys are looked at again, unless    *)
(* resets keep coming: even after a flame or a reset has stopped the       *)
(* motion, the count goes on.                                              *)
StepEnds == ([]<>Ready) \/ ([]<><<ResetFrame>>_vars)
=============================================================================
