--------------------------- MODULE PictureProofs ---------------------------
(***************************************************************************)
(* The picture of an avatar agrees with the avatar on every board of the   *)
(* size the picture is made for, whatever its walls, its start cell, the   *)
(* keys, bombs, flames and resets.                                         *)
(***************************************************************************)
EXTENDS Picture, AvatarProofs

-----------------------------------------------------------------------------
(* Cells and pixels *)

(* The pixels of a cell, and the cell of such a pixel. *)
InCell(x, y, col, row) ==
  /\ x \in Int /\ 40 * col <= x /\ x < 40 * col + 40
  /\ y \in Int /\ 40 * row <= y /\ y < 40 * row + 40

(* cell_at of a pixel of a cell. *)
LEMMA CellAtPixel ==
  ASSUME NEW col \in 0 .. 11, NEW row \in 0 .. 11, NEW x, NEW y, InCell(x, y, col, row)
  PROVE  cell_at(x, y) = 12 * row + col
<1>1. x \div 40 = col /\ y \div 40 = row
  BY DEF InCell
<1> QED
  BY <1>1 DEF cell_at

(* Between the differences and sums of coordinates that are not negative   *)
(* the unsigned comparison is the ordinary one.                            *)
LEMMA BetweenIs ==
  ASSUME NEW draw \in Int, NEW low \in 0 .. 600, NEW high \in 0 .. 600
  PROVE  Between(draw, low, high) <=> draw >= low /\ draw < high
  BY DEF Between, Unsigned

(* Which half of the three poses a row is of. *)
LEMMA PoseIs ==
  ASSUME NEW s \in 0 .. 39, NEW y \in 0 .. 59
  PROVE  /\ Pose(s) \in {0, 60, 120}
         /\ y + Pose(s) \in 0 .. 179 /\ (y + Pose(s)) \div 60 = Pose(s) \div 60
<1>1. Pose(s) \in {0, 60, 120}
  BY DEF Pose
<1> HIDE DEF Pose
<1> QED
  BY <1>1

-----------------------------------------------------------------------------
(* Where a living avatar is *)

(***************************************************************************)
(* An avatar p pixels right of, or q pixels below, the centre of the cell  *)
(* (c, r): on its way from one of the cells it is over to the other.       *)
(***************************************************************************)
Over(c, r, p, q) ==
  /\ X = 20 + 40 * c + p /\ Y = 20 + 40 * r + q /\ (p = 0 \/ q = 0)
  /\ c \in 1 .. 10 /\ r \in 1 .. 10
  /\ p > 0 => c + 1 \in 1 .. 10
  /\ q > 0 => r + 1 \in 1 .. 10
  /\ 12 * r + c \in {FromCell, ToCell}
  /\ p > 0 => 12 * r + c + 1 \in {FromCell, ToCell}
  /\ q > 0 => 12 * r + 12 + c \in {FromCell, ToCell}
  /\ {FromCell, ToCell} \cap Wall = {}
  /\ Ready => p = 0 /\ q = 0

(* A living avatar is over two cells, or one. *)
LEMMA OverTwoCells ==
  ASSUME GridInv, Alive
  PROVE  \E c, r \in 0 .. 11, p, q \in 0 .. 39 : Over(c, r, p, q)
<1> USE PictureAssumption DEF PictureAssumption
<1> PICK c \in 0 .. 11, r \in 0 .. 11 : LeftFrom(c, r)
  BY DEF GridInv
<1>1. /\ Step_Count \in 0 .. 39 /\ Dir \in Directions /\ X \in Nat /\ Y \in Nat
      /\ XMotion \in {0, 1, MinusOne} /\ YMotion \in {0, 1, MinusOne} /\ MinusOne \notin {0, 1}
      /\ Ready => Step_Count = 0
  <2>1. MinusOne \notin {0, 1}
    BY SizeAssumption DEF SizeAssumption, MinusOne, Cell
  <2> QED
    BY <2>1 DEF GridInv, TypeOK, NumbersOK, Cell
<1>2. X = 20 + 40 * c + Way(XMotion) /\ Y = 20 + 40 * r + Way(YMotion)
  <2>1. Way(XMotion) \in Int /\ Way(YMotion) \in Int
    BY <1>1 DEF Way
  <2> QED
    BY <1>1, <2>1 DEF LeftFrom, FromX, FromY, CenterOf, Cell
<1>3. c \in 1 .. 10 /\ r \in 1 .. 10
  BY FreeCellIsInside DEF LeftFrom
<1>4. FromCell = 12 * r + c /\ {FromCell, ToCell} \cap Wall = {}
  BY CellsOfInv DEF GridInv
<1>5. CASE Step_Count = 0 \/ ~Walking
  <2>1. Way(XMotion) = 0 /\ Way(YMotion) = 0
    BY <1>1, <1>5 DEF Way, Walking
  <2>2. Over(c, r, 0, 0) /\ 0 \in 0 .. 39
    BY <1>2, <1>3, <1>4, <2>1 DEF Over
  <2> QED
    BY <2>2, Zenon
<1>6. CASE Step_Count > 0 /\ Walking
  <2>1. ~Ready /\ XMotion = XMotionOf(Dir) /\ YMotion = YMotionOf(Dir)
    BY <1>6 DEF LeftFrom, Walking
  <2>2. /\ ToCell = Neighbour(12 * r + c, Dir)
        /\ ToCell \notin Wall
    BY <1>4, <1>6 DEF ToCell
  <2>3. CASE Dir = "right"
    <3>1. Way(XMotion) = Step_Count /\ Way(YMotion) = 0
      BY <1>1, <2>1, <2>3 DEF Way, XMotionOf, YMotionOf
    <3>2. ToCell = 12 * r + (c + 1) /\ c + 1 \in 0 .. 11
      BY <1>3, <2>2, <2>3 DEF Neighbour
    <3>3. c + 1 \in 1 .. 10
      BY <2>2, <3>2, FreeCellIsInside
    <3>4. Over(c, r, Step_Count, 0)
      BY <1>1, <1>2, <1>3, <1>4, <1>6, <2>1, <3>1, <3>2, <3>3 DEF Over
    <3>5. 0 \in 0 .. 39 /\ Step_Count \in 0 .. 39
      BY <1>1, <1>6
    <3> QED
      BY <3>4, <3>5, Zenon
  <2>4. CASE Dir = "left"
    <3>1. Way(XMotion) = 0 - Step_Count /\ Way(YMotion) = 0
      BY <1>1, <2>1, <2>4 DEF Way, XMotionOf, YMotionOf
    <3>2. ToCell = 12 * r + (c - 1) /\ c - 1 \in 0 .. 11
      BY <1>3, <2>2, <2>4 DEF Neighbour
    <3>3. c - 1 \in 1 .. 10
      BY <2>2, <3>2, FreeCellIsInside
    <3>4. Over(c - 1, r, 40 - Step_Count, 0)
      BY <1>1, <1>2, <1>3, <1>4, <1>6, <2>1, <3>1, <3>2, <3>3 DEF Over
    <3>5. 0 \in 0 .. 39 /\ 40 - Step_Count \in 0 .. 39
      BY <1>1, <1>6
    <3> QED
      BY <3>2, <3>4, <3>5, Zenon
  <2>5. CASE Dir = "down"
    <3>1. Way(XMotion) = 0 /\ Way(YMotion) = Step_Count
      BY <1>1, <2>1, <2>5 DEF Way, XMotionOf, YMotionOf
    <3>2. ToCell = 12 * (r + 1) + c /\ r + 1 \in 0 .. 11
      BY <1>3, <2>2, <2>5 DEF Neighbour
    <3>3. r + 1 \in 1 .. 10
      BY <2>2, <3>2, FreeCellIsInside
    <3>4. Over(c, r, 0, Step_Count)
      BY <1>1, <1>2, <1>3, <1>4, <1>6, <2>1, <3>1, <3>2, <3>3 DEF Over
    <3>5. 0 \in 0 .. 39 /\ Step_Count \in 0 .. 39
      BY <1>1, <1>6
    <3> QED
      BY <3>4, <3>5, Zenon
  <2>6. CASE Dir = "up"
    <3>1. Way(XMotion) = 0 /\ Way(YMotion) = 0 - Step_Count
      BY <1>1, <2>1, <2>6 DEF Way, XMotionOf, YMotionOf
    <3>2. ToCell = 12 * (r - 1) + c /\ r - 1 \in 0 .. 11
      BY <1>3, <2>2, <2>6 DEF Neighbour
    <3>3. r - 1 \in 1 .. 10
      BY <2>2, <3>2, FreeCellIsInside
    <3>4. Over(c, r - 1, 0, 40 - Step_Count)
      BY <1>1, <1>2, <1>3, <1>4, <1>6, <2>1, <3>1, <3>2, <3>3 DEF Over
    <3>5. 0 \in 0 .. 39 /\ 40 - Step_Count \in 0 .. 39
      BY <1>1, <1>6
    <3> QED
      BY <3>2, <3>4, <3>5, Zenon
  <2> QED
    BY <1>1, <2>3, <2>4, <2>5, <2>6 DEF Directions
<1>7. Step_Count = 0 \/ Step_Count > 0
  BY <1>1
<1> QED
  BY <1>5, <1>6, <1>7

-----------------------------------------------------------------------------
(* What the picture shows there *)

(* A pixel of the avatar: on the board, and from a row of the pose.        *)
Shown(x, y) ==
  /\ x \in 0 .. 479 /\ y \in 0 .. 479 /\ av_on(x, y, X, Y)
  /\ Row(y, Y, Step_Count) \in 0 .. 179
  /\ Row(y, Y, Step_Count) \div 60 = Pose(Step_Count) \div 60
  /\ Column(x, X, Dir) \in 0 .. 39

(* The corners of the sprite are on the screen and show the avatar. *)
LEMMA CornersDrawn ==
  ASSUME GridInv, NEW c \in 0 .. 11, NEW r \in 0 .. 11, NEW p \in 0 .. 39, NEW q \in 0 .. 39,
         Over(c, r, p, q), NEW x \in {X - 20, X + 19}, NEW y \in {Y - 40, Y + 19}
  PROVE  Shown(x, y)
<1>1. X \in 60 .. 420 /\ Y \in 60 .. 420
  BY DEF Over
<1>2. x \in 0 .. 479 /\ y \in 0 .. 479
  BY <1>1
<1>3. av_on(x, y, X, Y)
  <2>1. Between(x, X - 20, X + 20)
    <3>1. x \in Int /\ X - 20 \in 0 .. 600 /\ X + 20 \in 0 .. 600 /\ x >= X - 20 /\ x < X + 20
      BY <1>1
    <3> QED
      BY <3>1, BetweenIs, Zenon
  <2>2. Between(y, Y - 40, Y + 20)
    <3>1. y \in Int /\ Y - 40 \in 0 .. 600 /\ Y + 20 \in 0 .. 600 /\ y >= Y - 40 /\ y < Y + 20
      BY <1>1
    <3> QED
      BY <3>1, BetweenIs, Zenon
  <2> QED
    BY <2>1, <2>2 DEF av_on, width, height
<1>4. Column(x, X, Dir) \in 0 .. 39
  BY <1>1 DEF Column, width
<1>5. Row(y, Y, Step_Count) \in 0 .. 179 /\ Row(y, Y, Step_Count) \div 60 = Pose(Step_Count) \div 60
  <2>1. Step_Count \in 0 .. 39
    BY PictureAssumption DEF GridInv, TypeOK, NumbersOK, Cell, PictureAssumption
  <2> DEFINE line == y - Y + 40
  <2>2. line \in 0 .. 59
    BY <1>1
  <2>3. Row(y, Y, Step_Count) = line + Pose(Step_Count)
    BY DEF Row, height
  <2> HIDE DEF line
  <2>4. line + Pose(Step_Count) \in 0 .. 179 /\ (line + Pose(Step_Count)) \div 60 = Pose(Step_Count) \div 60
    BY <2>1, <2>2, PoseIs
  <2> QED
    BY <2>3, <2>4, Zenon
<1> QED
  BY <1>2, <1>3, <1>4, <1>5 DEF Shown

(* One pixel further out nothing of it is shown. *)
LEMMA NothingBeside ==
  ASSUME NEW c \in 0 .. 11, NEW r \in 0 .. 11, NEW p \in 0 .. 39, NEW q \in 0 .. 39,
         Over(c, r, p, q), NEW pixel \in Beside
  PROVE  ~av_on(pixel[1], pixel[2], X, Y)
<1>1. X \in 60 .. 420 /\ Y \in 60 .. 420
  BY DEF Over
<1>2. pixel[1] \in {X - 21, X + 20} \/ pixel[2] \in {Y - 41, Y + 20}
  BY DEF Beside
<1>3. CASE pixel[1] \in {X - 21, X + 20}
  <2>1. ~Between(pixel[1], X - 20, X + 20)
    <3>1. /\ pixel[1] \in Int /\ X - 20 \in 0 .. 600 /\ X + 20 \in 0 .. 600
          /\ ~(pixel[1] >= X - 20 /\ pixel[1] < X + 20)
      BY <1>1, <1>3
    <3> QED
      BY <3>1, BetweenIs, Zenon
  <2> QED
    BY <2>1 DEF av_on, width
<1>4. CASE pixel[2] \in {Y - 41, Y + 20}
  <2>1. ~Between(pixel[2], Y - 40, Y + 20)
    <3>1. /\ pixel[2] \in Int /\ Y - 40 \in 0 .. 600 /\ Y + 20 \in 0 .. 600
          /\ ~(pixel[2] >= Y - 40 /\ pixel[2] < Y + 20)
      BY <1>1, <1>4
    <3> QED
      BY <3>1, BetweenIs, Zenon
  <2> QED
    BY <2>1 DEF av_on, width, height
<1> QED
  BY <1>2, <1>3, <1>4

(* The body covers the two cells the avatar is over, which are no walls.   *)
LEMMA BodyOnItsCells ==
  ASSUME NEW c \in 0 .. 11, NEW r \in 0 .. 11, NEW p \in 0 .. 39, NEW q \in 0 .. 39,
         Over(c, r, p, q), NEW x \in {X - 20, X + 19}, NEW y \in {Y - 20, Y + 19}
  PROVE  cell_at(x, y) \in {FromCell, ToCell} /\ Layer(x, y, {}, Wall, {}, {}, {}) = "ground"
<1>1. \/ x = 40 * c + p
      \/ p = 0 /\ x = 40 * c + 39
      \/ p > 0 /\ x = 40 * (c + 1) + (p - 1)
  BY DEF Over
<1>2. \/ y = 40 * r + q
      \/ q = 0 /\ y = 40 * r + 39
      \/ q > 0 /\ y = 40 * (r + 1) + (q - 1)
  BY DEF Over
<1>3. cell_at(x, y) \in {FromCell, ToCell}
  <2>1. CASE (x = 40 * c + p \/ (p = 0 /\ x = 40 * c + 39)) /\ (y = 40 * r + q \/ (q = 0 /\ y = 40 * r + 39))
    <3>1. InCell(x, y, c, r)
      BY <2>1 DEF InCell
    <3>2. cell_at(x, y) = 12 * r + c
      BY <3>1, CellAtPixel, Zenon
    <3> QED
      BY <3>2 DEF Over
  <2>2. CASE p > 0 /\ x = 40 * (c + 1) + (p - 1)
    <3>1. q = 0 /\ c + 1 \in 0 .. 11 /\ p - 1 \in 0 .. 39
      BY <2>2 DEF Over
    <3>2. InCell(x, y, c + 1, r)
      BY <1>2, <2>2, <3>1 DEF InCell
    <3>3. cell_at(x, y) = 12 * r + (c + 1)
      BY <3>1, <3>2, CellAtPixel, Zenon
    <3> QED
      BY <2>2, <3>3 DEF Over
  <2>3. CASE q > 0 /\ y = 40 * (r + 1) + (q - 1)
    <3>1. p = 0 /\ r + 1 \in 0 .. 11 /\ q - 1 \in 0 .. 39
      BY <2>3 DEF Over
    <3>2. InCell(x, y, c, r + 1)
      BY <1>1, <2>3, <3>1 DEF InCell
    <3>3. cell_at(x, y) = 12 * (r + 1) + c
      BY <3>1, <3>2, CellAtPixel, Zenon
    <3> QED
      BY <2>3, <3>3 DEF Over
  <2> QED
    BY <1>1, <1>2, <2>1, <2>2, <2>3
<1>4. cell_at(x, y) \notin Wall
  BY <1>3 DEF Over
<1>5. x \in Int /\ x < 480
  BY DEF Over
<1> QED
  BY <1>3, <1>4, <1>5 DEF Layer

(* Cell of the picture and cell of the circuit are one. *)
LEMMA StandsWhereDrawn ==
  ASSUME NEW c \in 0 .. 11, NEW r \in 0 .. 11, NEW p \in 0 .. 39, NEW q \in 0 .. 39,
         Over(c, r, p, q), Ready
  PROVE  cell_at(X, Y) = Index
<1>1. p = 0 /\ q = 0 /\ X = 40 * c + 20 /\ Y = 40 * r + 20
  BY DEF Over
<1>2. cell_at(X, Y) = 12 * r + c
  <2>1. InCell(X, Y, c, r)
    BY <1>1 DEF InCell
  <2> QED
    BY <2>1, CellAtPixel, Zenon
<1>3. Index = 12 * r + c
  <2>1. X = CenterOf(c) /\ Y = CenterOf(r)
    BY <1>1, PictureAssumption DEF PictureAssumption, CenterOf, Cell
  <2> QED
    BY <2>1, IndexAtCentre, PictureAssumption DEF PictureAssumption
<1> QED
  BY <1>2, <1>3

(* A living avatar is drawn whole and where it is: on the board, over no   *)
(* wall, in no cell but the two it is between, and standing in the very    *)
(* cell the circuit looks for flames and puts its bombs in.                *)
THEOREM DrawnInItsCells == Spec => []DrawnWhereItIs
<1>1. GridInv => DrawnWhereItIs
  <2> SUFFICES ASSUME GridInv, Alive
               PROVE  /\ \A t \in Corners :
                           /\ t[1] \in 0 .. 479 /\ t[2] \in 0 .. 479 /\ av_on(t[1], t[2], X, Y)
                           /\ Row(t[2], Y, Step_Count) \in 0 .. 179
                           /\ Row(t[2], Y, Step_Count) \div 60 = Pose(Step_Count) \div 60
                           /\ Column(t[1], X, Dir) \in 0 .. 39
                      /\ \A t \in Beside : ~av_on(t[1], t[2], X, Y)
                      /\ \A t \in BodyCorners :
                           /\ cell_at(t[1], t[2]) \in {FromCell, ToCell}
                           /\ Layer(t[1], t[2], {}, Wall, {}, {}, {}) = "ground"
                      /\ Ready => cell_at(X, Y) = Index
    BY Zenon DEF DrawnWhereItIs
  <2> PICK c \in 0 .. 11, r \in 0 .. 11, p \in 0 .. 39, q \in 0 .. 39 : Over(c, r, p, q)
    BY OverTwoCells
  <2>1. ASSUME NEW t \in Corners
        PROVE  /\ t[1] \in 0 .. 479 /\ t[2] \in 0 .. 479 /\ av_on(t[1], t[2], X, Y)
               /\ Row(t[2], Y, Step_Count) \in 0 .. 179
               /\ Row(t[2], Y, Step_Count) \div 60 = Pose(Step_Count) \div 60
               /\ Column(t[1], X, Dir) \in 0 .. 39
    <3>1. t[1] \in {X - 20, X + 19} /\ t[2] \in {Y - 40, Y + 19}
      BY DEF Corners
    <3>2. Shown(t[1], t[2])
      BY <3>1, CornersDrawn, Zenon
    <3> QED
      BY <3>2 DEF Shown
  <2>2. ASSUME NEW t \in Beside PROVE ~av_on(t[1], t[2], X, Y)
    BY NothingBeside
  <2>3. ASSUME NEW t \in BodyCorners
        PROVE  cell_at(t[1], t[2]) \in {FromCell, ToCell} /\ Layer(t[1], t[2], {}, Wall, {}, {}, {}) = "ground"
    <3>1. t[1] \in {X - 20, X + 19} /\ t[2] \in {Y - 20, Y + 19}
      BY DEF BodyCorners
    <3> QED
      BY <3>1, BodyOnItsCells, Zenon
  <2> QED
    BY <2>1, <2>2, <2>3, StandsWhereDrawn
<1> QED
  BY <1>1, GridInvariant, PTL
=============================================================================
