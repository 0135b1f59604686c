---------------------------- MODULE AvatarProofs ----------------------------
(***************************************************************************)
(* Proofs about Avatar.tla for every cell size, board, wall map with a     *)
(* closed border and start cell.                                           *)
(***************************************************************************)
EXTENDS Avatar, TLAPS

USE SizeAssumption DEF SizeAssumption

-----------------------------------------------------------------------------
(* Arithmetic of cells and pixels *)

(* Division of an offset inside a cell: the cell, and the offset. *)
LEMMA CellOfPixel ==
  ASSUME NEW c \in Nat, NEW o \in 0 .. Cell - 1
  PROVE  (Cell * c + o) \div Cell = c /\ (Cell * c + o) % Cell = o
BY SMT DEF Cell

(* A cell centre leaves room for a whole cell below the modulus. *)
LEMMA CentersFit ==
  ASSUME NEW c \in 0 .. Cols - 1
  PROVE  /\ Cell * c \in Nat
         /\ Cell * c + Cell + Half < Modulus
         /\ CenterOf(c) = Half + Cell * c
<1>1. Cell * c \in Nat /\ Cell * c + Cell <= Cell * Cols BY SMT DEF Cell
<1> QED BY <1>1, SMT DEF CenterOf, Cell

(* A cell that is no wall is not on the border, so that its neighbours are  *)
(* cells of the board, and none of these five indices is the 0 of a bomb.  *)
LEMMA FreeCellIsInside ==
  ASSUME NEW c \in 0 .. Cols - 1, NEW r \in 0 .. Cols - 1, Cols * r + c \notin Wall
  PROVE  /\ c \in 1 .. Cols - 2 /\ r \in 1 .. Cols - 2
         /\ Cols * r + c \in Board /\ Cols * r + c # 0
         /\ \A d \in Directions : Neighbour(Cols * r + c, d) \in Board
<1>1. c \in 1 .. Cols - 2 /\ r \in 1 .. Cols - 2
  <2>1. c \in {0, Cols - 1} \/ r \in {0, Cols - 1} => Cols * r + c \in Wall
    BY WallAssumption, Zenon DEF WallAssumption, Bordered
  <2>2. c # 0 /\ c # Cols - 1 /\ r # 0 /\ r # Cols - 1
    BY <2>1
  <2> QED BY <2>2, SMT
<1>2. Cols * r + Cols + Cols <= Cols * Cols /\ Cols * r >= Cols /\ Cols * r \in Nat
  BY <1>1, SMT
<1>3. Cols * Cols \in Nat BY SMT
<1> QED BY <1>1, <1>2, <1>3, SMT DEF Board, Directions, Neighbour

(* One frame of a step moves the centre by one pixel and never wraps; the  *)
(* last frame brings it to the centre of the next cell.                    *)
LEMMA NextPixel ==
  ASSUME NEW c \in 1 .. Cols - 2, NEW s \in 0 .. Cell - 1
  PROVE  /\ CenterOf(c) % Modulus = CenterOf(c)
         /\ (CenterOf(c) + s + 1) % Modulus = CenterOf(c) + s + 1
         /\ (CenterOf(c) - s + MinusOne) % Modulus = CenterOf(c) - s - 1
         /\ CenterOf(c) + Cell = CenterOf(c + 1)
         /\ CenterOf(c) - Cell = CenterOf(c - 1)
         /\ CenterOf(c) - s - 1 \in 0 .. Modulus - 1
         /\ CenterOf(c) + s + 1 \in 0 .. Modulus - 1
         /\ CenterOf(c) \in 0 .. Modulus - 1
<1> DEFINE k == Cell * c
<1>1. CenterOf(c) = Half + k /\ k \in Nat /\ k >= Cell /\ k + Cell + Half < Modulus
  BY CentersFit, SMT DEF Cell
<1>2. Cell * (c + 1) = k + Cell /\ Cell * (c - 1) = k - Cell
  BY SMT DEF Cell
<1>3. Cell \in Nat /\ Half \in Nat /\ Modulus \in Nat /\ Half > 0 BY SMT DEF Cell
<1> HIDE DEF k
<1>4. CenterOf(c + 1) = Half + k + Cell /\ CenterOf(c - 1) = Half + k - Cell
  BY <1>2, <1>3, <1>1, SMT DEF CenterOf
<1> QED BY <1>1, <1>3, <1>4, SMT DEF MinusOne

(* The index the circuit computes anywhere between a cell's centre and the *)
(* next centre to the right or below is that cell's.                       *)
LEMMA IndexFromCentre ==
  ASSUME NEW c \in 0 .. Cols - 1, NEW r \in 0 .. Cols - 1,
         NEW p \in 0 .. Cell - 1, NEW q \in 0 .. Cell - 1,
         X = CenterOf(c) + p, Y = CenterOf(r) + q
  PROVE  Index = Cols * r + c
<1>1. \A k \in 0 .. Cols - 1, o \in 0 .. Cell - 1 :
        (((CenterOf(k) + o) - Half) % Modulus) \div Cell = k
  <2> SUFFICES ASSUME NEW k \in 0 .. Cols - 1, NEW o \in 0 .. Cell - 1
               PROVE  (((CenterOf(k) + o) - Half) % Modulus) \div Cell = k
    OBVIOUS
  <2> DEFINE n == Cell * k
  <2>1. n \in Nat /\ n + o \in 0 .. Modulus - 1 /\ (CenterOf(k) + o) - Half = n + o
    BY CentersFit, SMT DEF Cell
  <2>2. (n + o) \div Cell = k BY CellOfPixel, SMT DEF Cell
  <2> HIDE DEF n
  <2>3. (n + o) % Modulus = n + o BY <2>1, SMT
  <2> QED BY <2>1, <2>2, <2>3
<1>2. X_C = c
  <2>1. (((CenterOf(c) + p) - Half) % Modulus) \div Cell = c BY <1>1
  <2> QED BY <2>1 DEF X_C
<1>3. Y_C = r
  <2>1. (((CenterOf(r) + q) - Half) % Modulus) \div Cell = r BY <1>1
  <2> QED BY <2>1 DEF Y_C
<1> QED BY <1>2, <1>3 DEF Index

LEMMA IndexAtCentre ==
  ASSUME NEW c \in 0 .. Cols - 1, NEW r \in 0 .. Cols - 1,
         X = CenterOf(c), Y = CenterOf(r)
  PROVE  Index = Cols * r + c
<1>1. 0 \in 0 .. Cell - 1 BY SMT DEF Cell
<1>2. X = CenterOf(c) + 0 /\ Y = CenterOf(r) + 0 BY CentersFit, SMT DEF Cell
<1> QED BY <1>1, <1>2, IndexFromCentre

LEMMA IndexIsNat == TypeOK => Index \in Nat
<1> SUFFICES ASSUME TypeOK PROVE Index \in Nat OBVIOUS
<1>1. (X - Half) % Modulus \in Nat /\ (Y - Half) % Modulus \in Nat
  BY SMT DEF TypeOK, NumbersOK
<1>2. \A n \in Nat : n \div Cell \in Nat BY SMT DEF Cell
<1>3. X_C \in Nat /\ Y_C \in Nat BY <1>1, <1>2, Zenon DEF X_C, Y_C
<1>4. Cols * Y_C \in Nat BY <1>3, SMT
<1> QED BY <1>3, <1>4, SMT DEF Index

-----------------------------------------------------------------------------
(* The inductive invariant *)

LEMMA GridInvInit == Init => GridInv
<1> SUFFICES ASSUME Init PROVE GridInv OBVIOUS
<1>1. FlagsOK /\ ~Alive BY Zenon DEF Init, FlagsOK, Alive
<1>2. NumbersOK /\ Step_Count = 0
  <2>1. Cell * Cols \in Nat BY SMT DEF Cell
  <2> QED BY <2>1, SMT DEF Init, NumbersOK, Directions, Cell
<1> QED BY <1>1, <1>2 DEF GridInv, TypeOK

(* Type correctness and the count, which every frame keeps. *)
LEMMA TypeStep == GridInv /\ [Next]_vars => TypeOK' /\ (Ready => Step_Count = 0)'
<1> SUFFICES ASSUME GridInv, [Next]_vars
             PROVE  FlagsOK' /\ NumbersOK' /\ (Ready => Step_Count = 0)'
  BY DEF TypeOK
<1>1. Cell \in Nat /\ Cell > 1 /\ Modulus \in Nat /\ Modulus > 1
  <2>1. Cell * Cols \in Nat /\ Cell * Cols >= Cell BY SMT DEF Cell
  <2> QED BY <2>1, SMT DEF Cell
<1>2. MinusOne \in Nat BY <1>1, SMT DEF MinusOne
<1>3. FlagsOK /\ NumbersOK /\ (Ready => Step_Count = 0) BY DEF GridInv, TypeOK
<1>4. CASE ResetFrame
  <2>1. CenterOf(StartCol) \in 0 .. Modulus - 1 /\ CenterOf(StartRow) \in 0 .. Modulus - 1
    BY StartAssumption, CentersFit, <1>1, SMT DEF StartAssumption
  <2>2. NumbersOK' BY <1>4, <1>1, <2>1, SMT DEF ResetFrame, NumbersOK, Directions
  <2> QED BY <1>3, <1>4, <2>2, Zenon DEF ResetFrame, FlagsOK
<1>5. CASE Burn
  <2>1. NumbersOK' BY <1>3, <1>5, <1>1, SMT DEF Burn, NumbersOK
  <2> QED BY <1>3, <1>5, <2>1, Zenon DEF Burn, FlagsOK
<1>6. CASE \E d \in Directions, occupied \in BOOLEAN : Turn(d, occupied)
  <2> PICK d \in Directions, occupied \in BOOLEAN : Turn(d, occupied) BY <1>6
  <2>1. XMotionOf(d) \in {0, 1, MinusOne} /\ YMotionOf(d) \in {0, 1, MinusOne}
    BY DEF XMotionOf, YMotionOf, Directions
  <2>2. XMotion' \in {0, 1, MinusOne} /\ YMotion' \in {0, 1, MinusOne}
    BY <2>1 DEF Turn
  <2>3. /\ X' = X /\ Y' = Y /\ Step_Count' = Step_Count
        /\ Dir' \in Directions /\ Bomb_Index' = 0
    BY DEF Turn
  <2>4. NumbersOK' BY <1>3, <2>2, <2>3, SMT DEF NumbersOK
  <2> QED BY <1>3, <2>4, Zenon DEF Turn, FlagsOK
<1>7. CASE DropBomb
  <2>1. Index \in Nat BY IndexIsNat DEF GridInv
  <2>2. NumbersOK' BY <1>3, <2>1, <1>7 DEF DropBomb, NumbersOK, place
  <2> QED BY <1>3, <1>7, <2>2, Zenon DEF DropBomb, FlagsOK
<1>8. CASE Idle
  <2>1. NumbersOK' BY <1>3, <1>8 DEF Idle, NumbersOK, place
  <2> QED BY <1>3, <1>8, <2>1, Zenon DEF Idle, FlagsOK
<1>9. CASE Stride
  <2>1. NumbersOK' BY <1>3, <1>9, <1>1, <1>2, SMT DEF Stride, NumbersOK
  <2>2. FlagsOK' BY <1>3, <1>9, Zenon DEF Stride, FlagsOK
  <2>3. (Ready => Step_Count = 0)' BY <1>9 DEF Stride
  <2> QED BY <2>1, <2>2, <2>3
<1>10. CASE UNCHANGED vars
  BY <1>3, <1>10, Zenon DEF vars, place, FlagsOK, NumbersOK
<1> QED BY <1>4, <1>5, <1>6, <1>7, <1>8, <1>9, <1>10 DEF Next

(* A key moves a living avatar only from the centre of its own cell, and   *)
(* only towards a cell that is no wall.                                    *)
LEMMA TurnStep ==
  ASSUME GridInv, NEW d \in Directions, NEW occupied \in BOOLEAN, Turn(d, occupied),
         NEW c \in 0 .. Cols - 1, NEW r \in 0 .. Cols - 1, LeftFrom(c, r)
  PROVE  LeftFrom(c, r)'
<1>1. Step_Count = 0 /\ Ready BY DEF GridInv, Turn
<1>2. Way(XMotion) = 0 /\ Way(YMotion) = 0 BY <1>1, SMT DEF Way
<1>3. CenterOf(c) \in Int /\ CenterOf(r) \in Int BY CentersFit, SMT DEF Cell
<1>4. X = CenterOf(c) /\ Y = CenterOf(r)
  BY <1>2, SMT DEF LeftFrom, FromX, FromY, GridInv, TypeOK, NumbersOK
<1>5. Index = Cols * r + c BY <1>4, IndexAtCentre
<1>6. Step_Count' = 0 /\ X' = X /\ Y' = Y /\ Bomb_Index' = 0 /\ Dir' = d
  BY <1>1 DEF Turn
<1>7. Way(XMotion)' = 0 /\ Way(YMotion)' = 0 BY <1>6, SMT DEF Way
<1>8. FromX' = CenterOf(c) /\ FromY' = CenterOf(r)
  BY <1>3, <1>4, <1>6, <1>7, SMT DEF FromX, FromY
<1>9. CASE Can(d, occupied)
  <2>1. Neighbour(Cols * r + c, d) \notin Wall BY <1>5, <1>9 DEF Can
  <2>2. XMotion' = XMotionOf(d) /\ YMotion' = YMotionOf(d) BY <1>9 DEF Turn
  <2> QED BY <2>1, <2>2, <1>6, <1>8 DEF LeftFrom
<1>10. CASE ~Can(d, occupied)
  <2>1. ~Walking' BY <1>10 DEF Turn, Walking
  <2> QED BY <2>1, <1>6, <1>8 DEF LeftFrom
<1> QED BY <1>9, <1>10

(* A frame of a step takes a living avatar on, or to the next cell. *)
LEMMA StrideStep ==
  ASSUME GridInv, Alive, Stride,
         NEW c \in 0 .. Cols - 1, NEW r \in 0 .. Cols - 1, LeftFrom(c, r)
  PROVE  \E c1, r1 \in 0 .. Cols - 1 :
           /\ LeftFrom(c1, r1)'
           /\ IF Step_Count = Cell - 1 /\ Walking
                THEN Cols * r1 + c1 = Neighbour(Cols * r + c, Dir) /\ ~Walking'
                ELSE Cols * r1 + c1 = Cols * r + c /\ (Walking' <=> Walking)
<1>1. /\ c \in 1 .. Cols - 2 /\ r \in 1 .. Cols - 2
  BY FreeCellIsInside DEF LeftFrom
<1>2. /\ X \in 0 .. Modulus - 1 /\ Y \in 0 .. Modulus - 1 /\ Step_Count \in 0 .. Cell - 1
      /\ XMotion \in {0, 1, MinusOne} /\ YMotion \in {0, 1, MinusOne} /\ Dir \in Directions
  BY DEF GridInv, TypeOK, NumbersOK
<1>3. /\ X' = (X + XMotion) % Modulus /\ Y' = (Y + YMotion) % Modulus
      /\ XMotion' = XMotion /\ YMotion' = YMotion /\ Dir' = Dir /\ Bomb_Index' = 0
      /\ ~Ready
  BY DEF Stride
<1>4. MinusOne \notin {0, 1} /\ MinusOne = Modulus - 1 /\ Modulus \in Nat
      /\ Cell \in Nat /\ Cell > 1
  <2>1. Cell * Cols \in Nat /\ Cell * Cols >= Cell BY SMT DEF Cell
  <2> QED BY <2>1, SMT DEF Cell, MinusOne
<1>5. /\ CenterOf(c) \in Int /\ CenterOf(r) \in Int
      /\ X = CenterOf(c) + Way(XMotion) /\ Y = CenterOf(r) + Way(YMotion)
  <2>1. CenterOf(c) \in Int /\ CenterOf(r) \in Int BY CentersFit, SMT DEF Cell
  <2>2. Way(XMotion) \in Int /\ Way(YMotion) \in Int BY <1>2, SMT DEF Way
  <2> QED BY <2>1, <2>2, <1>2, SMT DEF LeftFrom, FromX, FromY
(* Where one frame takes the centre, in each axis. *)
<1> DEFINE One(m) == IF m = MinusOne THEN -1 ELSE m
<1>6. X' = CenterOf(c) + Way(XMotion) + One(XMotion)
  <2>1. CASE XMotion = 0 BY <2>1, <1>1, <1>2, <1>3, <1>4, <1>5, NextPixel, SMT DEF Way
  <2>2. CASE XMotion = 1 BY <2>2, <1>1, <1>2, <1>3, <1>4, <1>5, NextPixel, SMT DEF Way
  <2>3. CASE XMotion = MinusOne BY <2>3, <1>1, <1>2, <1>3, <1>4, <1>5, NextPixel, SMT DEF Way
  <2> QED BY <2>1, <2>2, <2>3, <1>2
<1>7. Y' = CenterOf(r) + Way(YMotion) + One(YMotion)
  <2>1. CASE YMotion = 0 BY <2>1, <1>1, <1>2, <1>3, <1>4, <1>5, NextPixel, SMT DEF Way
  <2>2. CASE YMotion = 1 BY <2>2, <1>1, <1>2, <1>3, <1>4, <1>5, NextPixel, SMT DEF Way
  <2>3. CASE YMotion = MinusOne BY <2>3, <1>1, <1>2, <1>3, <1>4, <1>5, NextPixel, SMT DEF Way
  <2> QED BY <2>1, <2>2, <2>3, <1>2
<1>8. CASE Step_Count # Cell - 1
  <2>1. Step_Count' = Step_Count + 1 /\ Ready' = Ready BY <1>8 DEF Stride
  <2>2. FromX' = CenterOf(c) /\ FromY' = CenterOf(r)
    <3>3. Way(XMotion)' = Way(XMotion) + One(XMotion)
      BY <2>1, <1>2, <1>3, <1>4, SMT DEF Way
    <3>4. Way(YMotion)' = Way(YMotion) + One(YMotion)
      BY <2>1, <1>2, <1>3, <1>4, SMT DEF Way
    <3>5. /\ Way(XMotion) \in Int /\ One(XMotion) \in Int
          /\ Way(YMotion) \in Int /\ One(YMotion) \in Int
      BY <1>2, SMT DEF Way
    <3> HIDE DEF One
    <3>1. FromX' = CenterOf(c) BY <3>3, <3>5, <1>5, <1>6, SMT DEF FromX
    <3>2. FromY' = CenterOf(r) BY <3>4, <3>5, <1>5, <1>7, SMT DEF FromY
    <3> QED BY <3>1, <3>2
  <2>3. LeftFrom(c, r)' BY <2>1, <2>2, <1>3 DEF LeftFrom, Walking
  <2>4. Walking' <=> Walking BY <2>1, <1>3 DEF Walking
  <2> QED BY <2>3, <2>4, <1>8
<1>9. CASE Step_Count = Cell - 1
  <2>1. Step_Count' = 0 /\ Ready' BY <1>9 DEF Stride
  <2>2. FromX' = X' /\ FromY' = Y' /\ ~Walking'
    BY <2>1, <1>2, <1>3, <1>4, <1>5, <1>6, <1>7, SMT DEF FromX, FromY, Way, Walking
  <2>3. CASE ~Walking
    <3>1. XMotion = 0 /\ YMotion = 0 BY <2>3, <1>3 DEF Walking
    <3>2. X' = CenterOf(c) /\ Y' = CenterOf(r)
      BY <3>1, <1>4, <1>5, <1>6, <1>7, SMT DEF Way
    <3>3. LeftFrom(c, r)' BY <3>2, <2>2, <1>3 DEF LeftFrom
    <3> QED BY <3>3, <2>2, <2>3
  <2>4. CASE Walking
    <3>1. XMotion = XMotionOf(Dir) /\ YMotion = YMotionOf(Dir) /\ Neighbour(Cols * r + c, Dir) \notin Wall
      BY <2>4 DEF LeftFrom
    <3>2. CASE Dir = "left"
      <4>1. X' = CenterOf(c - 1) /\ Y' = CenterOf(r)
        BY <3>1, <3>2, <1>1, <1>2, <1>4, <1>5, <1>6, <1>7, <1>9, NextPixel, SMT
        DEF Way, XMotionOf, YMotionOf
      <4>2. Cols * r + (c - 1) = Neighbour(Cols * r + c, Dir)
        BY <3>2, <1>1, SMT DEF Neighbour
      <4>3. LeftFrom(c - 1, r)' BY <4>1, <4>2, <2>2, <3>1, <1>3 DEF LeftFrom
      <4>4. c - 1 \in 0 .. Cols - 1 BY <1>1, SMT
      <4> QED BY <4>2, <4>3, <4>4, <2>2, <2>4, <1>9
    <3>3. CASE Dir = "right"
      <4>1. X' = CenterOf(c + 1) /\ Y' = CenterOf(r)
        BY <3>1, <3>3, <1>1, <1>2, <1>4, <1>5, <1>6, <1>7, <1>9, NextPixel, SMT
        DEF Way, XMotionOf, YMotionOf
      <4>2. Cols * r + (c + 1) = Neighbour(Cols * r + c, Dir)
        BY <3>3, <1>1, SMT DEF Neighbour
      <4>3. LeftFrom(c + 1, r)' BY <4>1, <4>2, <2>2, <3>1, <1>3 DEF LeftFrom
      <4>4. c + 1 \in 0 .. Cols - 1 BY <1>1, SMT
      <4> QED BY <4>2, <4>3, <4>4, <2>2, <2>4, <1>9
    <3>4. CASE Dir = "up"
      <4>1. X' = CenterOf(c) /\ Y' = CenterOf(r - 1)
        BY <3>1, <3>4, <1>1, <1>2, <1>4, <1>5, <1>6, <1>7, <1>9, NextPixel, SMT
        DEF Way, XMotionOf, YMotionOf
      <4>2. Cols * (r - 1) + c = Neighbour(Cols * r + c, Dir)
        <5>1. Cols * (r - 1) + c = Cols * r + c - Cols BY <1>1, SMT
        <5>2. Neighbour(Cols * r + c, "up") = Cols * r + c - Cols BY DEF Neighbour
        <5> QED BY <5>1, <5>2, <3>4
      <4>3. LeftFrom(c, r - 1)' BY <4>1, <4>2, <2>2, <3>1, <1>3 DEF LeftFrom
      <4>4. r - 1 \in 0 .. Cols - 1 BY <1>1, SMT
      <4> QED BY <4>2, <4>3, <4>4, <2>2, <2>4, <1>9
    <3>5. CASE Dir = "down"
      <4>1. X' = CenterOf(c) /\ Y' = CenterOf(r + 1)
        BY <3>1, <3>5, <1>1, <1>2, <1>4, <1>5, <1>6, <1>7, <1>9, NextPixel, SMT
        DEF Way, XMotionOf, YMotionOf
      <4>2. Cols * (r + 1) + c = Neighbour(Cols * r + c, Dir)
        <5>1. Cols * (r + 1) + c = Cols * r + c + Cols BY <1>1, SMT
        <5>2. Neighbour(Cols * r + c, "down") = Cols * r + c + Cols BY DEF Neighbour
        <5> QED BY <5>1, <5>2, <3>5
      <4>3. LeftFrom(c, r + 1)' BY <4>1, <4>2, <2>2, <3>1, <1>3 DEF LeftFrom
      <4>4. r + 1 \in 0 .. Cols - 1 BY <1>1, SMT
      <4> QED BY <4>2, <4>3, <4>4, <2>2, <2>4, <1>9
    <3> QED BY <3>2, <3>3, <3>4, <3>5, <1>2 DEF Directions
  <2> QED BY <2>3, <2>4
<1> QED BY <1>8, <1>9

(* A reset puts the avatar into its start cell and stops it. *)
LEMMA ResetStep ==
  ASSUME ResetFrame
  PROVE  /\ StartCol \in 0 .. Cols - 1 /\ StartRow \in 0 .. Cols - 1
         /\ LeftFrom(StartCol, StartRow)' /\ ~Walking' /\ Alive'
<1>1. Way(XMotion)' = 0 /\ Way(YMotion)' = 0
  <2>1. XMotion' = 0 /\ YMotion' = 0 /\ Step_Count' = 0 BY DEF ResetFrame
  <2> QED BY <2>1, SMT DEF Way
<1>2. StartCol \in 0 .. Cols - 1 /\ StartRow \in 0 .. Cols - 1
      /\ Cols * StartRow + StartCol \notin Wall
  BY StartAssumption DEF StartAssumption
<1>3. CenterOf(StartCol) \in Int /\ CenterOf(StartRow) \in Int
  BY <1>2, CentersFit, SMT DEF Cell
<1>4. FromX' = CenterOf(StartCol) /\ FromY' = CenterOf(StartRow)
  BY <1>1, <1>3, SMT DEF ResetFrame, FromX, FromY
<1>5. ~Walking' /\ Bomb_Index' = 0 /\ Alive' BY Zenon DEF ResetFrame, Walking, Alive
<1> QED BY <1>2, <1>4, <1>5 DEF LeftFrom

LEMMA GridStep == GridInv /\ [Next]_vars => GridInv'
<1> SUFFICES ASSUME GridInv, [Next]_vars, Alive'
             PROVE  \E c, r \in 0 .. Cols - 1 : LeftFrom(c, r)'
  BY TypeStep DEF GridInv
<1>1. CASE ResetFrame
  BY <1>1, ResetStep
<1>2. CASE Burn
  BY <1>2, Zenon DEF Burn, Alive
<1>3. CASE \E d \in Directions, occupied \in BOOLEAN : Turn(d, occupied)
  <2> PICK d \in Directions, occupied \in BOOLEAN : Turn(d, occupied) BY <1>3
  <2>1. Alive BY DEF Turn, Alive
  <2> PICK c \in 0 .. Cols - 1, r \in 0 .. Cols - 1 : LeftFrom(c, r)
    BY <2>1 DEF GridInv
  <2>2. LeftFrom(c, r)' BY TurnStep
  <2> QED BY <2>2
<1>4. CASE DropBomb
  <2>1. Alive /\ Ready BY <1>4 DEF DropBomb, Alive
  <2> PICK c \in 0 .. Cols - 1, r \in 0 .. Cols - 1 : LeftFrom(c, r)
    BY <2>1 DEF GridInv
  <2>2. X = CenterOf(c) /\ Y = CenterOf(r)
    <3>1. Step_Count = 0 BY <2>1 DEF GridInv
    <3>2. Way(XMotion) = 0 /\ Way(YMotion) = 0 BY <3>1, SMT DEF Way
    <3> QED BY <3>2, SMT DEF LeftFrom, FromX, FromY, GridInv, TypeOK, NumbersOK
  <2>3. Bomb_Index' = Cols * r + c BY <1>4, <2>2, IndexAtCentre DEF DropBomb
  <2>4. FromX' = FromX /\ FromY' = FromY
    BY <1>4 DEF DropBomb, place, FromX, FromY, Way
  <2>5. ~Walking' BY <1>4 DEF DropBomb, Walking
  <2> QED BY <2>3, <2>4, <2>5 DEF LeftFrom
<1>5. CASE Idle
  <2>1. Alive BY <1>5 DEF Idle, Alive
  <2> PICK c \in 0 .. Cols - 1, r \in 0 .. Cols - 1 : LeftFrom(c, r)
    BY <2>1 DEF GridInv
  <2>2. FromX' = FromX /\ FromY' = FromY
    BY <1>5 DEF Idle, place, FromX, FromY, Way
  <2>3. ~Walking' /\ Bomb_Index' = 0 BY <1>5 DEF Idle, Walking
  <2> QED BY <2>2, <2>3 DEF LeftFrom
<1>6. CASE Stride
  <2>1. Alive BY <1>6 DEF Stride, Alive
  <2> PICK c \in 0 .. Cols - 1, r \in 0 .. Cols - 1 : LeftFrom(c, r)
    BY <2>1 DEF GridInv
  <2> QED BY <1>6, <2>1, StrideStep
<1>7. CASE UNCHANGED vars
  BY <1>7 DEF vars, place, GridInv, Alive, LeftFrom, FromX, FromY, Way, Walking
<1> QED BY <1>1, <1>2, <1>3, <1>4, <1>5, <1>6, <1>7 DEF Next

(* The inductive invariant holds of every behaviour. *)
THEOREM GridInvariant == Spec => []GridInv
<1>1. Init => GridInv BY GridInvInit
<1>2. GridInv /\ [Next]_vars => GridInv' BY GridStep
<1> QED BY <1>1, <1>2, PTL DEF Spec

-----------------------------------------------------------------------------
(* What follows from it *)

(* The cell a living avatar left last, and the cell it goes to. *)
LEMMA CellsOfInv ==
  ASSUME NEW c \in 0 .. Cols - 1, NEW r \in 0 .. Cols - 1, LeftFrom(c, r), TypeOK
  PROVE  /\ (FromX - Half) % Cell = 0 /\ (FromY - Half) % Cell = 0
         /\ FromCell = Cols * r + c
         /\ {FromCell, ToCell} \subseteq Board \ Wall
<1>1. \A k \in 0 .. Cols - 1 :
        (CenterOf(k) - Half) \div Cell = k /\ (CenterOf(k) - Half) % Cell = 0
  <2> SUFFICES ASSUME NEW k \in 0 .. Cols - 1
               PROVE  (CenterOf(k) - Half) \div Cell = k /\ (CenterOf(k) - Half) % Cell = 0
    OBVIOUS
  <2>1. CenterOf(k) - Half = Cell * k + 0 BY CentersFit, SMT DEF Cell
  <2>2. 0 \in 0 .. Cell - 1 BY SMT DEF Cell
  <2> QED BY <2>1, <2>2, CellOfPixel
<1>2. FromCell = Cols * r + c BY <1>1, Zenon DEF LeftFrom, FromCell
<1>3. FromCell \in Board \ Wall /\ \A d \in Directions : Neighbour(FromCell, d) \in Board
  BY <1>2, FreeCellIsInside DEF LeftFrom
<1>4. ToCell \in Board \ Wall
  BY <1>2, <1>3 DEF ToCell, LeftFrom, TypeOK, NumbersOK
<1> QED BY <1>1, <1>2, <1>3, <1>4 DEF LeftFrom

(* A living avatar is always on the grid, between two cells without wall. *)
THEOREM AlwaysOnTheGrid == Spec => []OnTheGrid
<1>1. GridInv => OnTheGrid
  <2> SUFFICES ASSUME GridInv, Alive
               PROVE  /\ (FromX - Half) % Cell = 0 /\ (FromY - Half) % Cell = 0
                      /\ {FromCell, ToCell} \subseteq Board \ Wall
                      /\ Walking => XMotion = XMotionOf(Dir) /\ YMotion = YMotionOf(Dir)
    BY Zenon DEF OnTheGrid
  <2> PICK c \in 0 .. Cols - 1, r \in 0 .. Cols - 1 : LeftFrom(c, r) BY DEF GridInv
  <2>1. TypeOK BY DEF GridInv
  <2> QED BY <2>1, CellsOfInv DEF LeftFrom
<1> QED BY <1>1, GridInvariant, PTL

(* Registers stay in their ranges; in particular no count passes its bound. *)
THEOREM TypeCorrect == Spec => []TypeOK
<1>1. GridInv => TypeOK BY DEF GridInv
<1> QED BY <1>1, GridInvariant, PTL

(* A bomb is asked for only where its avatar stands, and never in cell 0. *)
THEOREM BombsWhereTheyStand == Spec => []BombWhereItStands
<1>1. GridInv => BombWhereItStands
  <2> SUFFICES ASSUME GridInv, Alive PROVE Bomb_Index \in {0, FromCell} /\ FromCell # 0
    BY DEF BombWhereItStands
  <2> PICK c \in 0 .. Cols - 1, r \in 0 .. Cols - 1 : LeftFrom(c, r) BY DEF GridInv
  <2>1. FromCell = Cols * r + c BY CellsOfInv DEF GridInv
  <2>2. Cols * r + c # 0 BY FreeCellIsInside DEF LeftFrom
  <2> QED BY <2>1, <2>2 DEF LeftFrom
<1> QED BY <1>1, GridInvariant, PTL

LEMMA CellsOfState ==
  GridInv => \A c, r \in 0 .. Cols - 1 : LeftFrom(c, r) => FromCell = Cols * r + c
BY CellsOfInv DEF GridInv

(* The pixel-level avatar implements the cell-level one. *)
THEOREM Refinement == Spec => ImplementsCellAvatar
<1>1. Init => Game!Init
  BY Zenon DEF Init, Game!Init, Game!Nowhere, Alive
<1>2. GridInv /\ GridInv' /\ [Next]_vars => [Game!Next]_(Game!vars)
  <2> SUFFICES ASSUME GridInv, GridInv', [Next]_vars
               PROVE  Game!Next \/ UNCHANGED Game!vars
    OBVIOUS
  <2>0. (GridInv => \A c, r \in 0 .. Cols - 1 : LeftFrom(c, r) => FromCell = Cols * r + c)'
    BY CellsOfState, PTL
  <2>1. CASE ResetFrame
    <3>1. Alive' /\ FromCell' = Cols * StartRow + StartCol /\ ToCell' = FromCell'
      BY <2>1, <2>0, ResetStep DEF ToCell
    <3> QED BY <3>1, Zenon DEF Game!Next, Game!Spawn
  <2>2. CASE Burn
    <3>1. ~Alive' BY <2>2, Zenon DEF Burn, Alive
    <3>2. Alive' = FALSE BY <3>1, Zenon DEF Alive
    <3> QED BY <3>1, <3>2 DEF Game!Next, Game!Die, Game!Nowhere
  <2>3. CASE ~Alive /\ ~Alive'
    <3>1. Alive' = Alive BY <2>3, Zenon DEF Alive
    <3> QED BY <2>3, <3>1 DEF Game!vars
  <2>4. CASE \E d \in Directions, occupied \in BOOLEAN : Turn(d, occupied)
    <3> PICK d \in Directions, occupied \in BOOLEAN : Turn(d, occupied) BY <2>4
    <3>1. (Alive' <=> Alive) /\ Ready BY DEF Turn, Alive
    <3> SUFFICES ASSUME Alive, Alive' PROVE Game!Next \/ UNCHANGED Game!vars
      BY <3>1, <2>3
    <3> PICK c \in 0 .. Cols - 1, r \in 0 .. Cols - 1 : LeftFrom(c, r)
      BY DEF GridInv
    <3>2. LeftFrom(c, r)' BY TurnStep
    <3>3. FromCell = Cols * r + c /\ FromCell' = FromCell /\ ToCell = FromCell
      BY <2>0, <3>1, <3>2, CellsOfState DEF ToCell, Walking
    <3>4. CASE ~Walking'
      <4>1. ToCell' = FromCell' BY <3>4 DEF ToCell
      <4> QED BY <4>1, <3>3, Zenon DEF Game!vars
    <3>5. CASE Walking'
      <4>1. ToCell' = Neighbour(FromCell, Dir') /\ Dir' \in Directions
        BY <3>3, <3>5 DEF ToCell, Turn
      <4>2. ToCell' \in {FromCell - 1, FromCell + 1, FromCell - Cols, FromCell + Cols}
        BY <4>1 DEF Neighbour, Directions
      <4>3. ToCell' \notin Wall BY <4>1, <3>2, <3>3, <3>5 DEF LeftFrom
      <4> QED BY <4>2, <4>3, <3>3, Zenon DEF Game!Next, Game!Depart
    <3> QED BY <3>4, <3>5
  <2>5. CASE DropBomb \/ Idle \/ UNCHANGED vars
    <3>1. (Alive' <=> Alive) /\ FromCell' = FromCell /\ ToCell' = ToCell
      <4>1. /\ UNCHANGED <<Powered, Is_Dead, Ready, Dir>>
            /\ UNCHANGED <<X, Y, XMotion, YMotion, Step_Count>>
        BY <2>5 DEF DropBomb, Idle, vars, place
      <4> QED BY <4>1 DEF Alive, FromCell, FromX, FromY, Way, ToCell, Walking
    <3> QED BY <3>1, Zenon DEF Game!vars
  <2>6. CASE Stride
    <3>1. Alive' <=> Alive BY <2>6 DEF Stride, Alive
    <3> SUFFICES ASSUME Alive, Alive' PROVE Game!Next \/ UNCHANGED Game!vars
      BY <3>1, <2>3
    <3> PICK c \in 0 .. Cols - 1, r \in 0 .. Cols - 1 : LeftFrom(c, r)
      BY DEF GridInv
    <3> PICK c1 \in 0 .. Cols - 1, r1 \in 0 .. Cols - 1 :
           /\ LeftFrom(c1, r1)'
           /\ IF Step_Count = Cell - 1 /\ Walking
                THEN Cols * r1 + c1 = Neighbour(Cols * r + c, Dir) /\ ~Walking'
                ELSE Cols * r1 + c1 = Cols * r + c /\ (Walking' <=> Walking)
      BY <2>6, StrideStep
    <3>2. FromCell = Cols * r + c /\ FromCell' = Cols * r1 + c1
      BY <2>0, CellsOfState
    <3>3. CASE Step_Count = Cell - 1 /\ Walking
      <4>1. ToCell = FromCell' /\ ToCell' = FromCell'
        BY <3>2, <3>3 DEF ToCell
      <4>2. ToCell # FromCell
        <5>1. FromCell \in Int BY <3>2, SMT
        <5>2. ToCell = Neighbour(FromCell, Dir) /\ Dir \in Directions
          BY <3>3 DEF ToCell, GridInv, TypeOK, NumbersOK
        <5> QED BY <5>1, <5>2, SMT DEF Neighbour, Directions
      <4> QED BY <4>1, <4>2, Zenon DEF Game!Next, Game!Arrive
    <3>4. CASE ~(Step_Count = Cell - 1 /\ Walking)
      <4>1. FromCell' = FromCell /\ (Walking' <=> Walking) /\ Dir' = Dir
        BY <2>6, <3>2, <3>4 DEF Stride
      <4>2. ToCell' = ToCell BY <4>1 DEF ToCell
      <4> QED BY <4>1, <4>2, Zenon DEF Game!vars
    <3> QED BY <3>3, <3>4
  <2> QED BY <2>1, <2>2, <2>4, <2>5, <2>6 DEF Next
<1> QED BY <1>1, <1>2, GridInvariant, PTL DEF Spec, ImplementsCellAvatar, Game!Spec

(* On its way right or down an avatar is still in the cell it left, on its *)
(* way left or up it is, from its first pixel on, in the cell it goes to.  *)
LEMMA IndexOnTheWay ==
  ASSUME GridInv, NEW c \in 0 .. Cols - 1, NEW r \in 0 .. Cols - 1, LeftFrom(c, r)
  PROVE  \E c1, r1 \in 0 .. Cols - 1 :
           /\ Index = Cols * r1 + c1 /\ Index \in {FromCell, ToCell}
           /\ Cols * r1 + c1 \notin Wall
<1>1. c \in 1 .. Cols - 2 /\ r \in 1 .. Cols - 2 BY FreeCellIsInside DEF LeftFrom
<1>2. /\ X \in 0 .. Modulus - 1 /\ Y \in 0 .. Modulus - 1 /\ Step_Count \in 0 .. Cell - 1
      /\ Dir \in Directions
      /\ XMotion \in {0, 1, MinusOne} /\ YMotion \in {0, 1, MinusOne}
  BY DEF GridInv, TypeOK, NumbersOK
<1>3. MinusOne \notin {0, 1} /\ Cell \in Nat /\ Cell > 1
  <2>1. Cell * Cols \in Nat /\ Cell * Cols >= Cell BY SMT DEF Cell
  <2> QED BY <2>1, SMT DEF Cell, MinusOne
<1>4. /\ CenterOf(c) \in Int /\ CenterOf(r) \in Int
      /\ X = CenterOf(c) + Way(XMotion) /\ Y = CenterOf(r) + Way(YMotion)
  <2>1. CenterOf(c) \in Int /\ CenterOf(r) \in Int BY CentersFit, SMT DEF Cell
  <2>2. Way(XMotion) \in Int /\ Way(YMotion) \in Int BY <1>2, SMT DEF Way
  <2> QED BY <2>1, <2>2, <1>2, SMT DEF LeftFrom, FromX, FromY
<1>5. /\ CenterOf(c) - Cell = CenterOf(c - 1) /\ CenterOf(r) - Cell = CenterOf(r - 1)
  BY <1>1, <1>2, NextPixel
<1>6. FromCell = Cols * r + c /\ FromCell \notin Wall
  BY CellsOfState DEF LeftFrom
<1>7. CASE Way(XMotion) = 0 /\ Way(YMotion) = 0
  <2>1. Index = Cols * r + c BY <1>4, <1>7, IndexAtCentre, SMT
  <2> QED BY <2>1, <1>6
<1>8. CASE ~(Way(XMotion) = 0 /\ Way(YMotion) = 0)
  <2>1. Step_Count > 0 /\ Walking
    <3>1. Step_Count # 0 BY <1>8, SMT DEF Way
    <3>2. XMotion # 0 \/ YMotion # 0 BY <1>3, <1>8, SMT DEF Way
    <3> QED BY <3>1, <3>2, <1>2, SMT DEF GridInv, Walking
  <2>2. /\ XMotion = XMotionOf(Dir) /\ YMotion = YMotionOf(Dir)
        /\ Neighbour(Cols * r + c, Dir) \notin Wall
    BY <2>1 DEF LeftFrom
  <2>3. ToCell = Neighbour(Cols * r + c, Dir) BY <2>1, <1>6 DEF ToCell
  <2>4. 0 \in 0 .. Cell - 1 /\ Cell - Step_Count \in 0 .. Cell - 1
    BY <1>2, <1>3, <2>1, SMT
  <2>5. CASE Dir = "right"
    <3>1. X = CenterOf(c) + Step_Count /\ Y = CenterOf(r) + 0
      BY <2>2, <2>5, <1>2, <1>3, <1>4, SMT DEF Way, XMotionOf, YMotionOf
    <3>2. Index = Cols * r + c BY <3>1, <2>4, <1>2, IndexFromCentre
    <3> QED BY <3>2, <1>6
  <2>6. CASE Dir = "down"
    <3>1. X = CenterOf(c) + 0 /\ Y = CenterOf(r) + Step_Count
      BY <2>2, <2>6, <1>2, <1>3, <1>4, SMT DEF Way, XMotionOf, YMotionOf
    <3>2. Index = Cols * r + c BY <3>1, <2>4, <1>2, IndexFromCentre
    <3> QED BY <3>2, <1>6
  <2>7. CASE Dir = "left"
    <3>1. X = CenterOf(c - 1) + (Cell - Step_Count) /\ Y = CenterOf(r) + 0
      BY <2>2, <2>7, <1>2, <1>3, <1>4, <1>5, SMT DEF Way, XMotionOf, YMotionOf
    <3>2. c - 1 \in 0 .. Cols - 1 BY <1>1, SMT
    <3>3. Index = Cols * r + (c - 1) BY <3>1, <3>2, <2>4, IndexFromCentre
    <3>4. Cols * r + (c - 1) = ToCell BY <2>3, <2>7, <1>1, SMT DEF Neighbour
    <3> QED BY <3>2, <3>3, <3>4, <2>2, <2>3
  <2>8. CASE Dir = "up"
    <3>1. X = CenterOf(c) + 0 /\ Y = CenterOf(r - 1) + (Cell - Step_Count)
      BY <2>2, <2>8, <1>2, <1>3, <1>4, <1>5, SMT DEF Way, XMotionOf, YMotionOf
    <3>2. r - 1 \in 0 .. Cols - 1 BY <1>1, SMT
    <3>3. Index = Cols * (r - 1) + c BY <3>1, <3>2, <2>4, IndexFromCentre
    <3>4. Cols * (r - 1) + c = ToCell
      <4>1. Cols * (r - 1) + c = Cols * r + c - Cols BY <1>1, SMT
      <4>2. Neighbour(Cols * r + c, "up") = Cols * r + c - Cols BY DEF Neighbour
      <4> QED BY <4>1, <4>2, <2>3, <2>8
    <3> QED BY <3>2, <3>3, <3>4, <2>2, <2>3
  <2> QED BY <2>5, <2>6, <2>7, <2>8, <1>2 DEF Directions
<1> QED BY <1>7, <1>8

(* A living avatar's map reads are all inside the 144-bit maps. *)
THEOREM MapReadsInRange == Spec => []ReadsOnBoard
<1>1. GridInv => ReadsOnBoard
  <2> SUFFICES ASSUME GridInv, Alive
               PROVE  /\ Index \in {FromCell, ToCell}
                      /\ \A d \in Directions : Neighbour(Index, d) \in Board
    BY Zenon DEF ReadsOnBoard
  <2> PICK c \in 0 .. Cols - 1, r \in 0 .. Cols - 1 : LeftFrom(c, r) BY DEF GridInv
  <2> PICK c1 \in 0 .. Cols - 1, r1 \in 0 .. Cols - 1 :
         /\ Index = Cols * r1 + c1 /\ Index \in {FromCell, ToCell}
         /\ Cols * r1 + c1 \notin Wall
    BY IndexOnTheWay
  <2> QED BY FreeCellIsInside
<1> QED BY <1>1, GridInvariant, PTL

(* Nothing but a reset revives a dead avatar. *)
THEOREM DeathIsFinal == Spec => DeathLastsUntilReset
<1> DEFINE Revived ==
      Is_Dead /\ ~Is_Dead' =>
        /\ X' = CenterOf(StartCol) /\ Y' = CenterOf(StartRow)
        /\ Dir' = "down" /\ Bomb_Index' = 0
<1>1. [Next]_vars => [Revived]_vars
  BY DEF Next, ResetFrame, Burn, Turn, DropBomb, Idle, Stride, vars
<1> QED BY <1>1, PTL DEF Spec, DeathLastsUntilReset
=============================================================================
