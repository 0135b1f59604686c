------------------------------ MODULE Picture ------------------------------
(***************************************************************************)
(* An avatar and the circuit that draws it.  The avatar looks for walls    *)
(* with the 10-bit position of its centre, less half a cell; the picture   *)
(* is made of whole cells and of a sprite around that position.            *)
(***************************************************************************)
EXTENDS Avatar, ColorMapper

(* The numbers of the picture are literals in its code, those of a board   *)
(* of twelve cells of forty pixels.                                        *)
ASSUME PictureAssumption == Half = 20 /\ Cols = 12

(* The pixels at the corners of an avatar's picture, of its body (the      *)
(* lower two thirds) and beside it.                                        *)
Corners == {X - 20, X + 19} \X {Y - 40, Y + 19}
BodyCorners == {X - 20, X + 19} \X {Y - 20, Y + 19}
Beside == ({X - 21, X + 20} \X {Y}) \cup ({X} \X {Y - 41, Y + 20})

(***************************************************************************)
(* A living avatar is drawn whole, inside the board, from the texels of    *)
(* one pose, where it is: its body covers no cell but the two it is        *)
(* between, so never a wall; and standing, it burns and drops bombs in the *)
(* cell the picture shows it in.                                           *)
(***************************************************************************)
DrawnWhereItIs ==
  Alive =>
    /\ \A p \in Corners :
         /\ p[1] \in 0 .. 479 /\ p[2] \in 0 .. 479 /\ av_on(p[1], p[2], X, Y)
         /\ Row(p[2], Y, Step_Count) \in 0 .. 179
         /\ Row(p[2], Y, Step_Count) \div 60 = Pose(Step_Count) \div 60
         /\ Column(p[1], X, Dir) \in 0 .. 39
    /\ \A p \in Beside : ~av_on(p[1], p[2], X, Y)
    /\ \A p \in BodyCorners :
         /\ cell_at(p[1], p[2]) \in {FromCell, ToCell}
         /\ Layer(p[1], p[2], {}, Wall, {}, {}, {}) = "ground"
    /\ Ready => cell_at(X, Y) = Index
=============================================================================
