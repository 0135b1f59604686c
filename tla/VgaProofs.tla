----------------------------- MODULE VgaProofs -----------------------------
(***************************************************************************)
(* Theorems about the VGA controller for every raster that fulfils         *)
(* TimingAssumption.                                                       *)
(***************************************************************************)
EXTENDS VgaTiming, TLAPS

USE TimingAssumption DEF TimingAssumption

(* The inductive invariant: the signals belong to the pixel shown, and a   *)
(* pressed button keeps the raster cleared.                                *)
RasterInv == TypeOK /\ SignalsMatchPixel /\ FrozenUnderReset

(* The counters of a running raster stay in range, and advance as one.     *)
LEMMA CountersAdvance ==
  ASSUME TypeOK
  PROVE  /\ h_counter_in \in 0 .. H_TOTAL - 1
         /\ v_counter_in \in 0 .. V_TOTAL - 1
         /\ \/ /\ h_counter + 1 < H_TOTAL
               /\ h_counter_in = h_counter + 1 /\ v_counter_in = v_counter
            \/ /\ h_counter + 1 = H_TOTAL /\ v_counter + 1 < V_TOTAL
               /\ h_counter_in = 0 /\ v_counter_in = v_counter + 1
            \/ /\ h_counter + 1 = H_TOTAL /\ v_counter + 1 = V_TOTAL
               /\ h_counter_in = 0 /\ v_counter_in = 0
  BY DEF TypeOK, h_counter_in, v_counter_in

LEMMA RasterInvInit == Init => RasterInv
  BY DEF Init, RasterInv, TypeOK, SignalsMatchPixel, FrozenUnderReset, Cleared, Bit

LEMMA RasterInvNext == RasterInv /\ [Next]_vars => RasterInv'
<1> SUFFICES ASSUME RasterInv, [Next]_vars PROVE RasterInv'
  OBVIOUS
<1>1. CASE RunningEdge
  <2>1. CASE VGA_CLK = 0
    <3>1. NextPixel /\ VGA_CLK' = 1 /\ Reset_h = 0 /\ Reset_h' = 0
      BY <1>1, <2>1 DEF RunningEdge
    <3>2. h_counter' \in 0 .. H_TOTAL - 1 /\ v_counter' \in 0 .. V_TOTAL - 1
      BY <3>1, CountersAdvance DEF NextPixel, RasterInv
    <3>3. /\ VGA_HS' = HS_at(h_counter') /\ VGA_VS' = VS_at(v_counter')
          /\ VGA_BLANK_N' = BLANK_N_at(h_counter', v_counter')
      BY <3>1 DEF NextPixel
    <3>4. TypeOK'
      BY <3>1, <3>2, <3>3 DEF TypeOK, Bit, HS_at, VS_at, BLANK_N_at
    <3>5. SignalsMatchPixel'
      BY <3>2, <3>3 DEF SignalsMatchPixel, HS_at, VS_at, BLANK_N_at
    <3> QED
      BY <3>1, <3>4, <3>5 DEF RasterInv, FrozenUnderReset
  <2>2. CASE VGA_CLK # 0
    BY <1>1, <2>2 DEF RunningEdge, raster, RasterInv, TypeOK, Bit, SignalsMatchPixel,
                      FrozenUnderReset, Cleared, HS_at, VS_at
  <2> QED
    BY <2>1, <2>2
<1>2. CASE Press
  BY <1>2 DEF Press, ClearRaster, RasterInv, TypeOK, Bit, SignalsMatchPixel,
              FrozenUnderReset, Cleared
<1>3. CASE HeldEdge
  BY <1>3 DEF HeldEdge, raster, RasterInv, TypeOK, Bit, SignalsMatchPixel,
              FrozenUnderReset, Cleared
<1>4. CASE Release
  BY <1>4 DEF Release, raster, RasterInv, TypeOK, Bit, SignalsMatchPixel,
              FrozenUnderReset, Cleared
<1>5. CASE UNCHANGED vars
  BY <1>5 DEF vars, raster, RasterInv, TypeOK, SignalsMatchPixel,
              FrozenUnderReset, Cleared, HS_at, VS_at
<1> QED
  BY <1>1, <1>2, <1>3, <1>4, <1>5 DEF Next

LEMMA RasterInvariant == Spec => []RasterInv
  BY RasterInvInit, RasterInvNext, PTL DEF Spec

(* Every counter and signal of the controller keeps its range.             *)
THEOREM VgaTypeCorrect == Spec => []TypeOK
  BY RasterInvariant, PTL DEF RasterInv

(* The registered sync and blanking signals belong to the pixel shown.     *)
THEOREM SignalsFollowPixel == Spec => []SignalsMatchPixel
  BY RasterInvariant, PTL DEF RasterInv

(* A pressed button holds the raster, and with it the game.                *)
THEOREM ResetFreezes == Spec => []FrozenUnderReset
  BY RasterInvariant, PTL DEF RasterInv

(* Only an edge of a running raster changes it without clearing it.        *)
LEMMA RasterMoves ==
  ASSUME RasterInv, [Next]_vars, raster' # raster
  PROVE  (NextPixel /\ Reset_h' = 0) \/ (ClearRaster /\ Reset_h' = 1)
  BY DEF Next, RunningEdge, Press, HeldEdge, Release, vars, raster

(* One step of the pixel counter. *)
LEMMA NextPixelIsNext ==
  ASSUME TypeOK, NextPixel
  PROVE  Pixel(h_counter', v_counter') = (Pixel(h_counter, v_counter) + 1) % Frame
<1> DEFINE h == h_counter
           v == v_counter
<1>0. h \in Nat /\ v \in Nat /\ h <= H_TOTAL - 1 /\ v <= V_TOTAL - 1
  BY DEF TypeOK
<1>1. CASE h + 1 < H_TOTAL
  <2>1. h_counter' = h + 1 /\ v_counter' = v
    BY <1>1, <1>0, CountersAdvance DEF NextPixel
  <2>2. H_TOTAL * v + H_TOTAL <= H_TOTAL * V_TOTAL
    BY <1>0
  <2>3. H_TOTAL * v \in Nat /\ H_TOTAL * V_TOTAL \in Nat
    BY <1>0
  <2>4. H_TOTAL * v + h + 1 < H_TOTAL * V_TOTAL
    BY <1>0, <1>1, <2>2, <2>3
  <2> QED
    BY <1>0, <2>1, <2>3, <2>4 DEF Pixel, Frame
<1>2. CASE h + 1 = H_TOTAL /\ v + 1 < V_TOTAL
  <2>1. h_counter' = 0 /\ v_counter' = v + 1
    BY <1>2, <1>0, CountersAdvance DEF NextPixel
  <2>2. H_TOTAL * (v + 1) = H_TOTAL * v + H_TOTAL
    BY <1>0
  <2>3. H_TOTAL * (v + 1) < H_TOTAL * V_TOTAL
    BY <1>0, <1>2
  <2>4. H_TOTAL * v \in Nat /\ H_TOTAL * V_TOTAL \in Nat
    BY <1>0
  <2> QED
    BY <1>0, <1>2, <2>1, <2>2, <2>3, <2>4 DEF Pixel, Frame
<1>3. CASE h + 1 = H_TOTAL /\ v + 1 = V_TOTAL
  <2>1. h_counter' = 0 /\ v_counter' = 0
    BY <1>3, <1>0, CountersAdvance DEF NextPixel
  <2>2. H_TOTAL * V_TOTAL = H_TOTAL * v + H_TOTAL
    BY <1>0, <1>3
  <2>3. H_TOTAL * v \in Nat /\ H_TOTAL * V_TOTAL \in Nat /\ H_TOTAL * V_TOTAL > 0
    BY <1>0
  <2>4. Pixel(h_counter, v_counter) + 1 = Frame
    BY <1>0, <1>3, <2>2 DEF Pixel, Frame
  <2>5. Frame % Frame = 0
    BY <2>3 DEF Frame
  <2> QED
    BY <2>1, <2>4, <2>5 DEF Pixel
<1> QED
  BY <1>0, <1>1, <1>2, <1>3

(* The raster goes through the pixels of a frame one by one.               *)
THEOREM PixelsInOrder == Spec => OnePixelAtATime
<1>1. RasterInv /\ [Next]_vars =>
        [Reset_h' = 0 /\ raster' # raster =>
           Pixel(h_counter', v_counter') = (Pixel(h_counter, v_counter) + 1) % Frame]_vars
  BY RasterMoves, NextPixelIsNext DEF RasterInv
<1> QED
  BY <1>1, RasterInvariant, PTL DEF Spec, OnePixelAtATime

(* A frame tick is off the screen, or the first pixel after a reset.       *)
THEOREM TicksOffScreen == Spec => TickOffScreen
<1>1. RasterInv /\ [Next]_vars =>
        [VGA_VS = 0 /\ VGA_VS' = 1 =>
           \/ Cleared
           \/ h_counter' = 0 /\ v_counter' = VS_TO /\ VGA_BLANK_N' = 0]_vars
  <2> SUFFICES ASSUME RasterInv, [Next]_vars, VGA_VS = 0, VGA_VS' = 1, ~Cleared
               PROVE  h_counter' = 0 /\ v_counter' = VS_TO /\ VGA_BLANK_N' = 0
    OBVIOUS
  <2>1. NextPixel
    BY RasterMoves DEF raster, ClearRaster
  <2>2. v_counter >= VS_FROM /\ v_counter < VS_TO
    BY DEF RasterInv, TypeOK, SignalsMatchPixel, VS_at
  <2>3. ~(v_counter_in >= VS_FROM /\ v_counter_in < VS_TO)
    BY <2>1 DEF NextPixel, VS_at
  <2>4. h_counter_in = 0 /\ v_counter_in = VS_TO
    BY <2>2, <2>3, CountersAdvance DEF RasterInv, TypeOK
  <2> QED
    BY <2>1, <2>4 DEF NextPixel, BLANK_N_at
<1> QED
  BY <1>1, RasterInvariant, PTL DEF Spec, TickOffScreen

-----------------------------------------------------------------------------
(***************************************************************************)
(* How long the game waits for its next frame.                             *)
(***************************************************************************)
Ticks == VGA_VS = 0 /\ VGA_VS' = 1

(* The pixels still to go: to the start of line VS_TO, or, from a cleared  *)
(* raster, to the next one.                                                *)
ToGo(h, v) ==
  LET d == Pixel(0, VS_TO) - Pixel(h, v) IN IF d > 0 THEN d ELSE d + Frame
PixelsToTick == IF Cleared THEN 1 ELSE ToGo(h_counter, v_counter)

(* A pixel lasts two edges of Clk, and begins while VGA_CLK is low. *)
EdgesToTick == 2 * PixelsToTick - 1 + VGA_CLK

TickIsNear == EdgesToTick \in 1 .. 2 * Frame

(* While nobody touches the button every edge of Clk brings the tick one   *)
(* edge nearer, and from one tick of a running raster to the next it is    *)
(* two edges for each pixel of a frame, neither more nor fewer.            *)
FramesAreEven ==
  [][Reset_h = 0 /\ Reset_h' = 0 =>
       IF Ticks THEN EdgesToTick = 1 /\ (Cleared \/ EdgesToTick' = 2 * Frame)
       ELSE EdgesToTick' = EdgesToTick - 1]_vars

(* A pixel's number is less than Frame and tells where it is in its line.  *)
LEMMA PixelNumber ==
  ASSUME NEW h \in 0 .. H_TOTAL - 1, NEW v \in 0 .. V_TOTAL - 1
  PROVE  /\ Pixel(h, v) \in 0 .. Frame - 1
         /\ Pixel(h, v) = Pixel(0, VS_TO) => h = 0 /\ v = VS_TO
<1>1. H_TOTAL * v \in Nat /\ H_TOTAL * VS_TO \in Nat /\ Frame \in Nat
  BY DEF Frame
<1>2. H_TOTAL * v + H_TOTAL <= Frame
  BY DEF Frame
<1>3. v < VS_TO => H_TOTAL * v + H_TOTAL <= H_TOTAL * VS_TO
  OBVIOUS
<1>4. VS_TO < v => H_TOTAL * VS_TO + H_TOTAL <= H_TOTAL * v
  OBVIOUS
<1> QED
  BY <1>1, <1>2, <1>3, <1>4 DEF Pixel

(* The tick is at least a pixel and at most a frame away. *)
LEMMA ToGoBounds ==
  ASSUME NEW h \in 0 .. H_TOTAL - 1, NEW v \in 0 .. V_TOTAL - 1
  PROVE  ToGo(h, v) \in 1 .. Frame
<1>1. Pixel(h, v) \in 0 .. Frame - 1 /\ Pixel(0, VS_TO) \in 0 .. Frame - 1 /\ Frame \in Nat
  BY PixelNumber DEF Frame
<1> QED
  BY <1>1 DEF ToGo

(* The next pixel is one nearer to the tick, and after the tick the whole  *)
(* frame is to go.                                                         *)
LEMMA OneLessToGo ==
  ASSUME TypeOK, NextPixel
  PROVE  ToGo(h_counter', v_counter') =
           IF ToGo(h_counter, v_counter) = 1 THEN Frame ELSE ToGo(h_counter, v_counter) - 1
<1> DEFINE P == Pixel(h_counter, v_counter)
           Q == Pixel(h_counter', v_counter')
           T == Pixel(0, VS_TO)
<1>1. P \in 0 .. Frame - 1 /\ T \in 0 .. Frame - 1 /\ Frame \in Nat
  BY PixelNumber DEF TypeOK, Frame
<1>2. Q = IF P + 1 = Frame THEN 0 ELSE P + 1
  <2>1. Q = (P + 1) % Frame
    BY NextPixelIsNext
  <2> HIDE DEF P, Q, T
  <2> QED
    BY <1>1, <2>1
<1>3. T > 0
  BY DEF Pixel
<1> HIDE DEF P, Q, T
<1>4. (IF T - Q > 0 THEN T - Q ELSE T - Q + Frame) =
        IF (IF T - P > 0 THEN T - P ELSE T - P + Frame) = 1 THEN Frame
        ELSE (IF T - P > 0 THEN T - P ELSE T - P + Frame) - 1
  BY <1>1, <1>2, <1>3
<1> QED
  BY <1>4 DEF ToGo, P, Q, T

(* A raster that is not cleared ticks where nothing but one pixel is to go. *)
LEMMA TicksWhereNoneToGo ==
  ASSUME RasterInv, NextPixel, ~Cleared
  PROVE  Ticks <=> ToGo(h_counter, v_counter) = 1
<1>1. /\ h_counter \in 0 .. H_TOTAL - 1 /\ v_counter \in 0 .. V_TOTAL - 1
      /\ h_counter' \in 0 .. H_TOTAL - 1 /\ v_counter' \in 0 .. V_TOTAL - 1
  BY CountersAdvance DEF RasterInv, TypeOK, NextPixel
<1>2. ToGo(h_counter, v_counter) = 1 <=> h_counter' = 0 /\ v_counter' = VS_TO
  <2>1. ToGo(h_counter, v_counter) = 1 <=> ToGo(h_counter', v_counter') = Frame
    BY <1>1, OneLessToGo, ToGoBounds DEF RasterInv
  <2>2. ToGo(h_counter', v_counter') = Frame <=> Pixel(h_counter', v_counter') = Pixel(0, VS_TO)
    <3>1. /\ Pixel(h_counter', v_counter') \in 0 .. Frame - 1
          /\ Pixel(0, VS_TO) \in 0 .. Frame - 1 /\ Frame \in Nat
      BY <1>1, PixelNumber DEF Frame
    <3> QED
      BY <3>1 DEF ToGo
  <2> QED
    BY <1>1, <2>1, <2>2, PixelNumber
<1>3. VGA_VS = VS_at(v_counter) /\ VGA_VS' = VS_at(v_counter')
  BY DEF RasterInv, SignalsMatchPixel, NextPixel
<1>4. Ticks <=> h_counter' = 0 /\ v_counter' = VS_TO
  BY <1>1, <1>3, CountersAdvance DEF Ticks, VS_at, NextPixel, RasterInv
<1> QED
  BY <1>2, <1>4

(* The game's clock is never further away than a frame, and its frames are *)
(* all of the same length, unless the button is touched.                   *)
THEOREM EvenFrames == Spec => []TickIsNear /\ FramesAreEven
<1>1. RasterInv => TickIsNear
  <2> SUFFICES ASSUME RasterInv PROVE TickIsNear
    OBVIOUS
  <2>1. ToGo(h_counter, v_counter) \in 1 .. Frame /\ Frame \in Nat
    BY ToGoBounds DEF RasterInv, TypeOK, Frame
  <2>2. PixelsToTick \in 1 .. Frame
    BY <2>1 DEF PixelsToTick
  <2> QED
    BY <2>1, <2>2 DEF TickIsNear, EdgesToTick, RasterInv, TypeOK, Bit
<1>2. RasterInv /\ [Next]_vars =>
        [Reset_h = 0 /\ Reset_h' = 0 =>
           IF Ticks THEN EdgesToTick = 1 /\ (Cleared \/ EdgesToTick' = 2 * Frame)
           ELSE EdgesToTick' = EdgesToTick - 1]_vars
  <2> SUFFICES ASSUME RasterInv, RunningEdge, Reset_h' = 0
               PROVE  IF Ticks THEN EdgesToTick = 1 /\ (Cleared \/ EdgesToTick' = 2 * Frame)
                      ELSE EdgesToTick' = EdgesToTick - 1
    BY DEF Next, Press, HeldEdge, Release
  <2> DEFINE D == ToGo(h_counter, v_counter)
  <2>0. D \in 1 .. Frame /\ Frame \in Nat /\ VGA_CLK \in Bit /\ VGA_CLK' = 1 - VGA_CLK
    BY ToGoBounds DEF RasterInv, TypeOK, Frame, RunningEdge
  <2>1. CASE VGA_CLK = 1
    <3>1. UNCHANGED raster
      BY <2>1 DEF RunningEdge
    <3>2. PixelsToTick' = PixelsToTick /\ ~Ticks
      BY <3>1 DEF PixelsToTick, Cleared, ToGo, Pixel, Ticks, raster
    <3>3. PixelsToTick \in Nat
      BY <2>0 DEF PixelsToTick
    <3> QED
      BY <2>0, <2>1, <3>2, <3>3 DEF EdgesToTick
  <2>2. CASE VGA_CLK = 0 /\ Cleared
    <3>1. v_counter = 0 /\ v_counter_in = 0 /\ NextPixel /\ VGA_VS = 0
      BY <2>2, CountersAdvance DEF RunningEdge, Cleared, RasterInv
    <3>2. Ticks
      BY <3>1 DEF NextPixel, Ticks, VS_at
    <3> QED
      BY <2>2, <3>2 DEF EdgesToTick, PixelsToTick
  <2>3. CASE VGA_CLK = 0 /\ ~Cleared
    <3>1. NextPixel /\ VGA_CLK' = 1
      BY <2>0, <2>3 DEF RunningEdge
    <3>2. ~Cleared'
      BY <3>1 DEF NextPixel, Cleared, VS_at
    <3>3. PixelsToTick = D /\ PixelsToTick' = IF D = 1 THEN Frame ELSE D - 1
      BY <2>3, <3>1, <3>2, OneLessToGo DEF PixelsToTick, RasterInv
    <3>4. Ticks <=> D = 1
      BY <2>3, <3>1, TicksWhereNoneToGo
    <3> HIDE DEF D
    <3> QED
      BY <2>0, <2>3, <3>1, <3>3, <3>4 DEF EdgesToTick
  <2> QED
    BY <2>0, <2>1, <2>2, <2>3 DEF Bit
<1> QED
  BY <1>1, <1>2, RasterInvariant, PTL DEF Spec, FramesAreEven

=============================================================================
