----------------------------- MODULE VgaTiming -----------------------------
(***************************************************************************)
(* The VGA controller (VGA_controller.sv, VGA_controller_Final.sv) and the *)
(* button that resets it (KEY[0] of Bomberman.sv).  VGA_CLK toggles at     *)
(* every rising edge of the 50 MHz Clk, and its own rising edge moves the  *)
(* raster by one pixel.  The button is not synchronised to Clk: it is      *)
(* pressed and let go between edges, and clears the raster at once, but    *)
(* VGA_CLK only at the next edge that still finds it pressed.              *)
(*                                                                         *)
(* VGA_VS is more than a monitor signal: its rising edge is Frame_Clk, the *)
(* clock of every game register.                                           *)
(***************************************************************************)
EXTENDS Integers

CONSTANTS
  H_TOTAL, V_TOTAL,         \* pixels in a line, lines in a frame
  H_SHOWN, V_SHOWN,         \* how many of them are displayed (640, 480)
  HS_FROM, HS_TO,           \* pixels of the horizontal sync pulse: 656 up to 752
  VS_FROM, VS_TO            \* lines of the vertical sync pulse: 490 up to 492

ASSUME TimingAssumption ==
  /\ {H_TOTAL, V_TOTAL, H_SHOWN, V_SHOWN, HS_FROM, HS_TO, VS_FROM, VS_TO} \subseteq Nat
  /\ 0 < H_SHOWN /\ H_SHOWN <= HS_FROM /\ HS_FROM < HS_TO /\ HS_TO < H_TOTAL
  /\ 0 < V_SHOWN /\ V_SHOWN <= VS_FROM /\ VS_FROM < VS_TO /\ VS_TO < V_TOTAL

VARIABLES
  Reset_h,                  \* the reset button is down
  VGA_CLK,
  h_counter, v_counter,     \* Draw_X, Draw_Y
  VGA_HS, VGA_VS,           \* 0 during a sync pulse
  VGA_BLANK_N               \* 1 on displayed pixels

raster == <<h_counter, v_counter, VGA_HS, VGA_VS, VGA_BLANK_N>>
vars == <<Reset_h, VGA_CLK, raster>>

Bit == {0, 1}

TypeOK ==
  /\ Reset_h \in Bit /\ VGA_CLK \in Bit
  /\ h_counter \in 0 .. H_TOTAL - 1 /\ v_counter \in 0 .. V_TOTAL - 1
  /\ VGA_HS \in Bit /\ VGA_VS \in Bit /\ VGA_BLANK_N \in Bit

-----------------------------------------------------------------------------
h_counter_in_OneMore == IF h_counter = H_TOTAL THEN 0 ELSE h_counter + 1
h_counter_in == IF h_counter + 1 = H_TOTAL THEN 0 ELSE h_counter + 1

v_counter_in_NoLineEnd == IF v_counter + 1 = V_TOTAL THEN 0 ELSE v_counter + 1

v_counter_in_NeverNext ==
  IF h_counter + 1 = H_TOTAL /\ v_counter + 1 = V_TOTAL THEN 0 ELSE v_counter

v_counter_in ==
  IF h_counter + 1 # H_TOTAL THEN v_counter
  ELSE IF v_counter + 1 = V_TOTAL THEN 0 ELSE v_counter + 1

(* The three signals of the pixel (h, v). *)
HS_at(h) == IF h >= HS_FROM /\ h < HS_TO THEN 0 ELSE 1
VS_at_ActiveHigh(v) == IF v >= VS_FROM /\ v < VS_TO THEN 1 ELSE 0
VS_at(v) == IF v >= VS_FROM /\ v < VS_TO THEN 0 ELSE 1
BLANK_N_at(h, v) == IF h < H_SHOWN /\ v < V_SHOWN THEN 1 ELSE 0

Init ==
  /\ Reset_h = 0 /\ VGA_CLK = 0
  /\ h_counter = 0 /\ v_counter = 0
  /\ VGA_HS = 0 /\ VGA_VS = 0 /\ VGA_BLANK_N = 0

ClearRaster ==
  /\ h_counter' = 0 /\ v_counter' = 0
  /\ VGA_HS' = 0 /\ VGA_VS' = 0 /\ VGA_BLANK_N' = 0

(* The signals come from the next counters, so they change with them. *)
NextPixel_LateSync ==
  /\ h_counter' = h_counter_in /\ v_counter' = v_counter_in
  /\ VGA_HS' = HS_at(h_counter) /\ VGA_VS' = VS_at(v_counter)
  /\ VGA_BLANK_N' = BLANK_N_at(h_counter, v_counter)

NextPixel ==
  /\ h_counter' = h_counter_in /\ v_counter' = v_counter_in
  /\ VGA_HS' = HS_at(h_counter_in) /\ VGA_VS' = VS_at(v_counter_in)
  /\ VGA_BLANK_N' = BLANK_N_at(h_counter_in, v_counter_in)

(* An edge of Clk without reset. *)
RunningEdge ==
  /\ Reset_h = 0
  /\ VGA_CLK' = 1 - VGA_CLK
  /\ IF VGA_CLK = 0 THEN NextPixel ELSE UNCHANGED raster
  /\ UNCHANGED Reset_h

Press ==
  /\ Reset_h = 0 /\ Reset_h' = 1
  /\ ClearRaster
  /\ UNCHANGED VGA_CLK

(* An edge of Clk under reset. *)
HeldEdge ==
  /\ Reset_h = 1
  /\ VGA_CLK' = 0
  /\ UNCHANGED <<Reset_h, raster>>

Release ==
  /\ Reset_h = 1 /\ Reset_h' = 0
  /\ UNCHANGED <<VGA_CLK, raster>>

Next == RunningEdge \/ Press \/ HeldEdge \/ Release

(* Clk is the board's oscillator, which never stops. *)
Spec == Init /\ [][Next]_vars
FairSpec == Spec /\ WF_vars(RunningEdge)

-----------------------------------------------------------------------------
(* Properties *)

(* The number of the pixel in the frame. *)
Pixel(h, v) == H_TOTAL * v + h
Frame == H_TOTAL * V_TOTAL

Cleared == <<h_counter, v_counter, VGA_HS, VGA_VS, VGA_BLANK_N>> = <<0, 0, 0, 0, 0>>

(* From the first pixel on, the registered signals belong to the very      *)
(* pixel the counters show, and no pixel is displayed during a sync pulse. *)
SignalsMatchPixel ==
  \/ Cleared
  \/ /\ VGA_HS = HS_at(h_counter) /\ VGA_VS = VS_at(v_counter)
     /\ VGA_BLANK_N = 1 <=> (h_counter < H_SHOWN /\ v_counter < V_SHOWN)
     /\ VGA_BLANK_N = 1 => VGA_HS = 1 /\ VGA_VS = 1

(* A running raster goes through the H_TOTAL * V_TOTAL pixels of a frame   *)
(* one by one and starts over: with VGA_CLK at 25 MHz and one tick in a    *)
(* frame this is the 60 Hz every game register counts on.                  *)
OnePixelAtATime ==
  [][Reset_h' = 0 /\ raster' # raster =>
       Pixel(h_counter', v_counter') = (Pixel(h_counter, v_counter) + 1) % Frame]_vars

(* A pressed button holds the raster at its first pixel, and so the frame  *)
(* clock low: the game does not move under it.                             *)
FrozenUnderReset == Reset_h = 1 => Cleared

(* A frame tick, the only moment at which the game changes what is drawn,  *)
(* comes at the start of line VS_TO, off the screen; the one exception is  *)
(* the first pixel after a reset, which also raises VGA_VS.                *)
TickOffScreen ==
  [][VGA_VS = 0 /\ VGA_VS' = 1 =>
       \/ Cleared
       \/ h_counter' = 0 /\ v_counter' = VS_TO /\ VGA_BLANK_N' = 0]_vars

(* The frame clock keeps ticking unless the reset button is pressed again  *)
(* and again or held.  Every game component's fairness rests on this.      *)
FrameClockRuns == ([]<>(Reset_h = 1)) \/ ([]<><<VGA_VS = 0 /\ VGA_VS' = 1>>_vars)
=============================================================================
