CONSTANTS
  H_TOTAL = 800
  V_TOTAL = 525
  H_SHOWN = 640
  V_SHOWN = 480
  HS_FROM = 656
  HS_TO = 752
  VS_FROM = 490
  VS_TO = 492
SPECIFICATION FairSpec
INVARIANTS
  TypeOK
  SignalsMatchPixel
PROPERTIES
  OnePixelAtATime
  TickOffScreen
  FrameClockRuns
