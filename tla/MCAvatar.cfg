CONSTANTS
  Half = 20
  Cols = 12
  Modulus = 1024
  Wall <- Wall_Map
  StartCol = 1
  StartRow = 1
SPECIFICATION FairSpec
INVARIANTS
  TypeOK
  OnTheGrid
  ReadsOnBoard
  BombWhereItStands
  DrawnWhereItIs
PROPERTIES
  ImplementsCellAvatar
  StepEnds
