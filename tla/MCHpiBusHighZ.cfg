CONSTANTS
  Words = 2
  Gap = 4
  Access = 1
SPECIFICATION Spec
INVARIANTS
  HighZUnlessWriting
