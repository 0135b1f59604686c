CONSTANTS
  Keys = {4}
  Environments <- OnlyPromptFaulty
SPECIFICATION FairSpec
PROPERTIES
  FailedStepIsRepeated
