CONSTANTS
  Keys = {4}
  Environments <- FaultyOrQuiet
SPECIFICATION FairSpec
INVARIANTS
  TypeOK
  StepsAcknowledged
  NoPhantomGameKey
  ListsInStep
  WholeReports
  TogglesAgreeWhenEven
PROPERTIES
  RequestsInOrder
  KeepsPolling
