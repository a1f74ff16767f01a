CONSTANTS
  MaxEntries = 4
  MaxFaults = 2
  Count = 2
  None = None
SPECIFICATION FairSpec
CHECK_DEADLOCK FALSE
INVARIANTS
  NothingLiveTrimmed
  AcknowledgedIsDone
  EngineHandlesOnce
PROPERTIES
  HandledInOrder
  EveryEntryHandled
