CONSTANTS
  MaxWrites = 4
SPECIFICATION FairStreamSpec
INVARIANTS
  NothingOutlivesTheStream
  OneOperationOfAKind
  WrittenInOrder
PROPERTIES
  WorkerIsFreed
  BrokenStreamsEnd
\* a stream that is gone does nothing any more
CHECK_DEADLOCK FALSE
