SPECIFICATION FairSpec
CONSTANTS
  BufferSize = 3
  Buffers = {1, 2, 3, 4, 5, 6, 7, 8, 9, 10, 11, 12}
  NoBuffer = 0
  LineLens = {1, 2}
  MaxBacklog = 3
  MaxLines = 6
INVARIANTS BufferOwnership FileInOrder EveryLineAccounted
PROPERTIES ImplementsLogChannel LineDelivered FullBufferCollected StopReturns
