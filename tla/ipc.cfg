SPECIFICATION FairSpec
CONSTANTS
  Clients = {c1, c2}
  Requests <- MCRequests
  PipeBufferSize = 3
  MaxFrameLength = 7
  MaxKeyLength = 2
INVARIANTS
  RunIsAnswered
  InvalidatedWereAsked
PROPERTIES
  PipeComesFree
