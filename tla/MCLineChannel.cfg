CONSTANTS
  Limit = 3
  PipeSize = 2
  BufSize = 2
  Requests <- MCRequests
  MaxOut = 4
  MaxIn = 4
SPECIFICATION Spec
INVARIANTS
  TypeOK
  FramesWhole
  ShortLinesWhole
  ErrorOnlyAtCut
  NoneIsTheEnd
  RequestsWhole
PROPERTIES
  RecvReturns
