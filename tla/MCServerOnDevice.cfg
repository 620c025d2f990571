CONSTANTS
  Main = Main
  Stamper = Stamper
  Outsider = Outsider
  NoThread = NoThread
  NoRequest = NoRequest
  NULL = NULL
  NL = NL
  c1 = c1
  c2 = c2
  p1 = p1
  p2 = p2
  p3 = p3
  Conn <- TwoConns
  Ptr <- ThreePtrs
  Kind <- AllKinds
  SeekTo <- SomeSeekTos
  Failures <- Writes
  SignalAt <- Never
  UseCharDevice = TRUE
  Daemon = TRUE
  Overlap = FALSE
  Patient = TRUE
  StampAnytime = FALSE
  MaxChunks = 2
  MaxStamps = 0
  MaxStarts = 1
  MaxWriteOps = 2
  BufferSize = 4
  MaxPartial = 6
  MaxOutside = 1
SPECIFICATION SpecOnDevice
SYMMETRY Symmetric
INVARIANT DescriptorsBalanced
INVARIANT DeviceKeepsReceived
PROPERTY AnswersReachEnd
PROPERTY AnswersSeek
