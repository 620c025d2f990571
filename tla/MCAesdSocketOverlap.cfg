CONSTANTS
  Main = Main
  Stamper = Stamper
  NoThread = NoThread
  c1 = c1
  c2 = c2
  Conn <- TwoConns
  Kind <- LinesOnly
  Failures <- AnyCall
  SignalAt <- NotAtInsert
  UseCharDevice = FALSE
  Daemon = FALSE
  Overlap = TRUE
  Patient = TRUE
  StampAnytime = TRUE
  MaxChunks = 1
  MaxStamps = 0
  MaxStarts = 1
SPECIFICATION Spec
SYMMETRY Symmetric
CHECK_DEADLOCK FALSE
INVARIANT TypeOK
INVARIANT ThreadInfoIsLive
INVARIANT ThreadsAccounted
