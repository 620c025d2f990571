CONSTANTS
  Main = Main
  Stamper = Stamper
  NoThread = NoThread
  c1 = c1
  c2 = c2
  Conn <- TwoConns
  Kind <- LinesOnly
  Failures <- WriteOnly
  SignalAt <- AtAccept
  UseCharDevice = FALSE
  Daemon = FALSE
  Overlap = TRUE
  Patient = FALSE
  StampAnytime = FALSE
  MaxChunks = 1
  MaxStamps = 0
  MaxStarts = 1
SPECIFICATION FairSpec
CHECK_DEADLOCK FALSE
PROPERTY ShutdownCompletes
