CONSTANTS
  Main = Main
  Stamper = Stamper
  NoThread = NoThread
  c1 = c1
  c2 = c2
  Conn <- TwoConns
  Kind <- LinesOnly
  Failures <- Never
  SignalAt <- AtAccept
  UseCharDevice = FALSE
  Daemon = FALSE
  Overlap = TRUE
  Patient = TRUE
  StampAnytime = FALSE
  MaxChunks = 1
  MaxStamps = 0
  MaxStarts = 1
SPECIFICATION Spec
SYMMETRY Symmetric
CHECK_DEADLOCK FALSE
PROPERTY RepliesComplete
