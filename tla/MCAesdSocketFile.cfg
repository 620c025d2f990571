CONSTANTS
  Main = Main
  Stamper = Stamper
  NoThread = NoThread
  c1 = c1
  c2 = c2
  Conn <- TwoConns
  Kind <- TextAndLines
  Failures <- Never
  SignalAt <- AtAccept
  UseCharDevice = FALSE
  Daemon = FALSE
  Overlap = FALSE
  Patient = FALSE
  StampAnytime = FALSE
  MaxChunks = 2
  MaxStamps = 1
  MaxStarts = 2
SPECIFICATION FairSpec
INVARIANT ReceivedIsStored
INVARIANT FinishedThreadsReaped
INVARIANT ExitJoinsWorkers
INVARIANT ExitForgetsData
PROPERTY RepliesComplete
PROPERTY ClientsGetAnswers
PROPERTY MainReturns
PROPERTY ShutdownCompletes
