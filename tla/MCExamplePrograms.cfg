CONSTANTS
  NoThread = NoThread
  NoCall = NoCall
  t1 = t1
  t2 = t2
  w1 = w1
  w2 = w2
  Caller <- TwoCallers
  Starts <- TwoStarts
  Command <- Commands
  Std <- AllStd
  Failures <- AnyCall
  Faults <- AnyFault
  MaxCalls = 2
SPECIFICATION FairSpec
INVARIANT TypeOK
INVARIANT TrueMeansDone
INVARIANT OutputClosed
INVARIANT CommandHasStdout
INVARIANT NothingPrintedTwice
INVARIANT ThreadDataOwned
PROPERTY CallsReturn
PROPERTY ThreadsComplete
