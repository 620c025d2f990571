CONSTANTS
  MaxWriteOps = 2
  NULL = NULL
  NoThread = NoThread
  NoRequest = NoRequest
  t1 = t1
  t2 = t2
  f1 = f1
  f2 = f2
  p1 = p1
  p2 = p2
  p3 = p3
  a = a
  nl = nl
  NL = nl
  Thread <- TwoThreads
  File <- OneFile
  Ptr <- ThreePtrs
  Payload <- Terminated
  ReadSize <- ReadSizes
  Seek <- SomeSeeks
  SeekTo <- SomeSeekTos
  Interruptible <- LlseekOnly
  MaxPartial = 2
SPECIFICATION Spec
SYMMETRY Symmetric
INVARIANT MutualExclusion
PROPERTY SeekStaysInside
PROPERTY SeekFindsCommand
