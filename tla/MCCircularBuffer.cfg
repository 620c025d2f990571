CONSTANTS
  MaxWriteOps = 3
  NULL = NULL
  p1 = p1
  p2 = p2
  p3 = p3
  p4 = p4
  Ptr <- MCPtr
  Sizes <- MCSizes
SPECIFICATION Spec
INVARIANT TypeOK
INVARIANT HeldIsStored
INVARIANT OffsetsAgree
INVARIANT FindLocatesByte
INVARIANT TotalSizeIsReadable
PROPERTY ImplementsLog
