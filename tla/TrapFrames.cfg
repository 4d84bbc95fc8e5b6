CONSTANTS
  CodeAddrs = {400}
  Values = {1}
  MaxTaken = 4
SPECIFICATION Spec
INVARIANTS FrameTells StacksExact
PROPERTIES ResumedIntact
