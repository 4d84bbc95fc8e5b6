CONSTANTS
  Span = 6
  ByteSpan = 256
  Contents <- MCContents
  Ints <- MCInts
SPECIFICATION Spec
INVARIANTS RoutineExact SourceIntact
