CONSTANTS
  N = 8
  RamDir = 2
  DirectDir = 5
  MmioDir = 1
  NTables = 2
  NMmio = 4
  DirPage = 1
  IdentityPage = 2
  DirectPage = 3
  MmioPage = 5
  BootPage = 0
  KernelPage <- MCKernelPage
  StackPage <- MCStackPage
  InfoPage <- MCInfoPage
  Garbage <- MCGarbage
SPECIFICATION Spec
INVARIANTS MapExact FetchMapped HandOver
