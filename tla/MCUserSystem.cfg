CONSTANTS
  WordSpan = 64
  PAGE_SIZE = 4
  InstructionSize = 2
  RecordSize = 4
  SYSTEM_ROM_SIZE = 40
  TablePages = 2
  ROM_TABLE_COUNT = 4
  USER_IMAGE_BASE = 8
  USER_STACK_BOTTOM = 20
  MAX_USER_IMAGE_PAGES = 2
  Rom <- MCRom
  BootInfos <- MCBootInfos
  UserBytes = {99}
  MaxUserSteps = 2
SPECIFICATION SysSpec
INVARIANTS TypeOK AcceptsExactly ImageProtected ReadsMapped KernelReadSafe
PROPERTIES LoadAdvances HelloPrinted
