CONSTANTS
  RamLow = 0
  RamHigh = 87
  InitialRam <- MCInitialRam
  Images <- MCImages
  BOOT_INFO_PADDR = 16
  BOOT_INFO_VADDR = 1610612752
  BOOT_INFO_MAGIC = 1296191311
  ABI_VERSION = 1
  SYSTEM_ROM_BASE = 134217728
  DIRECT_MAP_VADDR = 1610612736
  DIRECT_MAP_PADDR = 1073741824
  DIRECT_MAP_SIZE = 67108864
  DataAddr = 80
  DataValue <- MCDataValue
  BssAddrs <- MCBssAddrs
SPECIFICATION FairSpec
INVARIANTS Loaded ReservedZero KernelAccepts
PROPERTIES NoLateWrite BootEnds
