CONSTANTS
  SupportedUnits = {0, 1}
  AttachedUnits = {0}
  MediaSectors = 1
  RamSectors = 2
  Values = {"a", "b"}
  Requests <- MCRequests
  Tasks = {t1}
  Irq = irq
SPECIFICATION FairSpec
PROPERTIES TransferReturns
