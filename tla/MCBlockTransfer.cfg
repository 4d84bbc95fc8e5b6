CONSTANTS
  SupportedUnits = {0, 1}
  AttachedUnits = {0}
  MediaSectors = 1
  RamSectors = 2
  Values = {"a", "b"}
  Requests <- MCRequests
  Tasks = {t1, t2}
  Irq = irq
SPECIFICATION Spec
INVARIANTS TypeOK Serialized MaskRespected CompletionNotStolen
PROPERTIES ImplementsService TransferAdvances
