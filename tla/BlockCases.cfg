CONSTANTS
  SupportedUnits = {0, 1, 3}
  AttachedUnits = {0, 1}
  MediaSectors = 2
  RamSectors = 1
  Values = {0, 60, 90, 165}
  Requests = {}
  MaxStatementTicks = 33
SPECIFICATION Spec
INVARIANTS BlockPass
PROPERTIES BlockEnd
