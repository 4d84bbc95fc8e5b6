CONSTANTS
  CodeAddrs = {8, 4000}
  Values = {}
  MaxTaken = 12
SPECIFICATION CaseSpec
INVARIANTS FaultsPass FreshTranslation
PROPERTIES FaultsEnd
