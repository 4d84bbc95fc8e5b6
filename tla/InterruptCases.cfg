SPECIFICATION Spec
INVARIANTS DevicesPass AllServed
PROPERTIES DevicesEnd
