SPECIFICATION FairSpec
CONSTANTS
  a = a
  b = b
  Components <- MCComponents
  MaxInterrupts = 2
  MaxFaults = 1
INVARIANTS TypeOK WorkKept RefrozenIsWhole
PROPERTY EventuallyRefrozen
