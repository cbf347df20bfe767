SPECIFICATION Spec
CONSTANTS
  a = a
  b = b
  Components <- MCComponents
  MaxInterrupts = 2
  MaxFaults = 0
INVARIANT ExitRestores
