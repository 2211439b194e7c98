SPECIFICATION OutSpec
CONSTANTS
  Lens <- MCLens
  IntMax = 3
  MaxBytes = 9
INVARIANTS
  NoByteTwice
PROPERTIES
  KeepsPromise
  WriteReturns
\* The bound on the bytes handed over ends a behaviour.
CHECK_DEADLOCK FALSE
