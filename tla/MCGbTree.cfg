SPECIFICATION Spec
CONSTANTS
  MaxIndex = 3
  MaxPrio = 1
  MaxText = 1
INVARIANTS
  TypeOK
  PeersLinked
  LevelsComplete
  SpansDisjoint
PROPERTIES
  ImplementsPrioTree
