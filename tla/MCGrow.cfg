CONSTANTS
  a = a
  b = b
  Items <- MCItems
  Garbage = Garbage
  Width = 5
  ItemSizes = {1, 3}
  InitAllocs = {1, 3}
  MaxLen = 4
SPECIFICATION Spec
INVARIANTS
  IsValid
  ItemsKept
PROPERTIES
  InPlaceSucceeds
  Returns
