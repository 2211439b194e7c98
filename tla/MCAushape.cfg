SPECIFICATION MainSpec
CONSTANTS
  SSizeMax <- MCSSizeMax
  EventsPerDocs <- MCEventsPerDocs
  Sizes = {1, 2}
  MaxFed = 3
  MaxLog = 1
  MaxReads = 2
  CommandLines <- MCCommandLines
  MinSize = 2
  Kilo = 2
  Mega = 4
INVARIANTS
  ConfAsAsked
  SuccessMeansDelivered
  SingleMeansOne
  CallsInOrder
  ResourcesReleased
PROPERTIES
  Exits
\* The program stops when it has exited.
CHECK_DEADLOCK FALSE
