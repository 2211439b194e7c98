SPECIFICATION Spec
CONSTANTS
  SSizeMax <- MCSSizeMax
  EventsPerDocs <- MCEventsPerDocs
  Sizes = {1, 2}
  MaxFed = 4
  MaxLog = 5
INVARIANTS
  TypeOK
  SeenWellFormed
  LimitKept
  EventsInOrder
PROPERTIES
  FailureFinal
  EndDelivers
  ImplementsStream
\* The bounds on the input and on new documents, and a destroyed converter, end a behaviour.
CHECK_DEADLOCK FALSE
