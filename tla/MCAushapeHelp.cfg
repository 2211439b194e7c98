SPECIFICATION MainSpec
CONSTANTS
  SSizeMax <- MCSSizeMax
  EventsPerDocs <- MCEventsPerDocs
  Sizes = {1, 2}
  MaxFed = 1
  MaxLog = 1
  MaxReads = 1
  CommandLines <- MCCommandLines
  MinSize = 2
  Kilo = 2
  Mega = 4
PROPERTIES HelpTextHolds
\* The program stops when it has exited.
CHECK_DEADLOCK FALSE
