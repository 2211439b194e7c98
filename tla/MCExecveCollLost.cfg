SPECIFICATION Spec
CONSTANTS
  MaxArgs = 3
  MaxSlices = 2
  MaxEvents = 1
INVARIANT AcceptedSound
\* The bound on the number of events ends a behaviour.
CHECK_DEADLOCK FALSE
