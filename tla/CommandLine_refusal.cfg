\* Each command alone, with one fault of the destination of a push.
\* The user runs only so many commands.
SPECIFICATION Spec
CONSTANTS
  Faults <- MCRefusal
  Traits <- MCTraits
  MaxFaults = 1
  Changing <- MCNoChanges
  MaxChanges = 0
  Scripts <- MCSingle
  MaxInterrupts = 0
INVARIANT DocumentedCode
CHECK_DEADLOCK FALSE
