\* Each command alone, with one fault that the source or Docker has.
\* The user runs only so many commands.
SPECIFICATION Spec
CONSTANTS
  Faults <- MCConnection
  Traits <- MCTraits
  MaxFaults = 1
  Changing <- MCNoChanges
  MaxChanges = 0
  Scripts <- MCSingle
  MaxInterrupts = 0
INVARIANT DocumentedCode
CHECK_DEADLOCK FALSE
