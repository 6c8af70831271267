\* Each command alone, with one fault of what setup configures.
\* The user runs only so many commands.
SPECIFICATION Spec
CONSTANTS
  Faults <- MCSetting
  Traits <- MCTraits
  MaxFaults = 1
  Changing <- MCNoChanges
  MaxChanges = 0
  Scripts <- MCSingle
  MaxInterrupts = 0
INVARIANT DocumentedCode
CHECK_DEADLOCK FALSE
