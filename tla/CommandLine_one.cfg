\* One fault at first and one change or none later, two commands, one Ctrl+C.
\* The user runs only so many commands.
SPECIFICATION Spec
CONSTANTS
  Faults <- AllFaults
  Traits <- MCTraits
  MaxFaults = 1
  Changing <- MCChanging
  MaxChanges = 1
  Scripts <- MCScripts
  MaxInterrupts = 1
INVARIANT SkippedForAReason ReportIsExact ReadyRunsThrough AlarmIsReal RepairsStick OneFaultOneCode UsageErrorIsHarmless
PROPERTY InterruptedStartsNothing
CHECK_DEADLOCK FALSE
