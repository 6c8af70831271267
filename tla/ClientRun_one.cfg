\* One run: dump, restore, push or statement, with everything that may fail.
CONSTANTS
  Chunks = 4
  Channel = 2
  Pipe = 1
  ErrPipe = 1
  Messages = 2
SPECIFICATION FairSpec
INVARIANTS SuccessIsWhole NothingRunsOn EncoderErrorSurvives RefusalSurvives
PROPERTIES CancelledIsNoSuccess CancellationEnds RunEnds
