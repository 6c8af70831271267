\* A push whose destination is another server by the time it writes.
CONSTANTS
  Chunks = 4
  Channel = 2
  Pipe = 1
  ErrPipe = 1
  Messages = 2
SPECIFICATION Spec
INVARIANTS SwappedServerReported
