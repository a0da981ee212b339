\* Lumisections of a run with a crash and every other fault.
SPECIFICATION Spec
CONSTANTS
  NLumis = 2
  Pids = {p1, p2}
  Streams = {s1, h1}
  DqmStreams = {h1}
  UseTimeout = 1
  Max <- MCMax
  NoPid = NoPid
  NoStream = NoStream
  Unwritten = Unwritten
SYMMETRY Symmetry
CHECK_DEADLOCK FALSE
INVARIANTS
  LumiTypeOK
  EventsAccounted
  ErrorStreamCovered
  QueueCounted
  QuietMeansClosed
PROPERTIES
  ImplementsLedger
