SPECIFICATION FairSpec
CONSTANTS
  Clients = {c1}
  Script <- MCScript
  BufferSize = 1
INVARIANTS TypeOK NoGaps AnswerTellsTheTask StoppedIsClosed
PROPERTY StopEnds
CHECK_DEADLOCK FALSE
