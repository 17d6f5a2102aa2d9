SPECIFICATION ServerSpec
CONSTANTS
  Conns = {"c1", "c2"}
  Openings <- Opened
  Requests <- Asked
  MaxRequests <- Budget
  MaxQueue = 2
INVARIANTS FdsOwned HandedOverClean AnswersInOrder BufferSound
PROPERTIES RefusedIsClosed
CHECK_DEADLOCK FALSE
