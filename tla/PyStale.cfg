SPECIFICATION Spec
CONSTANTS
  Threads = {"t", "u"}
  None = None
  MaxCalls = 2
  MaxConns = 3
INVARIANT AnswersMatch
CHECK_DEADLOCK FALSE
