SPECIFICATION ClientsSpec
CONSTANTS
  Threads = {"t", "u"}
  None = None
  MaxCalls = 2
  MaxConns = 3
  Getters = {"a", "b", "c"}
  Procs = {"p", "q"}
  ProcOf <- Processes
  Keys = {"k1", "k2"}
  MaxGets = 3
  MaxOld = 1
  MaxLines = 4
  Requests = {"r1", "r2", "r3"}
  MaxSocks = 3
  ChunkSize = 2
  Chunks = 3
  Readable = {0, 2}
  Writable = {0}
  Values = {0, 1}
  MaxActive = 2
INVARIANTS PairedWhileOpen MemoryIsPersistent WebInv GuestInv
PROPERTIES NeverClosesHealthy ClientsSettle
CHECK_DEADLOCK FALSE
