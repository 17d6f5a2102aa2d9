SPECIFICATION Spec
CONSTANTS
  BufSize = 8
  OverrunBody = 0
  MaxSend = 2
  BodySizes = {0, 1}
  Fds = {f1, f2}
  NoFd = NoFd
  MaxPackets = 4
SYMMETRY Symmetry
INVARIANTS IInv NoOverwrite StreamsIntact OverrunsMarkLosses FdsOwned
PROPERTY ImplementsStream
