SPECIFICATION FairSpec
CONSTANTS
  BufSize = 10
  OverrunBody = 0
  MaxSend = 3
  BodySizes = {0, 1}
  Fds = {f1}
  NoFd = NoFd
  MaxPackets = 3
PROPERTIES EveryWriteReturns OffReleasesWriter
