SPECIFICATION Spec
CONSTANTS
  BufSize = 8
  OverrunBody = 0
  MaxSend = 3
  BodySizes = {0, 1}
  Fds = {f1}
  NoFd = NoFd
  MaxPackets = 4
INVARIANT RoomIsSignalled
