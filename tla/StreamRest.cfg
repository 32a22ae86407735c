SPECIFICATION FairSpec
CONSTANTS
  Byte <- MCByte
  Message <- MCMessage
  Uninit = Uninit
  KnownId = {1, 2}
  Base = 4
  AdditionalSize = 6
  SendSize = 10
  RecvSize = 8
  SockBuf = 4
  Fd = {f1}
  Key <- MCKey
  InitKey <- MCInitKey
  ListenKey <- MCListenKey
  MaxSent = 1
  MaxConn = 1
PROPERTIES RestIsSent
