SPECIFICATION FairSpec
CONSTANTS
  Byte <- MCByte
  Message <- MCMessage
  Uninit = Uninit
  KnownId = {1, 2}
  Base = 4
  AdditionalSize = 6
  SendSize = 10
  RecvSize = 8
  SockBuf = 5
  Fd = {f1, f2}
  Key <- MCKey
  InitKey <- MCInitKey
  ListenKey <- MCListenKey
  MaxSent = 2
  MaxConn = 2
INVARIANTS SendRingOK RecvRingOK
PROPERTIES ChannelSpec SentIsDelivered
