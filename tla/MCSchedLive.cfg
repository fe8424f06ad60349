SPECIFICATION FairSpec
CONSTANTS
  disk = disk
  pipe = pipe
  NoAddr = NoAddr
  NProc = 3
  MaxLevel = 3
  UserMax = 2
  UThreshold = 3
  InitPriority = 1
  Addrs <- OneAddr
  Buckets <- MCBuckets
  Hash <- OneHash
  WaitLevel <- OneWaitLevel
  PipeAddrs <- NoAddrs
  IrqAddrs <- NoAddrs
  Masked <- Nobody
  Signalled <- Nobody
PROPERTIES
  NoStarvation
