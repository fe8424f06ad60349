SPECIFICATION Spec
CONSTANTS
  disk = disk
  pipe = pipe
  NoAddr = NoAddr
  NProc = 3
  MaxLevel = 3
  UserMax = 1
  UThreshold = 3
  InitPriority = 1
  Addrs <- MCAddrs
  Buckets <- MCBuckets
  Hash <- ApartHash
  WaitLevel <- MCWaitLevel
  PipeAddrs <- MCPipeAddrs
  IrqAddrs <- MCIrqAddrs
  Masked <- ChildMasks
  Signalled <- Everybody
INVARIANTS
  ListsLinked
  CurrentIsHead
  SleepersChained
  BoostIsOneShot
PROPERTY
  IdleOnlyIfNothingToRun
