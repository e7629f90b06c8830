CONSTANTS
  PduMaxWrites = 2
  AcfRoom = 1476
  AcfMaxItems = 3
  AcfMaxJunk = 1
  DsMaxEntries = 2
  CvWidth = 3
  CvMaxSets = 2
  SeqModulus = 4
  DbcModulus = 8
  StampModulus = 16
  SytInterval = 4
  PresOffset = 3
  PacketSizes = {2, 3}
  StartTimes = {0, 13}
  MsMaxPackets = 5
  MsMaxQueue = 2
  SpMaxChannels = 2
  SpMaxSamples = 3
  SpRooms = {40, 100}
  Interval = 1
  Latency = 0
  Shift = 1
  Floor = 4
  Ahead = 20
  TxCap = 2
  MapCap = 3
  Trip = 1
  Wake = 0
  Skews = {1}
  LastTime = 5
  Mishaps = 1
  Senders = {s1, s2, s3}
  MaxSources = 2
  SeqWrap = 3
  SinkCap = 2
  MaxRecords = 3
SPECIFICATION WireSpec
INVARIANTS
  PduReadsBack
  AcfFaithful
  
  
  PresentedOnTime
  SamplesIntact
  SessionAgrees
CHECK_DEADLOCK FALSE
