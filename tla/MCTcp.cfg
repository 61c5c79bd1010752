CONSTANTS
  Slot = {0, 1, 2, 3, 4, 5}
  Buffer = 2
  Mss = 2
  Backlog = 2
  MaxRetries = 1
  MaxSynRetries = 1
  SeqMod = 32
  FirstIsn = 30
  IsnStep = 8
  ServerPort = 80
  ClientPort = {1, 2, 3}
  MaxIsn = 6
  MaxOpened = 4
  MaxNet = 2
  MaxFaults = 1
  MaxCount = 2
  MaxBytes <- MCMaxBytes
SPECIFICATION Spec
CONSTRAINT Scenario
INVARIANTS NoStall AcceptQueueRight
PROPERTY ImplementsTcpStream
CHECK_DEADLOCK FALSE
