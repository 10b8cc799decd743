SPECIFICATION MCSpec
CONSTANTS
  Addresses = 3
  AddressKinds = {"accepts", "refuses", "silent", "busy"}
  ConnectTries = 1
  LinkFaults = {"resolve", "socket", "pair", "fork", "close", "exec", "ssh", "use"}
  Scripts <- MCScripts
  Compressions = {"none", "lzo"}
  WireCapacity = 3
  PumpBuffer = 2
  TransferFaults = {"open", "shrink", "sendfile", "memory", "timeout", "reset", "disk"}
  MaxFaults = 2
  Hosts = {1, 2}
  Nets <- MCNets
  MAXTRIES = 2
  Overlap = 0
  DnsGap = 0
  MatchBits = 1
  GroupSize = 2
  Compilers = {TRUE, FALSE}
  MaxClients = 3
  MaxCollisions = 2
  Principals = {1, 2, 3}
  Lists <- MCLists
  Rounds = 2
  MaxClient = 2
INVARIANTS
  ConnectionIsRight
  TransferIsWhole
  
  RunningIsAnnounced
  

  
CHECK_DEADLOCK FALSE
