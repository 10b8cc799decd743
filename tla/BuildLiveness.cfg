\* Two clients compete for one remote and one local slot.
SPECIFICATION FairSpec
CONSTANTS
  a = a
  b = b
  d = d
  h1 = h1
  h2 = h2
  here = here
  Clients = {a, b}
  RemoteHosts = {h1}
  localhost = here
  Listed = {h1}
  UpHosts = {h1}
  NSlots <- MCSlotsOneHost
  LocalSlots = 1
  LocalCppSlots = 1
  ScanLimit = 2
  Nobody = Nobody
  CppHosts = {h1}
  Nested = {}
  ScanOnly = {}
  NoFallback = {}
  MaxDiscrepancies = 1
  ManageBackoff = TRUE
  CompilerStatus = {0, 1}
  Faults = {"net", "crash"}
  NoHost = NoHost
  NoFd = NoFd
  ClosedFd = ClosedFd
PROPERTIES
  EveryBuildEnds
  RefinesPool
