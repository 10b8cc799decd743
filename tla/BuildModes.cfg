\* A nested client, one that only scans includes and one without fallback.
SPECIFICATION Spec
CONSTANTS
  a = a
  b = b
  d = d
  h1 = h1
  h2 = h2
  here = here
  Clients = {a, b, d}
  RemoteHosts = {h1}
  localhost = here
  Listed = {h1}
  UpHosts = {h1}
  NSlots <- MCSlotsOneHost
  LocalSlots = 1
  LocalCppSlots = 2
  ScanLimit = 2
  Nobody = Nobody
  CppHosts = {h1}
  Nested = {d}
  ScanOnly = {a}
  NoFallback = {b}
  MaxDiscrepancies = 1
  ManageBackoff = TRUE
  CompilerStatus = {0, 1}
  Faults = {"net", "stderr"}
  NoHost = NoHost
  NoFd = NoFd
  ClosedFd = ClosedFd
INVARIANTS
  NothingHeldAtEnd
