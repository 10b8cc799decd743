\* The email log cannot be written.
SPECIFICATION Spec
CONSTANTS
  a = a
  b = b
  d = d
  h1 = h1
  h2 = h2
  here = here
  Clients = {a}
  RemoteHosts = {h1}
  localhost = here
  Listed = {h1}
  UpHosts = {h1}
  NSlots <- MCSlotsOneHost
  LocalSlots = 1
  LocalCppSlots = 2
  ScanLimit = 2
  Nobody = Nobody
  CppHosts = {h1}
  Nested = {}
  ScanOnly = {}
  NoFallback = {}
  MaxDiscrepancies = 1
  ManageBackoff = TRUE
  CompilerStatus = {0, 1, 139}
  Faults = {"email_log"}
  NoHost = NoHost
  NoFd = NoFd
  ClosedFd = ClosedFd
INVARIANTS
  ReportedSuccessHasOutput
