\* Two clients and one server that can preprocess; every fault, the failure of
\* the email log included.
SPECIFICATION Spec
CONSTANTS
  a = a
  b = b
  d = d
  h1 = h1
  h2 = h2
  here = here
  Clients = {a, b}
  RemoteHosts = {h1}
  localhost = here
  Listed = {h1}
  UpHosts = {h1}
  NSlots <- MCSlotsOneHost
  LocalSlots = 1
  LocalCppSlots = 2
  ScanLimit = 2
  Nobody = Nobody
  CppHosts = {h1}
  Nested = {}
  ScanOnly = {}
  NoFallback = {}
  MaxDiscrepancies = 1
  ManageBackoff = TRUE
  CompilerStatus = {0, 1}
  Faults = {"startup", "hostlist", "stat", "lock", "include_server", "cpp", "net", "child", "stderr", "email_log", "crash"}
  NoHost = NoHost
  NoFd = NoFd
  ClosedFd = ClosedFd
SYMMETRY ClientSymmetry
INVARIANTS
  FdsMatchLocks
  SlotDiscipline
