\* Two clients, two servers of which one can preprocess, localhost in the list;
\* locks do not fail.
SPECIFICATION Spec
CONSTANTS
  a = a
  b = b
  d = d
  h1 = h1
  h2 = h2
  here = here
  Clients = {a, b}
  RemoteHosts = {h1, h2}
  localhost = here
  Listed = {h1, h2, here}
  UpHosts = {h1, h2, here}
  NSlots <- MCSlots
  LocalSlots = 1
  LocalCppSlots = 2
  ScanLimit = 2
  Nobody = Nobody
  CppHosts = {h1}
  Nested = {}
  ScanOnly = {}
  NoFallback = {}
  MaxDiscrepancies = 1
  ManageBackoff = TRUE
  CompilerStatus = {0, 1, 139}
  Faults = {"net", "stderr"}
  NoHost = NoHost
  NoFd = NoFd
  ClosedFd = ClosedFd
SYMMETRY ClientSymmetry
INVARIANTS
  LocalCompileLocked
  ReportedSuccessHasOutput
  BackoffIsDeserved
