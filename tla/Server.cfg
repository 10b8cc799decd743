\* Addresses of one byte and of two, lists of two masks; three options and two
\* jobs; thirteen seconds of statistics in a ring of two; three files in a job;
\* two jobs in a row in the same child, one message in flight each way.
SPECIFICATION MCSpec
CONSTANTS
  ByteBits = 2
  V4Bytes = 1
  V6Bytes = 2
  LittleEndian = TRUE
  Peers <- MCPeers
  Specs <- MCSpecs
  MaxAllowed = 2
  CommandOptions <- MCOptions
  MaxOptions = 3
  MaxServed = 2
  Passwd <- MCPasswd
  LogFds = {3, 4}
  Minute = 3
  Slots = 3
  SlotSecs = 2
  Spans = {2}
  RingSize = 2
  Reported = {"COMPILE_OK", "TCP_ACCEPT"}
  Durations = {1, 3}
  MaxDelay = 6
  MaxSteps = 1
  MaxClock = 13
  MaxReports = 2
  Cwds <- MCCwds
  FileNames <- MCFileNames
  LinkNames <- MCLinkNames
  LinkTargets <- MCLinkTargets
  MaxReceived = 3
  Processes = {p, q}
  Jobs = 2
  Versions = {1, 2, 3}
  Capacity = 1
  JobFaults = {"reset", "send", "tmp", "reject", "compiler", "signal", "email", "cwd", "cpp"}
INVARIANTS
  AdmittedByPrefix
  ProgramsInOrder
  FilesComeAndGo
  
  
PROPERTIES
  
  BothFinish
CHECK_DEADLOCK FALSE
