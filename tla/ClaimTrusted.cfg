\* A request that gives up in the middle of a file, and another one after it.
SPECIFICATION MCSafety
CONSTANTS
  Words <- MCWords
  Definitions <- MCDefinitions
  Pieces <- MCPieces
  MaxMacros = 3
  MaxPieces = 3
  Trees <- MCTrees
  SourceNames <- MCSourceNames
  SystemDirs <- MCSystemDirs
  Quotas = {2, 100}
  MaxRequests = 3
  MaxTouches = 2
  Compilers <- MCCompilers
  Sources <- MCSources
  DirLinks <- MCDirLinks
  NamePrefix <- NoNamePrefix
  ClientTmps <- MCClientTmps
  MaxIncluded = 2
  MaxServed = 3
  Pumps = {1, 2}
  PumpOf <- MCPumpOf
  opt_email_bound = 1
INVARIANTS
  ClosureCanBeTrusted
CHECK_DEADLOCK FALSE
