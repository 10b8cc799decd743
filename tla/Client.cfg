\* Words of up to four lexemes and lists of two hosts; commands of four groups;
\* any chain of programs in three directories; three clients that write one
\* counter, two with a monitor, two users of a timefile and of the
\* list of zeroconf hosts.
SPECIFICATION MCSpec
CONSTANTS
  Lexemes = {"h1","localhost","@","[","]","/",":",",","lzo","cpp","4","-3","0"}
  MaxTyped = 4
  Descriptions <- MCDescriptions
  MaxListed = 2
  ZeroconfHosts <- MCZeroconf
  Groups <- MCGroups
  MaxGroups = 4
  WpParts <- MCParts
  MaxParts = 4
  Directories <- MCDirectories
  Cwd <- MCCwd
  Calls <- MCCalls
  MaxPath = 3
  ServerPath <- MCServerPath
  ClientPath <- MCClientPath
  Strings <- MCStrings
  Headers <- MCHeaders
  MaxStrings = 3
  DotdLexemes <- MCLexemes
  LengthOf <- MCLength
  MAX_DOTD_LINE_LEN = 10
  MaxLexemes = 6
  Dependencies <- MCDependencies
  Separators <- MCSeparators
  BuildStart = 2
  MaxDependencies = 3
  Pids = {1, 2}
  SlotOf <- MCSlotOf
  MaxAge = 0
  MaxProcesses = 1
  Builds = {a, b, c}
  MaxDiscrepancy = 2
  Servers = {h1}
  Users = {u, v}
  Period = 2
  MaxTicks = 5
  MaxSetBack = 2
  Announcements <- MCAnnouncements
  Askers = {1, 2}
  MaxChanges = 2
INVARIANTS
  
  CommandsAgree
  RecursionIsCaught
  
  MonitorIsRight
  DiscrepanciesEndPump
  BackoffIsBounded
  ListIsKept
CHECK_DEADLOCK FALSE
