\* Two children of two requests each (a third process id, so that a child too
\* many would show), two starts, and every way to lose a process.
SPECIFICATION FairSpec
CONSTANTS
  Kids = {k1, k2, k3}
  MaxKids = 2
  ChildLifetime = 2
  JobLifetime = TRUE
  PipeCapacity = 1
  MaxConnections = 2
  MaxStarts = 2
  Modes = {"nofork", "prefork", "stats"}
  Detaching = {TRUE, FALSE}
  Faults = {"startup", "fork", "accept", "listen_stats", "term", "kill"}
INVARIANTS
  PoolIsSound
  PidFileWhileServing
PROPERTIES
  PoolServes
CHECK_DEADLOCK FALSE
