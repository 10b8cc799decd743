\* Three clients; the scan looks at the slots 0 and 1, so that slot 2 of big is
\* out of its reach as slot 50 is in the code.
SPECIFICATION FairSpec
CONSTANTS
  a = a
  b = b
  c = c
  big = big
  down = down
  here = here
  Clients = {a, b, c}
  RemoteHosts = {big, down}
  localhost = here
  Listed = {big, down, here}
  UpHosts = {big, here}
  NSlots <- MCSlots
  LocalSlots = 1
  LocalCppSlots = 2
  ScanLimit = 2
  Nobody = Nobody
  HostList <- MCHostList
  NoSlot = NoSlot
PROPERTIES
  RefinesPool
  LowSlotsFirst
  FreeSlotIsFound
