----------------------------- MODULE SlotScan ------------------------------
(***************************************************************************)
(* How a client finds a free slot: the loop of dcc_lock_one() in where.c,  *)
(* one dcc_lock_host() call at a time, while other clients take and        *)
(* release slots.  BuildSomewhere takes a free slot in one step; this      *)
(* module shows that the scan has that effect.                             *)
(*                                                                         *)
(* The client around the loop is the most general one that takes its locks *)
(* in the order of dcc_build_somewhere(): a remote slot or a localhost     *)
(* slot first, a second, local, slot only on top of a remote one.          *)
(***************************************************************************)
EXTENDS SlotFiles, Sequences

CONSTANTS
  HostList,     \* the entries of DISTCC_HOSTS in order
  NoSlot        \* no lock held

ASSUME SlotScanAssumption ==
  /\ HostList \in Seq(Hosts)
  /\ \A k \in 1 .. Len(HostList) : HostList[k] \in Listed
  /\ HostList # <<>>
  /\ NoSlot \notin LockFile

VARIABLES
  owner,        \* the kernel's lock table
  scanning,     \* which list a client is scanning, or "no"
  i_cpu,        \* slot number of the outer loop
  entry,        \* position in the list of the inner loop
  asleep,       \* the clients in dcc_lock_pause()
  first, second,\* the slots held: the build host's, and localhost's for cpp
  busy          \* the slots found busy since the scan last started over

vars == <<owner, scanning, i_cpu, entry, asleep, first, second, busy>>

Scan == {"no", "hosts", "local", "local_cpp"}

TypeOK ==
  /\ owner \in [LockFile -> Clients \cup {Nobody}]
  /\ scanning \in [Clients -> Scan]
  /\ i_cpu \in [Clients -> 0 .. ScanLimit - 1]
  /\ entry \in [Clients -> 1 .. Len(HostList)]
  /\ asleep \in SUBSET Clients
  /\ first \in [Clients -> LockFile \cup {NoSlot}]
  /\ second \in [Clients -> LocalFile \cup {NoSlot}]
  /\ busy \in [Clients -> SUBSET LockFile]

Init ==
  /\ owner = [f \in LockFile |-> Nobody]
  /\ scanning = [c \in Clients |-> "no"]
  /\ i_cpu = [c \in Clients |-> 0]
  /\ entry = [c \in Clients |-> 1]
  /\ asleep = {}
  /\ first = [c \in Clients |-> NoSlot]
  /\ second = [c \in Clients |-> NoSlot]
  /\ busy = [c \in Clients |-> {}]

\* The list being scanned, and n_slots and is_up of its entries.
ScanList(c) == IF scanning[c] = "hosts" THEN HostList ELSE <<localhost>>
EntrySlots(c, h) ==
  CASE scanning[c] = "hosts" -> NSlots[h]
    [] scanning[c] = "local" -> LocalSlots
    [] OTHER -> LocalCppSlots
IsUp(c, h) == scanning[c] = "hosts" => h \in UpHosts

\* A mutant of Begin: a first slot while the slot for cpp is still held.
BeginOnTop(c, list) ==
  /\ scanning[c] = "no"
  /\ \/ list \in {"hosts", "local"} /\ first[c] = NoSlot
     \/ list = "local_cpp" /\ first[c] \in RemoteFile /\ second[c] = NoSlot
  /\ scanning' = [scanning EXCEPT ![c] = list]
  /\ i_cpu' = [i_cpu EXCEPT ![c] = 0]
  /\ entry' = [entry EXCEPT ![c] = 1]
  /\ busy' = [busy EXCEPT ![c] = {}]
  /\ UNCHANGED <<owner, asleep, first, second>>

\* Entering dcc_lock_one().
Begin(c, list) ==
  /\ scanning[c] = "no"
  /\ \/ list \in {"hosts", "local"} /\ first[c] = NoSlot /\ second[c] = NoSlot
     \/ list = "local_cpp" /\ first[c] \in RemoteFile /\ second[c] = NoSlot
  /\ scanning' = [scanning EXCEPT ![c] = list]
  /\ i_cpu' = [i_cpu EXCEPT ![c] = 0]
  /\ entry' = [entry EXCEPT ![c] = 1]
  /\ busy' = [busy EXCEPT ![c] = {}]
  /\ UNCHANGED <<owner, asleep, first, second>>

\* Mutants of NextEntry: one slot number too few, and the loops
\* exchanged.
NextEntryUpTo(c, last) ==
  IF entry[c] < Len(ScanList(c))
  THEN /\ entry' = [entry EXCEPT ![c] = @ + 1]
       /\ UNCHANGED <<i_cpu, asleep>>
  ELSE /\ entry' = [entry EXCEPT ![c] = 1]
       /\ i_cpu' = [i_cpu EXCEPT ![c] = IF @ = last THEN 0 ELSE @ + 1]
       /\ asleep' = IF i_cpu[c] = last THEN asleep \cup {c} ELSE asleep
NextEntryTooShort(c) == NextEntryUpTo(c, ScanLimit - 2)
NextSlotFirst(c) ==
  IF i_cpu[c] < ScanLimit - 1
  THEN /\ i_cpu' = [i_cpu EXCEPT ![c] = @ + 1]
       /\ UNCHANGED <<entry, asleep>>
  ELSE LET last == entry[c] = Len(ScanList(c))
       IN /\ i_cpu' = [i_cpu EXCEPT ![c] = 0]
          /\ entry' = [entry EXCEPT ![c] = IF last THEN 1 ELSE @ + 1]
          /\ asleep' = IF last THEN asleep \cup {c} ELSE asleep

\* The next iteration: the inner loop runs over the hosts, the outer one over
\* the slot numbers, and after the last of them the client sleeps.
NextEntry(c) ==
  IF entry[c] < Len(ScanList(c))
  THEN /\ entry' = [entry EXCEPT ![c] = @ + 1]
       /\ UNCHANGED <<i_cpu, asleep>>
  ELSE /\ entry' = [entry EXCEPT ![c] = 1]
       /\ i_cpu' = [i_cpu EXCEPT ![c] = IF @ = ScanLimit - 1 THEN 0 ELSE @ + 1]
       /\ asleep' = IF i_cpu[c] = ScanLimit - 1 THEN asleep \cup {c} ELSE asleep

\* One iteration: the slot does not exist, is busy (or its host is down), is
\* locked, or cannot be tried and the loop is left with an error.  fcntl() would
\* also grant a lock its own process holds already.
TrySlot(c) ==
  LET h == ScanList(c)[entry[c]]
      f == LockFileName(h, i_cpu[c])
  IN /\ scanning[c] # "no"
     /\ c \notin asleep
     /\ \/ /\ i_cpu[c] >= EntrySlots(c, h)
           /\ NextEntry(c)
           /\ UNCHANGED <<owner, scanning, first, second, busy>>
        \/ /\ i_cpu[c] < EntrySlots(c, h)
           /\ ~IsUp(c, h) \/ owner[f] \notin {Nobody, c}
           /\ busy' = [busy EXCEPT ![c] = @ \cup {f}]
           /\ NextEntry(c)
           /\ UNCHANGED <<owner, scanning, first, second>>
        \/ /\ i_cpu[c] < EntrySlots(c, h)
           /\ IsUp(c, h) /\ owner[f] \in {Nobody, c}
           /\ owner' = [owner EXCEPT ![f] = c]
           /\ IF scanning[c] = "local_cpp"
              THEN second' = [second EXCEPT ![c] = f] /\ UNCHANGED first
              ELSE first' = [first EXCEPT ![c] = f] /\ UNCHANGED second
           /\ scanning' = [scanning EXCEPT ![c] = "no"]
           /\ UNCHANGED <<i_cpu, entry, asleep, busy>>
        \/ /\ i_cpu[c] < EntrySlots(c, h)
           /\ IsUp(c, h)
           /\ scanning' = [scanning EXCEPT ![c] = "no"]
           /\ UNCHANGED <<owner, i_cpu, entry, asleep, first, second, busy>>

\* dcc_lock_pause() returns and the scan starts over.
Wake(c) ==
  /\ c \in asleep
  /\ asleep' = asleep \ {c}
  /\ busy' = [busy EXCEPT ![c] = {}]
  /\ UNCHANGED <<owner, scanning, i_cpu, entry, first, second>>

\* dcc_unlock() by a client that is not in the loop.
Unlock(c) ==
  /\ scanning[c] = "no"
  /\ \/ /\ first[c] # NoSlot
        /\ owner' = [owner EXCEPT ![first[c]] = Nobody]
        /\ first' = [first EXCEPT ![c] = NoSlot]
        /\ UNCHANGED second
     \/ /\ second[c] # NoSlot
        /\ owner' = [owner EXCEPT ![second[c]] = Nobody]
        /\ second' = [second EXCEPT ![c] = NoSlot]
        /\ UNCHANGED first
  /\ UNCHANGED <<scanning, i_cpu, entry, asleep, busy>>

Next ==
  \E c \in Clients :
    \/ \E list \in Scan \ {"no"} : Begin(c, list)
    \/ TrySlot(c) \/ Wake(c) \/ Unlock(c)

Spec == Init /\ [][Next]_vars

\* A client in the loop goes on looking; it need not release what it holds.
FairSpec == Spec /\ \A c \in Clients : WF_vars(TrySlot(c)) /\ WF_vars(Wake(c))

-----------------------------------------------------------------------------
(***************************************************************************)
(* The scan takes one slot of the list in one atomic step, never one that  *)
(* is locked, and never a second one of the same kind: SlotPool.           *)
(***************************************************************************)
Held == [c \in Clients |-> {f \in LockFile : owner[f] = c}]

Pool == INSTANCE SlotPool WITH held <- Held

RefinesPool == Pool!PoolSpec

(***************************************************************************)
(* Jobs are spread over the hosts before a second one goes to any: the     *)
(* slot a client takes from the host list has a number k only if it found  *)
(* every slot with a smaller number busy in this pass.                     *)
(***************************************************************************)
LowSlotsFirst ==
  [][\A c \in Clients : \A f \in LockFile :
       scanning[c] = "hosts" /\ first[c] # f /\ first'[c] = f
         => \A g \in ListSlots({HostList[k] : k \in 1 .. Len(HostList)}) :
              g[2] < f[2] => g \in busy[c]]_vars

(***************************************************************************)
(* Polling loses no wakeup: a client does not wait for ever in a list      *)
(* while one of the slots it looks for stays free.                         *)
(***************************************************************************)
FreeSlotIsFound ==
  \A c \in Clients :
    /\ \A f \in LocalCppList :
         <>[](owner[f] = Nobody) => []<>(scanning[c] # "local_cpp")
    /\ \A f \in LocalList :
         <>[](owner[f] = Nobody) => []<>(scanning[c] # "local")
    /\ \A f \in ListSlots({HostList[k] : k \in 1 .. Len(HostList)}) :
         <>[](owner[f] = Nobody) => []<>(scanning[c] # "hosts")
=============================================================================
