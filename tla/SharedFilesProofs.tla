-------------------------- MODULE SharedFilesProofs ------------------------
(***************************************************************************)
(* Proofs about what the processes of a client's machine share in its file *)
(* system: the slots, which are lock files (SlotPool, and SlotScan, which  *)
(* implements it), and the roots that include servers make and clean out   *)
(* (IncludeServer).  The properties are checked by TLC on the runs         *)
(* slot_scan and include_server; here they are proved for any number of    *)
(* hosts, slots, clients, pump scripts and servers.                        *)
(***************************************************************************)
EXTENDS SlotPool, SlotScan, IncludeServer, TLAPS

(***************************************************************************)
(* SlotPool and SlotScan                                                   *)
(***************************************************************************)
LEMMA PoolTypeStep == PoolTypeOK /\ [PoolNext]_held => PoolTypeOK'
BY DEF PoolTypeOK, PoolNext, AcquireRemote, AcquireLocal, ReleaseOne, ReleaseAll,
       RemoteFile, LocalFile

(***************************************************************************)
(* Slots have one holder, and a client has at most one slot of each kind.  *)
(***************************************************************************)
PoolInv == PoolTypeOK /\ SlotExclusive /\ TwoLocksAtMost

LEMMA PoolStep == PoolInv /\ [PoolNext]_held => PoolInv'
<1> SUFFICES ASSUME PoolInv, [PoolNext]_held PROVE SlotExclusive' /\ TwoLocksAtMost'
  BY PoolTypeStep, Zenon DEF PoolInv
<1> USE DEF PoolInv, PoolTypeOK, SlotExclusive, TwoLocksAtMost
<1>1. ASSUME NEW c \in Clients, AcquireRemote(c) PROVE SlotExclusive' /\ TwoLocksAtMost'
  BY <1>1 DEF AcquireRemote, Free
<1>2. ASSUME NEW c \in Clients, AcquireLocal(c) PROVE SlotExclusive' /\ TwoLocksAtMost'
  <2>1. PICK f \in LocalFile : Free(f) /\ held' = [held EXCEPT ![c] = @ \cup {f}]
    BY <1>2, Zenon DEF AcquireLocal
  <2>2. SlotExclusive'
    BY <2>1 DEF Free
  <2>3. \A g \in held[c] : HostOf(g) # localhost
    BY <1>2, Zenon DEF AcquireLocal, LocalFile, HostOf
  <2>4. HostOf(f) = localhost
    BY <2>1, Zenon DEF LocalFile, HostOf
  <2>5. TwoLocksAtMost'
    BY <2>1, <2>3, <2>4, Zenon
  <2>6. QED
    BY <2>2, <2>5, Zenon
<1>3. ASSUME NEW c \in Clients, ReleaseOne(c) PROVE SlotExclusive' /\ TwoLocksAtMost'
  BY <1>3 DEF ReleaseOne
<1>4. ASSUME NEW c \in Clients, ReleaseAll(c) PROVE SlotExclusive' /\ TwoLocksAtMost'
  BY <1>4 DEF ReleaseAll
<1>5. CASE UNCHANGED held
  BY <1>5, Zenon
<1>6. QED
  BY <1>1, <1>2, <1>3, <1>4, <1>5, Zenon DEF PoolNext

LEMMA PoolInvariant == PoolSpec => []PoolInv
<1>1. PoolInit => PoolInv
  BY Zenon DEF PoolInit, PoolInv, PoolTypeOK, SlotExclusive, TwoLocksAtMost
<1>2. QED
  BY <1>1, PoolStep, PTL DEF PoolSpec

(***************************************************************************)
(* No slot is ever held by two clients.                                    *)
(***************************************************************************)
THEOREM PoolIsExclusive == PoolSpec => []SlotExclusive
BY PoolInvariant, PTL DEF PoolInv

(***************************************************************************)
(* No client ever holds two remote or two local slots.                     *)
(***************************************************************************)
THEOREM PoolTwoLocks == PoolSpec => []TwoLocksAtMost
BY PoolInvariant, PTL DEF PoolInv

(***************************************************************************)
(* The inductive invariant: a client owns the slots it remembers and no    *)
(* others, is inside the list it scans, and starts to scan only with the   *)
(* slots its place in dcc_build_somewhere() allows.                        *)
(***************************************************************************)
OwnsWhatItHolds ==
  \A c \in Clients : \A f \in LockFile : owner[f] = c <=> f \in {first[c], second[c]}

ScanPlace ==
  \A c \in Clients :
    /\ scanning[c] \in {"hosts", "local"} => first[c] = NoSlot
    /\ scanning[c] # "no" => second[c] = NoSlot
    /\ scanning[c] = "local_cpp" => first[c] \in RemoteFile
    /\ scanning[c] \in {"local", "local_cpp"} => entry[c] = 1
    /\ second[c] # NoSlot => first[c] \notin LocalFile

ScanInv == TypeOK /\ OwnsWhatItHolds /\ ScanPlace

LEMMA Fresh == NoSlot \notin LockFile /\ Nobody \notin Clients
BY SlotFilesAssumption, SlotScanAssumption, Zenon

LEMMA Limits == ScanLimit \in Nat \ {0} /\ Len(HostList) \in Nat \ {0}
BY SlotFilesAssumption, SlotScanAssumption

LEMMA SlotIsFile ==
  ASSUME ScanInv, NEW c \in Clients, scanning[c] # "no"
  PROVE  /\ ScanList(c)[entry[c]] \in Hosts
         /\ LockFileName(ScanList(c)[entry[c]], i_cpu[c]) \in LockFile
         /\ scanning[c] # "hosts"
              => LockFileName(ScanList(c)[entry[c]], i_cpu[c]) \in LocalFile
<1>1. ScanList(c)[entry[c]] \in Hosts
  BY SlotScanAssumption DEF ScanInv, ScanPlace, TypeOK, ScanList, Hosts, Scan
<1>2. LockFileName(ScanList(c)[entry[c]], i_cpu[c]) \in LockFile
  BY <1>1 DEF ScanInv, ScanPlace, TypeOK, LockFile
<1>3. scanning[c] # "hosts" => ScanList(c)[entry[c]] = localhost
  BY DEF ScanInv, ScanPlace, TypeOK, ScanList, Scan
<1>4. QED
  BY <1>1, <1>2, <1>3, Zenon DEF LocalFile, LockFileName

LEMMA ScanInit == Init => ScanInv
BY SlotFilesAssumption, SlotScanAssumption
   DEF Init, ScanInv, OwnsWhatItHolds, ScanPlace, TypeOK, Scan

LEMMA NextEntryInList ==
  ASSUME ScanInv, NEW c \in Clients, scanning[c] # "no", NextEntry(c)
  PROVE  /\ i_cpu' \in [Clients -> 0 .. ScanLimit - 1]
         /\ entry' \in [Clients -> 1 .. Len(HostList)]
         /\ asleep' \in SUBSET Clients
         /\ \A d \in Clients : scanning[d] \in {"local", "local_cpp"} => entry'[d] = 1
<1>1. Len(HostList) \in Nat \ {0} /\ ScanLimit \in Nat \ {0}
  BY Limits, Zenon
<1>2. scanning[c] \in {"local", "local_cpp"} => Len(ScanList(c)) = 1
  BY Zenon DEF ScanList
<1>3. scanning[c] = "hosts" => Len(ScanList(c)) = Len(HostList)
  BY Zenon DEF ScanList
<1>4. /\ i_cpu[c] \in 0 .. ScanLimit - 1
      /\ i_cpu[c] # ScanLimit - 1 => i_cpu[c] + 1 \in 0 .. ScanLimit - 1
      /\ 0 \in 0 .. ScanLimit - 1
  BY <1>1 DEF ScanInv, TypeOK
<1>5. scanning[c] \in {"hosts", "local", "local_cpp"}
  BY Zenon DEF ScanInv, ScanPlace, TypeOK, Scan
<1>6. i_cpu' \in [Clients -> 0 .. ScanLimit - 1] /\ asleep' \in SUBSET Clients
  BY <1>4 DEF ScanInv, TypeOK, NextEntry
<1>7. CASE entry[c] < Len(ScanList(c))
  <2>1. entry[c] \in 1 .. Len(HostList)
    BY Zenon DEF ScanInv, TypeOK
  <2>2. scanning[c] \in {"local", "local_cpp"} => entry[c] = 1
    BY Zenon DEF ScanInv, ScanPlace
  <2>3. scanning[c] = "hosts"
    <3>1. SUFFICES ASSUME scanning[c] \in {"local", "local_cpp"} PROVE FALSE
      BY <1>5, Zenon
    <3>2. Len(ScanList(c)) = 1 /\ entry[c] = 1
      BY <1>2, <2>2, <3>1, Zenon
    <3>3. QED
      BY <1>7, <3>2
  <2>4. entry[c] < Len(HostList)
    BY <1>3, <1>7, <2>3, Zenon
  <2>5. entry[c] + 1 \in 1 .. Len(HostList)
    BY <1>1, <2>1, <2>4
  <2>6. entry' = [entry EXCEPT ![c] = entry[c] + 1]
    BY <1>7, Zenon DEF NextEntry
  <2>7. QED
    BY <1>6, <2>3, <2>5, <2>6, Zenon DEF ScanInv, ScanPlace, TypeOK
<1>8. CASE ~(entry[c] < Len(ScanList(c)))
  <2>1. 1 \in 1 .. Len(HostList) /\ entry' = [entry EXCEPT ![c] = 1]
    BY <1>1, <1>8 DEF NextEntry
  <2>2. QED
    BY <1>6, <2>1, Zenon DEF ScanInv, ScanPlace, TypeOK
<1>9. QED
  BY <1>7, <1>8, Zenon

LEMMA ScanStep == ScanInv /\ [Next]_vars => ScanInv'
<1> SUFFICES ASSUME ScanInv, [Next]_vars PROVE ScanInv'
  BY Zenon
<1>1. ASSUME NEW c \in Clients, NEW list \in Scan \ {"no"}, Begin(c, list) PROVE ScanInv'
  BY <1>1, Fresh, Limits
     DEF Begin, ScanInv, OwnsWhatItHolds, ScanPlace, TypeOK, Scan, RemoteFile
<1>2. ASSUME NEW c \in Clients, TrySlot(c) PROVE ScanInv'
  <2> DEFINE h == ScanList(c)[entry[c]]
             f == LockFileName(h, i_cpu[c])
  <2>1. f \in LockFile /\ scanning[c] # "no" /\ (scanning[c] # "hosts" => f \in LocalFile)
    BY <1>2, SlotIsFile, Zenon DEF TrySlot
  <2> HIDE DEF f, h
  <2>2. CASE NextEntry(c) /\ UNCHANGED <<owner, scanning, first, second, busy>>
    BY <2>1, <2>2, NextEntryInList, Zenon DEF ScanInv, OwnsWhatItHolds, ScanPlace, TypeOK
  <2>3. CASE /\ busy' = [busy EXCEPT ![c] = @ \cup {f}]
             /\ NextEntry(c) /\ UNCHANGED <<owner, scanning, first, second>>
    BY <2>1, <2>3, NextEntryInList, SMTT(30) DEF ScanInv, OwnsWhatItHolds, ScanPlace, TypeOK
  <2>4. CASE /\ owner[f] \in {Nobody, c}
             /\ owner' = [owner EXCEPT ![f] = c]
             /\ scanning' = [scanning EXCEPT ![c] = "no"]
             /\ UNCHANGED <<i_cpu, entry, asleep, busy>>
             /\ IF scanning[c] = "local_cpp"
                THEN second' = [second EXCEPT ![c] = f] /\ UNCHANGED first
                ELSE first' = [first EXCEPT ![c] = f] /\ UNCHANGED second
    <3>1. CASE scanning[c] = "local_cpp"
      <4>1. second' = [second EXCEPT ![c] = f] /\ UNCHANGED first /\ f \in LocalFile
        BY <2>1, <2>4, <3>1, Zenon
      <4>2. TypeOK'
        BY <2>1, <2>4, <4>1, Zenon DEF ScanInv, ScanPlace, TypeOK, Scan
      <4>3. OwnsWhatItHolds'
        BY <2>1, <2>4, <3>1, <4>1, Fresh DEF ScanInv, OwnsWhatItHolds, ScanPlace, TypeOK
      <4>4. ScanPlace'
        BY <2>1, <2>4, <3>1, <4>1, Fresh, Zenon DEF ScanInv, ScanPlace, TypeOK, Scan, RemoteFile
      <4>5. QED
        BY <4>2, <4>3, <4>4, Zenon DEF ScanInv
    <3>2. CASE scanning[c] \in {"hosts", "local"}
      <4>1. first' = [first EXCEPT ![c] = f] /\ UNCHANGED second
        BY <2>4, <3>2, Zenon
      <4>2. TypeOK'
        BY <2>1, <2>4, <4>1, Zenon DEF ScanInv, ScanPlace, TypeOK, Scan
      <4>3. OwnsWhatItHolds'
        BY <2>1, <2>4, <3>2, <4>1, Fresh DEF ScanInv, OwnsWhatItHolds, ScanPlace, TypeOK
      <4>4. ScanPlace'
        BY <2>1, <2>4, <3>2, <4>1, Fresh, Zenon DEF ScanInv, ScanPlace, TypeOK, Scan, RemoteFile
      <4>5. QED
        BY <4>2, <4>3, <4>4, Zenon DEF ScanInv
    <3>3. QED
      BY <2>1, <3>1, <3>2, Zenon DEF ScanInv, ScanPlace, TypeOK, Scan
  <2>5. CASE /\ scanning' = [scanning EXCEPT ![c] = "no"]
             /\ UNCHANGED <<owner, i_cpu, entry, asleep, first, second, busy>>
    BY <2>5 DEF ScanInv, OwnsWhatItHolds, ScanPlace, TypeOK, Scan
  <2>6. QED
    BY <1>2, <2>2, <2>3, <2>4, <2>5, Zenon DEF TrySlot, f, h
<1>3. ASSUME NEW c \in Clients, Wake(c) PROVE ScanInv'
  BY <1>3, Zenon DEF Wake, ScanInv, OwnsWhatItHolds, ScanPlace, TypeOK
<1>4. ASSUME NEW c \in Clients, Unlock(c) PROVE ScanInv'
  <2>1. CASE /\ first[c] # NoSlot
             /\ owner' = [owner EXCEPT ![first[c]] = Nobody]
             /\ first' = [first EXCEPT ![c] = NoSlot]
             /\ UNCHANGED second
    <3>1. first[c] \in LockFile /\ first[c] # second[c]
      BY <2>1, Fresh, Zenon DEF ScanInv, ScanPlace, TypeOK
    <3>2. TypeOK'
      BY <1>4, <2>1, <3>1, Zenon DEF Unlock, ScanInv, OwnsWhatItHolds, ScanPlace, TypeOK
    <3>3. OwnsWhatItHolds'
      BY <1>4, <2>1, <3>1, Fresh DEF Unlock, ScanInv, OwnsWhatItHolds, TypeOK
    <3>4. ScanPlace'
      BY <1>4, <2>1, <3>1, Fresh, Zenon DEF Unlock, ScanInv, ScanPlace, TypeOK, LocalFile
    <3>5. QED
      BY <3>2, <3>3, <3>4, Zenon DEF ScanInv
  <2>2. CASE /\ second[c] # NoSlot
             /\ owner' = [owner EXCEPT ![second[c]] = Nobody]
             /\ second' = [second EXCEPT ![c] = NoSlot]
             /\ UNCHANGED first
    <3>1. second[c] \in LockFile /\ first[c] # second[c]
      BY <2>2, Fresh, Zenon DEF ScanInv, ScanPlace, TypeOK, LocalFile
    <3>2. TypeOK'
      BY <1>4, <2>2, <3>1, Zenon DEF Unlock, ScanInv, OwnsWhatItHolds, ScanPlace, TypeOK
    <3>3. OwnsWhatItHolds'
      BY <1>4, <2>2, <3>1, Fresh DEF Unlock, ScanInv, OwnsWhatItHolds, TypeOK
    <3>4. ScanPlace'
      BY <1>4, <2>2, <3>1, Fresh, Zenon DEF Unlock, ScanInv, ScanPlace, TypeOK, LocalFile
    <3>5. QED
      BY <3>2, <3>3, <3>4, Zenon DEF ScanInv
  <2>3. QED
    BY <1>4, <2>1, <2>2, Zenon DEF Unlock
<1>5. CASE UNCHANGED vars
  BY <1>5, Zenon DEF vars, ScanInv, OwnsWhatItHolds, ScanPlace, TypeOK
<1>6. QED
  BY <1>1, <1>2, <1>3, <1>4, <1>5, Zenon DEF Next

LEMMA ScanInvariant == Spec => []ScanInv
BY ScanInit, ScanStep, PTL DEF Spec

(***************************************************************************)
(* How the pool sees a slot that is taken and one that is given back.      *)
(***************************************************************************)
LEMMA HeldTaken ==
  ASSUME TypeOK, NEW c \in Clients, NEW f \in LockFile,
         owner[f] = Nobody, owner' = [owner EXCEPT ![f] = c]
  PROVE  /\ Held' = [Held EXCEPT ![c] = Held[c] \cup {f}]
         /\ \A d \in Clients : f \notin Held[d]
<1>1. \A d \in Clients : f \notin Held[d]
  BY Fresh, Zenon DEF Held
<1>2. \A d \in Clients : Held'[d] = IF d = c THEN Held[c] \cup {f} ELSE Held[d]
  <2>1. \A g \in LockFile : owner'[g] = IF g = f THEN c ELSE owner[g]
    BY Zenon DEF TypeOK
  <2>2. TAKE d \in Clients
  <2>3. \A g : g \in Held'[d] <=> g \in LockFile /\ owner'[g] = d
    BY Zenon DEF Held
  <2>4. \A g : g \in Held[d] <=> g \in LockFile /\ owner[g] = d
    BY Zenon DEF Held
  <2>5. \A g : g \in Held'[d] <=> g \in (IF d = c THEN Held[c] \cup {f} ELSE Held[d])
    BY <1>1, <2>1, <2>3, <2>4
  <2>6. QED
    BY <2>5, Zenon
<1>3. QED
  BY <1>1, <1>2, Zenon DEF Held

LEMMA HeldGiven ==
  ASSUME TypeOK, NEW c \in Clients, NEW f \in LockFile,
         owner[f] = c, owner' = [owner EXCEPT ![f] = Nobody]
  PROVE  f \in Held[c] /\ Held' = [Held EXCEPT ![c] = Held[c] \ {f}]
<1>1. f \in Held[c]
  BY Zenon DEF Held
<1>2. \A d \in Clients : Held'[d] = IF d = c THEN Held[c] \ {f} ELSE Held[d]
  <2>1. \A g \in LockFile : owner'[g] = IF g = f THEN Nobody ELSE owner[g]
    BY Zenon DEF TypeOK
  <2>2. TAKE d \in Clients
  <2>3. \A g : g \in Held'[d] <=> g \in LockFile /\ owner'[g] = d
    BY Zenon DEF Held
  <2>4. \A g : g \in Held[d] <=> g \in LockFile /\ owner[g] = d
    BY Zenon DEF Held
  <2>5. \A g : g \in Held'[d] <=> g \in (IF d = c THEN Held[c] \ {f} ELSE Held[d])
    BY <2>1, <2>3, <2>4, Fresh
  <2>6. QED
    BY <2>5, Zenon
<1>3. QED
  BY <1>1, <1>2, Zenon DEF Held

LEMMA SameFiles == Pool!LocalFile = LocalFile /\ Pool!RemoteFile = RemoteFile
BY DEF RemoteFile, Pool!RemoteFile, LocalFile, Pool!LocalFile, LockFile, Pool!LockFile,
       LockFileName, Pool!LockFileName, Hosts, Pool!Hosts

(***************************************************************************)
(* A slot that is found free is free for the pool, and its client may take *)
(* it: nothing is held yet, or a remote slot is and this one is local.     *)
(***************************************************************************)
LEMMA TakenRefines ==
  ASSUME ScanInv, NEW c \in Clients, NEW f \in LockFile, scanning[c] # "no",
         scanning[c] # "hosts" => f \in LocalFile,
         owner[f] \in {Nobody, c}, owner' = [owner EXCEPT ![f] = c]
  PROVE  Pool!PoolNext
<1>1. TypeOK /\ scanning[c] \in {"hosts", "local", "local_cpp"}
  BY Zenon DEF ScanInv, TypeOK, Scan
<1>2. CASE scanning[c] = "local_cpp"
  <2>1. Held[c] = {first[c]} /\ first[c] \in RemoteFile /\ f \in LocalFile
    BY <1>2, Fresh DEF ScanInv, OwnsWhatItHolds, ScanPlace, Held, RemoteFile
  <2>2. owner[f] = Nobody
    BY <2>1, Zenon DEF Held, RemoteFile
  <2>3. Pool!Free(f) /\ Held' = [Held EXCEPT ![c] = Held[c] \cup {f}]
    BY <1>1, <2>2, HeldTaken, Zenon DEF Pool!Free
  <2>4. Pool!AcquireLocal(c)
    BY <2>1, <2>3, SameFiles, Zenon DEF Pool!AcquireLocal, RemoteFile
  <2>5. QED
    BY <2>4, Zenon DEF Pool!PoolNext
<1>3. CASE scanning[c] \in {"hosts", "local"}
  <2>1. Held[c] = {}
    BY <1>3, Fresh DEF ScanInv, OwnsWhatItHolds, ScanPlace, Held
  <2>2. owner[f] = Nobody
    BY <2>1, Zenon DEF Held
  <2>3. Pool!Free(f) /\ Held' = [Held EXCEPT ![c] = Held[c] \cup {f}]
    BY <1>1, <2>2, HeldTaken, Zenon DEF Pool!Free
  <2>4. Held[c] \cup {f} = {f}
    BY <2>1, Zenon
  <2>5. f \in LocalFile => Pool!AcquireLocal(c)
    BY <2>1, <2>3, SameFiles, Zenon DEF Pool!AcquireLocal
  <2>6. f \in RemoteFile => Pool!AcquireRemote(c)
    BY <2>1, <2>3, <2>4, SameFiles, Zenon DEF Pool!AcquireRemote
  <2>7. QED
    BY <2>5, <2>6, Zenon DEF Pool!PoolNext, RemoteFile
<1>4. QED
  BY <1>1, <1>2, <1>3, Zenon

(***************************************************************************)
(* Every step of the scan is a step of the pool or leaves it alone.        *)
(***************************************************************************)
LEMMA ScanStepRefines == ScanInv /\ [Next]_vars => Pool!PoolNext \/ Held' = Held
<1> SUFFICES ASSUME ScanInv, [Next]_vars PROVE Pool!PoolNext \/ Held' = Held
  BY Zenon
<1>1. owner' = owner => Held' = Held
  BY Zenon DEF Held
<1>2. ASSUME NEW c \in Clients, TrySlot(c) PROVE Pool!PoolNext \/ owner' = owner
  BY <1>2, SlotIsFile, TakenRefines, Zenon DEF TrySlot
<1>3. ASSUME NEW c \in Clients, Unlock(c) PROVE Pool!PoolNext
  <2>1. PICK f \in {first[c], second[c]} : f # NoSlot /\ owner' = [owner EXCEPT ![f] = Nobody]
    BY <1>3, Zenon DEF Unlock
  <2>2. f \in LockFile /\ owner[f] = c
    BY <2>1 DEF ScanInv, OwnsWhatItHolds, TypeOK, LocalFile
  <2>3. f \in Held[c] /\ Held' = [Held EXCEPT ![c] = Held[c] \ {f}]
    BY <2>1, <2>2, HeldGiven, Zenon DEF ScanInv
  <2>4. QED
    BY <2>3, Zenon DEF Pool!PoolNext, Pool!ReleaseOne
<1>4. ASSUME NEW c \in Clients, (\E list \in Scan \ {"no"} : Begin(c, list)) \/ Wake(c)
      PROVE  owner' = owner
  BY <1>4, Zenon DEF Begin, Wake
<1>5. QED
  BY <1>1, <1>2, <1>3, <1>4, Zenon DEF Next, vars

(***************************************************************************)
(* The loop of dcc_lock_one(), however it is interleaved with the loops    *)
(* and releases of other clients, has the effect of one atomic step that   *)
(* takes a free slot, the step BuildSomewhere models it by.                *)
(***************************************************************************)
THEOREM ScanRefinesPool == Spec => RefinesPool
<1>1. Init => Pool!PoolInit
  BY SlotFilesAssumption DEF Init, Pool!PoolInit, Held
<1>2. ScanInv /\ [Next]_vars => [Pool!PoolNext]_Held
  BY ScanStepRefines, Zenon
<1>3. QED
  BY <1>1, <1>2, ScanInvariant, PTL DEF Spec, RefinesPool, Pool!PoolSpec

(***************************************************************************)
(* The slots of a list that the loops have passed, the inner one over the  *)
(* hosts, were found busy; a client sleeps before the first of them.       *)
(***************************************************************************)
Passed(c, k, n) == n < i_cpu[c] \/ (n = i_cpu[c] /\ k < entry[c])
BusyFrom(c) ==
  \A k \in 1 .. Len(HostList), n \in 0 .. ScanLimit - 1 :
    Passed(c, k, n) /\ n < NSlots[HostList[k]] => LockFileName(HostList[k], n) \in busy[c]
AtTheStart(c) == i_cpu[c] = 0 /\ entry[c] = 1

PassedInv ==
  \A c \in Clients : scanning[c] = "hosts" => BusyFrom(c) /\ (c \in asleep => AtTheStart(c))

LEMMA NothingPassed ==
  ASSUME NEW c, AtTheStart(c)
  PROVE  \A k \in 1 .. Len(HostList), n \in 0 .. ScanLimit - 1 : ~Passed(c, k, n)
BY Limits DEF AtTheStart, Passed

(* One iteration passes one slot, or starts over. *)
LEMMA NextPasses ==
  ASSUME ScanInv, NEW c \in Clients, scanning[c] = "hosts", c \notin asleep, NextEntry(c)
  PROVE  /\ \A k \in 1 .. Len(HostList), n \in 0 .. ScanLimit - 1 :
              Passed(c, k, n)' => Passed(c, k, n) \/ (k = entry[c] /\ n = i_cpu[c])
         /\ c \in asleep' => AtTheStart(c)'
         /\ \A d \in Clients \ {c} :
              i_cpu'[d] = i_cpu[d] /\ entry'[d] = entry[d] /\ (d \in asleep' <=> d \in asleep)
<1>1. /\ i_cpu[c] \in 0 .. ScanLimit - 1 /\ entry[c] \in 1 .. Len(HostList)
      /\ i_cpu \in [Clients -> 0 .. ScanLimit - 1] /\ entry \in [Clients -> 1 .. Len(HostList)]
  BY Zenon DEF ScanInv, TypeOK
<1>2. ScanLimit \in Nat \ {0} /\ Len(HostList) \in Nat \ {0} /\ Len(ScanList(c)) = Len(HostList)
  BY Limits, Zenon DEF ScanList
<1>3. CASE entry[c] < Len(HostList)
  <2>1. entry' = [entry EXCEPT ![c] = entry[c] + 1] /\ UNCHANGED <<i_cpu, asleep>>
    BY <1>2, <1>3, Zenon DEF NextEntry
  <2>2. entry'[c] = entry[c] + 1 /\ i_cpu'[c] = i_cpu[c]
    BY <1>1, <2>1, Zenon
  <2>3. \A k \in 1 .. Len(HostList), n \in 0 .. ScanLimit - 1 :
          Passed(c, k, n)' => Passed(c, k, n) \/ (k = entry[c] /\ n = i_cpu[c])
    BY <1>1, <1>2, <2>2 DEF Passed
  <2> QED
    BY <1>1, <2>1, <2>3, Zenon
<1>4. CASE ~(entry[c] < Len(HostList))
  <2> DEFINE i == IF i_cpu[c] = ScanLimit - 1 THEN 0 ELSE i_cpu[c] + 1
  <2>1. /\ entry' = [entry EXCEPT ![c] = 1] /\ i_cpu' = [i_cpu EXCEPT ![c] = i]
        /\ asleep' = IF i_cpu[c] = ScanLimit - 1 THEN asleep \cup {c} ELSE asleep
    BY <1>2, <1>4, Zenon DEF NextEntry
  <2>2. entry'[c] = 1 /\ i_cpu'[c] = i
    BY <1>1, <2>1, Zenon
  <2>3. \A k \in 1 .. Len(HostList), n \in 0 .. ScanLimit - 1 :
          Passed(c, k, n)' => Passed(c, k, n) \/ (k = entry[c] /\ n = i_cpu[c])
    BY <1>1, <1>2, <1>4, <2>2 DEF Passed
  <2>4. c \in asleep' => AtTheStart(c)'
    BY <2>1, <2>2, Zenon DEF AtTheStart
  <2> QED
    BY <1>1, <2>1, <2>3, <2>4, Zenon
<1> QED
  BY <1>3, <1>4, Zenon

LEMMA PassedKept ==
  ASSUME NEW d \in Clients, BusyFrom(d) /\ (d \in asleep => AtTheStart(d)),
         i_cpu'[d] = i_cpu[d], entry'[d] = entry[d], d \in asleep' => d \in asleep, busy'[d] = busy[d]
  PROVE  (BusyFrom(d) /\ (d \in asleep => AtTheStart(d)))'
BY Zenon DEF BusyFrom, AtTheStart, Passed

LEMMA PassedStep == ScanInv /\ PassedInv /\ [Next]_vars => PassedInv'
<1> SUFFICES ASSUME ScanInv, PassedInv, [Next]_vars PROVE PassedInv'
  BY Zenon
<1> DEFINE Good(d) == BusyFrom(d) /\ (d \in asleep => AtTheStart(d))
<1>t. TypeOK
  BY Zenon DEF ScanInv
<1>1. ASSUME NEW c \in Clients, NEW list \in Scan \ {"no"}, Begin(c, list) PROVE PassedInv'
  <2>1. /\ scanning' = [scanning EXCEPT ![c] = list] /\ i_cpu' = [i_cpu EXCEPT ![c] = 0]
        /\ entry' = [entry EXCEPT ![c] = 1] /\ busy' = [busy EXCEPT ![c] = {}] /\ asleep' = asleep
    BY <1>1, Zenon DEF Begin
  <2>2. AtTheStart(c)'
    BY <1>t, <2>1, Zenon DEF TypeOK, AtTheStart
  <2>3. BusyFrom(c)'
    <3>1. \A k \in 1 .. Len(HostList), n \in 0 .. ScanLimit - 1 : ~Passed(c, k, n)'
      BY <2>2, Limits DEF AtTheStart, Passed
    <3> QED
      BY <3>1, Zenon DEF BusyFrom
  <2>4. ASSUME NEW d \in Clients, scanning'[d] = "hosts", d # c PROVE Good(d)'
    <3>1. /\ scanning[d] = "hosts" /\ i_cpu'[d] = i_cpu[d] /\ entry'[d] = entry[d] /\ busy'[d] = busy[d]
      BY <1>t, <2>1, <2>4, Zenon DEF TypeOK
    <3> QED
      BY <2>1, <3>1, PassedKept, Zenon DEF PassedInv
  <2> QED
    BY <2>2, <2>3, <2>4, Zenon DEF PassedInv
<1>2. ASSUME NEW c \in Clients, TrySlot(c) PROVE PassedInv'
  <2> DEFINE h == ScanList(c)[entry[c]]
             f == LockFileName(h, i_cpu[c])
  <2>1. CASE scanning' = [scanning EXCEPT ![c] = "no"] /\ UNCHANGED <<i_cpu, entry, asleep, busy>>
    <3>1. ASSUME NEW d \in Clients, scanning'[d] = "hosts" PROVE Good(d)'
      <4>1. scanning[d] = "hosts"
        BY <1>t, <2>1, <3>1, Zenon DEF TypeOK
      <4> QED
        BY <2>1, <4>1, PassedKept, Zenon DEF PassedInv
    <3> QED
      BY <3>1, Zenon DEF PassedInv
  <2>2. CASE /\ NextEntry(c) /\ UNCHANGED scanning
             /\ \/ i_cpu[c] >= EntrySlots(c, h) /\ UNCHANGED busy
                \/ busy' = [busy EXCEPT ![c] = busy[c] \cup {f}]
    <3>0. CASE scanning[c] # "hosts"
      <4>1. \A d \in Clients \ {c} : i_cpu'[d] = i_cpu[d] /\ entry'[d] = entry[d] /\ (d \in asleep' <=> d \in asleep)
        BY <1>t, <2>2, ZenonT(60) DEF NextEntry, TypeOK
      <4>2. \A d \in Clients \ {c} : busy'[d] = busy[d]
        BY <1>t, <2>2, Zenon DEF TypeOK
      <4>3. ASSUME NEW d \in Clients, scanning'[d] = "hosts" PROVE Good(d)'
        <5>1. d # c /\ scanning[d] = "hosts"
          BY <2>2, <3>0, <4>3, Zenon
        <5> QED
          BY <4>1, <4>2, <5>1, PassedKept, Zenon DEF PassedInv
      <4> QED
        BY <4>3, Zenon DEF PassedInv
    <3>1. CASE scanning[c] = "hosts"
      <4>1. c \notin asleep
        BY <1>2, Zenon DEF TrySlot
      <4>2. /\ \A k \in 1 .. Len(HostList), n \in 0 .. ScanLimit - 1 :
                 Passed(c, k, n)' => Passed(c, k, n) \/ (k = entry[c] /\ n = i_cpu[c])
            /\ c \in asleep' => AtTheStart(c)'
            /\ \A d \in Clients \ {c} :
                 i_cpu'[d] = i_cpu[d] /\ entry'[d] = entry[d] /\ (d \in asleep' <=> d \in asleep)
        BY <2>2, <3>1, <4>1, NextPasses, Zenon
      <4>3. \A d \in Clients \ {c} : busy'[d] = busy[d]
        BY <1>t, <2>2, Zenon DEF TypeOK
      <4>4. /\ busy[c] \subseteq busy'[c]
            /\ \/ i_cpu[c] >= NSlots[HostList[entry[c]]]
               \/ LockFileName(HostList[entry[c]], i_cpu[c]) \in busy'[c]
        <5>1. h = HostList[entry[c]] /\ EntrySlots(c, h) = NSlots[h]
          BY <3>1, Zenon DEF ScanList, EntrySlots
        <5> QED
          BY <1>t, <2>2, <5>1, ZenonT(60) DEF TypeOK
      <4>5. BusyFrom(c)'
        <5> SUFFICES ASSUME NEW k \in 1 .. Len(HostList), NEW n \in 0 .. ScanLimit - 1,
                            Passed(c, k, n)', n < NSlots[HostList[k]]
                     PROVE  LockFileName(HostList[k], n) \in busy'[c]
          BY Zenon DEF BusyFrom
        <5>1. CASE Passed(c, k, n)
          BY <3>1, <4>4, <5>1, Zenon DEF PassedInv, BusyFrom
        <5>2. CASE k = entry[c] /\ n = i_cpu[c]
          <6>1. HostList[k] \in Hosts /\ NSlots[HostList[k]] \in Int /\ n \in Int
            BY SlotScanAssumption, SlotFilesAssumption
          <6>2. ~(n >= NSlots[HostList[k]])
            BY <6>1
          <6> QED
            BY <4>4, <5>2, <6>2, Zenon
        <5> QED
          BY <4>2, <5>1, <5>2, Zenon
      <4>6. ASSUME NEW d \in Clients \ {c}, scanning'[d] = "hosts" PROVE Good(d)'
        <5>1. scanning[d] = "hosts"
          BY <2>2, <4>6, Zenon
        <5> QED
          BY <4>2, <4>3, <5>1, PassedKept, Zenon DEF PassedInv
      <4> QED
        BY <4>2, <4>5, <4>6, Zenon DEF PassedInv
    <3> QED
      BY <3>0, <3>1, Zenon
  <2> QED
    BY <1>2, <2>1, <2>2, Zenon DEF TrySlot
<1>3. ASSUME NEW c \in Clients, Wake(c) PROVE PassedInv'
  <2>1. /\ c \in asleep /\ asleep' = asleep \ {c} /\ busy' = [busy EXCEPT ![c] = {}]
        /\ UNCHANGED <<scanning, i_cpu, entry>>
    BY <1>3, Zenon DEF Wake
  <2>2. ASSUME NEW d \in Clients, scanning'[d] = "hosts" PROVE Good(d)'
    <3>1. CASE d = c
      <4>1. AtTheStart(c) /\ AtTheStart(c)'
        BY <2>1, <2>2, <3>1, Zenon DEF PassedInv, AtTheStart
      <4>2. \A k \in 1 .. Len(HostList), n \in 0 .. ScanLimit - 1 : ~Passed(c, k, n)'
        BY <2>1, <4>1, NothingPassed, Zenon DEF Passed
      <4> QED
        BY <3>1, <4>1, <4>2, Zenon DEF BusyFrom
    <3>2. CASE d # c
      <4>1. busy'[d] = busy[d]
        BY <1>t, <2>1, <3>2, Zenon DEF TypeOK
      <4> QED
        BY <2>1, <2>2, <4>1, PassedKept, Zenon DEF PassedInv
    <3> QED
      BY <3>1, <3>2, Zenon
  <2> QED
    BY <2>2, Zenon DEF PassedInv
<1>4. CASE UNCHANGED <<scanning, i_cpu, entry, asleep, busy>>
  BY <1>4, PassedKept, Zenon DEF PassedInv
<1> QED
  BY <1>1, <1>2, <1>3, <1>4, Zenon DEF Next, Unlock, vars

LEMMA PassedInvariant == Spec => []PassedInv
<1>1. Init => PassedInv
  BY Zenon DEF Init, PassedInv
<1> QED
  BY <1>1, PassedStep, ScanInvariant, PTL DEF Spec

(***************************************************************************)
(* dcc_lock_one() spreads the jobs: whatever other clients take and give   *)
(* back meanwhile, and however often the scan starts over, a client takes  *)
(* the k-th slot of a host only when it found all lower slots of all hosts *)
(* busy in this pass.                                                      *)
(***************************************************************************)
THEOREM JobsAreSpread == Spec => LowSlotsFirst
<1> DEFINE Low == \A c \in Clients : \A f \in LockFile :
       scanning[c] = "hosts" /\ first[c] # f /\ first'[c] = f
         => \A g \in ListSlots({HostList[k] : k \in 1 .. Len(HostList)}) :
              g[2] < f[2] => g \in busy[c]
<1>1. ScanInv /\ PassedInv /\ [Next]_vars => [Low]_vars
  <2> SUFFICES ASSUME ScanInv, PassedInv, Next, NEW c \in Clients, NEW f \in LockFile,
                      scanning[c] = "hosts", first[c] # f, first'[c] = f,
                      NEW g \in ListSlots({HostList[k] : k \in 1 .. Len(HostList)}), g[2] < f[2]
               PROVE  g \in busy[c]
    BY Zenon
  <2>1. PICK d \in Clients : \/ \E list \in Scan \ {"no"} : Begin(d, list)
                            \/ TrySlot(d) \/ Wake(d) \/ Unlock(d)
    BY Zenon DEF Next
  <2>2. first \in [Clients -> LockFile \cup {NoSlot}]
    BY Zenon DEF ScanInv, TypeOK
  <2>3. ~Unlock(d)
    <3> SUFFICES ASSUME Unlock(d) PROVE FALSE
      BY Zenon
    <3>1. first' = first \/ first' = [first EXCEPT ![d] = NoSlot]
      BY Zenon DEF Unlock
    <3> QED
      BY <2>2, <3>1, Fresh, Zenon
  <2>4. TrySlot(d) /\ first' # first
    BY <2>1, <2>3, Zenon DEF Begin, Wake
  <2>5. first' = [first EXCEPT ![d] = LockFileName(ScanList(d)[entry[d]], i_cpu[d])]
    BY <2>4, Zenon DEF TrySlot
  <2>6. d = c /\ f = LockFileName(ScanList(c)[entry[c]], i_cpu[c])
    BY <2>2, <2>5, Zenon
  <2>7. f[2] = i_cpu[c]
    BY <2>6 DEF LockFileName
  <2>8. PICK k \in 1 .. Len(HostList) : g \in SlotsOf(HostList[k], NSlots[HostList[k]])
    BY Zenon DEF ListSlots
  <2>9. PICK n \in 0 .. ScanLimit - 1 : n < NSlots[HostList[k]] /\ g = LockFileName(HostList[k], n)
    BY <2>8, Zenon DEF SlotsOf
  <2>10. g[2] = n
    BY <2>9 DEF LockFileName
  <2> QED
    BY <2>7, <2>9, <2>10, Zenon DEF PassedInv, BusyFrom, Passed
<1> QED
  BY <1>1, ScanInvariant, PassedInvariant, PTL DEF Spec, LowSlotsFirst

(***************************************************************************)
(* IncludeServer                                                           *)
(***************************************************************************)
Busy == {"reading", "analysing", "replying"}
Places == {"none", "setup", "up", "raised", "dead"} \cup Busy
ServerState ==
  [at : Places, generation : Nat,
   timer : BOOLEAN, endless : BOOLEAN, client : Seq(Askers),
   outcome : {"none", "files", "not_covered", "timeout", "exit", "internal"}, number_sent : Nat]
Asking ==
  [at : {"idle", "connected", "sent", "using", "refused", "done", "gone", "left"},
   root : {<<>>} \cup (Pumps \X Nat)]

IncludeTypes ==
  /\ pump \in [Pumps -> {"start", "startup", "build", "stopping", "waiting", "end"}]
  /\ pump_files \in [Pumps -> SUBSET {"socket_dir", "tmp_pid_file"}]
  /\ knows_pid \in [Pumps -> BOOLEAN]
  /\ parent \in [Pumps -> {"none", "acquire", "gone"}]
  /\ port_ready \in [Pumps -> BOOLEAN]
  /\ server \in [Pumps -> ServerState]
  /\ term \in [Pumps -> BOOLEAN]
  /\ port \in [Pumps -> BOOLEAN]
  /\ backlog \in [Pumps -> Seq(Askers)]
  /\ client_tmp \subseteq Pumps \X Nat
  /\ lost \subseteq Pumps
  /\ asking \in [Askers -> Asking]

(***************************************************************************)
(* Where a pump script, the process it waits for and the server can be     *)
(* together: the script goes on only when the server has its socket or was *)
(* never forked, and a server that it does not know is not there.          *)
(***************************************************************************)
Absent(p) == server[p].at \in {"none", "setup"}
PlaceOf(p) ==
  /\ pump[p] = "start" => server[p].at = "none"
  /\ Absent(p) => ~port[p] /\ ~port_ready[p]
  /\ server[p].at = "setup" => pump[p] = "startup" /\ parent[p] = "acquire"
  /\ pump[p] = "build" => knows_pid[p] /\ ~Absent(p)
  /\ Alive(p) /\ ~Absent(p) => port[p]
  /\ ~knows_pid[p] /\ pump[p] \in {"stopping", "waiting", "end"} => ~Alive(p)
  /\ pump[p] = "end" => pump_files[p] = {} /\ ~port[p] /\ ~Alive(p)

(* A server that serves has its newest root; one that is not there, or not yet, has
   left none, unless it ended without cleaning out. *)
RootOf(p) ==
  /\ Serving(p) => <<p, server[p].generation>> \in client_tmp
  /\ ~Alive(p) \/ Absent(p) => RootsOf(p) = {} \/ p \in lost

(* The requests that a server has or will read are its own clients'. *)
ClientsOf(p) == {c \in Askers : PumpOf[c] = p}
RequestOf(p) ==
  /\ backlog[p] \in Seq(ClientsOf(p))
  /\ server[p].at \in Busy => \E c \in ClientsOf(p) : server[p].client = <<c>>

(* A client that asked did so after the set-up, and was told of a root of its own
   server. *)
AnswerTo(c) ==
  /\ asking[c].at # "idle" => ~Absent(PumpOf[c])
  /\ asking[c].at = "using" =>
       /\ asking[c].root \in Pumps \X Nat /\ asking[c].root[1] = PumpOf[c]
       /\ Serving(PumpOf[c]) => asking[c].root \in client_tmp

IncludeInv ==
  /\ IncludeTypes
  /\ \A p \in Pumps : PlaceOf(p) /\ RootOf(p) /\ RequestOf(p)
  /\ \A c \in Askers : AnswerTo(c)

LEMMA PumpOfClient == \A c \in Askers : PumpOf[c] \in Pumps
BY IncludeAssumption, Zenon

LEMMA RootIsPair ==
  ASSUME NEW p \in Pumps, NEW n \in Nat
  PROVE  <<p, n>> \in Pumps \X Nat /\ <<p, n>>[1] = p
BY Zenon

(***************************************************************************)
(* A step of one pump script and its server leaves the others alone: it    *)
(* takes roots only from servers that are not there.                       *)
(***************************************************************************)
Same(q) ==
  /\ pump'[q] = pump[q] /\ pump_files'[q] = pump_files[q] /\ knows_pid'[q] = knows_pid[q]
  /\ parent'[q] = parent[q] /\ port_ready'[q] = port_ready[q]
  /\ server'[q] = server[q] /\ port'[q] = port[q] /\ backlog'[q] = backlog[q]
Spares(q) ==
  /\ q \in lost => q \in lost'
  /\ RootsOf(q)' \subseteq RootsOf(q)
  /\ Alive(q) => RootsOf(q) \subseteq RootsOf(q)'

LEMMA OthersKept ==
  ASSUME IncludeInv, NEW q \in Pumps, Same(q), Spares(q)
  PROVE  PlaceOf(q)' /\ RootOf(q)' /\ RequestOf(q)'
<1>1. PlaceOf(q) /\ RootOf(q) /\ RequestOf(q) /\ server[q].generation \in Nat
  BY Zenon DEF IncludeInv, IncludeTypes, ServerState
<1>2. PlaceOf(q)'
  BY <1>1, Zenon DEF PlaceOf, Same, Absent, Alive
<1>3. Serving(q) => Alive(q)
  BY Zenon DEF Serving, Alive
<1>4. RootOf(q)'
  <2>1. Serving(q)' => <<q, server[q].generation>> \in client_tmp'
    <3> SUFFICES ASSUME Serving(q)' PROVE <<q, server[q].generation>> \in client_tmp'
      BY Zenon
    <3>1. Serving(q)
      BY Zenon DEF Serving, Same
    <3>2. <<q, server[q].generation>> \in RootsOf(q)
      BY <1>1, <3>1, RootIsPair, Zenon DEF RootOf, RootsOf
    <3> QED
      BY <1>3, <3>1, <3>2, Zenon DEF Spares, RootsOf
  <2>2. (~Alive(q) \/ Absent(q))' => RootsOf(q)' = {} \/ q \in lost'
    <3> SUFFICES ASSUME (~Alive(q) \/ Absent(q))' PROVE RootsOf(q)' = {} \/ q \in lost'
      BY Zenon
    <3>1. ~Alive(q) \/ Absent(q)
      BY Zenon DEF Alive, Absent, Same
    <3> QED
      BY <1>1, <3>1, Zenon DEF RootOf, Spares
  <2> QED
    BY <2>1, <2>2, Zenon DEF RootOf, Same
<1>5. RequestOf(q)'
  BY <1>1, Zenon DEF RequestOf, Same, ClientsOf
<1> QED
  BY <1>2, <1>4, <1>5, Zenon

LEMMA AnswersKept ==
  ASSUME IncludeInv, NEW c \in Askers, asking'[c] = asking[c],
         server'[PumpOf[c]] = server[PumpOf[c]], Spares(PumpOf[c])
  PROVE  AnswerTo(c)'
<1> DEFINE q == PumpOf[c]
<1>1. AnswerTo(c) /\ (Serving(q) => Alive(q))
  BY Zenon DEF IncludeInv, Serving, Alive
<1>2. Absent(q)' = Absent(q) /\ Serving(q)' = Serving(q)
  BY Zenon DEF Absent, Serving
<1>3. ASSUME asking[c].at = "using", Serving(q) PROVE asking[c].root \in client_tmp'
  <2>1. asking[c].root \in RootsOf(q)
    BY <1>1, <1>3, Zenon DEF AnswerTo, RootsOf
  <2> QED
    BY <1>1, <1>3, <2>1, Zenon DEF Spares, RootsOf
<1> QED
  BY <1>1, <1>2, <1>3, Zenon DEF AnswerTo

(* A step of p keeps the invariant when it keeps what is said of p and its clients. *)
LEMMA StepOf ==
  ASSUME IncludeInv, IncludeTypes', NEW p \in Pumps,
         \A q \in Pumps \ {p} : Same(q) /\ Spares(q),
         PlaceOf(p)', RootOf(p)', RequestOf(p)',
         \A c \in Askers : PumpOf[c] # p => asking'[c] = asking[c],
         \A c \in ClientsOf(p) : AnswerTo(c)'
  PROVE  IncludeInv'
<1>1. ASSUME NEW q \in Pumps PROVE PlaceOf(q)' /\ RootOf(q)' /\ RequestOf(q)'
  BY OthersKept, Zenon
<1>2. ASSUME NEW c \in Askers PROVE AnswerTo(c)'
  <2>1. CASE PumpOf[c] = p
    BY <2>1, Zenon DEF ClientsOf
  <2>2. CASE PumpOf[c] # p
    <3>1. PumpOf[c] \in Pumps \ {p}
      BY <2>2, PumpOfClient, Zenon
    <3> QED
      BY <2>2, <3>1, AnswersKept, Zenon DEF Same
  <2> QED
    BY <2>1, <2>2, Zenon
<1> QED
  BY <1>1, <1>2, Zenon DEF IncludeInv

(* The roots stay as they are. *)
LEMMA RootsStay ==
  ASSUME UNCHANGED <<client_tmp, lost>>, NEW q
  PROVE  Spares(q) /\ RootsOf(q)' = RootsOf(q)
BY Zenon DEF Spares, RootsOf

(***************************************************************************)
(* The pump script.                                                        *)
(***************************************************************************)
(* A step that leaves the server where it is, and its roots and requests. *)
LEMMA ScriptStep ==
  ASSUME IncludeInv, IncludeTypes', NEW p \in Pumps,
         UNCHANGED <<server, backlog, client_tmp, lost, asking>>,
         \A q \in Pumps \ {p} :
           /\ pump'[q] = pump[q] /\ pump_files'[q] = pump_files[q] /\ knows_pid'[q] = knows_pid[q]
           /\ parent'[q] = parent[q] /\ port_ready'[q] = port_ready[q] /\ port'[q] = port[q],
         PlaceOf(p)'
  PROVE  IncludeInv'
<1>1. \A q \in Pumps : Spares(q)
  BY RootsStay, Zenon
<1>2. \A q \in Pumps \ {p} : Same(q)
  BY Zenon DEF Same
<1>3. RootOf(p) /\ RequestOf(p)
  BY Zenon DEF IncludeInv
<1>4. RootOf(p)' /\ RequestOf(p)'
  BY <1>3, Zenon DEF RootOf, RequestOf, RootsOf, Alive, Absent, Serving, ClientsOf
<1>5. \A c \in Askers : AnswerTo(c)'
  BY <1>1, AnswersKept, PumpOfClient, Zenon
<1> QED
  BY <1>1, <1>2, <1>4, <1>5, StepOf, Zenon DEF ClientsOf

LEMMA PumpStepInv ==
  ASSUME IncludeInv, NEW p \in Pumps, Acquire(p) \/ BuildEnds(p) \/ PumpStep(p)
  PROVE  IncludeInv'
<1>t. IncludeTypes /\ PlaceOf(p)
  BY Zenon DEF IncludeInv
<1>1. CASE Acquire(p)
  <2>1. /\ port_ready[p] /\ parent' = [parent EXCEPT ![p] = "gone"]
        /\ UNCHANGED <<pump, pump_files, knows_pid, port_ready, server, term, port, backlog, client_tmp, lost, asking>>
    BY <1>1, Zenon DEF Acquire, serverVars
  <2>2. IncludeTypes'
    BY <1>t, <2>1, Zenon DEF IncludeTypes
  <2>3. PlaceOf(p)'
    BY <1>t, <2>1, Zenon DEF PlaceOf, Absent, Alive
  <2> QED
    BY <1>t, <2>1, <2>2, <2>3, ScriptStep, Zenon DEF IncludeTypes
<1>2. CASE BuildEnds(p)
  <2>1. /\ pump[p] = "build" /\ pump' = [pump EXCEPT ![p] = "stopping"]
        /\ UNCHANGED <<parent, pump_files, knows_pid, port_ready, server, term, port, backlog, client_tmp, lost, asking>>
    BY <1>2, Zenon DEF BuildEnds, serverVars
  <2>2. IncludeTypes'
    BY <1>t, <2>1, Zenon DEF IncludeTypes
  <2>3. PlaceOf(p)'
    BY <1>t, <2>1, Zenon DEF PlaceOf, Absent, Alive, IncludeTypes
  <2> QED
    BY <1>t, <2>1, <2>2, <2>3, ScriptStep, Zenon DEF IncludeTypes
<1>3. CASE PumpChecks(p)
  <2>0. /\ pump[p] = "startup" /\ parent[p] = "gone"
        /\ UNCHANGED <<parent, port_ready, server, term, port, backlog, client_tmp, lost, asking>>
    BY <1>3, Zenon DEF PumpChecks, serverVars
  <2>1. CASE /\ port[p] /\ pump' = [pump EXCEPT ![p] = "build"]
             /\ pump_files' = [pump_files EXCEPT ![p] = pump_files[p] \ {"tmp_pid_file"}]
             /\ knows_pid' = [knows_pid EXCEPT ![p] = TRUE]
    <3>1. pump_files[p] \ {"tmp_pid_file"} \in SUBSET {"socket_dir", "tmp_pid_file"}
      BY <1>t, Zenon DEF IncludeTypes
    <3>2. IncludeTypes'
      BY <1>t, <2>0, <2>1, <3>1, Zenon DEF IncludeTypes
    <3>3. PlaceOf(p)'
      BY <1>t, <2>0, <2>1, Zenon DEF PlaceOf, Absent, Alive, IncludeTypes
    <3> QED
      BY <1>t, <2>0, <2>1, <3>2, <3>3, ScriptStep, Zenon DEF IncludeTypes
  <2>2. CASE ~port[p] /\ pump' = [pump EXCEPT ![p] = "stopping"] /\ UNCHANGED <<pump_files, knows_pid>>
    <3>2. IncludeTypes'
      BY <1>t, <2>0, <2>2, Zenon DEF IncludeTypes
    <3>3. PlaceOf(p)'
      BY <1>t, <2>0, <2>2, Zenon DEF PlaceOf, Absent, Alive, IncludeTypes
    <3> QED
      BY <1>t, <2>0, <2>2, <3>2, <3>3, ScriptStep, Zenon DEF IncludeTypes
  <2> QED
    BY <1>3, <2>1, <2>2, Zenon DEF PumpChecks
<1>4. CASE PumpKills(p)
  <2>1. /\ pump[p] = "stopping" /\ pump' = [pump EXCEPT ![p] = "waiting"]
        /\ \E b \in BOOLEAN : term' = [term EXCEPT ![p] = b]
        /\ UNCHANGED <<parent, pump_files, knows_pid, port_ready, server, port, backlog, client_tmp, lost, asking>>
    <3>1. (knows_pid[p] /\ Alive(p)) \in BOOLEAN
      BY Zenon
    <3> QED
      BY <1>4, <3>1, Zenon DEF PumpKills
  <2>2. IncludeTypes'
    BY <1>t, <2>1, ZenonT(60) DEF IncludeTypes
  <2>3. PlaceOf(p)'
    BY <1>t, <2>1, Zenon DEF PlaceOf, Absent, Alive, IncludeTypes
  <2> QED
    BY <1>t, <2>1, <2>2, <2>3, ScriptStep, Zenon DEF IncludeTypes
<1>5. CASE PumpRemoves(p)
  <2>1. /\ pump[p] = "waiting" /\ ~(knows_pid[p] /\ Alive(p)) /\ pump' = [pump EXCEPT ![p] = "end"]
        /\ pump_files' = [pump_files EXCEPT ![p] = {}] /\ port' = [port EXCEPT ![p] = FALSE]
        /\ UNCHANGED <<parent, knows_pid, port_ready, server, term, backlog, client_tmp, lost, asking>>
    BY <1>5, Zenon DEF PumpRemoves
  <2>2. IncludeTypes'
    BY <1>t, <2>1, Zenon DEF IncludeTypes
  <2>3. ~Alive(p)
    BY <1>t, <2>1, Zenon DEF PlaceOf
  <2>4. PlaceOf(p)'
    BY <1>t, <2>1, <2>3, Zenon DEF PlaceOf, Absent, Alive, IncludeTypes
  <2> QED
    BY <1>t, <2>1, <2>2, <2>4, ScriptStep, Zenon DEF IncludeTypes
<1> QED
  BY <1>1, <1>2, <1>3, <1>4, <1>5, Zenon DEF PumpStep

(***************************************************************************)
(* The server.                                                             *)
(***************************************************************************)
LEMMA ServerAt ==
  ASSUME IncludeTypes, NEW p \in Pumps, NEW s \in ServerState
  PROVE  /\ [server EXCEPT ![p] = s] \in [Pumps -> ServerState]
         /\ [server EXCEPT ![p] = s][p] = s
         /\ \A q \in Pumps \ {p} : [server EXCEPT ![p] = s][q] = server[q]
BY Zenon DEF IncludeTypes

LEMMA MovedTo ==
  ASSUME IncludeTypes, NEW p \in Pumps,
         NEW at \in Places
  PROVE  /\ Moved(p, at) \in [Pumps -> ServerState]
         /\ Moved(p, at)[p] = [server[p] EXCEPT !.at = at]
         /\ Moved(p, at)[p].at = at /\ Moved(p, at)[p].generation = server[p].generation
         /\ Moved(p, at)[p].client = server[p].client
         /\ \A q \in Pumps \ {p} : Moved(p, at)[q] = server[q]
<1>1. server[p] \in ServerState
  BY Zenon DEF IncludeTypes
<1> DEFINE s == [server[p] EXCEPT !.at = at]
<1>2. s \in ServerState /\ s.at = at /\ s.generation = server[p].generation /\ s.client = server[p].client
  BY <1>1, Zenon DEF ServerState
<1>3. Moved(p, at) = [server EXCEPT ![p] = s]
  BY Zenon DEF Moved
<1>4. s = [server[p] EXCEPT !.at = at]
  BY Zenon
<1> HIDE DEF s
<1>5. /\ Moved(p, at) \in [Pumps -> ServerState] /\ Moved(p, at)[p] = s
      /\ \A q \in Pumps \ {p} : Moved(p, at)[q] = server[q]
  BY <1>2, <1>3, ServerAt
<1> QED
  BY <1>2, <1>4, <1>5, Zenon

LEMMA ServerMoves ==
  ASSUME IncludeTypes, NEW p \in Pumps, NEW at \in Places, server' = Moved(p, at)
  PROVE  /\ server' \in [Pumps -> ServerState]
         /\ server'[p].at = at /\ server'[p].generation = server[p].generation
         /\ server'[p].client = server[p].client
         /\ \A q \in Pumps \ {p} : server'[q] = server[q]
<1> DEFINE m == Moved(p, at)
<1>1. /\ m \in [Pumps -> ServerState]
      /\ m[p].at = at /\ m[p].generation = server[p].generation /\ m[p].client = server[p].client
      /\ \A q \in Pumps \ {p} : m[q] = server[q]
  BY MovedTo, Zenon
<1>2. server' = m
  BY Zenon
<1> HIDE DEF m
<1> QED
  BY <1>1, <1>2, Zenon

LEMMA PumpStartsInv ==
  ASSUME IncludeInv, NEW p \in Pumps, PumpStarts(p)
  PROVE  IncludeInv'
<1>t. IncludeTypes /\ PlaceOf(p) /\ RootOf(p) /\ RequestOf(p)
  BY Zenon DEF IncludeInv
<1>1. /\ pump[p] = "start" /\ pump' = [pump EXCEPT ![p] = "startup"]
      /\ pump_files' = [pump_files EXCEPT ![p] = {"socket_dir", "tmp_pid_file"}]
      /\ UNCHANGED <<knows_pid, port_ready, term, port, backlog, client_tmp, lost, asking>>
  BY Zenon DEF PumpStarts
<1>2. server[p].at = "none" /\ ~port[p] /\ ~port_ready[p]
  BY <1>t, <1>1, Zenon DEF PlaceOf, Absent
<1>3. CASE parent' = [parent EXCEPT ![p] = "gone"] /\ UNCHANGED server
  <2>1. IncludeTypes'
    BY <1>t, <1>1, <1>3, Zenon DEF IncludeTypes
  <2>2. PlaceOf(p)'
    BY <1>t, <1>1, <1>2, <1>3, Zenon DEF PlaceOf, Absent, Alive, IncludeTypes
  <2> QED
    BY <1>t, <1>1, <1>3, <2>1, <2>2, ScriptStep, Zenon DEF IncludeTypes
<1>4. CASE parent' = [parent EXCEPT ![p] = "acquire"] /\ server' = Moved(p, "setup")
  <2>0. /\ server' \in [Pumps -> ServerState] /\ server'[p].at = "setup"
        /\ \A q \in Pumps \ {p} : server'[q] = server[q]
    <3>1. "setup" \in Places
      BY Zenon DEF Places
    <3> QED
      BY <1>t, <1>4, <3>1, ServerMoves, Zenon
  <2>1. IncludeTypes'
    BY <1>t, <1>1, <1>4, <2>0, Zenon DEF IncludeTypes
  <2>2. PlaceOf(p)'
    BY <1>t, <1>1, <1>2, <1>4, <2>0, Zenon DEF PlaceOf, Absent, Alive, IncludeTypes
  <2>3. RootOf(p)' /\ RequestOf(p)'
    BY <1>t, <1>1, <1>2, <2>0, Zenon DEF RootOf, RequestOf, RootsOf, Alive, Absent, Serving, ClientsOf, Busy
  <2>4. \A q \in Pumps \ {p} : Same(q) /\ Spares(q)
    BY <1>t, <1>1, <1>4, <2>0, RootsStay, Zenon DEF Same, IncludeTypes
  <2>5. \A c \in ClientsOf(p) : AnswerTo(c)'
    BY <1>1, <1>2, Zenon DEF IncludeInv, AnswerTo, Absent, ClientsOf
  <2> QED
    BY <1>1, <2>1, <2>2, <2>3, <2>4, <2>5, StepOf, Zenon
<1> QED
  BY <1>3, <1>4, Zenon DEF PumpStarts

(* What SetUp() and the ends of servers do to roots of others. *)
LEMMA OthersRoots ==
  ASSUME NEW p \in Pumps, NEW q \in Pumps, q # p, lost \subseteq lost',
         \A r \in client_tmp : r[1] = q /\ Alive(q) => r \in client_tmp',
         \A r \in client_tmp' : r \in client_tmp \/ r[1] = p
  PROVE  Spares(q)
BY DEF Spares, RootsOf

(***************************************************************************)
(* A step of a server that is up and goes on, or raises an exception.      *)
(***************************************************************************)
LEMMA WorkStep ==
  ASSUME IncludeInv, IncludeTypes', NEW p \in Pumps,
         UNCHANGED <<pump, pump_files, knows_pid, parent, port_ready, port, lost>>,
         Alive(p), ~Absent(p), Alive(p)', ~Absent(p)',
         \A q \in Pumps \ {p} : server'[q] = server[q] /\ backlog'[q] = backlog[q],
         client_tmp \subseteq client_tmp',
         \A r \in client_tmp' : r \in client_tmp \/ r[1] = p,
         Serving(p)' => <<p, server'[p].generation>> \in client_tmp', RequestOf(p)',
         \A c \in Askers : PumpOf[c] # p => asking'[c] = asking[c],
         \A c \in ClientsOf(p) : AnswerTo(c)'
  PROVE  IncludeInv'
<1>1. PlaceOf(p)
  BY Zenon DEF IncludeInv
<1>2. PlaceOf(p)'
  BY <1>1, Zenon DEF PlaceOf, Absent
<1>3. RootOf(p)'
  BY Zenon DEF RootOf
<1>4. \A q \in Pumps \ {p} : Same(q) /\ Spares(q)
  BY OthersRoots, Zenon DEF Same
<1> QED
  BY <1>2, <1>3, <1>4, StepOf, Zenon

(* What is known of the clients stays true while their server is up. *)
LEMMA AnswersStand ==
  ASSUME IncludeInv, NEW p \in Pumps, ~Absent(p)', client_tmp \subseteq client_tmp',
         Serving(p)' => Serving(p), UNCHANGED asking
  PROVE  \A c \in ClientsOf(p) : AnswerTo(c)'
BY Zenon DEF IncludeInv, AnswerTo, ClientsOf

LEMMA ServingIsThere ==
  ASSUME NEW p, server[p].at = "raised" \/ Serving(p)
  PROVE  Alive(p) /\ ~Absent(p)
BY Zenon DEF Serving, Alive, Absent

LEMMA SigtermInv ==
  ASSUME IncludeInv, NEW p \in Pumps, Sigterm(p)
  PROVE  IncludeInv'
<1>t. IncludeTypes /\ RequestOf(p)
  BY Zenon DEF IncludeInv
<1>1. /\ Serving(p) /\ term' = [term EXCEPT ![p] = FALSE] /\ server' = Moved(p, "raised")
      /\ UNCHANGED <<pump, pump_files, knows_pid, parent, port_ready, port, backlog, client_tmp, lost, asking>>
  BY Zenon DEF Sigterm, pumpVars
<1>2. /\ server' \in [Pumps -> ServerState] /\ server'[p].at = "raised"
      /\ \A q \in Pumps \ {p} : server'[q] = server[q]
  <2>1. "raised" \in Places
    BY Zenon DEF Places
  <2> QED
    BY <1>t, <1>1, <2>1, ServerMoves, Zenon
<1>3. IncludeTypes'
  BY <1>t, <1>1, <1>2, Zenon DEF IncludeTypes
<1>4. Alive(p) /\ ~Absent(p) /\ Alive(p)' /\ ~Absent(p)' /\ ~Serving(p)' /\ RequestOf(p)'
  BY <1>t, <1>1, <1>2, ServingIsThere, Zenon DEF Alive, Absent, Serving, RequestOf, ClientsOf, Busy
<1>5. \A c \in ClientsOf(p) : AnswerTo(c)'
  BY <1>1, <1>4, AnswersStand, Zenon
<1> QED
  BY <1>1, <1>2, <1>3, <1>4, <1>5, WorkStep, Zenon

LEMMA AcceptInv ==
  ASSUME IncludeInv, NEW p \in Pumps, Accept(p)
  PROVE  IncludeInv'
<1>t. IncludeTypes /\ RequestOf(p) /\ RootOf(p)
  BY Zenon DEF IncludeInv
<1>1. /\ server[p].at = "up" /\ backlog[p] # <<>>
      /\ server' = [Moved(p, "reading") EXCEPT ![p].client = <<Head(backlog[p])>>]
      /\ backlog' = [backlog EXCEPT ![p] = Tail(backlog[p])]
      /\ UNCHANGED <<pump, pump_files, knows_pid, parent, port_ready, term, port, client_tmp, lost, asking>>
  BY Zenon DEF Accept, pumpVars
<1>2. Head(backlog[p]) \in ClientsOf(p) /\ Tail(backlog[p]) \in Seq(ClientsOf(p))
  BY <1>t, <1>1 DEF RequestOf
<1>3. Head(backlog[p]) \in Askers /\ <<Head(backlog[p])>> \in Seq(Askers) /\ Tail(backlog[p]) \in Seq(Askers)
  BY <1>t, <1>1 DEF IncludeTypes
<1> DEFINE m == Moved(p, "reading")
           s == [m[p] EXCEPT !.client = <<Head(backlog[p])>>]
<1>4. /\ m \in [Pumps -> ServerState] /\ m[p].at = "reading" /\ m[p].generation = server[p].generation
      /\ \A q \in Pumps \ {p} : m[q] = server[q]
  <2>1. "reading" \in Places
    BY Zenon DEF Places, Busy
  <2> QED
    BY <1>t, <2>1, MovedTo, Zenon
<1> HIDE DEF m
<1>5. m[p] \in ServerState
  BY <1>4, Zenon
<1>6. /\ s \in ServerState /\ s.at = "reading" /\ s.generation = server[p].generation
      /\ s.client = <<Head(backlog[p])>>
  BY <1>3, <1>4, <1>5, Zenon DEF ServerState
<1>7. server' = [m EXCEPT ![p] = s]
  BY <1>1, Zenon DEF m
<1> HIDE DEF s
<1>8. /\ server' \in [Pumps -> ServerState] /\ server'[p] = s
      /\ \A q \in Pumps \ {p} : server'[q] = server[q]
  BY <1>4, <1>6, <1>7, Zenon
<1>9. IncludeTypes'
  BY <1>t, <1>1, <1>3, <1>8, Zenon DEF IncludeTypes
<1>10. Serving(p) /\ Alive(p) /\ ~Absent(p) /\ Alive(p)' /\ ~Absent(p)'
  BY <1>1, <1>6, <1>8, Zenon DEF Alive, Absent, Serving
<1>11. RequestOf(p)'
  BY <1>t, <1>1, <1>2, <1>6, <1>8, Zenon DEF RequestOf, ClientsOf, IncludeTypes
<1>12. <<p, server'[p].generation>> \in client_tmp'
  <2>1. server'[p].generation = server[p].generation
    BY <1>6, <1>8, Zenon
  <2> QED
    BY <1>t, <1>1, <1>10, <2>1 DEF RootOf
<1>13. \A c \in ClientsOf(p) : AnswerTo(c)'
  BY <1>1, <1>10, AnswersStand, Zenon
<1>14. \A q \in Pumps \ {p} : backlog'[q] = backlog[q]
  BY <1>t, <1>1, Zenon DEF IncludeTypes
<1> QED
  BY <1>1, <1>8, <1>9, <1>10, <1>11, <1>12, <1>13, <1>14, WorkStep, Zenon

(* A server at work goes on with the same client, or gives up. *)
LEMMA Continues ==
  ASSUME IncludeInv, NEW p \in Pumps, server[p].at \in Busy,
         server' \in [Pumps -> ServerState], \A q \in Pumps \ {p} : server'[q] = server[q],
         server'[p].at \in {"raised"} \cup Busy, server'[p].generation = server[p].generation,
         server'[p].client = server[p].client,
         UNCHANGED <<pumpVars, term, port, backlog, client_tmp, lost, asking>>
  PROVE  IncludeInv'
<1>t. IncludeTypes /\ RequestOf(p) /\ RootOf(p)
  BY Zenon DEF IncludeInv
<1>1. UNCHANGED <<pump, pump_files, knows_pid, parent, port_ready>>
  BY Zenon DEF pumpVars
<1>2. IncludeTypes'
  BY <1>t, <1>1, Zenon DEF IncludeTypes
<1>3. Serving(p) /\ Alive(p) /\ ~Absent(p) /\ Alive(p)' /\ ~Absent(p)'
  BY Zenon DEF Alive, Absent, Serving, Busy
<1>4. RequestOf(p)'
  BY <1>t, Zenon DEF RequestOf, ClientsOf
<1>5. <<p, server'[p].generation>> \in client_tmp'
  BY <1>t, <1>3, Zenon DEF RootOf
<1>6. \A c \in ClientsOf(p) : AnswerTo(c)'
  BY <1>3, AnswersStand, Zenon
<1> QED
  BY <1>1, <1>2, <1>3, <1>4, <1>5, <1>6, WorkStep, Zenon

LEMMA ReadRequestInv ==
  ASSUME IncludeInv, NEW p \in Pumps, ReadRequest(p)
  PROVE  IncludeInv'
<1>t. IncludeTypes
  BY Zenon DEF IncludeInv
<1>1. /\ server[p].at \in Busy /\ UNCHANGED <<pumpVars, term, port, backlog, client_tmp, lost, asking>>
      /\ "raised" \in Places /\ "analysing" \in Places
  BY Zenon DEF ReadRequest, Busy, Places
<1>2. CASE server' = Moved(p, "raised")
  <2>1. /\ server' \in [Pumps -> ServerState]
        /\ server'[p].at = "raised" /\ server'[p].generation = server[p].generation
        /\ server'[p].client = server[p].client
        /\ \A q \in Pumps \ {p} : server'[q] = server[q]
    BY <1>t, <1>1, <1>2, ServerMoves, Zenon
  <2> QED
    BY <1>1, <2>1, Continues, Zenon
<1>3. ASSUME NEW endless \in BOOLEAN,
             server' = [Moved(p, "analysing") EXCEPT ![p].endless = endless, ![p].timer = TRUE]
      PROVE  IncludeInv'
  <2> DEFINE m == Moved(p, "analysing")
             s == [m[p] EXCEPT !.endless = endless, !.timer = TRUE]
  <2>1. /\ m \in [Pumps -> ServerState] /\ m[p].at = "analysing"
        /\ m[p].generation = server[p].generation /\ m[p].client = server[p].client
        /\ \A q \in Pumps \ {p} : m[q] = server[q]
    BY <1>t, <1>1, MovedTo, Zenon
  <2>2. server' = [m EXCEPT ![p].endless = endless, ![p].timer = TRUE]
    BY <1>3, Zenon
  <2> HIDE DEF m
  <2>3. m[p] \in ServerState
    BY <2>1, Zenon
  <2>4. /\ s \in ServerState /\ s.at = "analysing" /\ s.generation = server[p].generation
        /\ s.client = server[p].client
    BY <2>1, <2>3, Zenon DEF ServerState
  <2>5. server' = [m EXCEPT ![p] = s]
    BY <2>1, <2>2, Zenon
  <2> HIDE DEF s
  <2>6. /\ server' \in [Pumps -> ServerState] /\ server'[p] = s
        /\ \A q \in Pumps \ {p} : server'[q] = server[q]
    BY <2>1, <2>4, <2>5, Zenon
  <2>7. /\ server'[p].at \in {"raised"} \cup Busy /\ server'[p].generation = server[p].generation
        /\ server'[p].client = server[p].client
    BY <2>4, <2>6, Zenon DEF Busy
  <2> QED
    BY <1>1, <2>6, <2>7, Continues, Zenon
<1> QED
  BY <1>2, <1>3, Zenon DEF ReadRequest

LEMMA AnalyseInv ==
  ASSUME IncludeInv, NEW p \in Pumps, Analyse(p)
  PROVE  IncludeInv'
<1>t. IncludeTypes /\ server[p] \in ServerState
  BY Zenon DEF IncludeInv, IncludeTypes
<1>1. /\ server[p].at \in Busy /\ UNCHANGED <<pumpVars, term, port, backlog, client_tmp, lost, asking>>
      /\ "replying" \in Places
  BY Zenon DEF Analyse, Busy, Places
<1>2. PICK outcome \in {"files", "not_covered", "timeout", "exit", "internal"}, never \in BOOLEAN :
        server' = [server EXCEPT ![p].at = "replying", ![p].timer = FALSE, ![p].endless = FALSE,
                       ![p].outcome = outcome,
                       ![p].number_sent =
                         IF outcome = "files" \/ never THEN @
                         ELSE TryToSend(@, outcome \in {"exit", "internal"})]
  BY Zenon DEF Analyse
<1> DEFINE n == IF outcome = "files" \/ never THEN server[p].number_sent
                ELSE TryToSend(server[p].number_sent, outcome \in {"exit", "internal"})
<1>3. n \in Nat
  BY <1>t DEF ServerState, TryToSend
<1>4. server' = [server EXCEPT ![p].at = "replying", ![p].timer = FALSE, ![p].endless = FALSE,
                       ![p].outcome = outcome, ![p].number_sent = n]
  BY <1>t, <1>2, Zenon DEF IncludeTypes
<1> HIDE DEF n
<1> DEFINE s == [server[p] EXCEPT !.at = "replying", !.timer = FALSE, !.endless = FALSE,
                       !.outcome = outcome, !.number_sent = n]
<1>5. /\ s \in ServerState /\ s.at = "replying" /\ s.generation = server[p].generation
      /\ s.client = server[p].client
  BY <1>t, <1>1, <1>3, Zenon DEF ServerState
<1>6. server' = [server EXCEPT ![p] = s]
  BY <1>t, <1>4, Zenon DEF IncludeTypes
<1> HIDE DEF s
<1>7. /\ server' \in [Pumps -> ServerState] /\ server'[p] = s
      /\ \A q \in Pumps \ {p} : server'[q] = server[q]
  BY <1>t, <1>5, <1>6, Zenon DEF IncludeTypes
<1>8. /\ server'[p].at \in {"raised"} \cup Busy /\ server'[p].generation = server[p].generation
      /\ server'[p].client = server[p].client
  BY <1>5, <1>7, Zenon DEF Busy
<1> QED
  BY <1>1, <1>7, <1>8, Continues, Zenon

(* The end of handle(): the client is told, the server is free again or gives up. *)
LEMMA ReplyInv ==
  ASSUME IncludeInv, NEW p \in Pumps, Reply(p)
  PROVE  IncludeInv'
<1>t. IncludeTypes /\ server[p] \in ServerState /\ RequestOf(p) /\ RootOf(p)
  BY Zenon DEF IncludeInv, IncludeTypes
<1>1. /\ server[p].at = "replying" /\ UNCHANGED <<pump, pump_files, knows_pid, parent, port_ready>>
      /\ UNCHANGED <<term, port, backlog, lost>>
  BY Zenon DEF Reply, pumpVars
<1>2. PICK c \in ClientsOf(p) : server[p].client = <<c>>
  BY <1>t, <1>1, Zenon DEF RequestOf, Busy
<1>3. c \in Askers /\ PumpOf[c] = p /\ server[p].client[1] = c /\ asking[c] \in Asking
  BY <1>t, <1>2 DEF ClientsOf, IncludeTypes
<1> DEFINE g == server[p].generation
           s(at, n) == [[server[p] EXCEPT !.client = <<>>, !.outcome = "none"] EXCEPT !.at = at, !.generation = n]
           files == [at |-> "using", root |-> <<p, g>>]
           told == [asking[c] EXCEPT !.at = "refused"]
<1>4. g \in Nat /\ g + 1 \in Nat
  BY <1>t DEF ServerState
<1>5. \/ asking' = asking
      \/ asking' = [asking EXCEPT ![c] = files]
      \/ asking' = [asking EXCEPT ![c] = told]
  BY <1>3, Zenon DEF Reply
<1>6. \/ server' = [server EXCEPT ![p] = s("raised", g)] /\ client_tmp' = client_tmp
      \/ server' = [server EXCEPT ![p] = s("up", g + 1)] /\ client_tmp' = NewRoots(p)
      \/ server' = [server EXCEPT ![p] = s("up", g)] /\ client_tmp' = client_tmp
  BY <1>3, Zenon DEF Reply
<1>7. ASSUME NEW at \in {"raised", "up"}, NEW n \in Nat
      PROVE  s(at, n) \in ServerState /\ s(at, n).at = at /\ s(at, n).generation = n
  <2> DEFINE e == [server[p] EXCEPT !.client = <<>>, !.outcome = "none"]
  <2>1. <<>> \in Seq(Askers) /\ at \in Places
    BY DEF Places
  <2>2. e \in ServerState
    BY <1>t, <2>1, Zenon DEF ServerState
  <2>3. s(at, n) = [e EXCEPT !.at = at, !.generation = n]
    BY Zenon
  <2> HIDE DEF e, s
  <2>4. s(at, n) \in ServerState
    BY <2>1, <2>2, <2>3, Zenon DEF ServerState
  <2> QED
    BY <2>2, <2>3, <2>4, Zenon DEF ServerState
<1>8. <<p, g>> \in Pumps \X Nat /\ <<p, g>>[1] = p /\ <<p, g + 1>> \in Pumps \X Nat /\ <<p, g + 1>>[1] = p
  BY <1>4, RootIsPair, Zenon
<1>9. /\ files \in Asking /\ files.at = "using" /\ files.root = <<p, g>>
      /\ told \in Asking /\ told.at = "refused"
  BY <1>3, <1>8, Zenon DEF Asking
<1>10. Serving(p) /\ Alive(p) /\ ~Absent(p) /\ <<p, g>> \in client_tmp
  BY <1>t, <1>1, Zenon DEF Serving, Alive, Absent, RootOf
<1>11. NewRoots(p) = client_tmp \cup {<<p, g + 1>>}
  BY Zenon DEF NewRoots
<1> HIDE DEF g, s, files, told
<1>12. PICK at \in {"raised", "up"}, n \in Nat :
         /\ server' = [server EXCEPT ![p] = s(at, n)]
         /\ \/ client_tmp' = client_tmp /\ n = g
            \/ client_tmp' = client_tmp \cup {<<p, g + 1>>} /\ n = g + 1
  BY <1>4, <1>6, <1>11, Zenon
<1> DEFINE st == s(at, n)
<1>13. st \in ServerState /\ st.at = at /\ st.generation = n /\ server' = [server EXCEPT ![p] = st]
  BY <1>7, <1>12, Zenon
<1> HIDE DEF st
<1>14. /\ server' \in [Pumps -> ServerState] /\ server'[p].at = at /\ server'[p].generation = n
       /\ \A q \in Pumps \ {p} : server'[q] = server[q]
  BY <1>t, <1>13, Zenon DEF IncludeTypes
<1>15. /\ client_tmp \subseteq client_tmp' /\ client_tmp' \subseteq Pumps \X Nat /\ <<p, n>> \in client_tmp'
       /\ \A r \in client_tmp' : r \in client_tmp \/ r[1] = p
  BY <1>t, <1>8, <1>10, <1>12, Zenon DEF IncludeTypes
<1>16. /\ asking' \in [Askers -> Asking]
       /\ \A d \in Askers : asking'[d] = asking[d] \/ (d = c /\ asking'[d] \in {files, told})
  <2>1. asking \in [Askers -> Asking]
    BY <1>t, Zenon DEF IncludeTypes
  <2>2. CASE asking' = asking
    BY <2>1, <2>2, Zenon
  <2>3. CASE asking' = [asking EXCEPT ![c] = files]
    BY <1>3, <1>9, <2>1, <2>3, Zenon
  <2>4. CASE asking' = [asking EXCEPT ![c] = told]
    BY <1>3, <1>9, <2>1, <2>4, Zenon
  <2> QED
    BY <1>5, <2>2, <2>3, <2>4, Zenon
<1>17. IncludeTypes'
  BY <1>t, <1>1, <1>14, <1>15, <1>16, Zenon DEF IncludeTypes
<1>18. Alive(p)' /\ ~Absent(p)'
  BY <1>14, Zenon DEF Alive, Absent
<1>19. RequestOf(p)'
  BY <1>t, <1>1, <1>14, Zenon DEF RequestOf, ClientsOf, Busy
<1>20. <<p, server'[p].generation>> \in client_tmp'
  BY <1>14, <1>15, Zenon
<1>21. ASSUME NEW d \in ClientsOf(p) PROVE AnswerTo(d)'
  <2>1. d \in Askers /\ PumpOf[d] = p /\ AnswerTo(d)
    BY Zenon DEF ClientsOf, IncludeInv
  <2>2. CASE asking'[d] = asking[d]
    BY <1>10, <1>15, <1>18, <2>1, <2>2, Zenon DEF AnswerTo
  <2>3. CASE asking'[d] \in {files, told}
    BY <1>8, <1>9, <1>10, <1>15, <1>18, <2>1, <2>3, Zenon DEF AnswerTo
  <2> QED
    BY <1>16, <2>1, <2>2, <2>3, Zenon
<1>22. \A d \in Askers : PumpOf[d] # p => asking'[d] = asking[d]
  BY <1>3, <1>16, Zenon
<1> QED
  BY <1>1, <1>10, <1>14, <1>15, <1>17, <1>18, <1>19, <1>20, <1>21, <1>22, WorkStep, Zenon

(* _SetUp(): the roots of servers that are not there go, wherever those are. *)
LEMMA SetUpInv ==
  ASSUME IncludeInv, NEW p \in Pumps, SetUp(p)
  PROVE  IncludeInv'
<1>t. IncludeTypes /\ PlaceOf(p) /\ RequestOf(p) /\ server[p].at = "setup"
  BY Zenon DEF IncludeInv, SetUp
<1>1. /\ client_tmp' = {r \in client_tmp : Alive(r[1])} \cup {<<p, 1>>}
      /\ server' = [Moved(p, "up") EXCEPT ![p].generation = 1]
      /\ port' = [port EXCEPT ![p] = TRUE] /\ port_ready' = [port_ready EXCEPT ![p] = TRUE]
      /\ UNCHANGED <<pump, pump_files, knows_pid, parent, term, backlog, lost, asking>>
  BY Zenon DEF SetUp
<1>2. "up" \in Places /\ <<p, 1>> \in Pumps \X Nat /\ <<p, 1>>[1] = p
  BY Zenon DEF Places
<1> DEFINE m == Moved(p, "up")
           s == [m[p] EXCEPT !.generation = 1]
<1>3. m \in [Pumps -> ServerState] /\ m[p].at = "up" /\ \A q \in Pumps \ {p} : m[q] = server[q]
  BY <1>t, <1>2, MovedTo, Zenon
<1>4. server' = [m EXCEPT ![p] = s]
  BY <1>1, Zenon
<1> HIDE DEF m
<1>5. m[p] \in ServerState
  BY <1>3, Zenon
<1>6. s \in ServerState /\ s.at = "up" /\ s.generation = 1
  BY <1>3, <1>5, Zenon DEF ServerState
<1> HIDE DEF s
<1>7. /\ server' \in [Pumps -> ServerState] /\ server'[p] = s
      /\ \A q \in Pumps \ {p} : server'[q] = server[q]
  BY <1>3, <1>4, <1>6, Zenon
<1>8. IncludeTypes'
  BY <1>t, <1>1, <1>2, <1>7, Zenon DEF IncludeTypes
<1>9. server'[p].at = "up" /\ server'[p].generation = 1
  BY <1>6, <1>7, Zenon
<1>10. PlaceOf(p)'
  BY <1>t, <1>1, <1>9, Zenon DEF PlaceOf, Absent, Alive, IncludeTypes
<1>11. RootOf(p)' /\ RequestOf(p)'
  <2>1. <<p, server'[p].generation>> \in client_tmp' /\ Alive(p)' /\ ~Absent(p)'
    BY <1>1, <1>9 DEF Alive, Absent
  <2>2. RequestOf(p)'
    BY <1>t, <1>1, <1>9, Zenon DEF RequestOf, ClientsOf, Busy
  <2> QED
    BY <2>1, <2>2, Zenon DEF RootOf
<1>12. \A q \in Pumps \ {p} : Same(q)
  BY <1>t, <1>1, <1>7, Zenon DEF Same, IncludeTypes
<1>13. /\ \A r \in client_tmp : Alive(r[1]) => r \in client_tmp'
       /\ \A r \in client_tmp' : r \in client_tmp \/ r[1] = p
  BY <1>1, <1>2, Zenon
<1>14. \A q \in Pumps \ {p} : Spares(q)
  BY <1>1, <1>13, OthersRoots, Zenon
<1>15. \A c \in ClientsOf(p) : AnswerTo(c)'
  BY <1>t, <1>1, Zenon DEF IncludeInv, AnswerTo, Absent, ClientsOf
<1> QED
  BY <1>1, <1>8, <1>10, <1>11, <1>12, <1>14, <1>15, StepOf, Zenon

(***************************************************************************)
(* The ends of a server: what it leaves is nobody's, or it is lost.        *)
(***************************************************************************)
LEMMA Assigned ==
  ASSUME NEW S, NEW T, NEW f \in [S -> T], NEW x \in S, NEW t \in T, NEW g, g = [f EXCEPT ![x] = t]
  PROVE  g \in [S -> T] /\ g[x] = t /\ \A y \in S \ {x} : g[y] = f[y]
BY Zenon

LEMMA EndStep ==
  ASSUME IncludeInv, NEW p \in Pumps, Alive(p), Dies(p),
         UNCHANGED <<pump, pump_files, knows_pid, parent, port_ready>>,
         term' \in [Pumps -> BOOLEAN], port' \in [Pumps -> BOOLEAN],
         \A q \in Pumps \ {p} : port'[q] = port[q],
         asking' \in {asking, Closed(p)}, backlog' \in {backlog, [backlog EXCEPT ![p] = <<>>]},
         client_tmp' \subseteq Pumps \X Nat, lost \subseteq lost', lost' \subseteq lost \cup {p},
         RootsOf(p)' = {} \/ p \in lost',
         \A r \in client_tmp : r[1] # p /\ Alive(r[1]) => r \in client_tmp',
         \A r \in client_tmp' : r \in client_tmp \/ r[1] = p
  PROVE  IncludeInv'
<1>t. IncludeTypes /\ PlaceOf(p) /\ RequestOf(p)
  BY Zenon DEF IncludeInv
<1> DEFINE s == [NoServer EXCEPT !.at = "dead"]
<1>1. s \in ServerState /\ s.at = "dead"
  <2>1. NoServer \in ServerState
    BY DEF NoServer, ServerState, Places
  <2>2. "dead" \in Places
    BY Zenon DEF Places
  <2> QED
    BY <2>1, <2>2, Zenon DEF ServerState
<1>2. server' = [server EXCEPT ![p] = s]
  BY Zenon DEF Dies
<1> HIDE DEF s
<1>3. /\ server' \in [Pumps -> ServerState] /\ server'[p].at = "dead"
      /\ \A q \in Pumps \ {p} : server'[q] = server[q]
  BY <1>t, <1>1, <1>2, Zenon DEF IncludeTypes
<1>4. /\ backlog' \in [Pumps -> Seq(Askers)] /\ backlog'[p] \in Seq(ClientsOf(p))
      /\ \A q \in Pumps \ {p} : backlog'[q] = backlog[q]
  <2>1. <<>> \in Seq(Askers) /\ <<>> \in Seq(ClientsOf(p))
    OBVIOUS
  <2>2. backlog[p] \in Seq(ClientsOf(p))
    BY <1>t, Zenon DEF RequestOf
  <2>3. CASE backlog' = backlog
    BY <1>t, <2>2, <2>3, Zenon DEF IncludeTypes
  <2>4. CASE backlog' = [backlog EXCEPT ![p] = <<>>]
    <3>1. backlog \in [Pumps -> Seq(Askers)]
      BY <1>t, Zenon DEF IncludeTypes
    <3> QED
      BY <2>1, <2>4, <3>1, Assigned, Zenon
  <2> QED
    BY <2>3, <2>4, Zenon
<1>5. /\ asking' \in [Askers -> Asking]
      /\ \A c \in Askers : \/ asking'[c] = asking[c]
                           \/ PumpOf[c] = p /\ asking'[c].at = "refused"
  <2>0. asking \in [Askers -> Asking]
    BY <1>t, Zenon DEF IncludeTypes
  <2>1. CASE asking' = asking
    BY <2>0, <2>1, Zenon
  <2>2. CASE asking' = Closed(p)
    <3> DEFINE told(c) == [asking[c] EXCEPT !.at = "refused"]
    <3>1. \A c \in Askers : told(c) \in Asking /\ told(c).at = "refused"
      BY <2>0 DEF Asking
    <3>2. asking' = [c \in Askers |-> IF PumpOf[c] = p /\ asking[c].at \in {"connected", "sent"}
                                     THEN told(c) ELSE asking[c]]
      BY <2>2, Zenon DEF Closed
    <3> HIDE DEF told
    <3> QED
      BY <2>0, <3>1, <3>2, Zenon
  <2> QED
    BY <2>1, <2>2, Zenon
<1>6. IncludeTypes'
  <2>1. /\ pump' \in [Pumps -> {"start", "startup", "build", "stopping", "waiting", "end"}]
        /\ pump_files' \in [Pumps -> SUBSET {"socket_dir", "tmp_pid_file"}]
        /\ knows_pid' \in [Pumps -> BOOLEAN] /\ parent' \in [Pumps -> {"none", "acquire", "gone"}]
        /\ port_ready' \in [Pumps -> BOOLEAN]
    BY <1>t, Zenon DEF IncludeTypes
  <2>2. lost' \subseteq Pumps
    BY <1>t, ZenonT(60) DEF IncludeTypes
  <2> QED
    BY <1>3, <1>4, <1>5, <2>1, <2>2, SMT DEF IncludeTypes
<1>7. PlaceOf(p)'
  BY <1>t, <1>3, Zenon DEF PlaceOf, Absent, Alive
<1>8. RootOf(p)' /\ RequestOf(p)'
  BY <1>3, <1>4, Zenon DEF RootOf, RequestOf, Serving, ClientsOf, Busy
<1>9. \A q \in Pumps \ {p} : Same(q) /\ Spares(q)
  <2>1. ASSUME NEW q \in Pumps \ {p} PROVE \A r \in client_tmp : r[1] = q /\ Alive(q) => r \in client_tmp'
    BY Zenon
  <2> QED
    BY <1>3, <1>4, <2>1, OthersRoots, Zenon DEF Same
<1>10. \A c \in Askers : PumpOf[c] # p => asking'[c] = asking[c]
  BY <1>5, Zenon
<1>11. ASSUME NEW c \in Askers, PumpOf[c] = p PROVE AnswerTo(c)'
  <2>1. ~Absent(p)' /\ ~Serving(p)'
    BY <1>3, Zenon DEF Absent, Serving
  <2>2. AnswerTo(c)
    BY Zenon DEF IncludeInv
  <2>3. CASE asking'[c] = asking[c]
    BY <1>11, <2>1, <2>2, <2>3, Zenon DEF AnswerTo
  <2>4. CASE asking'[c].at = "refused"
    BY <1>11, <2>1, <2>4, Zenon DEF AnswerTo
  <2> QED
    BY <1>5, <2>3, <2>4, Zenon
<1> QED
  BY <1>6, <1>7, <1>8, <1>9, <1>10, <1>11, StepOf, Zenon DEF ClientsOf

LEMMA SetUpFailsInv ==
  ASSUME IncludeInv, NEW p \in Pumps, SetUpFails(p)
  PROVE  IncludeInv'
<1>t. IncludeTypes
  BY Zenon DEF IncludeInv
<1>1. PICK made \in SUBSET {<<p, 1>>} : client_tmp' = {r \in client_tmp : Alive(r[1])} \cup made
  BY Zenon DEF SetUpFails
<1>2. /\ server[p].at = "setup" /\ Dies(p) /\ lost' = lost \cup {p}
      /\ UNCHANGED <<pump, pump_files, knows_pid, parent, port_ready, term, port, backlog, asking>>
  BY Zenon DEF SetUpFails, pumpVars
<1>3. \A r \in made : r \in Pumps \X Nat /\ r[1] = p
  OBVIOUS
<1>4. /\ client_tmp' \subseteq Pumps \X Nat
      /\ \A r \in client_tmp : r[1] # p /\ Alive(r[1]) => r \in client_tmp'
      /\ \A r \in client_tmp' : r \in client_tmp \/ r[1] = p
  BY <1>t, <1>1, <1>3, Zenon DEF IncludeTypes
<1>5. Alive(p) /\ p \in lost' /\ lost \subseteq lost' /\ lost' \subseteq lost \cup {p}
  BY <1>2, Zenon DEF Alive
<1>6. term' \in [Pumps -> BOOLEAN] /\ port' \in [Pumps -> BOOLEAN]
  BY <1>t, <1>2, Zenon DEF IncludeTypes
<1> QED
  BY <1>2, <1>4, <1>5, <1>6, EndStep, Zenon

LEMMA CleanOutInv ==
  ASSUME IncludeInv, NEW p \in Pumps, CleanOut(p)
  PROVE  IncludeInv'
<1>t. IncludeTypes
  BY Zenon DEF IncludeInv
<1>1. /\ server[p].at = "raised" /\ Dies(p) /\ client_tmp' = client_tmp \ RootsOf(p)
      /\ port' = [port EXCEPT ![p] = FALSE]
      /\ asking' = Closed(p) /\ backlog' = [backlog EXCEPT ![p] = <<>>]
      /\ UNCHANGED <<pump, pump_files, knows_pid, parent, port_ready, term, lost>>
  BY Zenon DEF CleanOut, pumpVars
<1>2. /\ client_tmp' \subseteq Pumps \X Nat /\ RootsOf(p)' = {}
      /\ \A r \in client_tmp : r[1] # p => r \in client_tmp'
      /\ \A r \in client_tmp' : r \in client_tmp
  BY <1>t, <1>1, Zenon DEF IncludeTypes, RootsOf
<1>3. /\ Alive(p) /\ term' \in [Pumps -> BOOLEAN] /\ port' \in [Pumps -> BOOLEAN]
      /\ \A q \in Pumps \ {p} : port'[q] = port[q]
  BY <1>t, <1>1, Zenon DEF IncludeTypes, Alive
<1> QED
  BY <1>1, <1>2, <1>3, EndStep, Zenon

LEMMA ServerKilledInv ==
  ASSUME IncludeInv, NEW p \in Pumps, ServerKilled(p)
  PROVE  IncludeInv'
<1>t. IncludeTypes
  BY Zenon DEF IncludeInv
<1>1. /\ Dies(p) /\ term' = [term EXCEPT ![p] = FALSE] /\ lost' = lost \cup {p}
      /\ asking' = Closed(p) /\ backlog' = [backlog EXCEPT ![p] = <<>>]
      /\ UNCHANGED <<pump, pump_files, knows_pid, parent, port_ready, port>>
  BY Zenon DEF ServerKilled, pumpVars
<1>2. /\ server[p].at = "raised" \/ Serving(p)
      /\ client_tmp' \subseteq client_tmp
      /\ \A r \in client_tmp : r[1] # p => r \in client_tmp'
  BY Zenon DEF ServerKilled, RootsOf
<1>3. /\ Alive(p) /\ term' \in [Pumps -> BOOLEAN] /\ port' \in [Pumps -> BOOLEAN]
      /\ client_tmp' \subseteq Pumps \X Nat
      /\ p \in lost' /\ lost \subseteq lost' /\ lost' \subseteq lost \cup {p}
  BY <1>t, <1>1, <1>2, ServingIsThere, Zenon DEF IncludeTypes
<1> QED
  BY <1>1, <1>2, <1>3, EndStep, Zenon

(***************************************************************************)
(* The clients.                                                            *)
(***************************************************************************)
LEMMA ClientStepInv ==
  ASSUME IncludeInv, NEW c \in Askers,
         ClientConnects(c) \/ ClientSends(c) \/ ClientDone(c) \/ ClientKilled(c)
  PROVE  IncludeInv'
<1> DEFINE p == PumpOf[c]
<1>t. /\ IncludeTypes /\ PlaceOf(p) /\ RequestOf(p) /\ RootOf(p) /\ AnswerTo(c) /\ p \in Pumps
      /\ asking[c] \in Asking
  BY PumpOfClient, Zenon DEF IncludeInv, IncludeTypes
<1> HIDE DEF p
<1>0. p = PumpOf[c] /\ c \in ClientsOf(p)
  BY Zenon DEF p, ClientsOf
<1>1. ASSUME NEW a \in Asking, asking' = [asking EXCEPT ![c] = a], a.at \notin {"idle", "using"},
             asking[c].at = "idle" => pump[p] = "build",
             UNCHANGED <<pump, pump_files, knows_pid, parent, port_ready, server, term, port, client_tmp, lost>>,
             backlog' \in {backlog, [backlog EXCEPT ![p] = Append(backlog[p], c)]}
      PROVE  IncludeInv'
  <2>1. /\ asking' \in [Askers -> Asking] /\ asking'[c] = a
        /\ \A d \in Askers \ {c} : asking'[d] = asking[d]
    BY <1>t, <1>1, Zenon DEF IncludeTypes
  <2>2. /\ backlog' \in [Pumps -> Seq(Askers)] /\ backlog'[p] \in Seq(ClientsOf(p))
        /\ \A q \in Pumps \ {p} : backlog'[q] = backlog[q]
    <3>1. Append(backlog[p], c) \in Seq(Askers) /\ Append(backlog[p], c) \in Seq(ClientsOf(p))
      BY <1>t, <1>0 DEF RequestOf, IncludeTypes
    <3>2. backlog \in [Pumps -> Seq(Askers)] /\ backlog[p] \in Seq(ClientsOf(p))
      BY <1>t, Zenon DEF RequestOf, IncludeTypes
    <3> QED
      BY <1>t, <1>1, <3>1, <3>2, Zenon
  <2>3. IncludeTypes'
    BY <1>t, <1>1, <2>1, <2>2, Zenon DEF IncludeTypes
  <2>4. PlaceOf(p)' /\ RootOf(p)'
    BY <1>t, <1>1, Zenon DEF PlaceOf, RootOf, RootsOf, Alive, Absent, Serving
  <2>5. RequestOf(p)'
    BY <1>t, <1>1, <2>2, Zenon DEF RequestOf, ClientsOf
  <2>6. \A q \in Pumps : Spares(q)
    BY <1>1, RootsStay, Zenon
  <2>7. \A q \in Pumps \ {p} : Same(q)
    BY <1>1, <2>2, Zenon DEF Same
  <2>8. ~Absent(p)
    BY <1>t, <1>0, <1>1, Zenon DEF AnswerTo, PlaceOf
  <2>9. AnswerTo(c)'
    BY <1>0, <1>1, <2>1, <2>8, Zenon DEF AnswerTo, Absent
  <2>10. ASSUME NEW d \in Askers, d # c PROVE AnswerTo(d)'
    BY <1>1, <2>1, <2>6, <2>10, AnswersKept, PumpOfClient, Zenon
  <2> QED
    BY <1>t, <1>0, <2>1, <2>3, <2>4, <2>5, <2>6, <2>7, <2>9, <2>10, StepOf, Zenon DEF ClientsOf
<1>2. ASSUME NEW at \in {"connected", "refused", "sent"}
      PROVE  [asking[c] EXCEPT !.at = at] \in Asking /\ [asking[c] EXCEPT !.at = at].at = at
  BY <1>t, Zenon DEF Asking
<1>3. ASSUME NEW at \in {"done", "left", "gone"}
      PROVE  [at |-> at, root |-> <<>>] \in Asking /\ [at |-> at, root |-> <<>>].at = at
  BY Zenon DEF Asking
<1>4. CASE ClientConnects(c)
  <2>1. /\ asking[c].at = "idle" /\ pump[p] = "build"
        /\ UNCHANGED <<pump, pump_files, knows_pid, parent, port_ready, server, term, port, client_tmp, lost>>
        /\ backlog' \in {backlog, [backlog EXCEPT ![p] = Append(backlog[p], c)]}
        /\ \E at \in {"connected", "refused"} : asking' = [asking EXCEPT ![c] = [asking[c] EXCEPT !.at = at]]
    BY <1>4, Zenon DEF ClientConnects, pumpVars, p
  <2> QED
    BY <1>1, <1>2, <2>1, Zenon
<1>5. CASE ClientSends(c)
  <2>1. /\ asking[c].at = "connected" /\ asking' = [asking EXCEPT ![c] = [asking[c] EXCEPT !.at = "sent"]]
        /\ UNCHANGED <<pump, pump_files, knows_pid, parent, port_ready, server, term, port, client_tmp, lost, backlog>>
    BY <1>5, Zenon DEF ClientSends, pumpVars, serverVars
  <2> QED
    BY <1>1, <1>2, <2>1, Zenon
<1>6. CASE ClientDone(c) \/ ClientKilled(c)
  <2>1. /\ asking[c].at # "idle"
        /\ UNCHANGED <<pump, pump_files, knows_pid, parent, port_ready, server, term, port, client_tmp, lost, backlog>>
        /\ \E at \in {"done", "left", "gone"} : asking' = [asking EXCEPT ![c] = [at |-> at, root |-> <<>>]]
    BY <1>6, Zenon DEF ClientDone, ClientKilled, pumpVars, serverVars
  <2> QED
    BY <1>1, <1>3, <2>1, Zenon
<1> QED
  BY <1>4, <1>5, <1>6, Zenon

LEMMA IncludeStart == IncludeInit => IncludeInv
<1> SUFFICES ASSUME IncludeInit PROVE IncludeInv
  BY Zenon
<1>1. NoServer \in ServerState /\ NoServer.at = "none" /\ [at |-> "idle", root |-> <<>>] \in Asking
  BY DEF NoServer, ServerState, Places, Asking
<1>2. \A S : <<>> \in Seq(S)
  OBVIOUS
<1>3. \A p \in Pumps : server[p] = NoServer /\ pump[p] = "start" /\ ~port[p] /\ ~port_ready[p] /\ backlog[p] = <<>>
  BY Zenon DEF IncludeInit
<1>4. IncludeTypes
  BY <1>1, <1>2, Zenon DEF IncludeInit, IncludeTypes
<1>5. \A p \in Pumps : PlaceOf(p)
  BY <1>1, <1>3, Zenon DEF PlaceOf, Absent, Alive
<1>6. \A p \in Pumps : RootOf(p)
  BY <1>1, <1>3, Zenon DEF RootOf, RootsOf, Serving, IncludeInit
<1>7. \A p \in Pumps : RequestOf(p)
  BY <1>1, <1>2, <1>3, Zenon DEF RequestOf, Busy
<1>8. \A c \in Askers : asking[c].at = "idle"
  BY Zenon DEF IncludeInit
<1> QED
  BY <1>4, <1>5, <1>6, <1>7, <1>8, Zenon DEF IncludeInv, AnswerTo

LEMMA IncludeStep == IncludeInv /\ [IncludeNext]_includeVars => IncludeInv'
<1> SUFFICES ASSUME IncludeInv, [IncludeNext]_includeVars PROVE IncludeInv'
  BY Zenon
<1>1. CASE UNCHANGED includeVars
  <2>1. /\ UNCHANGED <<pump, pump_files, knows_pid, parent, port_ready, server, term, port, backlog>>
        /\ UNCHANGED <<client_tmp, lost, asking>>
    BY <1>1, Zenon DEF includeVars, pumpVars, serverVars
  <2>2. \A q \in Pumps : Same(q) /\ Spares(q)
    BY <2>1, RootsStay, Zenon DEF Same
  <2>3. IncludeTypes'
    BY <2>1, Zenon DEF IncludeInv, IncludeTypes
  <2> QED
    BY <2>1, <2>2, <2>3, OthersKept, AnswersKept, PumpOfClient, Zenon DEF IncludeInv
<1> QED
  BY <1>1, PumpStartsInv, PumpStepInv, SetUpInv, CleanOutInv, SigtermInv, AcceptInv, ReadRequestInv,
     AnalyseInv, ReplyInv, SetUpFailsInv, ServerKilledInv, ClientStepInv, Zenon
     DEF IncludeNext, ServerStep

(***************************************************************************)
(* The root that a client was told of stays while its server serves,       *)
(* whatever other servers clean out and however often this one starts over *)
(* in a new root; and a pump script that has ended has left nothing,       *)
(* unless its server was killed (basics.py, include_server.py, pump.in).   *)
(***************************************************************************)
THEOREM RootsAreKept == IncludeSpec => []RootsComeAndGo
<1>1. IncludeInv => RootsComeAndGo
  <2> SUFFICES ASSUME IncludeInv PROVE RootsComeAndGo
    BY Zenon
  <2>1. AnsweredFilesStay
    BY Zenon DEF IncludeInv, AnswerTo, AnsweredFilesStay
  <2>2. OthersAreSpared
    BY Zenon DEF IncludeInv, RootOf, OthersAreSpared
  <2>3. NothingLeftOfPump
    BY Zenon DEF IncludeInv, PlaceOf, RootOf, NothingLeftOfPump
  <2> QED
    BY <2>1, <2>2, <2>3, Zenon DEF RootsComeAndGo
<1> QED
  BY <1>1, IncludeStart, IncludeStep, PTL DEF IncludeSpec
=============================================================================
