--------------------------- MODULE BuildProofs ---------------------------
(***************************************************************************)
(* Theorems about BuildSomewhere, for every set of clients and hosts, every *)
(* number of slots and every set of faults: first its locks, then what a   *)
(* build reports, where local compilers run and which hosts are avoided.   *)
(***************************************************************************)
EXTENDS BuildSomewhere, TLAPS

(***************************************************************************)
(* The slots a scan looks at are lock files.                               *)
(***************************************************************************)
LEMMA SlotsAreFiles ==
  /\ LocalFile \subseteq LockFile
  /\ LocalList \subseteq LocalFile
  /\ LocalCppList \subseteq LocalFile
  /\ \A hl \in SUBSET Hosts : ListSlots(hl) \subseteq LockFile
  /\ \A f \in LockFile : HostOf(f) \in Hosts
BY SlotFilesAssumption
   DEF LocalList, LocalCppList, ListSlots, SlotsOf, LocalFile, LockFile, LockFileName,
       Hosts, HostOf

LEMMA StatusTypes ==
  /\ 0 \in Status /\ 1 \in Status
  /\ DistccStatus \subseteq Status
  /\ CompilerStatus \subseteq Status
  /\ EXIT_DISTCC_FAILED \in DistccStatus /\ EXIT_CONNECT_FAILED \in DistccStatus
  /\ EXIT_IO_ERROR \in DistccStatus /\ EXIT_NO_HOSTS \in DistccStatus
BY BuildAssumption DEF Status, DistccStatus

LEMMA TypeInit == Init => TypeOK
BY BuildAssumption, StatusTypes DEF Init, TypeOK, Label

LEMMA TypeStep == TypeOK /\ [Next]_vars => TypeOK'
<1> SUFFICES ASSUME TypeOK, [Next]_vars PROVE TypeOK'
  BY Zenon
<1> USE StatusTypes
    DEF At, Goto, MayFail, locks, choice, result, shared, Label
<1>1. ASSUME NEW c \in Clients, Start(c) PROVE TypeOK'
  BY <1>1 DEF TypeOK, Start, Jump
<1>2. ASSUME NEW c \in Clients, PickHost(c) PROVE TypeOK'
  BY <1>2, SlotFilesAssumption DEF TypeOK, PickHost, Jump
<1>3. ASSUME NEW c \in Clients, LockOne(c) PROVE TypeOK'
  BY <1>3, SlotsAreFiles DEF TypeOK, LockOne, Jump, Lock, FailedFd
<1>4. ASSUME NEW c \in Clients, LockLocalCpp(c) PROVE TypeOK'
  BY <1>4, SlotsAreFiles DEF TypeOK, LockLocalCpp, Jump, Lock, FailedFd
<1>5. ASSUME NEW c \in Clients, AdjustCppWhere(c) PROVE TypeOK'
  BY <1>5 DEF TypeOK, AdjustCppWhere
<1>6. ASSUME NEW c \in Clients, ScanIncludes(c) PROVE TypeOK'
  BY <1>6 DEF TypeOK, ScanIncludes, Jump
<1>7. ASSUME NEW c \in Clients, TalkToIncludeServer(c) PROVE TypeOK'
  BY <1>7 DEF TypeOK, TalkToIncludeServer, Jump, ReleaseLocal, Unlock, DropAll
<1>8. ASSUME NEW c \in Clients, CppMaybe(c) PROVE TypeOK'
  BY <1>8 DEF TypeOK, CppMaybe, Jump
<1>9. ASSUME NEW c \in Clients, CopyArgv(c) PROVE TypeOK'
  BY <1>9 DEF TypeOK, CopyArgv, Jump
<1>10. ASSUME NEW c \in Clients, Connect(c) PROVE TypeOK'
  BY <1>10 DEF TypeOK, Connect, Jump, RemoteFails, ReleaseLocal, Unlock
<1>11. ASSUME NEW c \in Clients, SendHeader(c) PROVE TypeOK'
  BY <1>11 DEF TypeOK, SendHeader, Jump, RemoteFails, ReleaseLocal, Unlock
<1>12. ASSUME NEW c \in Clients, WaitForCpp(c) PROVE TypeOK'
  BY <1>12 DEF TypeOK, WaitForCpp, Jump, RemoteFails, ReleaseLocal, Unlock
<1>13. ASSUME NEW c \in Clients, SendDoti(c) PROVE TypeOK'
  BY <1>13 DEF TypeOK, SendDoti, Jump, RemoteFails, ReleaseLocal, Unlock
<1>14. ASSUME NEW c \in Clients, RetrieveResults(c) PROVE TypeOK'
  BY <1>14 DEF TypeOK, RetrieveResults, Jump, RemoteFails, ReleaseLocal, Unlock
<1>15. ASSUME NEW c \in Clients, EnjoyedHost(c) PROVE TypeOK'
  BY <1>15, Zenon DEF TypeOK, EnjoyedHost, Enjoyed
<1>16. ASSUME NEW c \in Clients, UnlockRemote(c) PROVE TypeOK'
  BY <1>16, Zenon DEF TypeOK, UnlockRemote, ReleaseCpu, Unlock
<1>17. ASSUME NEW c \in Clients, CritiqueStatus(c) PROVE TypeOK'
  BY <1>17 DEF TypeOK, CritiqueStatus, Jump
<1>18. ASSUME NEW c \in Clients, DislikedHost(c) PROVE TypeOK'
  BY <1>18 DEF TypeOK, DislikedHost, Disliked
<1>19. ASSUME NEW c \in Clients, FallbackUnlockCpu(c) PROVE TypeOK'
  BY <1>19, Zenon DEF TypeOK, FallbackUnlockCpu, ReleaseCpu, Unlock
<1>20. ASSUME NEW c \in Clients, FallbackUnlockLocal(c) PROVE TypeOK'
  BY <1>20, Zenon DEF TypeOK, FallbackUnlockLocal, ReleaseLocal, Unlock
<1>21. ASSUME NEW c \in Clients, FallbackEnv(c) PROVE TypeOK'
  BY <1>21, Zenon DEF TypeOK, FallbackEnv
<1>22. ASSUME NEW c \in Clients, LockLocal(c) PROVE TypeOK'
  BY <1>22, SlotsAreFiles DEF TypeOK, LockLocal, Lock, FailedFd
<1>23. ASSUME NEW c \in Clients, RunLocal(c) PROVE TypeOK'
  BY <1>23 DEF TypeOK, RunLocal, Jump
<1>24. ASSUME NEW c \in Clients, CollectLocal(c) PROVE TypeOK'
  BY <1>24 DEF TypeOK, CollectLocal, Jump
<1>25. ASSUME NEW c \in Clients, CompareResults(c) PROVE TypeOK'
  BY <1>25 DEF TypeOK, CompareResults, Enjoyed
<1>26. ASSUME NEW c \in Clients, UnlockCpu(c) PROVE TypeOK'
  BY <1>26, Zenon DEF TypeOK, UnlockCpu, ReleaseCpu, Unlock
<1>27. ASSUME NEW c \in Clients, UnlockLocal(c) PROVE TypeOK'
  BY <1>27, Zenon DEF TypeOK, UnlockLocal, ReleaseLocal, Unlock
<1>28. ASSUME NEW c \in Clients, CppExits(c) PROVE TypeOK'
  BY <1>28 DEF TypeOK, CppExits
<1>29. ASSUME NEW c \in Clients, Crash(c) PROVE TypeOK'
  BY <1>29, Zenon DEF TypeOK, Crash, DropAll
<1>30. ASSUME NEW h \in Hosts, BackoffExpires(h) PROVE TypeOK'
  BY <1>30, Zenon DEF TypeOK, BackoffExpires
<1>31. CASE UNCHANGED vars
  BY <1>31, Zenon DEF TypeOK, vars
<1>32. QED
  BY <1>1, <1>2, <1>3, <1>4, <1>5, <1>6, <1>7, <1>8, <1>9, <1>10, <1>11, <1>12, <1>13,
     <1>14, <1>15, <1>16, <1>17, <1>18, <1>19, <1>20, <1>21, <1>22, <1>23, <1>24,
     <1>25, <1>26, <1>27, <1>28, <1>29, <1>30, <1>31
     DEF Next, Step

(***************************************************************************)
(* Every variable of every client keeps its type.                          *)
(***************************************************************************)
THEOREM TypeCorrect == Spec => []TypeOK
BY TypeInit, TypeStep, PTL DEF Spec

(***************************************************************************)
(* The inductive invariant behind the lock properties.                     *)
(***************************************************************************)
IInv == TypeOK /\ FdsMatchLocks /\ SlotDiscipline

LEMMA LockInit == Init => IInv
BY TypeInit, SlotFilesAssumption, BuildAssumption
   DEF Init, IInv, FdsMatchLocks, SlotDiscipline, WithoutCpuLock, MayHoldLocalLock,
       WithServerLock, RemoteFile

LEMMA Markers == Nobody \notin Clients /\ NoFd \notin LockFile /\ ClosedFd \notin LockFile
BY SlotFilesAssumption, BuildAssumption, Zenon

(***************************************************************************)
(* What a release, the end of a process and a new lock do to the agreement *)
(* of descriptors and lock table.                                          *)
(***************************************************************************)
LEMMA DistinctFds ==
  ASSUME SlotDiscipline, NEW c \in Clients, local_cpu_lock_fd[c] \in LockFile
  PROVE  cpu_lock_fd[c] # local_cpu_lock_fd[c]
BY Zenon DEF SlotDiscipline

LEMMA ReleaseLocalMatches ==
  ASSUME IInv, NEW c \in Clients, ReleaseLocal(c) PROVE FdsMatchLocks'
<1>1. ASSUME NEW d \in Clients, NEW f \in LockFile
      PROVE  owner'[f] = d <=> f \in {cpu_lock_fd'[d], local_cpu_lock_fd'[d]}
  <2>1. owner[f] = d <=> f \in {cpu_lock_fd[d], local_cpu_lock_fd[d]}
    BY Zenon DEF IInv, FdsMatchLocks
  <2>2. owner'[f] = IF f = local_cpu_lock_fd[c] /\ owner[f] = c THEN Nobody ELSE owner[f]
    BY Zenon DEF ReleaseLocal, Unlock
  <2>3. /\ cpu_lock_fd'[d] = cpu_lock_fd[d]
        /\ local_cpu_lock_fd'[d] = IF d = c THEN NoFd ELSE local_cpu_lock_fd[d]
    BY Zenon DEF ReleaseLocal, IInv, TypeOK
  <2>4. local_cpu_lock_fd[c] = f => cpu_lock_fd[c] # f
    BY DistinctFds, Zenon DEF IInv
  <2>5. CASE d = c
    BY <2>1, <2>2, <2>3, <2>4, <2>5, Markers, Zenon
  <2>6. CASE d # c
    BY <2>1, <2>2, <2>3, <2>6, Markers, Zenon
  <2>7. QED
    BY <2>5, <2>6, Zenon
<1>2. QED
  BY <1>1, Zenon DEF FdsMatchLocks

LEMMA ReleaseCpuMatches ==
  ASSUME IInv, NEW c \in Clients, ReleaseCpu(c) PROVE FdsMatchLocks'
<1>1. ASSUME NEW d \in Clients, NEW f \in LockFile
      PROVE  owner'[f] = d <=> f \in {cpu_lock_fd'[d], local_cpu_lock_fd'[d]}
  <2>1. owner[f] = d <=> f \in {cpu_lock_fd[d], local_cpu_lock_fd[d]}
    BY Zenon DEF IInv, FdsMatchLocks
  <2>2. owner'[f] = IF f = cpu_lock_fd[c] /\ owner[f] = c THEN Nobody ELSE owner[f]
    BY Zenon DEF ReleaseCpu, Unlock
  <2>3. /\ local_cpu_lock_fd'[d] = local_cpu_lock_fd[d]
        /\ cpu_lock_fd'[d] = IF d = c THEN NoFd ELSE cpu_lock_fd[d]
    BY Zenon DEF ReleaseCpu, IInv, TypeOK
  <2>4. local_cpu_lock_fd[c] = f => cpu_lock_fd[c] # f
    BY DistinctFds, Zenon DEF IInv
  <2>5. CASE d = c
    BY <2>1, <2>2, <2>3, <2>4, <2>5, Markers, Zenon
  <2>6. CASE d # c
    BY <2>1, <2>2, <2>3, <2>6, Markers, Zenon
  <2>7. QED
    BY <2>5, <2>6, Zenon
<1>2. QED
  BY <1>1, Zenon DEF FdsMatchLocks

LEMMA DropAllMatches ==
  ASSUME IInv, NEW c \in Clients, DropAll(c),
         cpu_lock_fd' = [cpu_lock_fd EXCEPT ![c] = NoFd],
         local_cpu_lock_fd' = [local_cpu_lock_fd EXCEPT ![c] = NoFd]
  PROVE  FdsMatchLocks'
BY Markers DEF IInv, TypeOK, FdsMatchLocks, DropAll

LEMMA NewCpuLockMatches ==
  ASSUME IInv, NEW c \in Clients, NEW f \in LockFile, Lock(c, f),
         cpu_lock_fd[c] \notin LockFile, UNCHANGED local_cpu_lock_fd,
         cpu_lock_fd' = [cpu_lock_fd EXCEPT ![c] = f]
  PROVE  FdsMatchLocks'
BY Markers DEF IInv, TypeOK, FdsMatchLocks, Lock

LEMMA NewLocalLockMatches ==
  ASSUME IInv, NEW c \in Clients, NEW f \in LockFile, Lock(c, f),
         local_cpu_lock_fd[c] \notin LockFile, UNCHANGED cpu_lock_fd,
         local_cpu_lock_fd' = [local_cpu_lock_fd EXCEPT ![c] = f]
  PROVE  FdsMatchLocks'
BY Markers DEF IInv, TypeOK, FdsMatchLocks, Lock

LEMMA FailedLockMatches ==
  ASSUME IInv, NEW c \in Clients, NEW fd \in FailedFd, UNCHANGED owner,
         \/ /\ cpu_lock_fd[c] \notin LockFile /\ UNCHANGED local_cpu_lock_fd
            /\ cpu_lock_fd' = [cpu_lock_fd EXCEPT ![c] = fd]
         \/ /\ local_cpu_lock_fd[c] \notin LockFile /\ UNCHANGED cpu_lock_fd
            /\ local_cpu_lock_fd' = [local_cpu_lock_fd EXCEPT ![c] = fd]
  PROVE  FdsMatchLocks'
BY Markers DEF IInv, TypeOK, FdsMatchLocks, FailedFd

LEMMA MatchStep == IInv /\ [Next]_vars => FdsMatchLocks'
<1> SUFFICES ASSUME IInv, [Next]_vars PROVE FdsMatchLocks'
  BY Zenon
<1>0. UNCHANGED locks => FdsMatchLocks'
  BY Zenon DEF IInv, FdsMatchLocks, locks
<1>1. ASSUME NEW c \in Clients, LockOne(c) PROVE FdsMatchLocks'
  <2>1. cpu_lock_fd[c] \notin LockFile /\ ListSlots(hostlist[c]) \subseteq LockFile
    BY <1>1, SlotsAreFiles, Zenon DEF LockOne, At, IInv, TypeOK, SlotDiscipline, WithoutCpuLock
  <2>2. QED
    BY <1>1, <2>1, NewCpuLockMatches, FailedLockMatches, Zenon DEF LockOne
<1>2. ASSUME NEW c \in Clients, LockLocal(c) PROVE FdsMatchLocks'
  <2>1. cpu_lock_fd[c] \notin LockFile /\ LocalList \subseteq LockFile
    BY <1>2, SlotsAreFiles, Zenon DEF LockLocal, At, IInv, SlotDiscipline, WithoutCpuLock
  <2>2. QED
    BY <1>2, <2>1, NewCpuLockMatches, FailedLockMatches, Zenon DEF LockLocal
<1>3. ASSUME NEW c \in Clients, LockLocalCpp(c) PROVE FdsMatchLocks'
  <2>1. local_cpu_lock_fd[c] \notin LockFile /\ LocalCppList \subseteq LockFile
    BY <1>3, SlotsAreFiles, Zenon DEF LockLocalCpp, At, IInv, SlotDiscipline, MayHoldLocalLock
  <2>2. QED
    BY <1>3, <2>1, NewLocalLockMatches, FailedLockMatches, Zenon DEF LockLocalCpp
<1>4. ASSUME NEW c \in Clients,
             \/ Connect(c) \/ SendHeader(c) \/ WaitForCpp(c) \/ SendDoti(c)
             \/ RetrieveResults(c) \/ FallbackUnlockLocal(c) \/ UnlockLocal(c)
      PROVE  FdsMatchLocks'
  <2>1. ReleaseLocal(c) \/ UNCHANGED locks
    BY <1>4, Zenon DEF Connect, SendHeader, WaitForCpp, SendDoti, RetrieveResults,
                FallbackUnlockLocal, UnlockLocal, RemoteFails
  <2>2. QED
    BY <1>0, <2>1, ReleaseLocalMatches, Zenon
<1>5. ASSUME NEW c \in Clients, UnlockRemote(c) \/ FallbackUnlockCpu(c) \/ UnlockCpu(c)
      PROVE  FdsMatchLocks'
  BY <1>5, ReleaseCpuMatches, Zenon DEF UnlockRemote, FallbackUnlockCpu, UnlockCpu
<1>6. ASSUME NEW c \in Clients, TalkToIncludeServer(c) PROVE FdsMatchLocks'
  BY <1>0, <1>6, ReleaseLocalMatches, DropAllMatches, Zenon DEF TalkToIncludeServer
<1>7. ASSUME NEW c \in Clients, Crash(c) PROVE FdsMatchLocks'
  BY <1>7, DropAllMatches, Zenon DEF Crash
<1>8. ASSUME NEW c \in Clients,
             \/ Start(c) \/ PickHost(c) \/ AdjustCppWhere(c) \/ ScanIncludes(c)
             \/ CppMaybe(c) \/ CopyArgv(c) \/ EnjoyedHost(c) \/ CritiqueStatus(c)
             \/ DislikedHost(c) \/ FallbackEnv(c) \/ RunLocal(c) \/ CollectLocal(c)
             \/ CompareResults(c) \/ CppExits(c)
      PROVE  UNCHANGED locks
  BY <1>8, Zenon DEF Start, PickHost, AdjustCppWhere, ScanIncludes, CppMaybe, CopyArgv,
              EnjoyedHost, CritiqueStatus, DislikedHost, FallbackEnv, RunLocal,
              CollectLocal, CompareResults, CppExits
<1>9. ASSUME (\E h \in Hosts : BackoffExpires(h)) \/ UNCHANGED vars PROVE UNCHANGED locks
  BY <1>9, Zenon DEF BackoffExpires, vars
<1>10. QED
  BY <1>0, <1>1, <1>2, <1>3, <1>4, <1>5, <1>6, <1>7, <1>8, <1>9, Zenon DEF Next, Step

(***************************************************************************)
(* The statements of dcc_build_somewhere() keep the discipline.            *)
(***************************************************************************)
LEMMA DisciplineStep == IInv /\ [Next]_vars => SlotDiscipline'
<1> SUFFICES ASSUME IInv, [Next]_vars PROVE SlotDiscipline'
  BY Zenon
<1>0. NoFd \notin LocalFile
  BY Markers, Zenon DEF LocalFile
<1> USE Markers
    DEF At, Goto, MayFail, locks, choice, result, shared, Label, IInv, TypeOK,
        SlotDiscipline, WithoutCpuLock, MayHoldLocalLock, WithServerLock
<1>1. ASSUME NEW c \in Clients, Start(c) PROVE SlotDiscipline'
  BY <1>1 DEF Start, Jump
<1>2. ASSUME NEW c \in Clients, PickHost(c) PROVE SlotDiscipline'
  BY <1>2 DEF PickHost, Jump
<1>3. ASSUME NEW c \in Clients, LockOne(c) PROVE SlotDiscipline'
  <2>1. \A f \in ListSlots(hostlist[c]) :
          HostOf(f) # localhost => f \in RemoteFile
    BY SlotsAreFiles, Zenon DEF RemoteFile, LocalFile, HostOf
  <2>2. QED
    BY <1>3, <2>1 DEF LockOne, Jump, FailedFd
<1>4. ASSUME NEW c \in Clients, LockLocalCpp(c) PROVE SlotDiscipline'
  BY <1>4, SlotsAreFiles DEF LockLocalCpp, Jump, FailedFd, RemoteFile
<1>5. ASSUME NEW c \in Clients, AdjustCppWhere(c) PROVE SlotDiscipline'
  BY <1>5 DEF AdjustCppWhere
<1>6. ASSUME NEW c \in Clients, ScanIncludes(c) PROVE SlotDiscipline'
  BY <1>6 DEF ScanIncludes, Jump
<1>7. ASSUME NEW c \in Clients, TalkToIncludeServer(c) PROVE SlotDiscipline'
  BY <1>7 DEF TalkToIncludeServer, Jump, ReleaseLocal
<1>8. ASSUME NEW c \in Clients, CppMaybe(c) PROVE SlotDiscipline'
  BY <1>8 DEF CppMaybe, Jump
<1>9. ASSUME NEW c \in Clients, CopyArgv(c) PROVE SlotDiscipline'
  BY <1>9 DEF CopyArgv, Jump
<1>10. ASSUME NEW c \in Clients, Connect(c) PROVE SlotDiscipline'
  BY <1>10 DEF Connect, Jump, RemoteFails, ReleaseLocal
<1>11. ASSUME NEW c \in Clients, SendHeader(c) PROVE SlotDiscipline'
  BY <1>11 DEF SendHeader, Jump, RemoteFails, ReleaseLocal
<1>12. ASSUME NEW c \in Clients, WaitForCpp(c) PROVE SlotDiscipline'
  BY <1>12 DEF WaitForCpp, Jump, RemoteFails, ReleaseLocal
<1>13. ASSUME NEW c \in Clients, SendDoti(c) PROVE SlotDiscipline'
  BY <1>13 DEF SendDoti, Jump, RemoteFails, ReleaseLocal
<1>14. ASSUME NEW c \in Clients, RetrieveResults(c) PROVE SlotDiscipline'
  BY <1>14 DEF RetrieveResults, Jump, RemoteFails, ReleaseLocal
<1>15. ASSUME NEW c \in Clients, EnjoyedHost(c) PROVE SlotDiscipline'
  BY <1>15, Zenon DEF EnjoyedHost, Enjoyed
<1>16. ASSUME NEW c \in Clients, UnlockRemote(c) PROVE SlotDiscipline'
  BY <1>16 DEF UnlockRemote, ReleaseCpu
<1>17. ASSUME NEW c \in Clients, CritiqueStatus(c) PROVE SlotDiscipline'
  BY <1>17 DEF CritiqueStatus, Jump
<1>18. ASSUME NEW c \in Clients, DislikedHost(c) PROVE SlotDiscipline'
  BY <1>18, Zenon DEF DislikedHost, Disliked
<1>19. ASSUME NEW c \in Clients, FallbackUnlockCpu(c) PROVE SlotDiscipline'
  BY <1>19, <1>0, Zenon DEF FallbackUnlockCpu, ReleaseCpu
<1>20. ASSUME NEW c \in Clients, FallbackUnlockLocal(c) PROVE SlotDiscipline'
  BY <1>20 DEF FallbackUnlockLocal, ReleaseLocal
<1>21. ASSUME NEW c \in Clients, FallbackEnv(c) PROVE SlotDiscipline'
  BY <1>21 DEF FallbackEnv
<1>22. ASSUME NEW c \in Clients, LockLocal(c) PROVE SlotDiscipline'
  BY <1>22, SlotsAreFiles DEF LockLocal, FailedFd
<1>23. ASSUME NEW c \in Clients, RunLocal(c) PROVE SlotDiscipline'
  BY <1>23 DEF RunLocal, Jump
<1>24. ASSUME NEW c \in Clients, CollectLocal(c) PROVE SlotDiscipline'
  BY <1>24 DEF CollectLocal, Jump
<1>25. ASSUME NEW c \in Clients, CompareResults(c) PROVE SlotDiscipline'
  BY <1>25 DEF CompareResults, Enjoyed
<1>26. ASSUME NEW c \in Clients, UnlockCpu(c) PROVE SlotDiscipline'
  BY <1>26, <1>0, Zenon DEF UnlockCpu, ReleaseCpu
<1>27. ASSUME NEW c \in Clients, UnlockLocal(c) PROVE SlotDiscipline'
  BY <1>27, Zenon DEF UnlockLocal, ReleaseLocal
<1>28. ASSUME NEW c \in Clients, CppExits(c) PROVE SlotDiscipline'
  BY <1>28, Zenon DEF CppExits
<1>29. ASSUME NEW c \in Clients, Crash(c) PROVE SlotDiscipline'
  BY <1>29 DEF Crash
<1>30. ASSUME NEW h \in Hosts, BackoffExpires(h) PROVE SlotDiscipline'
  BY <1>30, Zenon DEF BackoffExpires
<1>31. CASE UNCHANGED vars
  BY <1>31, Zenon DEF vars
<1> HIDE DEF IInv, TypeOK, SlotDiscipline
<1>32. QED
  BY <1>1, <1>2, <1>3, <1>4, <1>5, <1>6, <1>7, <1>8, <1>9, <1>10, <1>11, <1>12, <1>13,
     <1>14, <1>15, <1>16, <1>17, <1>18, <1>19, <1>20, <1>21, <1>22, <1>23, <1>24,
     <1>25, <1>26, <1>27, <1>28, <1>29, <1>30, <1>31, Zenon
     DEF Next, Step

LEMMA LockStep == IInv /\ [Next]_vars => IInv'
BY TypeStep, MatchStep, DisciplineStep, Zenon DEF IInv

LEMMA LockInvariant == Spec => []IInv
BY LockInit, LockStep, PTL DEF Spec

(***************************************************************************)
(* A client owns exactly the locks its two descriptors name: no slot is    *)
(* lost by overwriting a descriptor or released by another client.         *)
(***************************************************************************)
THEOREM LocksMatch == Spec => []FdsMatchLocks
BY LockInvariant, PTL DEF IInv

(***************************************************************************)
(* The lock protocol of dcc_build_somewhere() at every statement.          *)
(***************************************************************************)
THEOREM Disciplined == Spec => []SlotDiscipline
BY LockInvariant, PTL DEF IInv

(***************************************************************************)
(* A client that has ended, normally or not, occupies no slot.             *)
(***************************************************************************)
THEOREM NothingHeld == Spec => []NothingHeldAtEnd
<1>1. IInv => NothingHeldAtEnd
  BY DEF IInv, FdsMatchLocks, SlotDiscipline, WithoutCpuLock, MayHoldLocalLock,
         NothingHeldAtEnd
<1>2. QED
  BY <1>1, LockInvariant, PTL

(***************************************************************************)
(* How the primitives of the lock table look to the pool of slots.         *)
(***************************************************************************)
LEMMA HeldUnchanged == owner' = owner => Held' = Held
BY Zenon DEF Held

LEMMA HeldLock ==
  ASSUME TypeOK, NEW c \in Clients, NEW f \in LockFile, Lock(c, f), f \notin Held[c]
  PROVE  /\ Held' = [Held EXCEPT ![c] = Held[c] \cup {f}]
         /\ \A d \in Clients : f \notin Held[d]
<1>1. \A d \in Clients : f \notin Held[d]
  BY SlotFilesAssumption DEF TypeOK, Lock, Held
<1>2. \A d \in Clients :
        Held'[d] = IF d = c THEN Held[c] \cup {f} ELSE Held[d]
  <2>1. \A g \in LockFile : owner'[g] = IF g = f THEN c ELSE owner[g]
    BY Zenon DEF TypeOK, Lock
  <2>2. TAKE d \in Clients
  <2>3. \A g : g \in Held'[d] <=> g \in LockFile /\ owner'[g] = d
    BY Zenon DEF Held
  <2>4. \A g : g \in Held[d] <=> g \in LockFile /\ owner[g] = d
    BY Zenon DEF Held
  <2>5. \A g : g \in Held'[d] <=> g \in (IF d = c THEN Held[c] \cup {f} ELSE Held[d])
    BY <1>1, <2>1, <2>3, <2>4, Zenon
  <2>6. QED
    BY <2>5, Zenon
<1>3. Held' = [Held EXCEPT ![c] = Held[c] \cup {f}]
  BY <1>2, Zenon DEF Held
<1>4. QED
  BY <1>1, <1>3, Zenon

LEMMA HeldUnlock ==
  ASSUME TypeOK, NEW c \in Clients, NEW fd, Unlock(c, fd)
  PROVE  \/ Held' = Held
         \/ fd \in Held[c] /\ Held' = [Held EXCEPT ![c] = Held[c] \ {fd}]
<1>1. CASE fd \in LockFile /\ owner[fd] = c
  <2>1. \A g \in LockFile : owner'[g] = IF g = fd THEN Nobody ELSE owner[g]
    BY <1>1, Zenon DEF Unlock
  <2>2. \A d \in Clients : Held'[d] = IF d = c THEN Held[c] \ {fd} ELSE Held[d]
    <3>1. TAKE d \in Clients
    <3>2. \A g : g \in Held'[d] <=> g \in LockFile /\ owner'[g] = d
      BY Zenon DEF Held
    <3>3. \A g : g \in Held[d] <=> g \in LockFile /\ owner[g] = d
      BY Zenon DEF Held
    <3>4. \A g : g \in Held'[d] <=> g \in (IF d = c THEN Held[c] \ {fd} ELSE Held[d])
      BY <1>1, <2>1, <3>2, <3>3, SlotFilesAssumption
    <3>5. QED
      BY <3>4, Zenon
  <2>3. Held' = [Held EXCEPT ![c] = Held[c] \ {fd}]
    BY <2>2, Zenon DEF Held
  <2>4. QED
    BY <1>1, <2>3, Zenon DEF Held
<1>2. CASE ~(fd \in LockFile /\ owner[fd] = c)
  <2>1. owner' = owner
    BY <1>2, Zenon DEF TypeOK, Unlock
  <2>2. QED
    BY <2>1, HeldUnchanged, Zenon
<1>3. QED
  BY <1>1, <1>2, Zenon

LEMMA HeldDropAll ==
  ASSUME TypeOK, NEW c \in Clients, DropAll(c)
  PROVE  Held' = [Held EXCEPT ![c] = {}]
<1>1. \A d \in Clients : Held'[d] = IF d = c THEN {} ELSE Held[d]
  <2>1. \A g \in LockFile : owner'[g] = IF owner[g] = c THEN Nobody ELSE owner[g]
    BY Zenon DEF DropAll
  <2>2. TAKE d \in Clients
  <2>3. \A g : g \in Held'[d] <=> g \in LockFile /\ owner'[g] = d
    BY Zenon DEF Held
  <2>4. \A g : g \in Held[d] <=> g \in LockFile /\ owner[g] = d
    BY Zenon DEF Held
  <2>5. \A g : g \in Held'[d] <=> g \in (IF d = c THEN {} ELSE Held[d])
    BY <2>1, <2>3, <2>4, SlotFilesAssumption, Zenon
  <2>6. QED
    BY <2>5, Zenon
<1>2. QED
  BY <1>1, Zenon DEF Held

(***************************************************************************)
(* A release, and the end of a process, are steps of the pool.             *)
(***************************************************************************)
LEMMA UnlockRefines ==
  ASSUME TypeOK, NEW c \in Clients, NEW fd, Unlock(c, fd)
  PROVE  Pool!PoolNext \/ Held' = Held
BY HeldUnlock, Zenon DEF Pool!PoolNext, Pool!ReleaseOne

LEMMA DropAllRefines ==
  ASSUME TypeOK, NEW c \in Clients, DropAll(c)
  PROVE  Pool!PoolNext \/ Held' = Held
<1>1. CASE Held[c] = {}
  BY <1>1, HeldDropAll, Zenon DEF Held
<1>2. CASE Held[c] # {}
  BY <1>2, HeldDropAll, Zenon DEF Pool!PoolNext, Pool!ReleaseAll
<1>3. QED
  BY <1>1, <1>2, Zenon

LEMMA SameFiles == Pool!LocalFile = LocalFile /\ Pool!RemoteFile = RemoteFile
BY DEF RemoteFile, Pool!RemoteFile, LocalFile, Pool!LocalFile, LockFile, Pool!LockFile,
       LockFileName, Pool!LockFileName, Hosts, Pool!Hosts

(***************************************************************************)
(* Taking a slot is a step of the pool: dcc_lock_one() with nothing held,  *)
(* or a local slot with no local slot held.                                *)
(***************************************************************************)
LEMMA FirstLockRefines ==
  ASSUME TypeOK, NEW c \in Clients, NEW f \in LockFile, Lock(c, f), Held[c] = {}
  PROVE  Pool!PoolNext
<1>1. Held' = [Held EXCEPT ![c] = {f}] /\ Held' = [Held EXCEPT ![c] = Held[c] \cup {f}]
  BY HeldLock
<1>2. Pool!Free(f)
  BY HeldLock, Zenon DEF Pool!Free
<1>3. CASE f \in LocalFile
  <2>1. Pool!AcquireLocal(c)
    BY <1>1, <1>2, <1>3, SameFiles, ZenonT(30) DEF Pool!AcquireLocal
  <2>2. QED
    BY <2>1, Zenon DEF Pool!PoolNext
<1>4. CASE f \in RemoteFile
  <2>1. Pool!AcquireRemote(c)
    BY <1>1, <1>2, <1>4, SameFiles, ZenonT(30) DEF Pool!AcquireRemote
  <2>2. QED
    BY <2>1, Zenon DEF Pool!PoolNext
<1>5. QED
  BY <1>3, <1>4, Zenon DEF RemoteFile

LEMMA SecondLockRefines ==
  ASSUME TypeOK, NEW c \in Clients, NEW f \in LocalFile, Lock(c, f),
         Held[c] \cap LocalFile = {}
  PROVE  Pool!PoolNext
<1>1. f \in LockFile
  BY SlotsAreFiles, Zenon
<1>2. Pool!Free(f) /\ Held' = [Held EXCEPT ![c] = Held[c] \cup {f}]
  BY <1>1, HeldLock, Zenon DEF Pool!Free
<1>3. Pool!AcquireLocal(c)
  BY <1>2, SameFiles, ZenonT(30) DEF Pool!AcquireLocal
<1>4. QED
  BY <1>3, Zenon DEF Pool!PoolNext

(***************************************************************************)
(* Every step of a client is a step of the pool or leaves it alone.        *)
(***************************************************************************)
LEMMA StepRefines == IInv /\ [Next]_vars => Pool!PoolNext \/ Held' = Held
<1> SUFFICES ASSUME IInv, [Next]_vars PROVE Pool!PoolNext \/ Held' = Held
  BY Zenon
<1>0. TypeOK
  BY Zenon DEF IInv
<1>1. ASSUME NEW c \in Clients, LockOne(c) PROVE Pool!PoolNext \/ Held' = Held
  <2>1. Held[c] = {}
    BY <1>1 DEF LockOne, At, Held, IInv, FdsMatchLocks, SlotDiscipline, WithoutCpuLock,
                MayHoldLocalLock
  <2>2. ListSlots(hostlist[c]) \subseteq LockFile
    BY <1>0, SlotsAreFiles, Zenon DEF TypeOK
  <2>3. QED
    BY <1>0, <1>1, <2>1, <2>2, FirstLockRefines, HeldUnchanged, Zenon DEF LockOne
<1>2. ASSUME NEW c \in Clients, LockLocal(c) PROVE Pool!PoolNext \/ Held' = Held
  <2>1. Held[c] = {}
    BY <1>2 DEF LockLocal, At, Held, IInv, FdsMatchLocks, SlotDiscipline, WithoutCpuLock,
                MayHoldLocalLock
  <2>2. QED
    BY <1>0, <1>2, <2>1, SlotsAreFiles, FirstLockRefines, HeldUnchanged, Zenon DEF LockLocal
<1>3. ASSUME NEW c \in Clients, LockLocalCpp(c) PROVE Pool!PoolNext \/ Held' = Held
  <2>1. Held[c] \cap LocalFile = {}
    BY <1>3 DEF LockLocalCpp, At, Held, IInv, FdsMatchLocks, SlotDiscipline,
                WithServerLock, MayHoldLocalLock, RemoteFile
  <2>2. QED
    BY <1>0, <1>3, <2>1, SlotsAreFiles, SecondLockRefines, HeldUnchanged, Zenon
       DEF LockLocalCpp
<1>4. ASSUME NEW c \in Clients,
             \/ TalkToIncludeServer(c) \/ Connect(c) \/ SendHeader(c) \/ WaitForCpp(c)
             \/ SendDoti(c) \/ RetrieveResults(c) \/ FallbackUnlockLocal(c)
             \/ UnlockLocal(c)
      PROVE  Pool!PoolNext \/ Held' = Held
  <2>1. Unlock(c, local_cpu_lock_fd[c]) \/ DropAll(c) \/ owner' = owner
    BY <1>4, Zenon DEF TalkToIncludeServer, Connect, SendHeader, WaitForCpp, SendDoti,
                RetrieveResults, FallbackUnlockLocal, UnlockLocal, RemoteFails,
                ReleaseLocal, locks
  <2>2. QED
    BY <1>0, <2>1, UnlockRefines, DropAllRefines, HeldUnchanged, ZenonT(30)
<1>5. ASSUME NEW c \in Clients, UnlockRemote(c) \/ FallbackUnlockCpu(c) \/ UnlockCpu(c)
      PROVE  Pool!PoolNext \/ Held' = Held
  <2>1. Unlock(c, cpu_lock_fd[c])
    BY <1>5, Zenon DEF UnlockRemote, FallbackUnlockCpu, UnlockCpu, ReleaseCpu
  <2>2. QED
    BY <1>0, <2>1, UnlockRefines, Zenon
<1>6. ASSUME NEW c \in Clients, Crash(c) PROVE Pool!PoolNext \/ Held' = Held
  BY <1>0, <1>6, DropAllRefines, Zenon DEF Crash
<1>7. ASSUME NEW c \in Clients,
             \/ Start(c) \/ PickHost(c) \/ AdjustCppWhere(c) \/ ScanIncludes(c)
             \/ CppMaybe(c) \/ CopyArgv(c) \/ EnjoyedHost(c) \/ CritiqueStatus(c)
             \/ DislikedHost(c) \/ FallbackEnv(c) \/ RunLocal(c) \/ CollectLocal(c)
             \/ CompareResults(c) \/ CppExits(c)
      PROVE  Pool!PoolNext \/ Held' = Held
  <2>1. owner' = owner
    BY <1>7, Zenon DEF Start, PickHost, AdjustCppWhere, ScanIncludes, CppMaybe, CopyArgv,
                EnjoyedHost, CritiqueStatus, DislikedHost, FallbackEnv, RunLocal,
                CollectLocal, CompareResults, CppExits, locks
  <2>2. QED
    BY <2>1, HeldUnchanged, ZenonT(30)
<1>8. ASSUME (\E h \in Hosts : BackoffExpires(h)) \/ UNCHANGED vars
      PROVE  Held' = Held
  BY <1>8, HeldUnchanged, Zenon DEF BackoffExpires, vars, locks
<1>9. QED
  BY <1>1, <1>2, <1>3, <1>4, <1>5, <1>6, <1>7, <1>8, Zenon DEF Next, Step

(***************************************************************************)
(* The clients implement the pool of slots: exclusive slots, at most one   *)
(* remote and one local slot each, remote before local.                    *)
(***************************************************************************)
THEOREM BuildRefinesPool == Spec => RefinesPool
<1>1. Init => Pool!PoolInit
  BY SlotFilesAssumption DEF Init, Pool!PoolInit, Held
<1>2. IInv /\ [Next]_vars => [Pool!PoolNext]_Held
  BY StepRefines, Zenon
<1>3. QED
  BY <1>1, <1>2, LockInvariant, PTL DEF Spec, RefinesPool, Pool!PoolSpec

-----------------------------------------------------------------------------
(***************************************************************************)
(* The output invariant: after a remote compilation a status of 0 means    *)
(* that the object file was received, and a ret of 0 on any path to the    *)
(* end means that some compiler produced it.                               *)
(***************************************************************************)
AfterRemote == {"enjoyed", "unlock_remote", "critique"}
ToTheEnd ==
  {"fallback", "fallback_unlock_cpu", "fallback_unlock_local", "fallback_env", "compare",
   "unlock_cpu", "unlock_local", "done"}

OutputInv ==
  \A c \in Clients :
    /\ pc[c] \in AfterRemote /\ status[c] = 0 => output[c] = "remote"
    /\ pc[c] \in ToTheEnd /\ ret[c] = 0 /\ c \notin ScanOnly => output[c] # "none"
    /\ pc[c] = "scan_includes" => c \in ScanOnly

LEMMA OutputStep ==
  ASSUME "email_log" \notin Faults, TypeOK, OutputInv, [Next]_vars
  PROVE  OutputInv'
<1> USE BuildAssumption
    DEF TypeOK, OutputInv, AfterRemote, ToTheEnd, At, Goto, MayFail, locks, choice, result,
        shared, EXIT_DISTCC_FAILED, EXIT_CONNECT_FAILED, EXIT_IO_ERROR, EXIT_NO_HOSTS
<1>1. ASSUME NEW c \in Clients, Start(c) PROVE OutputInv'
  BY <1>1 DEF Start, Jump
<1>2. ASSUME NEW c \in Clients, PickHost(c) PROVE OutputInv'
  BY <1>2 DEF PickHost, Jump
<1>3. ASSUME NEW c \in Clients, LockOne(c) PROVE OutputInv'
  BY <1>3 DEF LockOne, Jump, Lock, FailedFd
<1>4. ASSUME NEW c \in Clients, LockLocalCpp(c) PROVE OutputInv'
  BY <1>4 DEF LockLocalCpp, Jump, Lock, FailedFd
<1>5. ASSUME NEW c \in Clients, AdjustCppWhere(c) PROVE OutputInv'
  BY <1>5 DEF AdjustCppWhere
<1>6. ASSUME NEW c \in Clients, ScanIncludes(c) PROVE OutputInv'
  BY <1>6 DEF ScanIncludes, Jump
<1>7. ASSUME NEW c \in Clients, TalkToIncludeServer(c) PROVE OutputInv'
  BY <1>7 DEF TalkToIncludeServer, Jump, ReleaseLocal
<1>8. ASSUME NEW c \in Clients, CppMaybe(c) PROVE OutputInv'
  BY <1>8 DEF CppMaybe, Jump
<1>9. ASSUME NEW c \in Clients, CopyArgv(c) PROVE OutputInv'
  BY <1>9 DEF CopyArgv, Jump
<1>10. ASSUME NEW c \in Clients, Connect(c) PROVE OutputInv'
  BY <1>10 DEF Connect, Jump, RemoteFails, ReleaseLocal
<1>11. ASSUME NEW c \in Clients, SendHeader(c) PROVE OutputInv'
  BY <1>11 DEF SendHeader, Jump, RemoteFails, ReleaseLocal
<1>12. ASSUME NEW c \in Clients, WaitForCpp(c) PROVE OutputInv'
  BY <1>12 DEF WaitForCpp, Jump, RemoteFails, ReleaseLocal
<1>13. ASSUME NEW c \in Clients, SendDoti(c) PROVE OutputInv'
  BY <1>13 DEF SendDoti, Jump, RemoteFails, ReleaseLocal
<1>14. ASSUME NEW c \in Clients, RetrieveResults(c) PROVE OutputInv'
  BY <1>14 DEF RetrieveResults, Jump, RemoteFails, ReleaseLocal
<1>15. ASSUME NEW c \in Clients, EnjoyedHost(c) PROVE OutputInv'
  BY <1>15 DEF EnjoyedHost
<1>16. ASSUME NEW c \in Clients, UnlockRemote(c) PROVE OutputInv'
  BY <1>16 DEF UnlockRemote, ReleaseCpu
<1>17. ASSUME NEW c \in Clients, CritiqueStatus(c) PROVE OutputInv'
  BY <1>17 DEF CritiqueStatus, Jump
<1>18. ASSUME NEW c \in Clients, DislikedHost(c) PROVE OutputInv'
  BY <1>18 DEF DislikedHost
<1>19. ASSUME NEW c \in Clients, FallbackUnlockCpu(c) PROVE OutputInv'
  BY <1>19 DEF FallbackUnlockCpu, ReleaseCpu
<1>20. ASSUME NEW c \in Clients, FallbackUnlockLocal(c) PROVE OutputInv'
  BY <1>20 DEF FallbackUnlockLocal, ReleaseLocal
<1>21. ASSUME NEW c \in Clients, FallbackEnv(c) PROVE OutputInv'
  BY <1>21 DEF FallbackEnv
<1>22. ASSUME NEW c \in Clients, LockLocal(c) PROVE OutputInv'
  BY <1>22, Zenon DEF LockLocal, Lock, FailedFd
<1>23. ASSUME NEW c \in Clients, RunLocal(c) PROVE OutputInv'
  BY <1>23 DEF RunLocal, Jump
<1>24. ASSUME NEW c \in Clients, CollectLocal(c) PROVE OutputInv'
  BY <1>24 DEF CollectLocal, Jump
<1>25. ASSUME NEW c \in Clients, CompareResults(c) PROVE OutputInv'
  BY <1>25 DEF CompareResults
<1>26. ASSUME NEW c \in Clients, UnlockCpu(c) PROVE OutputInv'
  BY <1>26 DEF UnlockCpu, ReleaseCpu
<1>27. ASSUME NEW c \in Clients, UnlockLocal(c) PROVE OutputInv'
  BY <1>27 DEF UnlockLocal, ReleaseLocal
<1>28. ASSUME NEW c \in Clients, CppExits(c) PROVE OutputInv'
  BY <1>28, Zenon DEF CppExits
<1>29. ASSUME NEW c \in Clients, Crash(c) PROVE OutputInv'
  BY <1>29 DEF Crash
<1>30. ASSUME NEW h \in Hosts, BackoffExpires(h) PROVE OutputInv'
  BY <1>30, Zenon DEF BackoffExpires
<1>31. CASE UNCHANGED vars
  BY <1>31, Zenon DEF vars
<1> HIDE DEF TypeOK, OutputInv
<1>32. QED
  BY <1>1, <1>2, <1>3, <1>4, <1>5, <1>6, <1>7, <1>8, <1>9, <1>10, <1>11, <1>12, <1>13,
     <1>14, <1>15, <1>16, <1>17, <1>18, <1>19, <1>20, <1>21, <1>22, <1>23, <1>24, <1>25,
     <1>26, <1>27, <1>28, <1>29, <1>30, <1>31
     DEF Next, Step

(***************************************************************************)
(* Unless the email log cannot be written, a client that reports success   *)
(* has produced its object file.                                           *)
(***************************************************************************)
THEOREM SuccessHasOutput ==
  ASSUME "email_log" \notin Faults
  PROVE  Spec => []ReportedSuccessHasOutput
<1>1. Init => OutputInv
  BY ZenonT(30) DEF Init, OutputInv, AfterRemote, ToTheEnd
<1>2. TypeOK /\ OutputInv /\ [Next]_vars => OutputInv'
  BY OutputStep, Zenon
<1>3. OutputInv => ReportedSuccessHasOutput
  BY Zenon DEF OutputInv, ToTheEnd, ReportedSuccessHasOutput
<1>4. QED
  BY <1>1, <1>2, <1>3, TypeCorrect, PTL DEF Spec

(***************************************************************************)
(* The local invariant: whatever path leads to the local compiler, it goes *)
(* through dcc_lock_local() or through a localhost entry of the host list. *)
(***************************************************************************)
CompileSlots == LocalList \cup ListSlots({localhost} \cap Listed)

LocalInv ==
  \A c \in Clients :
    /\ hostlist[c] \subseteq Listed
    /\ pc[c] \in {"run_local", "compiling"} /\ c \notin Nested
         => cpu_lock_fd[c] \in CompileSlots

LEMMA ListedLocalSlot ==
  ASSUME NEW hl \in SUBSET Listed, NEW f \in ListSlots(hl), HostOf(f) = localhost
  PROVE  f \in ListSlots({localhost} \cap Listed)
<1>1. PICK h \in hl \cap UpHosts : f \in SlotsOf(h, NSlots[h])
  BY Zenon DEF ListSlots
<1>2. h = localhost
  BY <1>1 DEF SlotsOf, LockFileName, HostOf
<1>3. QED
  BY <1>1, <1>2, Zenon DEF ListSlots

LEMMA LocalStep ==
  ASSUME "lock" \notin Faults, TypeOK, LocalInv, [Next]_vars
  PROVE  LocalInv'
<1> USE SlotFilesAssumption, BuildAssumption
    DEF TypeOK, LocalInv, At, Goto, MayFail, locks, choice, result, shared
<1>1. ASSUME NEW c \in Clients, Start(c) PROVE LocalInv'
  BY <1>1 DEF Start, Jump
<1>2. ASSUME NEW c \in Clients, PickHost(c) PROVE LocalInv'
  BY <1>2 DEF PickHost, Jump
<1>3. ASSUME NEW c \in Clients, LockOne(c) PROVE LocalInv'
  <2>1. ASSUME NEW f \in ListSlots(hostlist[c]), HostOf(f) = localhost
        PROVE  f \in CompileSlots
    BY <2>1, ListedLocalSlot, Zenon DEF CompileSlots
  <2>2. QED
    BY <1>3, <2>1 DEF LockOne, Jump
<1>4. ASSUME NEW c \in Clients, LockLocalCpp(c) PROVE LocalInv'
  BY <1>4 DEF LockLocalCpp, Jump, Lock, FailedFd
<1>5. ASSUME NEW c \in Clients, AdjustCppWhere(c) PROVE LocalInv'
  BY <1>5 DEF AdjustCppWhere
<1>6. ASSUME NEW c \in Clients, ScanIncludes(c) PROVE LocalInv'
  BY <1>6 DEF ScanIncludes, Jump
<1>7. ASSUME NEW c \in Clients, TalkToIncludeServer(c) PROVE LocalInv'
  BY <1>7 DEF TalkToIncludeServer, Jump, ReleaseLocal
<1>8. ASSUME NEW c \in Clients, CppMaybe(c) PROVE LocalInv'
  BY <1>8 DEF CppMaybe, Jump
<1>9. ASSUME NEW c \in Clients, CopyArgv(c) PROVE LocalInv'
  BY <1>9 DEF CopyArgv, Jump
<1>10. ASSUME NEW c \in Clients, Connect(c) PROVE LocalInv'
  BY <1>10 DEF Connect, Jump, RemoteFails, ReleaseLocal
<1>11. ASSUME NEW c \in Clients, SendHeader(c) PROVE LocalInv'
  BY <1>11 DEF SendHeader, Jump, RemoteFails, ReleaseLocal
<1>12. ASSUME NEW c \in Clients, WaitForCpp(c) PROVE LocalInv'
  BY <1>12 DEF WaitForCpp, Jump, RemoteFails, ReleaseLocal
<1>13. ASSUME NEW c \in Clients, SendDoti(c) PROVE LocalInv'
  BY <1>13 DEF SendDoti, Jump, RemoteFails, ReleaseLocal
<1>14. ASSUME NEW c \in Clients, RetrieveResults(c) PROVE LocalInv'
  BY <1>14 DEF RetrieveResults, Jump, RemoteFails, ReleaseLocal
<1>15. ASSUME NEW c \in Clients, EnjoyedHost(c) PROVE LocalInv'
  BY <1>15 DEF EnjoyedHost
<1>16. ASSUME NEW c \in Clients, UnlockRemote(c) PROVE LocalInv'
  BY <1>16, Zenon DEF UnlockRemote, ReleaseCpu
<1>17. ASSUME NEW c \in Clients, CritiqueStatus(c) PROVE LocalInv'
  BY <1>17 DEF CritiqueStatus, Jump
<1>18. ASSUME NEW c \in Clients, DislikedHost(c) PROVE LocalInv'
  BY <1>18 DEF DislikedHost
<1>19. ASSUME NEW c \in Clients, FallbackUnlockCpu(c) PROVE LocalInv'
  BY <1>19 DEF FallbackUnlockCpu, ReleaseCpu
<1>20. ASSUME NEW c \in Clients, FallbackUnlockLocal(c) PROVE LocalInv'
  BY <1>20 DEF FallbackUnlockLocal, ReleaseLocal
<1>21. ASSUME NEW c \in Clients, FallbackEnv(c) PROVE LocalInv'
  BY <1>21 DEF FallbackEnv
<1>22. ASSUME NEW c \in Clients, LockLocal(c) PROVE LocalInv'
  <2>1. \A f \in LocalList : f \in CompileSlots
    BY Zenon DEF CompileSlots
  <2>2. QED
    BY <1>22, <2>1 DEF LockLocal
<1>23. ASSUME NEW c \in Clients, RunLocal(c) PROVE LocalInv'
  BY <1>23 DEF RunLocal, Jump
<1>24. ASSUME NEW c \in Clients, CollectLocal(c) PROVE LocalInv'
  BY <1>24 DEF CollectLocal, Jump
<1>25. ASSUME NEW c \in Clients, CompareResults(c) PROVE LocalInv'
  BY <1>25 DEF CompareResults
<1>26. ASSUME NEW c \in Clients, UnlockCpu(c) PROVE LocalInv'
  BY <1>26 DEF UnlockCpu, ReleaseCpu
<1>27. ASSUME NEW c \in Clients, UnlockLocal(c) PROVE LocalInv'
  BY <1>27 DEF UnlockLocal, ReleaseLocal
<1>28. ASSUME NEW c \in Clients, CppExits(c) PROVE LocalInv'
  BY <1>28, Zenon DEF CppExits
<1>29. ASSUME NEW c \in Clients, Crash(c) PROVE LocalInv'
  BY <1>29 DEF Crash
<1>30. ASSUME NEW h \in Hosts, BackoffExpires(h) PROVE LocalInv'
  BY <1>30, Zenon DEF BackoffExpires
<1>31. CASE UNCHANGED vars
  BY <1>31, Zenon DEF vars
<1> HIDE DEF TypeOK, LocalInv
<1>32. QED
  BY <1>1, <1>2, <1>3, <1>4, <1>5, <1>6, <1>7, <1>8, <1>9, <1>10, <1>11, <1>12, <1>13,
     <1>14, <1>15, <1>16, <1>17, <1>18, <1>19, <1>20, <1>21, <1>22, <1>23, <1>24, <1>25,
     <1>26, <1>27, <1>28, <1>29, <1>30, <1>31
     DEF Next, Step

(***************************************************************************)
(* Unless a slot cannot be locked, local compilers run under distinct      *)
(* slots of localhost within the configured number.                        *)
(***************************************************************************)
THEOREM LocalCompilesAreLocked ==
  ASSUME "lock" \notin Faults
  PROVE  Spec => []LocalCompileLocked
<1>1. Init => LocalInv
  BY Zenon DEF Init, LocalInv
<1>2. TypeOK /\ LocalInv /\ [Next]_vars => LocalInv'
  BY LocalStep, Zenon
<1>3. IInv /\ LocalInv => LocalCompileLocked
  <2>1. CompileSlots \subseteq LockFile
    BY SlotsAreFiles, SlotFilesAssumption, Zenon DEF CompileSlots
  <2>2. ASSUME IInv, LocalInv, NEW c \in Clients, pc[c] = "compiling", c \notin Nested
        PROVE  /\ cpu_lock_fd[c] \in CompileSlots
               /\ \A d \in Clients \ {c} : cpu_lock_fd[d] # cpu_lock_fd[c]
                                           /\ local_cpu_lock_fd[d] # cpu_lock_fd[c]
    <3>1. cpu_lock_fd[c] \in CompileSlots
      BY <2>2, Zenon DEF LocalInv
    <3>2. owner[cpu_lock_fd[c]] = c
      BY <2>1, <2>2, <3>1, Zenon DEF IInv, FdsMatchLocks
    <3>3. \A d \in Clients \ {c} : cpu_lock_fd[c] \notin {cpu_lock_fd[d], local_cpu_lock_fd[d]}
      BY <2>1, <2>2, <3>1, <3>2, Zenon DEF IInv, FdsMatchLocks
    <3>4. QED
      BY <3>1, <3>3, Zenon
  <2>3. QED
    BY <2>2, Zenon DEF LocalCompileLocked, CompileSlots
<1>4. QED
  BY <1>1, <1>2, <1>3, TypeCorrect, LockInvariant, PTL DEF Spec

(***************************************************************************)
(* The backoff invariant: every host in backoff has a client that gave up  *)
(* on it and has not cleared it.                                           *)
(***************************************************************************)
BeforeCpp == {"start", "pick_host", "lock_one", "lock_cpp", "adjust", "scan_includes"}

BackoffInv ==
  /\ BackoffIsDeserved
  /\ ~ManageBackoff => backoff = {}
  /\ \A c \in Clients :
       /\ pc[c] \in BeforeCpp => output[c] = "none"
       /\ pc[c] \in {"compare", "unlock_cpu", "unlock_local"} /\ ret[c] = 0
            => output[c] # "remote"

(* A client that is not past dcc_disliked_host() accounts for no host: what it
   does leaves the others to account for theirs. *)
LEMMA EarlyStep ==
  ASSUME BackoffInv, NEW c \in Clients, pc[c] \notin AfterDislike, backoff' = backoff,
         \A d \in Clients \ {c} :
           /\ pc'[d] = pc[d] /\ ret'[d] = ret[d] /\ remote_ret'[d] = remote_ret[d]
           /\ host'[d] = host[d] /\ output'[d] = output[d],
         pc'[c] \in BeforeCpp => output'[c] = "none",
         pc'[c] \notin {"compare", "unlock_cpu", "unlock_local"}
  PROVE  BackoffInv'
<1>1. BackoffIsDeserved'
  <2>1. ASSUME NEW h \in backoff PROVE \E d \in Clients : GaveUpOn(d, h)'
    <3>1. PICK d \in Clients : GaveUpOn(d, h)
      BY Zenon DEF BackoffInv, BackoffIsDeserved
    <3>2. d # c
      BY <3>1, Zenon DEF GaveUpOn
    <3>3. /\ pc'[d] = pc[d] /\ ret'[d] = ret[d] /\ remote_ret'[d] = remote_ret[d]
          /\ host'[d] = host[d] /\ output'[d] = output[d]
      BY <3>2, Zenon
    <3>4. GaveUpOn(d, h)'
      BY <3>1, <3>3, Zenon DEF GaveUpOn, ServerInnocent
    <3>5. QED
      BY <3>4, Zenon
  <2>2. QED
    BY <2>1, Zenon DEF BackoffIsDeserved
<1>2. ~ManageBackoff => backoff' = {}
  BY Zenon DEF BackoffInv
<1>3. ASSUME NEW d \in Clients
      PROVE  /\ pc'[d] \in BeforeCpp => output'[d] = "none"
             /\ pc'[d] \in {"compare", "unlock_cpu", "unlock_local"} /\ ret'[d] = 0
                  => output'[d] # "remote"
  <2>1. CASE d = c
    BY <2>1, Zenon
  <2>2. CASE d # c
    BY <2>2, Zenon DEF BackoffInv
  <2>3. QED
    BY <2>1, <2>2, Zenon
<1>4. QED
  BY <1>1, <1>2, <1>3, Zenon DEF BackoffInv

LEMMA BackoffStep ==
  ASSUME TypeOK, BackoffInv, [Next]_vars
  PROVE  BackoffInv'
<1> USE BuildAssumption
    DEF TypeOK, BackoffInv, BackoffIsDeserved, GaveUpOn, ServerInnocent, AfterDislike,
        BeforeCpp, At, Goto, MayFail, locks, choice, result, shared, EXIT_DISTCC_FAILED,
        EXIT_CONNECT_FAILED, EXIT_IO_ERROR, EXIT_NO_HOSTS
<1>1. ASSUME NEW c \in Clients, Start(c) PROVE BackoffInv'
  <2>1. pc[c] \notin AfterDislike /\ backoff' = backoff
    BY <1>1 DEF Start, Jump
  <2>2. \A d \in Clients \ {c} :
          /\ pc'[d] = pc[d] /\ ret'[d] = ret[d] /\ remote_ret'[d] = remote_ret[d]
          /\ host'[d] = host[d] /\ output'[d] = output[d]
    BY <1>1 DEF Start, Jump
  <2>3. /\ pc'[c] \in BeforeCpp => output'[c] = "none"
        /\ pc'[c] \notin {"compare", "unlock_cpu", "unlock_local"}
    BY <1>1 DEF Start, Jump
  <2>4. QED
    BY <2>1, <2>2, <2>3, EarlyStep, Zenon
<1>2. ASSUME NEW c \in Clients, PickHost(c) PROVE BackoffInv'
  <2>1. pc[c] \notin AfterDislike /\ backoff' = backoff
    BY <1>2 DEF PickHost, Jump
  <2>2. \A d \in Clients \ {c} :
          /\ pc'[d] = pc[d] /\ ret'[d] = ret[d] /\ remote_ret'[d] = remote_ret[d]
          /\ host'[d] = host[d] /\ output'[d] = output[d]
    BY <1>2 DEF PickHost, Jump
  <2>3. /\ pc'[c] \in BeforeCpp => output'[c] = "none"
        /\ pc'[c] \notin {"compare", "unlock_cpu", "unlock_local"}
    BY <1>2 DEF PickHost, Jump
  <2>4. QED
    BY <2>1, <2>2, <2>3, EarlyStep, Zenon
<1>3. ASSUME NEW c \in Clients, LockOne(c) PROVE BackoffInv'
  <2>1. pc[c] \notin AfterDislike /\ backoff' = backoff
    BY <1>3 DEF LockOne, Jump, Lock, FailedFd
  <2>2. \A d \in Clients \ {c} :
          /\ pc'[d] = pc[d] /\ ret'[d] = ret[d] /\ remote_ret'[d] = remote_ret[d]
          /\ host'[d] = host[d] /\ output'[d] = output[d]
    BY <1>3 DEF LockOne, Jump, Lock, FailedFd
  <2>3. /\ pc'[c] \in BeforeCpp => output'[c] = "none"
        /\ pc'[c] \notin {"compare", "unlock_cpu", "unlock_local"}
    BY <1>3 DEF LockOne, Jump, Lock, FailedFd
  <2>4. QED
    BY <2>1, <2>2, <2>3, EarlyStep, Zenon
<1>4. ASSUME NEW c \in Clients, LockLocalCpp(c) PROVE BackoffInv'
  BY <1>4 DEF LockLocalCpp, Jump, Lock, FailedFd
<1>5. ASSUME NEW c \in Clients, AdjustCppWhere(c) PROVE BackoffInv'
  BY <1>5 DEF AdjustCppWhere
<1>6. ASSUME NEW c \in Clients, ScanIncludes(c) PROVE BackoffInv'
  BY <1>6 DEF ScanIncludes, Jump
<1>7. ASSUME NEW c \in Clients, TalkToIncludeServer(c) PROVE BackoffInv'
  <2>1. pc[c] \notin AfterDislike /\ backoff' = backoff
    BY <1>7 DEF TalkToIncludeServer, Jump, ReleaseLocal
  <2>2. \A d \in Clients \ {c} :
          /\ pc'[d] = pc[d] /\ ret'[d] = ret[d] /\ remote_ret'[d] = remote_ret[d]
          /\ host'[d] = host[d] /\ output'[d] = output[d]
    BY <1>7 DEF TalkToIncludeServer, Jump, ReleaseLocal
  <2>3. /\ pc'[c] \in BeforeCpp => output'[c] = "none"
        /\ pc'[c] \notin {"compare", "unlock_cpu", "unlock_local"}
    BY <1>7 DEF TalkToIncludeServer, Jump, ReleaseLocal
  <2>4. QED
    BY <2>1, <2>2, <2>3, EarlyStep, Zenon
<1>8. ASSUME NEW c \in Clients, CppMaybe(c) PROVE BackoffInv'
  <2>1. pc[c] \notin AfterDislike /\ backoff' = backoff
    BY <1>8 DEF CppMaybe, Jump
  <2>2. \A d \in Clients \ {c} :
          /\ pc'[d] = pc[d] /\ ret'[d] = ret[d] /\ remote_ret'[d] = remote_ret[d]
          /\ host'[d] = host[d] /\ output'[d] = output[d]
    BY <1>8 DEF CppMaybe, Jump
  <2>3. /\ pc'[c] \in BeforeCpp => output'[c] = "none"
        /\ pc'[c] \notin {"compare", "unlock_cpu", "unlock_local"}
    BY <1>8 DEF CppMaybe, Jump
  <2>4. QED
    BY <2>1, <2>2, <2>3, EarlyStep, Zenon
<1>9. ASSUME NEW c \in Clients, CopyArgv(c) PROVE BackoffInv'
  <2>1. pc[c] \notin AfterDislike /\ backoff' = backoff
    BY <1>9 DEF CopyArgv, Jump
  <2>2. \A d \in Clients \ {c} :
          /\ pc'[d] = pc[d] /\ ret'[d] = ret[d] /\ remote_ret'[d] = remote_ret[d]
          /\ host'[d] = host[d] /\ output'[d] = output[d]
    BY <1>9 DEF CopyArgv, Jump
  <2>3. /\ pc'[c] \in BeforeCpp => output'[c] = "none"
        /\ pc'[c] \notin {"compare", "unlock_cpu", "unlock_local"}
    BY <1>9 DEF CopyArgv, Jump
  <2>4. QED
    BY <2>1, <2>2, <2>3, EarlyStep, Zenon
<1>10. ASSUME NEW c \in Clients, Connect(c) PROVE BackoffInv'
  BY <1>10 DEF Connect, Jump, RemoteFails, ReleaseLocal
<1>11. ASSUME NEW c \in Clients, SendHeader(c) PROVE BackoffInv'
  BY <1>11 DEF SendHeader, Jump, RemoteFails, ReleaseLocal
<1>12. ASSUME NEW c \in Clients, WaitForCpp(c) PROVE BackoffInv'
  <2>1. pc[c] \notin AfterDislike /\ backoff' = backoff
    BY <1>12 DEF WaitForCpp, Jump, RemoteFails, ReleaseLocal
  <2>2. \A d \in Clients \ {c} :
          /\ pc'[d] = pc[d] /\ ret'[d] = ret[d] /\ remote_ret'[d] = remote_ret[d]
          /\ host'[d] = host[d] /\ output'[d] = output[d]
    BY <1>12 DEF WaitForCpp, Jump, RemoteFails, ReleaseLocal
  <2>3. /\ pc'[c] \in BeforeCpp => output'[c] = "none"
        /\ pc'[c] \notin {"compare", "unlock_cpu", "unlock_local"}
    BY <1>12 DEF WaitForCpp, Jump, RemoteFails, ReleaseLocal
  <2>4. QED
    BY <2>1, <2>2, <2>3, EarlyStep, Zenon
<1>13. ASSUME NEW c \in Clients, SendDoti(c) PROVE BackoffInv'
  BY <1>13 DEF SendDoti, Jump, RemoteFails, ReleaseLocal
<1>14. ASSUME NEW c \in Clients, RetrieveResults(c) PROVE BackoffInv'
  BY <1>14 DEF RetrieveResults, Jump, RemoteFails, ReleaseLocal
<1>15. ASSUME NEW c \in Clients, EnjoyedHost(c) PROVE BackoffInv'
  BY <1>15 DEF EnjoyedHost, Enjoyed
<1>16. ASSUME NEW c \in Clients, UnlockRemote(c) PROVE BackoffInv'
  BY <1>16 DEF UnlockRemote, ReleaseCpu
<1>17. ASSUME NEW c \in Clients, CritiqueStatus(c) PROVE BackoffInv'
  <2>1. pc[c] \notin AfterDislike /\ backoff' = backoff
    BY <1>17 DEF CritiqueStatus, Jump
  <2>2. \A d \in Clients \ {c} :
          /\ pc'[d] = pc[d] /\ ret'[d] = ret[d] /\ remote_ret'[d] = remote_ret[d]
          /\ host'[d] = host[d] /\ output'[d] = output[d]
    BY <1>17 DEF CritiqueStatus, Jump
  <2>3. /\ pc'[c] \in BeforeCpp => output'[c] = "none"
        /\ pc'[c] \notin {"compare", "unlock_cpu", "unlock_local"}
    BY <1>17 DEF CritiqueStatus, Jump
  <2>4. QED
    BY <2>1, <2>2, <2>3, EarlyStep, Zenon
<1>18. ASSUME NEW c \in Clients, DislikedHost(c) PROVE BackoffInv'
  BY <1>18 DEF DislikedHost, Disliked
<1>19. ASSUME NEW c \in Clients, FallbackUnlockCpu(c) PROVE BackoffInv'
  BY <1>19 DEF FallbackUnlockCpu, ReleaseCpu
<1>20. ASSUME NEW c \in Clients, FallbackUnlockLocal(c) PROVE BackoffInv'
  BY <1>20 DEF FallbackUnlockLocal, ReleaseLocal
<1>21. ASSUME NEW c \in Clients, FallbackEnv(c) PROVE BackoffInv'
  BY <1>21 DEF FallbackEnv
<1>22. ASSUME NEW c \in Clients, LockLocal(c) PROVE BackoffInv'
  BY <1>22 DEF LockLocal, Lock, FailedFd
<1>23. ASSUME NEW c \in Clients, RunLocal(c) PROVE BackoffInv'
  BY <1>23 DEF RunLocal, Jump
<1>24. ASSUME NEW c \in Clients, CollectLocal(c) PROVE BackoffInv'
  BY <1>24, SMTT(30) DEF CollectLocal, Jump
<1>25. ASSUME NEW c \in Clients, CompareResults(c) PROVE BackoffInv'
  BY <1>25 DEF CompareResults, Enjoyed
<1>26. ASSUME NEW c \in Clients, UnlockCpu(c) PROVE BackoffInv'
  BY <1>26 DEF UnlockCpu, ReleaseCpu
<1>27. ASSUME NEW c \in Clients, UnlockLocal(c) PROVE BackoffInv'
  BY <1>27 DEF UnlockLocal, ReleaseLocal
<1>28. ASSUME NEW c \in Clients, CppExits(c) PROVE BackoffInv'
  BY <1>28 DEF CppExits
<1>29. ASSUME NEW c \in Clients, Crash(c) PROVE BackoffInv'
  BY <1>29 DEF Crash
<1>30. ASSUME NEW h \in Hosts, BackoffExpires(h) PROVE BackoffInv'
  BY <1>30 DEF BackoffExpires
<1>31. CASE UNCHANGED vars
  BY <1>31 DEF vars
<1> HIDE DEF TypeOK, BackoffInv
<1>32. QED
  BY <1>1, <1>2, <1>3, <1>4, <1>5, <1>6, <1>7, <1>8, <1>9, <1>10, <1>11, <1>12, <1>13,
     <1>14, <1>15, <1>16, <1>17, <1>18, <1>19, <1>20, <1>21, <1>22, <1>23, <1>24, <1>25,
     <1>26, <1>27, <1>28, <1>29, <1>30, <1>31
     DEF Next, Step

(***************************************************************************)
(* A host is in backoff only because of a client that gave up on it.       *)
(***************************************************************************)
THEOREM BackoffDeserved == Spec => []BackoffIsDeserved
<1>1. Init => BackoffInv
  BY Zenon DEF Init, BackoffInv, BackoffIsDeserved
<1>2. TypeOK /\ BackoffInv /\ [Next]_vars => BackoffInv'
  BY BackoffStep, Zenon
<1>3. BackoffInv => BackoffIsDeserved
  BY Zenon DEF BackoffInv
<1>4. QED
  BY <1>1, <1>2, <1>3, TypeCorrect, PTL DEF Spec
=============================================================================
