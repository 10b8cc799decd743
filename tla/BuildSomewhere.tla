--------------------------- MODULE BuildSomewhere ---------------------------
(***************************************************************************)
(* The distcc client: any number of processes that each run                *)
(* dcc_build_somewhere() once, with the parts it calls: host selection     *)
(* and backoff (where.c, backoff.c, timefile.c), the slot locks (lock.c),  *)
(* the preprocessor child (cpp.c), the remote compilation (remote.c,       *)
(* clirpc.c), the local compilation and the discrepancy count              *)
(* (compile.c).                                                            *)
(*                                                                         *)
(* pc is the statement a client is about to execute.  Nested, ScanOnly and *)
(* NoFallback are the clients run in a special way; another environment    *)
(* variable that is read once is a choice at the point where the code      *)
(* reads it.  Faults names the calls and services that may fail.           *)
(***************************************************************************)
EXTENDS SlotFiles

CONSTANTS
  CppHosts,          \* the hosts with the ",cpp" option
  Nested,            \* the clients that were run by another distcc
  ScanOnly,          \* the clients run with --scan_includes
  NoFallback,        \* the clients run with DISTCC_FALLBACK=0
  MaxDiscrepancies,  \* DISTCC_MAX_DISCREPANCY
  ManageBackoff,     \* FALSE when DISTCC_BACKOFF_PERIOD is 0
  CompilerStatus,    \* the outcomes of a compiler: exit codes, 128 + signal
  Faults,            \* what may fail
  NoHost, NoFd,      \* a NULL host, a descriptor of -1
  ClosedFd           \* a descriptor that was closed but not reset

EXIT_DISTCC_FAILED == 100
EXIT_CONNECT_FAILED == 103
EXIT_IO_ERROR == 107
EXIT_NO_HOSTS == 116

DistccStatus == {EXIT_DISTCC_FAILED, EXIT_CONNECT_FAILED, EXIT_IO_ERROR, EXIT_NO_HOSTS}
Status == CompilerStatus \cup DistccStatus

FaultKind ==
  {"startup", "hostlist", "stat", "lock", "include_server", "cpp", "net",
   "child", "stderr", "email_log", "crash"}

ASSUME BuildAssumption ==
  /\ CppHosts \subseteq RemoteHosts
  /\ Nested \subseteq Clients
  /\ ScanOnly \subseteq Clients
  /\ NoFallback \subseteq Clients
  /\ MaxDiscrepancies \in Nat \ {0}
  /\ ManageBackoff \in BOOLEAN
  /\ CompilerStatus \subseteq 0 .. 255
  /\ {0, 1} \subseteq CompilerStatus
  /\ Faults \subseteq FaultKind
  /\ NoHost \notin Hosts
  /\ NoFd \notin LockFile
  /\ ClosedFd \notin LockFile
  /\ NoFd # ClosedFd

VARIABLES
  pc,                \* control state of each client
  owner,             \* the kernel's lock table: which client holds a lock file
  cpu_lock_fd,       \* lock on the chosen host
  local_cpu_lock_fd, \* lock on localhost for preprocessing
  hostlist,          \* the list after dcc_remove_disliked()
  host,              \* the host that was picked
  cpp_where,         \* where this client preprocesses
  cpp,               \* the cpp child: "none", "running" or its exit status
  ret, remote_ret,   \* locals of dcc_build_somewhere()
  status,            \* *status, as dcc_critique_status() maps it
  output,            \* who produced the object file
  backoff,           \* hosts with a backoff timefile younger than the period
  discrepancies      \* size of the discrepancy file

locks == <<owner, cpu_lock_fd, local_cpu_lock_fd>>
choice == <<hostlist, host, cpp_where>>
result == <<ret, remote_ret, status, output>>
shared == <<backoff, discrepancies>>
vars == <<pc, locks, choice, cpp, result, shared>>

Label ==
  {"start", "pick_host", "lock_one", "lock_cpp", "adjust", "scan_includes",
   "include_server", "cpp_maybe", "copy_argv", "connect", "send_header",
   "wait_cpp", "send_doti", "retrieve", "enjoyed", "unlock_remote", "critique",
   "fallback", "fallback_unlock_cpu", "fallback_unlock_local", "fallback_env",
   "lock_local", "run_local", "compiling", "compare", "unlock_cpu",
   "unlock_local", "done", "dead"}

TypeOK ==
  /\ pc \in [Clients -> Label]
  /\ owner \in [LockFile -> Clients \cup {Nobody}]
  /\ cpu_lock_fd \in [Clients -> LockFile \cup {NoFd, ClosedFd}]
  /\ local_cpu_lock_fd \in [Clients -> LockFile \cup {NoFd, ClosedFd}]
  /\ hostlist \in [Clients -> SUBSET Hosts]
  /\ host \in [Clients -> Hosts \cup {NoHost}]
  /\ cpp_where \in [Clients -> {"client", "server"}]
  /\ cpp \in [Clients -> {"none", "running", "ok", "failed"}]
  /\ ret \in [Clients -> Status]
  /\ remote_ret \in [Clients -> Status]
  /\ status \in [Clients -> Status]
  /\ output \in [Clients -> {"none", "remote", "local"}]
  /\ backoff \in SUBSET Hosts
  /\ discrepancies \in Nat

Init ==
  /\ pc = [c \in Clients |-> "start"]
  /\ owner = [f \in LockFile |-> Nobody]
  /\ cpu_lock_fd = [c \in Clients |-> NoFd]
  /\ local_cpu_lock_fd = [c \in Clients |-> NoFd]
  /\ hostlist = [c \in Clients |-> {}]
  /\ host = [c \in Clients |-> NoHost]
  /\ cpp_where = [c \in Clients |-> "client"]
  /\ cpp = [c \in Clients |-> "none"]
  /\ ret = [c \in Clients |-> 0]
  /\ remote_ret = [c \in Clients |-> 0]
  /\ status = [c \in Clients |-> 0]
  /\ output = [c \in Clients |-> "none"]
  /\ backoff = {}
  /\ discrepancies = 0

(***************************************************************************)
(* Pieces of the actions.                                                  *)
(***************************************************************************)
At(c, l) == pc[c] = l
Goto(c, l) == pc' = [pc EXCEPT ![c] = l]
MayFail(kind) == kind \in Faults

\* ret = r; goto l
Jump(c, r, l) ==
  /\ ret' = [ret EXCEPT ![c] = r]
  /\ Goto(c, l)

\* A mutant of Lock: EXIT_BUSY is ignored.
LockIgnoringBusy(c, f) == owner' = [owner EXCEPT ![f] = c]

\* dcc_lock_host() got the file: the kernel grants it to one process (and
\* grants a process what it holds already).
Lock(c, f) ==
  /\ owner[f] \in {Nobody, c}
  /\ owner' = [owner EXCEPT ![f] = c]

\* dcc_unlock(fd): drops the lock if this process holds one through fd.
Unlock(c, fd) ==
  owner' = [f \in LockFile |-> IF f = fd /\ owner[f] = c THEN Nobody ELSE owner[f]]

\* A mutant of DropAll: lock files that outlive their process.
DropNothing(c) == c \in Clients /\ UNCHANGED owner

\* The end of a process drops its locks.
DropAll(c) ==
  owner' = [f \in LockFile |-> IF owner[f] = c THEN Nobody ELSE owner[f]]

\* dcc_lock_one() failed: open() left -1, or fcntl() failed and the file was
\* closed again, or an earlier busy slot of the scan left its closed number.
FailedFd == {NoFd, ClosedFd}

\* A mutant of ReleaseLocal: the descriptor is reset without dcc_unlock().
ForgetLocal(c) ==
  /\ local_cpu_lock_fd' = [local_cpu_lock_fd EXCEPT ![c] = NoFd]
  /\ UNCHANGED <<owner, cpu_lock_fd>>

\* if (local_cpu_lock_fd != -1) dcc_unlock(local_cpu_lock_fd), then -1.
ReleaseLocal(c) ==
  /\ Unlock(c, local_cpu_lock_fd[c])
  /\ local_cpu_lock_fd' = [local_cpu_lock_fd EXCEPT ![c] = NoFd]
  /\ UNCHANGED cpu_lock_fd

ReleaseCpu(c) ==
  /\ Unlock(c, cpu_lock_fd[c])
  /\ cpu_lock_fd' = [cpu_lock_fd EXCEPT ![c] = NoFd]
  /\ UNCHANGED local_cpu_lock_fd

\* dcc_enjoyed_host() and dcc_disliked_host().
Enjoyed(h) == backoff' = IF ManageBackoff THEN backoff \ {h} ELSE backoff
Disliked(h) == backoff' = IF ManageBackoff THEN backoff \cup {h} ELSE backoff

(***************************************************************************)
(* dcc_build_somewhere() up to the choice of a host.                       *)
(***************************************************************************)
Start(c) ==
  /\ At(c, "start")
  /\ \/ /\ MayFail("startup")   \* expanding options, naming the discrepancy file
        /\ Jump(c, EXIT_DISTCC_FAILED, "done")
     \/ /\ c \in Nested
        /\ Jump(c, 0, "run_local")
     \/ /\ c \notin Nested      \* dcc_scan_args() finds a local command
        /\ Jump(c, EXIT_DISTCC_FAILED, "lock_local")
     \/ /\ c \notin Nested /\ MayFail("startup")  \* dcc_make_tmpnam()
        /\ Jump(c, EXIT_IO_ERROR, "fallback")
     \/ /\ c \notin Nested
        /\ Jump(c, 0, "pick_host")
  /\ UNCHANGED <<locks, choice, cpp, remote_ret, status, output, shared>>

\* dcc_get_hostlist() and dcc_remove_disliked(), which also drops the hosts
\* whose timefile cannot be examined.
PickHost(c) ==
  /\ At(c, "pick_host")
  /\ \/ /\ MayFail("hostlist")
        /\ Jump(c, EXIT_NO_HOSTS, "fallback")
        /\ UNCHANGED hostlist
     \/ \E unreadable \in IF MayFail("stat") THEN SUBSET Listed ELSE {{}} :
          LET disliked == IF ManageBackoff THEN backoff \cup unreadable ELSE {}
              left == Listed \ disliked
          IN /\ hostlist' = [hostlist EXCEPT ![c] = left]
             /\ IF left = {}
                THEN Jump(c, EXIT_NO_HOSTS, "fallback")
                ELSE Jump(c, 0, "lock_one")
  /\ UNCHANGED <<locks, host, cpp_where, cpp, remote_ret, status, output, shared>>

\* dcc_lock_one(hostlist): polls until a slot of a host that is up is free.
LockOne(c) ==
  /\ At(c, "lock_one")
  /\ \/ \E f \in ListSlots(hostlist[c]) :
          /\ Lock(c, f)
          /\ cpu_lock_fd' = [cpu_lock_fd EXCEPT ![c] = f]
          /\ host' = [host EXCEPT ![c] = HostOf(f)]
          /\ IF HostOf(f) = localhost
             THEN Jump(c, 0, "run_local")
             ELSE Jump(c, 0, "lock_cpp")
     \/ /\ MayFail("lock")
        /\ ListSlots(hostlist[c]) # {}
        /\ \E fd \in FailedFd : cpu_lock_fd' = [cpu_lock_fd EXCEPT ![c] = fd]
        /\ Jump(c, EXIT_IO_ERROR, "fallback")
        /\ UNCHANGED <<owner, host>>
  /\ UNCHANGED <<local_cpu_lock_fd, hostlist, cpp_where, cpp, remote_ret, status,
                 output, shared>>

\* dcc_lock_local_cpp().
LockLocalCpp(c) ==
  /\ At(c, "lock_cpp")
  /\ \/ \E f \in LocalCppList :
          /\ Lock(c, f)
          /\ local_cpu_lock_fd' = [local_cpu_lock_fd EXCEPT ![c] = f]
          /\ Jump(c, 0, "adjust")
     \/ /\ MayFail("lock")
        /\ LocalCppList # {}
        /\ \E fd \in FailedFd :
             local_cpu_lock_fd' = [local_cpu_lock_fd EXCEPT ![c] = fd]
        /\ Jump(c, EXIT_IO_ERROR, "fallback")
        /\ UNCHANGED owner
  /\ UNCHANGED <<cpu_lock_fd, choice, cpp, remote_ret, status, output, shared>>

(***************************************************************************)
(* Where and how to preprocess.                                            *)
(***************************************************************************)
\* dcc_perhaps_adjust_cpp_where_and_protover(): too many discrepancies, an
\* input that is preprocessed already or CPATH in the environment (unsuited).
AdjustCppWhere(c) ==
  /\ At(c, "adjust")
  /\ \E unsuited \in BOOLEAN :
       /\ cpp_where' = [cpp_where EXCEPT ![c] =
            IF host[c] \in CppHosts /\ discrepancies < MaxDiscrepancies /\ ~unsuited
            THEN "server" ELSE "client"]
       /\ Goto(c, IF c \in ScanOnly THEN "scan_includes"
                  ELSE IF cpp_where'[c] = "server" THEN "include_server"
                  ELSE "cpp_maybe")
  /\ UNCHANGED <<locks, hostlist, host, cpp, result, shared>>

\* dcc_approximate_includes() for --scan_includes.
ScanIncludes(c) ==
  /\ At(c, "scan_includes")
  /\ \/ /\ cpp_where[c] = "server"
        /\ Jump(c, 0, "unlock_cpu")
     \/ /\ cpp_where[c] = "client" \/ MayFail("include_server")
        /\ Jump(c, EXIT_DISTCC_FAILED, "unlock_cpu")
  /\ UNCHANGED <<locks, choice, cpp, remote_ret, status, output, shared>>

\* dcc_talk_to_include_server().  DISTCC_TESTING_INCLUDE_SERVER turns its
\* failure into an exit.
TalkToIncludeServer(c) ==
  /\ At(c, "include_server")
  /\ \/ /\ ReleaseLocal(c)
        /\ Jump(c, 0, "copy_argv")
        /\ UNCHANGED cpp_where
     \/ /\ MayFail("include_server")
        /\ cpp_where' = [cpp_where EXCEPT ![c] = "client"]
        /\ Jump(c, EXIT_IO_ERROR, "cpp_maybe")
        /\ UNCHANGED locks
     \/ /\ MayFail("include_server")
        /\ DropAll(c)
        /\ cpu_lock_fd' = [cpu_lock_fd EXCEPT ![c] = NoFd]
        /\ local_cpu_lock_fd' = [local_cpu_lock_fd EXCEPT ![c] = NoFd]
        /\ Jump(c, EXIT_IO_ERROR, "done")
        /\ UNCHANGED cpp_where
  /\ UNCHANGED <<hostlist, host, cpp, remote_ret, status, output, shared>>

\* dcc_cpp_maybe() and dcc_strip_local_args().  An input that is preprocessed
\* already has no cpp child.  A failure stores the truth value 1 in ret.
CppMaybe(c) ==
  /\ At(c, "cpp_maybe")
  /\ \/ /\ MayFail("cpp")
        /\ Jump(c, 1, "fallback")
        /\ UNCHANGED cpp
     \/ \E child \in {"none", "running"} :
          /\ cpp' = [cpp EXCEPT ![c] = child]
          /\ \/ Jump(c, 0, "connect")
             \/ /\ MayFail("cpp")
                /\ Jump(c, EXIT_DISTCC_FAILED, "fallback")
  /\ UNCHANGED <<locks, choice, remote_ret, status, output, shared>>

\* dcc_get_dotd_info() and dcc_copy_argv() when the server preprocesses.
CopyArgv(c) ==
  /\ At(c, "copy_argv")
  /\ \/ Jump(c, 0, "connect")
     \/ /\ MayFail("cpp")
        /\ Jump(c, EXIT_DISTCC_FAILED, "fallback")
  /\ UNCHANGED <<locks, choice, cpp, remote_ret, status, output, shared>>

\* The cpp child ends by itself, whatever became of its parent.
CppExits(c) ==
  /\ cpp[c] = "running"
  /\ \E s \in {"ok", "failed"} : cpp' = [cpp EXCEPT ![c] = s]
  /\ UNCHANGED <<pc, locks, choice, result, shared>>

(***************************************************************************)
(* dcc_compile_remote().                                                   *)
(***************************************************************************)
\* "goto out" with an error: the local lock is released if it is still held,
\* the connection is closed and dcc_build_somewhere() falls back.
RemoteFails(c, r) ==
  /\ ReleaseLocal(c)
  /\ Jump(c, r, "fallback")

\* dcc_remote_connect().
Connect(c) ==
  /\ At(c, "connect")
  /\ status' = [status EXCEPT ![c] = 0]
  /\ \/ /\ Jump(c, 0, "send_header")
        /\ UNCHANGED locks
     \/ /\ MayFail("net")
        /\ RemoteFails(c, EXIT_CONNECT_FAILED)
  /\ UNCHANGED <<choice, cpp, remote_ret, output, shared>>

\* dcc_send_header(), followed by dcc_x_many_files() when the server preprocesses.
SendHeader(c) ==
  /\ At(c, "send_header")
  /\ \/ /\ Jump(c, 0, IF cpp_where[c] = "server" THEN "retrieve" ELSE "wait_cpp")
        /\ UNCHANGED locks
     \/ /\ MayFail("net")
        /\ RemoteFails(c, EXIT_IO_ERROR)
  /\ UNCHANGED <<choice, cpp, remote_ret, status, output, shared>>

\* A mutant of WaitForCpp: the status of cpp is lost.
WaitForCppLosesStatus(c) ==
  /\ At(c, "wait_cpp")
  /\ cpp[c] # "running"
  /\ ReleaseLocal(c)
  /\ Jump(c, 0, IF cpp[c] = "failed" THEN "enjoyed" ELSE "send_doti")
  /\ UNCHANGED <<choice, cpp, remote_ret, status, output, shared>>

\* dcc_wait_for_cpp() blocks until the child is reaped; then the local lock is
\* released and a failed preprocessor ends dcc_compile_remote() with ret 0.
WaitForCpp(c) ==
  /\ At(c, "wait_cpp")
  /\ \/ /\ cpp[c] # "running"
        /\ \E s \in IF cpp[c] = "failed" THEN CompilerStatus \ {0} ELSE {0} :
             status' = [status EXCEPT ![c] = s]
        /\ ReleaseLocal(c)
        /\ Jump(c, 0, IF cpp[c] = "failed" THEN "enjoyed" ELSE "send_doti")
     \/ /\ MayFail("child")
        /\ cpp[c] # "none"
        /\ RemoteFails(c, EXIT_DISTCC_FAILED)
        /\ UNCHANGED status
  /\ UNCHANGED <<choice, cpp, remote_ret, output, shared>>

\* dcc_x_file() of the preprocessed source.
SendDoti(c) ==
  /\ At(c, "send_doti")
  /\ \/ /\ Jump(c, 0, "retrieve")
        /\ UNCHANGED locks
     \/ /\ MayFail("net")
        /\ RemoteFails(c, EXIT_IO_ERROR)
  /\ UNCHANGED <<choice, cpp, remote_ret, status, output, shared>>

\* dcc_retrieve_results().  The answer may break off before or after the STAT
\* token.  When the server's stderr cannot be added to the email log the
\* function returns the 0 of its previous call.
RetrieveResults(c) ==
  /\ At(c, "retrieve")
  /\ \/ \E s \in CompilerStatus :
          /\ status' = [status EXCEPT ![c] = s]
          /\ output' = [output EXCEPT ![c] = IF s = 0 THEN "remote" ELSE @]
          /\ Jump(c, 0, "enjoyed")
          /\ UNCHANGED locks
     \/ /\ MayFail("net")
        /\ \E s \in CompilerStatus : status' = [status EXCEPT ![c] = s]
        /\ RemoteFails(c, EXIT_IO_ERROR)
        /\ UNCHANGED output
     \/ /\ MayFail("email_log")
        /\ \E s \in CompilerStatus : status' = [status EXCEPT ![c] = s]
        /\ Jump(c, 0, "enjoyed")
        /\ UNCHANGED <<locks, output>>
  /\ UNCHANGED <<choice, cpp, remote_ret, shared>>

(***************************************************************************)
(* dcc_build_somewhere() after a remote compilation.                       *)
(***************************************************************************)
EnjoyedHost(c) ==
  /\ At(c, "enjoyed")
  /\ Enjoyed(host[c])
  /\ Goto(c, "unlock_remote")
  /\ UNCHANGED <<locks, choice, cpp, result, discrepancies>>

UnlockRemote(c) ==
  /\ At(c, "unlock_remote")
  /\ ReleaseCpu(c)
  /\ Goto(c, "critique")
  /\ UNCHANGED <<choice, cpp, result, shared>>

\* Success is reported when the server's stderr could be shown; a compiler that
\* failed is retried locally unless DISTCC_SKIP_LOCAL_RETRY is set; a compiler
\* that was killed by a signal always is.
CritiqueStatus(c) ==
  /\ At(c, "critique")
  /\ \/ /\ status[c] = 0
        /\ Jump(c, 0, "done")
        /\ UNCHANGED remote_ret
     \/ /\ status[c] = 0 /\ MayFail("stderr")
        /\ Jump(c, 0, "fallback")
        /\ UNCHANGED remote_ret
     \/ /\ status[c] \in 1 .. 127      \* DISTCC_SKIP_LOCAL_RETRY
        /\ Jump(c, status[c], "done")
        /\ UNCHANGED remote_ret
     \/ /\ status[c] \in 1 .. 127 /\ MayFail("stderr")
        /\ Jump(c, status[c], "fallback")
        /\ UNCHANGED remote_ret
     \/ /\ status[c] \in 1 .. 127
        /\ remote_ret' = [remote_ret EXCEPT ![c] = status[c]]
        /\ Jump(c, status[c], "fallback")
     \/ /\ status[c] >= 128
        /\ Jump(c, status[c], "fallback")
        /\ UNCHANGED remote_ret
  /\ UNCHANGED <<locks, choice, cpp, status, output, shared>>

(***************************************************************************)
(* The fallback.                                                           *)
(***************************************************************************)
DislikedHost(c) ==
  /\ At(c, "fallback")
  /\ IF host[c] # NoHost THEN Disliked(host[c]) ELSE UNCHANGED backoff
  /\ Goto(c, "fallback_unlock_cpu")
  /\ UNCHANGED <<locks, choice, cpp, result, discrepancies>>

FallbackUnlockCpu(c) ==
  /\ At(c, "fallback_unlock_cpu")
  /\ ReleaseCpu(c)
  /\ Goto(c, "fallback_unlock_local")
  /\ UNCHANGED <<choice, cpp, result, shared>>

\* A mutant of FallbackUnlockLocal: the slot for cpp is kept.
FallbackKeepsLocal(c) ==
  /\ At(c, "fallback_unlock_local")
  /\ Goto(c, "fallback_env")
  /\ UNCHANGED <<locks, choice, cpp, result, shared>>

FallbackUnlockLocal(c) ==
  /\ At(c, "fallback_unlock_local")
  /\ ReleaseLocal(c)
  /\ Goto(c, "fallback_env")
  /\ UNCHANGED <<choice, cpp, result, shared>>

\* DISTCC_FALLBACK=0 ends the build with the current ret.
FallbackEnv(c) ==
  /\ At(c, "fallback_env")
  /\ Goto(c, IF c \in NoFallback THEN "done" ELSE "lock_local")
  /\ UNCHANGED <<locks, choice, cpp, result, shared>>

\* A mutant of LockLocal: the slots for preprocessing are used to compile.
LockLocalForCpp(c) ==
  /\ At(c, "lock_local")
  /\ \E f \in LocalCppList :
       /\ Lock(c, f)
       /\ cpu_lock_fd' = [cpu_lock_fd EXCEPT ![c] = f]
  /\ Goto(c, "run_local")
  /\ UNCHANGED <<local_cpu_lock_fd, choice, cpp, result, shared>>

\* dcc_lock_local(), whose result is not examined.
LockLocal(c) ==
  /\ At(c, "lock_local")
  /\ \/ \E f \in LocalList :
          /\ Lock(c, f)
          /\ cpu_lock_fd' = [cpu_lock_fd EXCEPT ![c] = f]
     \/ /\ MayFail("lock")
        /\ LocalList # {}
        /\ \E fd \in FailedFd : cpu_lock_fd' = [cpu_lock_fd EXCEPT ![c] = fd]
        /\ UNCHANGED owner
  /\ Goto(c, "run_local")
  /\ UNCHANGED <<local_cpu_lock_fd, choice, cpp, result, shared>>

(***************************************************************************)
(* dcc_compile_local() and what follows it.                                *)
(***************************************************************************)
RunLocal(c) ==
  /\ At(c, "run_local")
  /\ \/ /\ Goto(c, "compiling")
        /\ UNCHANGED ret
     \/ /\ MayFail("child")
        /\ Jump(c, EXIT_IO_ERROR, "compare")
  /\ UNCHANGED <<locks, choice, cpp, remote_ret, status, output, shared>>

\* dcc_collect_child() and dcc_critique_status() of the local compiler, which
\* removes its output when it fails.
CollectLocal(c) ==
  /\ At(c, "compiling")
  /\ \/ \E s \in CompilerStatus :
          /\ output' = [output EXCEPT ![c] = IF s = 0 THEN "local" ELSE "none"]
          /\ Jump(c, s, "compare")
     \/ /\ MayFail("child")
        /\ Jump(c, EXIT_DISTCC_FAILED, "compare")
        /\ UNCHANGED output
  /\ UNCHANGED <<locks, choice, cpp, remote_ret, status, shared>>

\* A mutant of CompareResults: the host stays disliked.
CompareWithoutEnjoyed(c) ==
  /\ At(c, "compare")
  /\ \/ remote_ret[c] \in {0, ret[c]} /\ UNCHANGED shared
     \/ /\ remote_ret[c] \notin {0, ret[c]}
        /\ discrepancies' = discrepancies + 1
        /\ UNCHANGED backoff
  /\ Goto(c, "unlock_cpu")
  /\ UNCHANGED <<locks, choice, cpp, result>>

\* Two failures that agree clear the host; results that differ are noted in the
\* discrepancy file, unless the dependencies could not be examined.
CompareResults(c) ==
  /\ At(c, "compare")
  /\ \/ /\ remote_ret[c] = 0
        /\ UNCHANGED shared
     \/ /\ remote_ret[c] # 0 /\ remote_ret[c] # ret[c]
        /\ \/ discrepancies' = discrepancies + 1
           \/ MayFail("stat") /\ UNCHANGED discrepancies
        /\ UNCHANGED backoff
     \/ /\ remote_ret[c] # 0 /\ remote_ret[c] = ret[c]
        /\ Enjoyed(host[c])
        /\ UNCHANGED discrepancies
  /\ Goto(c, "unlock_cpu")
  /\ UNCHANGED <<locks, choice, cpp, result>>

UnlockCpu(c) ==
  /\ At(c, "unlock_cpu")
  /\ ReleaseCpu(c)
  /\ Goto(c, "unlock_local")
  /\ UNCHANGED <<choice, cpp, result, shared>>

\* A mutant of UnlockLocal: the slot for cpp is kept.
KeepLocal(c) ==
  /\ At(c, "unlock_local")
  /\ Goto(c, "done")
  /\ UNCHANGED <<locks, choice, cpp, result, shared>>

UnlockLocal(c) ==
  /\ At(c, "unlock_local")
  /\ ReleaseLocal(c)
  /\ Goto(c, "done")
  /\ UNCHANGED <<choice, cpp, result, shared>>

(***************************************************************************)
(* The environment.                                                        *)
(***************************************************************************)
\* A client is killed: the kernel closes its descriptors, its child lives on.
Crash(c) ==
  /\ MayFail("crash")
  /\ pc[c] \notin {"done", "dead"}
  /\ DropAll(c)
  /\ cpu_lock_fd' = [cpu_lock_fd EXCEPT ![c] = NoFd]
  /\ local_cpu_lock_fd' = [local_cpu_lock_fd EXCEPT ![c] = NoFd]
  /\ Goto(c, "dead")
  /\ UNCHANGED <<choice, cpp, result, shared>>

\* The backoff period of a host runs out.
BackoffExpires(h) ==
  /\ h \in backoff
  /\ backoff' = backoff \ {h}
  /\ UNCHANGED <<pc, locks, choice, cpp, result, discrepancies>>

Terminated == \A c \in Clients : pc[c] \in {"done", "dead"}

Step(c) ==
  \/ Start(c) \/ PickHost(c) \/ LockOne(c) \/ LockLocalCpp(c)
  \/ AdjustCppWhere(c) \/ ScanIncludes(c) \/ TalkToIncludeServer(c)
  \/ CppMaybe(c) \/ CopyArgv(c)
  \/ Connect(c) \/ SendHeader(c) \/ WaitForCpp(c) \/ SendDoti(c) \/ RetrieveResults(c)
  \/ EnjoyedHost(c) \/ UnlockRemote(c) \/ CritiqueStatus(c)
  \/ DislikedHost(c) \/ FallbackUnlockCpu(c) \/ FallbackUnlockLocal(c) \/ FallbackEnv(c)
  \/ LockLocal(c) \/ RunLocal(c) \/ CollectLocal(c) \/ CompareResults(c)
  \/ UnlockCpu(c) \/ UnlockLocal(c)

Next ==
  \/ \E c \in Clients : Step(c) \/ CppExits(c) \/ Crash(c)
  \/ \E h \in Hosts : BackoffExpires(h)
  \/ Terminated /\ UNCHANGED vars

Spec == Init /\ [][Next]_vars

(***************************************************************************)
(* Every process keeps running: the scheduler is fair, compilers and       *)
(* preprocessors end, and a server that does not answer meets the I/O      *)
(* timeout of dcc_select_for_read().                                       *)
(***************************************************************************)
FairSpec ==
  /\ Spec
  /\ \A c \in Clients : WF_vars(Step(c)) /\ WF_vars(CppExits(c))

-----------------------------------------------------------------------------
(***************************************************************************)
(* The clients use the lock files as the pool of slots in SlotPool allows: *)
(* no slot has two owners, a client never holds two remote or two local    *)
(* slots, and never waits for a remote slot while it holds any (the order  *)
(* that keeps the clients from deadlocking, lock.c:86).                    *)
(***************************************************************************)
Held == [c \in Clients |-> {f \in LockFile : owner[f] = c}]

Pool == INSTANCE SlotPool WITH held <- Held

RefinesPool == Pool!PoolSpec

(***************************************************************************)
(* A client's descriptors and the kernel's lock table agree: a descriptor  *)
(* that names a lock file is a lock the client owns, and no lock is owned  *)
(* by a client that has lost its descriptor (a slot lost to the build      *)
(* until the process ends).                                                *)
(***************************************************************************)
FdsMatchLocks ==
  \A c \in Clients : \A f \in LockFile :
    owner[f] = c <=> f \in {cpu_lock_fd[c], local_cpu_lock_fd[c]}

(***************************************************************************)
(* What a client may hold at each point of dcc_build_somewhere().  No path *)
(* through its gotos reaches a statement that takes a slot with a lock of  *)
(* that kind still held, or the end with any; from the choice of a server  *)
(* to the end of the remote compilation its slot is held throughout, a     *)
(* slot to preprocess is only ever added to a server's, and is gone before *)
(* a connection to a server that preprocesses itself (remote.c:178).       *)
(***************************************************************************)
WithoutCpuLock ==
  {"start", "pick_host", "lock_one", "critique", "fallback_unlock_local", "fallback_env",
   "lock_local", "unlock_local", "done", "dead"}
MayHoldLocalLock ==
  {"adjust", "scan_includes", "include_server", "cpp_maybe", "connect", "send_header",
   "wait_cpp", "fallback", "fallback_unlock_cpu", "fallback_unlock_local", "unlock_cpu",
   "unlock_local"}
WithServerLock ==
  {"lock_cpp", "adjust", "scan_includes", "include_server", "cpp_maybe", "copy_argv",
   "connect", "send_header", "wait_cpp", "send_doti", "retrieve", "enjoyed", "unlock_remote"}

SlotDiscipline ==
  \A c \in Clients :
    /\ pc[c] \in WithoutCpuLock => cpu_lock_fd[c] \notin LockFile
    /\ pc[c] \notin MayHoldLocalLock => local_cpu_lock_fd[c] \notin LockFile
    /\ pc[c] \in WithServerLock => cpu_lock_fd[c] \in RemoteFile
    /\ local_cpu_lock_fd[c] \in LockFile
         => local_cpu_lock_fd[c] \in LocalFile /\ cpu_lock_fd[c] \notin LocalFile
    /\ pc[c] \in {"connect", "send_header"} /\ cpp_where[c] = "server"
         => local_cpu_lock_fd[c] \notin LockFile
    /\ pc[c] = "cpp_maybe" => cpp_where[c] = "client"

(***************************************************************************)
(* Local compilers run under distinct slots of localhost, within           *)
(* --localslots or the localhost entry of the host list, however the       *)
(* client came to compile locally; except in a nested distcc and after a   *)
(* failure to lock (compile.c:393, 820).                                   *)
(***************************************************************************)
LocalCompileLocked ==
  \A c \in Clients :
    pc[c] = "compiling" /\ c \notin Nested /\ ~MayFail("lock")
      => /\ cpu_lock_fd[c] \in LocalList \cup ListSlots({localhost} \cap Listed)
         /\ \A d \in Clients \ {c} : cpu_lock_fd[d] # cpu_lock_fd[c]
                                     /\ local_cpu_lock_fd[d] # cpu_lock_fd[c]

(***************************************************************************)
(* A build that ends holds no slot.                                        *)
(***************************************************************************)
NothingHeldAtEnd ==
  \A c \in Clients : pc[c] \in {"done", "dead"} => \A f \in LockFile : owner[f] # c

(***************************************************************************)
(* A client that reports success has produced the object file (or was      *)
(* only asked for the includes), whichever way it went through the retries *)
(* and fallbacks.                                                          *)
(***************************************************************************)
ReportedSuccessHasOutput ==
  \A c \in Clients :
    pc[c] = "done" /\ ret[c] = 0 /\ c \notin ScanOnly => output[c] # "none"

(***************************************************************************)
(* A host is avoided only because of a client that gave up on it and has   *)
(* not cleared it since: neither a source file that fails in the same way  *)
(* on both sides nor a successful remote compilation ever puts its server  *)
(* in backoff, whatever the other clients do meanwhile.                    *)
(***************************************************************************)
AfterDislike ==
  {"fallback_unlock_cpu", "fallback_unlock_local", "fallback_env", "lock_local",
   "run_local", "compiling", "compare", "unlock_cpu", "unlock_local", "done", "dead"}

ServerInnocent(c) ==
  /\ pc[c] \in {"unlock_cpu", "unlock_local", "done"}
  /\ c \notin NoFallback
  /\ \/ remote_ret[c] # 0 /\ remote_ret[c] = ret[c]
     \/ ret[c] = 0 /\ output[c] = "remote"

GaveUpOn(c, h) ==
  /\ host[c] = h
  /\ pc[c] \in AfterDislike
  /\ ~ServerInnocent(c)

BackoffIsDeserved == \A h \in backoff : \E c \in Clients : GaveUpOn(c, h)

(***************************************************************************)
(* Every client ends its build.                                            *)
(***************************************************************************)
EveryBuildEnds == \A c \in Clients : <>(pc[c] \in {"done", "dead"})
=============================================================================
