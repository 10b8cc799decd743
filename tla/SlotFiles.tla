----------------------------- MODULE SlotFiles -----------------------------
(***************************************************************************)
(* The host list and the lock files that stand for its job slots.          *)
(*                                                                         *)
(* A distcc client may use a host only while it holds an fcntl() write     *)
(* lock on one of the files <lockdir>/cpu_<host>_<slot>.  The files are    *)
(* shared by every client of the user, and "localhost" has one family of   *)
(* files whether it is reached as an entry of DISTCC_HOSTS, through        *)
(* dcc_hostdef_local or through dcc_hostdef_local_cpp.                     *)
(***************************************************************************)
EXTENDS Integers

CONSTANTS
  Clients,           \* the distcc processes of one build
  RemoteHosts,       \* hosts of mode DCC_MODE_TCP or DCC_MODE_SSH
  localhost,         \* the host of mode DCC_MODE_LOCAL
  Listed,            \* the hosts of DISTCC_HOSTS
  UpHosts,           \* the listed hosts without the ",down" option
  NSlots,            \* hostdef.n_slots of each listed host
  LocalSlots,        \* --localslots (dcc_hostdef_local->n_slots)
  LocalCppSlots,     \* --localslots_cpp (dcc_hostdef_local_cpp->n_slots)
  ScanLimit,         \* the 50 of dcc_lock_one()
  Nobody             \* the owner of an unlocked file

Hosts == RemoteHosts \cup {localhost}

\* A multiplier of 0 is refused by dcc_parse_multiplier(), a negative one is not.
ASSUME SlotFilesAssumption ==
  /\ localhost \notin RemoteHosts
  /\ Listed \subseteq Hosts
  /\ UpHosts \subseteq Listed
  /\ NSlots \in [Hosts -> Int \ {0}]
  /\ LocalSlots \in Int
  /\ LocalCppSlots \in Int
  /\ ScanLimit \in Nat \ {0}
  /\ Nobody \notin Clients

\* The file dcc_make_lock_filename() names for slot i of host h.
LockFileName(h, i) == <<h, i>>

LockFile == {LockFileName(h, i) : h \in Hosts, i \in 0 .. ScanLimit - 1}

LocalFile == {f \in LockFile : f[1] = localhost}
RemoteFile == LockFile \ LocalFile

\* The slots dcc_lock_one() tries on host h when the host has n of them.
SlotsOf(h, n) == {LockFileName(h, i) : i \in {k \in 0 .. ScanLimit - 1 : k < n}}

\* A host that is down is EXIT_BUSY on every slot.
ListSlots(hostlist) == UNION {SlotsOf(h, NSlots[h]) : h \in hostlist \cap UpHosts}
LocalList == SlotsOf(localhost, LocalSlots)
LocalCppList == SlotsOf(localhost, LocalCppSlots)

HostOf(f) == f[1]
=============================================================================
