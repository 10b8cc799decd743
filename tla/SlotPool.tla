----------------------------- MODULE SlotPool ------------------------------
(***************************************************************************)
(* What the slot locks promise, without how the clients find a slot: the   *)
(* pool of job slots that lock.c describes in its lock ordering comment.   *)
(* held[c] is the set of lock files client c has locked.                   *)
(***************************************************************************)
EXTENDS SlotFiles

VARIABLE held

PoolTypeOK == held \in [Clients -> SUBSET LockFile]

PoolInit == held = [c \in Clients |-> {}]

Free(f) == \A c \in Clients : f \notin held[c]

\* A remote slot is the first lock of its client.
AcquireRemote(c) ==
  /\ held[c] = {}
  /\ \E f \in RemoteFile :
       /\ Free(f)
       /\ held' = [held EXCEPT ![c] = {f}]

\* A local slot may be added to a remote one, never to another local one.
AcquireLocal(c) ==
  /\ held[c] \cap LocalFile = {}
  /\ \E f \in LocalFile :
       /\ Free(f)
       /\ held' = [held EXCEPT ![c] = @ \cup {f}]

\* dcc_unlock() of one slot.
ReleaseOne(c) ==
  \E f \in held[c] : held' = [held EXCEPT ![c] = @ \ {f}]

\* The kernel drops every lock of a process that ends.
ReleaseAll(c) ==
  /\ held[c] # {}
  /\ held' = [held EXCEPT ![c] = {}]

PoolNext ==
  \E c \in Clients :
    \/ AcquireRemote(c)
    \/ AcquireLocal(c)
    \/ ReleaseOne(c)
    \/ ReleaseAll(c)

PoolSpec == PoolInit /\ [][PoolNext]_held

(***************************************************************************)
(* No slot is used by two clients at a time, so that a host never runs     *)
(* more jobs of this user than it has slots (lock.c, sys_lock()).          *)
(***************************************************************************)
SlotExclusive ==
  \A c, d \in Clients : c # d => held[c] \cap held[d] = {}

(***************************************************************************)
(* A client holds at most one remote and one local slot (lock.c:83).       *)
(***************************************************************************)
TwoLocksAtMost ==
  \A c \in Clients : \A f, g \in held[c] :
    (HostOf(f) = localhost <=> HostOf(g) = localhost) => f = g
=============================================================================
