------------------------------ MODULE Zeroconf ------------------------------
(***************************************************************************)
(* Host lists from the network (zeroconf.c).  A client that finds nobody   *)
(* holding the lock file starts a daemon, which keeps the file of hosts up *)
(* to date from what Avahi tells it; clients read that file under a read   *)
(* lock.  A service is announced on one or more interfaces, and the daemon *)
(* hears of each pair.                                                     *)
(***************************************************************************)
EXTENDS Naturals, Sequences, FiniteSets

CONSTANTS
  Announcements,  \* <<service, interface>> that may be on the network
  Askers,         \* clients; each may start one daemon of the same name
  MaxChanges      \* bound: changes of the network

VARIABLES
  announced,      \* what is on the network now
  changes,
  asker,          \* where each client is in dcc_zeroconf_add_hosts()
  browser,        \* where each daemon is in daemon_proc()
  told,           \* what Avahi has told each daemon
  zhosts,         \* d.hosts, newest first: [ad, resolving, freed]
  lock,           \* holder of the lock file
  listing,        \* the host file: a sequence of announcements; <<"none">> before it exists
  readers,        \* clients with a read lock on it
  broken          \* daemons that went through freed memory
zcVars == <<announced, changes, asker, browser, told, zhosts, lock, listing, readers, broken>>

Nobody == <<"nobody">>
NoListing == <<"none">>
Serving == {"clear", "browse", "write"}
Writing(d) == browser[d] = "write"

(***************************************************************************)
(* Clients: dcc_zeroconf_add_hosts()                                       *)
(***************************************************************************)
(* the lock is tried and, when it was free, given back in the next step *)
TryLock(c) ==
  /\ asker[c] = "start"
  /\ IF lock = Nobody THEN lock' = <<"client", c>> /\ asker' = [asker EXCEPT ![c] = "fork"]
     ELSE UNCHANGED lock /\ asker' = [asker EXCEPT ![c] = "open"]
  /\ UNCHANGED <<announced, changes, browser, told, zhosts, listing, readers, broken>>
ForkDaemon(c) ==
  /\ asker[c] = "fork"
  /\ lock' = Nobody
  /\ browser' = [browser EXCEPT ![c] = "lock"]
  /\ asker' = [asker EXCEPT ![c] = "open"]
  /\ UNCHANGED <<announced, changes, told, zhosts, listing, readers, broken>>
OpenListing(c) ==
  /\ asker[c] = "open"
  /\ asker' = [asker EXCEPT ![c] = IF listing = NoListing THEN "failed" ELSE "lock"]
  /\ UNCHANGED <<announced, changes, browser, told, zhosts, lock, listing, readers, broken>>
ReadLock(c) ==
  /\ asker[c] = "lock"
  /\ \A d \in Askers : ~Writing(d)
  /\ readers' = readers \cup {c}
  /\ asker' = [asker EXCEPT ![c] = "read"]
  /\ UNCHANGED <<announced, changes, browser, told, zhosts, lock, listing, broken>>
ReadListing(c) ==
  /\ asker[c] = "read"
  /\ readers' = readers \ {c}
  /\ asker' = [asker EXCEPT ![c] = "done"]
  /\ UNCHANGED <<announced, changes, browser, told, zhosts, lock, listing, broken>>

(***************************************************************************)
(* The daemon.  write_hosts() is two steps: the file is locked and cut,    *)
(* then filled and unlocked.                                               *)
(***************************************************************************)
(* the entries of a list at some of its places, in order *)
Nth(places, k) == CHOOSE i \in places : Cardinality({j \in places : j <= i}) = k
Only(list, places) == [k \in 1 .. Cardinality(places) |-> list[Nth(places, k)]]
(* remove_duplicate_services(): of the entries of a service the first stays *)
Deduplicated(list) ==
  Only(list, {i \in DOMAIN list : \A j \in 1 .. i - 1 : list[j].ad[1] # list[i].ad[1]})
(* the first entry of an announcement, if there is one, is taken out *)
Without(list, a) ==
  Only(list, {i \in DOMAIN list : list[i].ad = a => \E j \in 1 .. i - 1 : list[j].ad = a})
Walkable(list) == \A i \in DOMAIN list : ~list[i].freed
(* walking through freed memory ends the daemon, or goes unnoticed *)
Walk(d, list) == broken' = IF Walkable(list) THEN broken ELSE broken \cup {d}
Crash(d) ==
  /\ browser' = [browser EXCEPT ![d] = "gone"] /\ lock' = Nobody
  /\ zhosts' = [zhosts EXCEPT ![d] = <<>>] /\ UNCHANGED listing
(* the file is cut without waiting for those who read it *)
WriteHosts_NoLock(d, list) ==
  \/ ~Walkable(zhosts[d]) /\ Crash(d)
  \/ /\ listing' = <<>>
     /\ zhosts' = [zhosts EXCEPT ![d] = Deduplicated(list)]
     /\ browser' = [browser EXCEPT ![d] = "write"]
     /\ UNCHANGED lock
WriteHosts(d, list) ==
  \/ ~Walkable(zhosts[d]) /\ Crash(d)
  \/ /\ readers = {}
     /\ listing' = <<>>
     /\ zhosts' = [zhosts EXCEPT ![d] = Deduplicated(list)]
     /\ browser' = [browser EXCEPT ![d] = "write"]
     /\ UNCHANGED lock
Known(list) == Only(list, {i \in DOMAIN list : ~list[i].resolving})
FillListing(d) ==
  /\ Writing(d)
  /\ listing' = [i \in DOMAIN Known(zhosts[d]) |-> Known(zhosts[d])[i].ad]
  /\ browser' = [browser EXCEPT ![d] = "browse"]
  /\ UNCHANGED <<announced, changes, asker, told, zhosts, lock, readers, broken>>

DaemonLock(d) ==
  /\ browser[d] = "lock"
  /\ IF lock = Nobody
     THEN lock' = <<"daemon", d>> /\ browser' = [browser EXCEPT ![d] = "clear"]
     ELSE UNCHANGED lock /\ browser' = [browser EXCEPT ![d] = "gone"]
  /\ UNCHANGED <<announced, changes, asker, told, zhosts, listing, readers, broken>>
ClearListing(d) ==
  /\ browser[d] = "clear"
  /\ WriteHosts(d, <<>>)
  /\ UNCHANGED <<announced, changes, asker, told, readers, broken>>
(* browse_reply(), AVAHI_BROWSER_NEW, with a resolver or without *)
ServiceNew(d) ==
  /\ browser[d] = "browse"
  /\ \E a \in announced \ told[d] :
       /\ told' = [told EXCEPT ![d] = @ \cup {a}]
       /\ \/ zhosts' = [zhosts EXCEPT ![d] = <<[ad |-> a, resolving |-> TRUE, freed |-> FALSE]>> \o @]
          \/ UNCHANGED zhosts
  /\ UNCHANGED <<announced, changes, asker, browser, lock, listing, readers, broken>>
(* AVAHI_BROWSER_REMOVE and remove_service() *)
ServiceRemoved(d) ==
  /\ browser[d] = "browse"
  /\ \E a \in told[d] \ announced :
       /\ told' = [told EXCEPT ![d] = @ \ {a}]
       /\ WriteHosts(d, Without(zhosts[d], a))
  /\ Walk(d, zhosts[d])
  /\ UNCHANGED <<announced, changes, asker, readers>>
(* resolve_reply(): found, or not: then the entry is freed and stays in the list *)
ResolveFound(d) ==
  /\ browser[d] = "browse"
  /\ \E i \in DOMAIN zhosts[d] :
       /\ zhosts[d][i].resolving /\ ~zhosts[d][i].freed
       /\ WriteHosts(d, [zhosts[d] EXCEPT ![i].resolving = FALSE])
  /\ Walk(d, zhosts[d])
  /\ UNCHANGED <<announced, changes, asker, told, readers>>
ResolveFailed(d) ==
  /\ browser[d] = "browse"
  /\ \E i \in DOMAIN zhosts[d] :
       /\ zhosts[d][i].resolving /\ ~zhosts[d][i].freed
       /\ zhosts' = [zhosts EXCEPT ![d][i].freed = TRUE]
  /\ UNCHANGED <<announced, changes, asker, browser, told, lock, listing, readers, broken>>
(* unused for MAX_IDLE_TIME, or Avahi is gone; the list is freed *)
DaemonEnds(d) ==
  /\ browser[d] = "browse"
  /\ browser' = [browser EXCEPT ![d] = "gone"]
  /\ lock' = Nobody
  /\ Walk(d, zhosts[d])
  /\ zhosts' = [zhosts EXCEPT ![d] = <<>>]
  /\ told' = [told EXCEPT ![d] = {}]
  /\ UNCHANGED <<announced, changes, asker, listing, readers>>

NetworkChanges ==
  /\ changes < MaxChanges
  /\ \E a \in Announcements :
       announced' = IF a \in announced THEN announced \ {a} ELSE announced \cup {a}
  /\ changes' = changes + 1
  /\ UNCHANGED <<asker, browser, told, zhosts, lock, listing, readers, broken>>

ZcInit ==
  /\ announced \in SUBSET Announcements /\ changes = 0
  /\ asker = [c \in Askers |-> "start"]
  /\ browser = [c \in Askers |-> "none"] /\ told = [c \in Askers |-> {}] /\ zhosts = [c \in Askers |-> <<>>]
  /\ lock = Nobody /\ listing = NoListing /\ readers = {} /\ broken = {}
ZcNext ==
  \/ NetworkChanges
  \/ \E c \in Askers :
       \/ TryLock(c) \/ ForkDaemon(c) \/ OpenListing(c) \/ ReadLock(c) \/ ReadListing(c)
       \/ DaemonLock(c) \/ ClearListing(c) \/ FillListing(c) \/ ServiceNew(c) \/ ServiceRemoved(c)
       \/ ResolveFound(c) \/ ResolveFailed(c) \/ DaemonEnds(c)
ZcSpec == ZcInit /\ [][ZcNext]_zcVars

(***************************************************************************)
(* Properties                                                              *)
(***************************************************************************)
(* However many clients start a daemon at once, and although each tries the lock
   by taking it for a moment, one daemon at most keeps the file.
   (dcc_zeroconf_add_hosts(), daemon_proc()) *)
OneBrowser == Cardinality({d \in Askers : browser[d] \in Serving}) <= 1

(* A client never reads a list that is being written, by whichever daemon.
   (write_hosts(), dcc_zeroconf_add_hosts()) *)
ListIsWhole == \A c, d \in Askers : asker[c] = "read" => ~Writing(d)

(* Between two callbacks, the file names no service the daemon knows to be gone,
   and none twice.  (write_hosts(), remove_service()) *)
ListIsCurrent ==
  \A d \in Askers : browser[d] = "browse" =>
    /\ \A i \in DOMAIN listing : listing[i] \in told[d]
    /\ \A i, j \in DOMAIN listing : i # j => listing[i][1] # listing[j][1]

(* One background process keeps the list; a client reads all of it, and it
   names no service that is known to be gone.  (zeroconf.c) *)
ListIsKept == OneBrowser /\ ListIsWhole /\ ListIsCurrent
=============================================================================
