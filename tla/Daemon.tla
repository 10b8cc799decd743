------------------------------ MODULE Daemon -------------------------------
(***************************************************************************)
(* The processes of a standalone distccd: its start (daemon.c, dparent.c,  *)
(* srvnet.c), the pool of preforked children (prefork.c), the collection   *)
(* of their statistics over a pipe (stats.c), the signals that end it      *)
(* (dsignal.c), and its restart after a crash, while children of the       *)
(* crashed daemon may still hold the listening socket.                     *)
(*                                                                         *)
(* A job is seen from outside: it is accepted, perhaps refused, compiled,  *)
(* and its outcome is reported.  Module ServeJob looks inside.             *)
(***************************************************************************)
EXTENDS Integers, FiniteSets, Sequences

CONSTANTS
  Kids,           \* the process ids of children
  MaxKids,        \* dcc_max_kids
  ChildLifetime,  \* child_lifetime, 50 in the code
  JobLifetime,    \* dcc_job_lifetime is set
  PipeCapacity,   \* messages the statistics pipe holds
  MaxConnections, \* bound: connections that arrive
  MaxStarts,      \* bound: times the daemon is started
  Modes,          \* subset of {"nofork", "prefork", "stats"}
  Detaching,      \* subset of BOOLEAN: not --no-detach
  Faults          \* subset of {"startup", "fork", "accept", "listen_stats", "term", "kill"}

ASSUME DaemonAssumption ==
  /\ IsFiniteSet(Kids)
  /\ MaxKids \in Nat \ {0}
  /\ ChildLifetime \in Nat \ {0}
  /\ JobLifetime \in BOOLEAN
  /\ PipeCapacity \in Nat \ {0}
  /\ MaxConnections \in Nat
  /\ MaxStarts \in Nat
  /\ Modes \subseteq {"nofork", "prefork", "stats"}
  /\ Detaching \subseteq BOOLEAN

VARIABLES
  mode, detach,   \* the options of this installation
  pc,             \* the daemon: the statement it executes, or how it ended
  gen,            \* which start of the daemon this is
  launcher,       \* the process that detached has not saved the pid yet
  pid_file,       \* the start whose pid is in the pid file, 0 if there is none
  dcc_nkids,
  http,           \* the statistics port is open
  kid,            \* what each child does
  ireq,           \* requests a child has served
  armed,          \* children with a running alarm()
  nosigpipe,      \* children that ignore SIGPIPE
  pending,        \* children with a pending SIGTERM
  backlog,        \* connections that wait in the kernel
  arrived,        \* connections that have arrived so far
  statspipe,      \* the messages in the statistics pipe
  counters        \* dcc_stats.counters

options == <<mode, detach>>
kids == <<kid, ireq, armed, nosigpipe, pending>>
net == <<backlog, arrived>>
stats == <<statspipe, counters>>
pid == <<launcher, pid_file>>
vars == <<options, pc, gen, pid, dcc_nkids, http, kids, net, stats>>

\* An accepted connection, and what became of the jobs.
Outcome == {"compile_ok", "other"}
Event == {"tcp_accept"} \cup Outcome

Starting == {"listen", "detach", "catch", "master"}
Loop == {"create", "forked", "listen_stats", "select", "reap", "reap_more",
         "nofork_accept", "nofork_serve"}
Terminating == {"term_pid", "term_kill"}
InJob == {"event", "serving", "compiling", "result"}
LiveKid == {"accept"} \cup InJob

Dead == {"down", "terminated"}
Alive == pc \notin Dead
Bound == pc \notin Dead \cup {"listen"}  \* then every child is the daemon's own
Live(k) == kid[k] \in LiveKid

TypeOK ==
  /\ mode \in Modes /\ detach \in Detaching
  /\ pc \in Dead \cup Starting \cup Loop \cup Terminating
  /\ gen \in 0 .. MaxStarts
  /\ launcher \in BOOLEAN
  /\ pid_file \in 0 .. MaxStarts
  /\ dcc_nkids \in 0 .. MaxKids
  /\ http \in BOOLEAN
  /\ kid \in [Kids -> {"free", "zombie"} \cup LiveKid]
  /\ ireq \in [Kids -> 0 .. ChildLifetime - 1]
  /\ armed \in SUBSET Kids /\ nosigpipe \in SUBSET Kids /\ pending \in SUBSET Kids
  /\ backlog \in 0 .. MaxConnections
  /\ arrived \in 0 .. MaxConnections
  /\ statspipe \in Seq(Event)
  /\ counters \in [Event -> Nat]

Init ==
  /\ mode \in Modes /\ detach \in Detaching
  /\ pc = "down" /\ gen = 0
  /\ launcher = FALSE /\ pid_file = 0
  /\ dcc_nkids = 0 /\ http = FALSE
  /\ kid = [k \in Kids |-> "free"]
  /\ ireq = [k \in Kids |-> 0]
  /\ armed = {} /\ nosigpipe = {} /\ pending = {}
  /\ backlog = 0 /\ arrived = 0
  /\ statspipe = <<>> /\ counters = [e \in Event |-> 0]

MayFail(f) == f \in Faults
Goto(l) == pc' = l

-----------------------------------------------------------------------------
(* Ends of processes.                                                      *)

\* Every exit() runs dcc_remove_pid() if dcc_save_pid() ran in the process or
\* in an ancestor: only without dcc_detach(), whose caller ends with _exit().
AtExit == pid_file' = IF detach THEN pid_file ELSE 0

\* The kernel resets the waiting connections when nobody listens any more.
DropBacklog(listening) ==
  /\ backlog' = IF listening THEN backlog ELSE 0
  /\ UNCHANGED arrived

\* The daemon is gone: init adopts its children and collects the dead ones.
ParentGone(how) ==
  /\ pc' = how
  /\ kid' = [k \in Kids |-> IF kid[k] = "zombie" THEN "free" ELSE kid[k]]
  /\ UNCHANGED <<ireq, armed, nosigpipe>>
  /\ DropBacklog(\E k \in Kids : Live(k))

\* dcc_exit() in the daemon; its children go on.
ExitParent ==
  /\ ParentGone("down")
  /\ AtExit
  /\ UNCHANGED <<options, gen, launcher, dcc_nkids, http, pending, stats>>

\* Child k is gone: a zombie until the daemon collects it.
KidGone(k) ==
  /\ kid' = [kid EXCEPT ![k] = IF Bound THEN "zombie" ELSE "free"]
  /\ armed' = armed \ {k}
  /\ nosigpipe' = nosigpipe \ {k}
  /\ pending' = pending \ {k}
  /\ ireq' = [ireq EXCEPT ![k] = 0]
  /\ DropBacklog(Bound \/ \E j \in Kids \ {k} : Live(j))

-----------------------------------------------------------------------------
(* The daemon.                                                             *)

\* main() up to the choice of a server, which an init script runs when the
\* previous command has returned.
StartDaemon ==
  /\ ~Alive /\ ~launcher
  /\ gen < MaxStarts
  /\ \/ Goto("listen")
     \/ MayFail("startup") /\ Goto("down")
  /\ UNCHANGED <<options, gen, pid, dcc_nkids, http, kids, net, stats>>

\* A mutant of PortTaken: bind() as with SO_REUSEPORT.
PortShared == FALSE

\* bind() fails while a child of an earlier daemon has the port.
PortTaken == \E k \in Kids : Live(k)

\* dcc_socket_listen().
Listen ==
  /\ pc = "listen"
  /\ IF PortTaken
     THEN Goto("down") /\ UNCHANGED <<gen, dcc_nkids, http, stats>>
     ELSE /\ Goto("detach")
          /\ gen' = gen + 1
          /\ dcc_nkids' = 0 /\ http' = FALSE
          /\ statspipe' = <<>> /\ counters' = [e \in Event |-> 0]
  /\ UNCHANGED <<options, pid, kids, net>>

\* dcc_detach(): the launcher goes on in SavePid; or, with --no-detach, the
\* daemon saves its own pid.
Detach ==
  /\ pc = "detach"
  /\ \/ /\ Goto("catch")
        /\ IF detach THEN launcher' = TRUE /\ UNCHANGED pid_file
           ELSE pid_file' = gen /\ UNCHANGED launcher
        /\ UNCHANGED <<options, gen, dcc_nkids, http, kids, net, stats>>
     \/ MayFail("startup") /\ ParentGone("down")
        /\ UNCHANGED <<options, gen, pid, dcc_nkids, http, pending, stats>>

SavePid ==
  /\ launcher
  /\ pid_file' = gen
  /\ launcher' = FALSE
  /\ UNCHANGED <<options, pc, gen, dcc_nkids, http, kids, net, stats>>

CatchSignals ==
  /\ pc = "catch"
  /\ Goto("master")
  /\ UNCHANGED <<options, gen, pid, dcc_nkids, http, kids, net, stats>>

\* Zeroconf registration, which may fail; then the choice of the main loop.
SetMasterPid ==
  /\ pc = "master"
  /\ \/ /\ Goto(IF mode = "nofork" THEN "nofork_accept" ELSE "create")
        /\ UNCHANGED <<options, gen, pid, dcc_nkids, http, kids, net, stats>>
     \/ MayFail("startup") /\ ExitParent

\* The kernel's choice of a process id: they are all alike.
FreePid == CHOOSE k \in Kids : kid[k] = "free"

\* The condition of the loop in dcc_create_kids().
KidsWanted == dcc_nkids < MaxKids

\* One iteration of dcc_create_kids(), up to the fork.
CreateKids ==
  /\ pc = "create"
  /\ \/ /\ KidsWanted
        /\ \E k \in Kids : kid[k] = "free"
        /\ kid' = [kid EXCEPT ![FreePid] = "accept"]
        /\ Goto("forked")
        /\ UNCHANGED <<options, gen, pid, dcc_nkids, http, ireq, armed, nosigpipe,
                       pending, net, stats>>
     \/ /\ KidsWanted
        /\ MayFail("fork")
        /\ ExitParent
     \/ /\ ~KidsWanted
        /\ Goto(IF mode = "prefork" THEN "reap" ELSE IF http THEN "select" ELSE "listen_stats")
        /\ UNCHANGED <<options, gen, pid, dcc_nkids, http, kids, net, stats>>

\* The rest of the iteration in the parent: count the child, and sleep(1).
CountKid ==
  /\ pc = "forked"
  /\ dcc_nkids' = dcc_nkids + 1
  /\ Goto("create")
  /\ UNCHANGED <<options, gen, pid, http, kids, net, stats>>

\* A mutant of Collect: the child is not counted down.
CollectUncounted(k) ==
  /\ kid[k] = "zombie"
  /\ kid' = [kid EXCEPT ![k] = "free"]
  /\ Goto("reap_more")
  /\ UNCHANGED <<options, gen, pid, dcc_nkids, http, ireq, armed, nosigpipe, pending, net, stats>>

\* waitpid() collected child k.
Collect(k) ==
  /\ kid[k] = "zombie"
  /\ kid' = [kid EXCEPT ![k] = "free"]
  /\ dcc_nkids' = dcc_nkids - 1
  /\ Goto("reap_more")
  /\ UNCHANGED <<options, gen, pid, http, ireq, armed, nosigpipe, pending, net, stats>>

\* dcc_reap_kids(TRUE): wait for the first child.
ReapKids ==
  /\ pc = "reap"
  /\ \E k \in Kids : Collect(k)

\* dcc_reap_kids(FALSE), or the rest of dcc_reap_kids(TRUE); then sleep(1).
ReapMore ==
  /\ pc = "reap_more"
  /\ \/ \E k \in Kids : Collect(k)
     \/ /\ \A k \in Kids : kid[k] # "zombie"
        /\ Goto("create")
        /\ UNCHANGED <<options, gen, pid, dcc_nkids, http, kids, net, stats>>

\* dcc_stats_server() opens its port; if it cannot, the daemon exits.
ListenStats ==
  /\ pc = "listen_stats"
  /\ \/ /\ Goto("select")
        /\ http' = TRUE
        /\ UNCHANGED <<options, gen, pid, dcc_nkids, kids, net, stats>>
     \/ MayFail("listen_stats") /\ ExitParent

\* One iteration of dcc_stats_server() up to dcc_manage_kids(): a message is
\* read and counted, or select() returns for a request on the statistics port,
\* for the timeout, or for a SIGCHLD.
Select ==
  /\ pc = "select"
  /\ \/ /\ statspipe # <<>>
        /\ counters' = [counters EXCEPT ![Head(statspipe)] = @ + 1]
        /\ statspipe' = Tail(statspipe)
     \/ /\ statspipe = <<>> \/ \E k \in Kids : kid[k] = "zombie"
        /\ UNCHANGED stats
  /\ Goto("reap_more")
  /\ UNCHANGED <<options, gen, pid, dcc_nkids, http, kids, net>>

\* dcc_nofork_parent(): accept a connection and serve it.
NoforkAccept ==
  /\ pc = "nofork_accept"
  /\ \/ /\ backlog > 0
        /\ backlog' = backlog - 1
        /\ Goto("nofork_serve")
        /\ UNCHANGED <<options, gen, pid, dcc_nkids, http, kids, arrived, stats>>
     \/ MayFail("accept") /\ ExitParent

NoforkServe ==
  /\ pc = "nofork_serve"
  /\ Goto("nofork_accept")
  /\ UNCHANGED <<options, gen, pid, dcc_nkids, http, kids, net, stats>>

-----------------------------------------------------------------------------
(* Signals to the daemon.                                                  *)

\* SIGTERM, SIGINT or SIGALRM.  Until the handler is installed, and until
\* dcc_master_pid is set, nothing is cleaned up.
Terminate ==
  /\ MayFail("term")
  /\ pc \in Starting \cup Loop
  /\ IF pc \in Starting
     THEN ParentGone("down") /\ UNCHANGED pending
     ELSE Goto("term_pid") /\ UNCHANGED <<kids, net>>
  /\ UNCHANGED <<options, gen, pid, dcc_nkids, http, stats>>

TerminateRemovePid ==
  /\ pc = "term_pid"
  /\ pid_file' = 0
  /\ Goto("term_kill")
  /\ UNCHANGED <<options, gen, launcher, dcc_nkids, http, kids, net, stats>>

\* kill(0, whichsig), then raise().
TerminateKill ==
  /\ pc = "term_kill"
  /\ ParentGone("terminated")
  /\ pending' = {k \in Kids : Live(k)}
  /\ UNCHANGED <<options, gen, pid, dcc_nkids, http, stats>>

\* SIGKILL, or a crash.
KillParent ==
  /\ MayFail("kill")
  /\ Alive
  /\ ParentGone("down")
  /\ UNCHANGED <<options, gen, pid, dcc_nkids, http, pending, stats>>

-----------------------------------------------------------------------------
(* A child: dcc_preforked_child().                                         *)

KidUnchanged == UNCHANGED <<options, pc, gen, launcher, dcc_nkids, http>>

\* The end of the loop body.  A worn out child leaves through dcc_exit(); in any
\* other the alarm is cancelled before the next accept().
NextRequest(k) ==
  IF ireq[k] + 1 = ChildLifetime
  THEN KidGone(k) /\ AtExit
  ELSE /\ kid' = [kid EXCEPT ![k] = "accept"]
       /\ ireq' = [ireq EXCEPT ![k] = @ + 1]
       /\ armed' = armed \ {k}
       /\ UNCHANGED <<pid_file, nosigpipe, pending, net>>

\* accept(), and the alarm for this job.
KidAccept(k) ==
  /\ kid[k] = "accept"
  /\ backlog > 0
  /\ backlog' = backlog - 1
  /\ kid' = [kid EXCEPT ![k] = "event"]
  /\ armed' = IF JobLifetime THEN armed \cup {k} ELSE armed
  /\ KidUnchanged
  /\ UNCHANGED <<ireq, nosigpipe, pending, pid_file, arrived, stats>>

KidAcceptFails(k) ==
  /\ kid[k] = "accept"
  /\ MayFail("accept")
  /\ KidGone(k)
  /\ AtExit
  /\ KidUnchanged
  /\ UNCHANGED stats

\* dcc_stats_event(): only with --stats; blocks while the pipe is full.  Without
\* a reader the write fails, or SIGPIPE ends the child.
StatsEvent(k, e) ==
  \/ mode # "stats" /\ UNCHANGED stats
  \/ /\ mode = "stats" /\ Bound
     /\ Len(statspipe) < PipeCapacity
     /\ statspipe' = Append(statspipe, e)
     /\ UNCHANGED counters
  \/ mode = "stats" /\ ~Bound /\ k \in nosigpipe /\ UNCHANGED stats

KidEvent(k) ==
  /\ kid[k] = "event"
  /\ \/ /\ StatsEvent(k, "tcp_accept")
        /\ kid' = [kid EXCEPT ![k] = "serving"]
        /\ UNCHANGED <<ireq, armed, nosigpipe, pending, pid_file, net>>
     \/ /\ mode = "stats" /\ ~Bound /\ k \notin nosigpipe
        /\ KidGone(k)
        /\ UNCHANGED <<pid_file, stats>>
  /\ KidUnchanged

\* dcc_service_job(): the client is refused, or dcc_run_job() starts.
KidServe(k) ==
  /\ kid[k] = "serving"
  /\ \/ NextRequest(k)
     \/ /\ kid' = [kid EXCEPT ![k] = "compiling"]
        /\ nosigpipe' = nosigpipe \cup {k}
        /\ UNCHANGED <<ireq, armed, pending, pid_file, net>>
  /\ KidUnchanged
  /\ UNCHANGED stats

\* The job ends in one way or another; a compiler that cannot be executed leaves
\* through dcc_exit() in the process forked for it.
KidCompiled(k) ==
  /\ kid[k] = "compiling"
  /\ kid' = [kid EXCEPT ![k] = "result"]
  /\ \/ UNCHANGED pid_file
     \/ AtExit
  /\ KidUnchanged
  /\ UNCHANGED <<ireq, armed, nosigpipe, pending, net, stats>>

KidResult(k) ==
  /\ kid[k] = "result"
  /\ \E e \in Outcome : StatsEvent(k, e)
  /\ NextRequest(k)
  /\ KidUnchanged

\* A mutant of KidAlarm: the handler takes a child for the daemon.
KidAlarmAsParent(k) ==
  /\ k \in armed
  /\ KidGone(k)
  /\ pid_file' = 0
  /\ KidUnchanged
  /\ UNCHANGED stats

\* SIGALRM: the job took too long.
KidAlarm(k) ==
  /\ k \in armed
  /\ KidGone(k)
  /\ KidUnchanged
  /\ UNCHANGED <<pid_file, stats>>

\* SIGTERM from the daemon.
KidSignalled(k) ==
  /\ k \in pending
  /\ KidGone(k)
  /\ KidUnchanged
  /\ UNCHANGED <<pid_file, stats>>

\* A connection arrives.
Connect ==
  /\ arrived < MaxConnections
  /\ Bound \/ \E k \in Kids : Live(k)
  /\ arrived' = arrived + 1
  /\ backlog' = backlog + 1
  /\ UNCHANGED <<options, pc, gen, pid, dcc_nkids, http, kids, stats>>

ParentStep ==
  \/ Listen \/ Detach \/ CatchSignals \/ SetMasterPid \/ CreateKids \/ CountKid
  \/ ReapKids \/ ReapMore \/ ListenStats \/ Select \/ NoforkAccept \/ NoforkServe
  \/ TerminateRemovePid \/ TerminateKill

KidStep(k) ==
  \/ KidEvent(k) \/ KidServe(k) \/ KidCompiled(k) \/ KidResult(k)

Next ==
  \/ StartDaemon \/ ParentStep \/ SavePid \/ Terminate \/ KillParent \/ Connect
  \/ \E k \in Kids : KidAccept(k) \/ KidAcceptFails(k)
  \/ \E k \in Kids : KidStep(k) \/ KidAlarm(k) \/ KidSignalled(k)

Spec == Init /\ [][Next]_vars

\* Processes that can run do run, pending signals are delivered, jobs end, and
\* accept() does not fail for ever.
FairSpec ==
  /\ Spec
  /\ WF_vars(ParentStep)
  /\ SF_vars(\E k \in Kids : KidAccept(k))
  /\ \A k \in Kids : WF_vars(KidStep(k)) /\ WF_vars(KidSignalled(k))

-----------------------------------------------------------------------------
(***************************************************************************)
(* dcc_nkids counts the children that exist, also the dead ones that are   *)
(* not collected, whatever happens between fork() and the increment and    *)
(* whichever children an earlier daemon left behind.                       *)
(***************************************************************************)
KidsCounted ==
  pc \in Loop =>
    dcc_nkids + (IF pc = "forked" THEN 1 ELSE 0) = Cardinality({k \in Kids : kid[k] # "free"})

(***************************************************************************)
(* --jobs limits the jobs that can be accepted at any time                 *)
(* (distccd.1:114): no more processes than that serve a job or are ready   *)
(* to accept one, also after the daemon crashed and was started again,     *)
(* while the children of the dead one keep the port.                       *)
(***************************************************************************)
JobsWithinLimit == Cardinality({k \in Kids : Live(k)}) <= MaxKids

(***************************************************************************)
(* A daemon that detached has its pid in the pid file while it serves      *)
(* (distccd.1:101), although its children come and go.                     *)
(***************************************************************************)
PidFileWhileServing == detach /\ pc \in Loop /\ ~launcher => pid_file = gen

(***************************************************************************)
(* The statistics never count more outcomes than connections: a child      *)
(* reports the connection first and the pipe keeps the order.              *)
(***************************************************************************)
OutcomesWithinAccepts ==
  counters["compile_ok"] + counters["other"] <= counters["tcp_accept"]

(***************************************************************************)
(* A connection is not left waiting: a child, its replacement, or nobody   *)
(* but the kernel answers it.                                              *)
(***************************************************************************)
ConnectionsAnswered == backlog > 0 ~> backlog = 0

(***************************************************************************)
(* A signal that ends the daemon in its main loop ends its children, those *)
(* forked a moment ago included.                                           *)
(***************************************************************************)
TermEndsKids == pc = "terminated" ~> \A k \in Kids : ~Live(k)

(***************************************************************************)
(* The pool is filled again after children died.                           *)
(***************************************************************************)
PoolRefilled ==
  pc \in Loop /\ mode # "nofork" /\ dcc_nkids < MaxKids
    ~> dcc_nkids = MaxKids \/ pc \notin Loop

(***************************************************************************)
(* The pool of children is what the parent takes it for: counted, within   *)
(* the limit, and reporting in order (prefork.c, dparent.c, stats.c).      *)
(***************************************************************************)
PoolIsSound == TypeOK /\ KidsCounted /\ JobsWithinLimit /\ OutcomesWithinAccepts

(***************************************************************************)
(* The pool goes on serving, also after all of its children died, until it *)
(* ends as a whole (dcc_manage_kids(), dcc_daemon_terminate()).            *)
(***************************************************************************)
PoolServes == ConnectionsAnswered /\ PoolRefilled /\ TermEndsKids
=============================================================================
