---------------------------- MODULE IncludeServer ----------------------------
(***************************************************************************)
(* The life of include servers and of the pump scripts that start and stop *)
(* them (pump.in, include_server/include_server.py, basics.py), and the    *)
(* distcc clients that ask them (src/include_server_if.c).  Several pump   *)
(* scripts on one machine share the directory of the client roots.  What   *)
(* an answer contains is the matter of IncludeAnalysis and MirrorFarm;     *)
(* here it names a client root.                                            *)
(***************************************************************************)
EXTENDS Integers, Sequences

CONSTANTS
  Pumps,            \* the pump scripts, each with its include server
  PumpOf,           \* function from a client to the pump it runs under
  opt_email_bound   \* messages a server sends

Askers == DOMAIN PumpOf

ASSUME IncludeAssumption == PumpOf \in [Askers -> Pumps] /\ opt_email_bound \in Nat

VARIABLES
  pump,             \* pump script: where it is
  pump_files,       \* pump script: its temporary files
  knows_pid,        \* pump script: $include_server_pid is set
  parent,           \* the process that pump runs: "none", "acquire" or "gone"
  port_ready,       \* _IncludeServerPortReady: a byte is in the pipe
  server,           \* the forked process
  term,             \* a SIGTERM is on its way to it
  port,             \* the socket file is there
  backlog,          \* connections not yet accepted
  client_tmp,       \* client roots: pairs of server and generation
  lost,             \* servers that ended without cleaning out
  asking            \* the clients
pumpVars == <<pump, pump_files, knows_pid, parent, port_ready>>
serverVars == <<server, term, port, backlog, client_tmp, lost>>
includeVars == <<pumpVars, serverVars, asking>>

NoServer == [at |-> "none", generation |-> 0, timer |-> FALSE, endless |-> FALSE,
             client |-> <<>>, outcome |-> "none", number_sent |-> 0]
Alive(p) == server[p].at \notin {"none", "dead"}
Serving(p) == server[p].at \in {"up", "reading", "analysing", "replying"}
Moved(p, at) == [server EXCEPT ![p].at = at]
RootsOf(p) == {r \in client_tmp : r[1] = p}

(* the end of a process closes its connections; the client reads nothing *)
Closed(p) ==
  [c \in Askers |-> IF PumpOf[c] = p /\ asking[c].at \in {"connected", "sent"}
                    THEN [asking[c] EXCEPT !.at = "refused"] ELSE asking[c]]
Dies(p) == server' = [server EXCEPT ![p] = [NoServer EXCEPT !.at = "dead"]]

(***************************************************************************)
(* pump.in                                                                 *)
(***************************************************************************)
(* StartIncludeServer(), up to the include server's fork; with wrong
   arguments it does not fork. *)
PumpStarts(p) ==
  /\ pump[p] = "start"
  /\ pump' = [pump EXCEPT ![p] = "startup"]
  /\ pump_files' = [pump_files EXCEPT ![p] = {"socket_dir", "tmp_pid_file"}]
  /\ \/ /\ parent' = [parent EXCEPT ![p] = "gone"] /\ UNCHANGED server
     \/ /\ parent' = [parent EXCEPT ![p] = "acquire"] /\ server' = Moved(p, "setup")
  /\ UNCHANGED <<knows_pid, port_ready, term, port, backlog, client_tmp, lost, asking>>

(* include_server.py Main(), the parent *)
Acquire(p) ==
  /\ parent[p] = "acquire" /\ port_ready[p]
  /\ parent' = [parent EXCEPT ![p] = "gone"]
  /\ UNCHANGED <<pump, pump_files, knows_pid, port_ready, serverVars, asking>>

(* the rest of StartIncludeServer() *)
PumpChecks(p) ==
  /\ pump[p] = "startup" /\ parent[p] = "gone"
  /\ IF port[p]
     THEN /\ pump' = [pump EXCEPT ![p] = "build"]
          /\ pump_files' = [pump_files EXCEPT ![p] = @ \ {"tmp_pid_file"}]
          /\ knows_pid' = [knows_pid EXCEPT ![p] = TRUE]
     ELSE /\ pump' = [pump EXCEPT ![p] = "stopping"]
          /\ UNCHANGED <<pump_files, knows_pid>>
  /\ UNCHANGED <<parent, port_ready, serverVars, asking>>

BuildEnds(p) ==
  /\ pump[p] = "build"
  /\ \A c \in Askers : PumpOf[c] = p => asking[c].at \in {"idle", "refused", "done", "gone", "left"}
  /\ pump' = [pump EXCEPT ![p] = "stopping"]
  /\ UNCHANGED <<pump_files, knows_pid, parent, port_ready, serverVars, asking>>

(* ShutDown(): kill, wait until the server is dead, remove the files *)
PumpKills(p) ==
  /\ pump[p] = "stopping"
  /\ pump' = [pump EXCEPT ![p] = "waiting"]
  /\ term' = [term EXCEPT ![p] = knows_pid[p] /\ Alive(p)]
  /\ UNCHANGED <<pump_files, knows_pid, parent, port_ready, server, port, backlog,
                 client_tmp, lost, asking>>
PumpRemoves(p) ==
  /\ pump[p] = "waiting" /\ ~(knows_pid[p] /\ Alive(p))
  /\ pump' = [pump EXCEPT ![p] = "end"]
  /\ pump_files' = [pump_files EXCEPT ![p] = {}]
  /\ port' = [port EXCEPT ![p] = FALSE]
  /\ UNCHANGED <<knows_pid, parent, port_ready, server, term, backlog, client_tmp, lost, asking>>

(***************************************************************************)
(* include_server.py: set-up and end                                       *)
(***************************************************************************)
(* _SetUp() with ClientRootKeeper.CleanOutOthers(), and Release() *)
SetUp(p) ==
  /\ server[p].at = "setup"
  /\ client_tmp' = {r \in client_tmp : Alive(r[1])} \cup {<<p, 1>>}
  /\ server' = [Moved(p, "up") EXCEPT ![p].generation = 1]
  /\ port' = [port EXCEPT ![p] = TRUE]
  /\ port_ready' = [port_ready EXCEPT ![p] = TRUE]
  /\ UNCHANGED <<pump, pump_files, knows_pid, parent, term, backlog, lost, asking>>
(* an exception in _SetUp() is outside the try of Main(): before or after the
   client root is made *)
SetUpFails(p) ==
  /\ server[p].at = "setup"
  /\ \E made \in SUBSET {<<p, 1>>} :
       client_tmp' = {r \in client_tmp : Alive(r[1])} \cup made
  /\ Dies(p)
  /\ lost' = lost \cup {p}
  /\ UNCHANGED <<pumpVars, term, port, backlog, asking>>

(* the handlers of Main() with _CleanOut() *)
CleanOut(p) ==
  /\ server[p].at = "raised"
  /\ client_tmp' = client_tmp \ RootsOf(p)
  /\ port' = [port EXCEPT ![p] = FALSE]
  /\ Dies(p)
  /\ asking' = Closed(p)
  /\ backlog' = [backlog EXCEPT ![p] = <<>>]
  /\ UNCHANGED <<pumpVars, term, lost>>

(* RaiseSignalSIGTERM() wherever the server is; handle() raises it again *)
Sigterm(p) ==
  /\ term[p] /\ Serving(p)
  /\ term' = [term EXCEPT ![p] = FALSE]
  /\ server' = Moved(p, "raised")
  /\ UNCHANGED <<pumpVars, port, backlog, client_tmp, lost, asking>>
(* SIGKILL at any time, or a SIGTERM while a server that failed cleans out *)
ServerKilled(p) ==
  /\ \/ Serving(p) /\ UNCHANGED client_tmp
     \/ /\ term[p] /\ server[p].at = "raised"
        /\ \E left \in SUBSET RootsOf(p) : client_tmp' = (client_tmp \ RootsOf(p)) \cup left
  /\ term' = [term EXCEPT ![p] = FALSE]
  /\ Dies(p)
  /\ lost' = lost \cup {p}
  /\ asking' = Closed(p)
  /\ backlog' = [backlog EXCEPT ![p] = <<>>]
  /\ UNCHANGED <<pumpVars, port>>

(***************************************************************************)
(* include_server.py: IncludeHandler.handle()                              *)
(***************************************************************************)
Accept(p) ==
  /\ server[p].at = "up" /\ backlog[p] # <<>>
  /\ server' = [Moved(p, "reading") EXCEPT ![p].client = <<Head(backlog[p])>>]
  /\ backlog' = [backlog EXCEPT ![p] = Tail(@)]
  /\ UNCHANGED <<pumpVars, term, port, client_tmp, lost, asking>>

\* A mutant of ReadRequest: the timer is not started.
ReadRequest_NoTimer(p) ==
  /\ server[p].at = "reading"
  /\ \/ /\ asking[server[p].client[1]].at \in {"sent", "left"}
        /\ \E endless \in BOOLEAN :
             server' = [Moved(p, "analysing") EXCEPT ![p].endless = endless]
     \/ /\ asking[server[p].client[1]].at = "gone"
        /\ server' = Moved(p, "raised")
  /\ UNCHANGED <<pumpVars, term, port, backlog, client_tmp, lost, asking>>
(* RCwd() and RArgv(), outside the try of handle(), then the timer *)
ReadRequest(p) ==
  /\ server[p].at = "reading"
  /\ \/ /\ asking[server[p].client[1]].at \in {"sent", "left"}
        /\ \E endless \in BOOLEAN :
             server' = [Moved(p, "analysing") EXCEPT ![p].endless = endless, ![p].timer = TRUE]
     \/ /\ asking[server[p].client[1]].at = "gone"
        /\ server' = Moved(p, "raised")
  /\ UNCHANGED <<pumpVars, term, port, backlog, client_tmp, lost, asking>>

(* _EmailSender.TryToSend() *)
TryToSend(sent, force) == IF sent >= opt_email_bound /\ ~force THEN sent ELSE sent + 1

(* DoCompilationCommand(), how it ends, and the message about it: an endless
   analysis ends by _TimeIsUp(), which raises NotCoveredTimeOutError. *)
Analyse(p) ==
  /\ server[p].at = "analysing"
  /\ \E outcome \in {"files", "not_covered", "timeout", "exit", "internal"}, never \in BOOLEAN :
       /\ server[p].endless => server[p].timer
       /\ (outcome = "timeout") = server[p].endless
       /\ never => outcome = "not_covered"
       /\ server' = [server EXCEPT ![p].at = "replying", ![p].timer = FALSE, ![p].endless = FALSE,
                       ![p].outcome = outcome,
                       ![p].number_sent =
                         IF outcome = "files" \/ never THEN @
                         ELSE TryToSend(@, outcome \in {"exit", "internal"})]
  /\ UNCHANGED <<pumpVars, term, port, backlog, client_tmp, lost, asking>>

\* A mutant of NewRoots: clearing the caches removes the root of the old ones.
NewRoots_Replaces(p) == (client_tmp \ RootsOf(p)) \cup {<<p, server[p].generation + 1>>}
(* ClearStatCaches(): a new generation *)
NewRoots(p) == client_tmp \cup {<<p, server[p].generation + 1>>}

(* XArgv() and the ends of handle(); a client that is gone is an exception
   that no handler of handle() catches. *)
Reply(p) ==
  LET c == server[p].client[1]
      outcome == server[p].outcome
      done == [server[p] EXCEPT !.client = <<>>, !.outcome = "none"]
      to(at, generation) == [server EXCEPT ![p] = [done EXCEPT !.at = at, !.generation = generation]]
      files == [at |-> "using", root |-> <<p, server[p].generation>>]
  IN /\ server[p].at = "replying"
     /\ asking' = IF asking[c].at # "sent" THEN asking
                  ELSE [asking EXCEPT ![c] = IF outcome = "files" THEN files
                                             ELSE [@ EXCEPT !.at = "refused"]]
     /\ IF asking[c].at # "sent" \/ outcome \in {"exit", "internal"}
        THEN server' = to("raised", server[p].generation) /\ UNCHANGED client_tmp
        ELSE IF outcome = "timeout"
        THEN server' = to("up", server[p].generation + 1) /\ client_tmp' = NewRoots(p)
        ELSE server' = to("up", server[p].generation) /\ UNCHANGED client_tmp
  /\ UNCHANGED <<pumpVars, term, port, backlog, lost>>

(***************************************************************************)
(* src/include_server_if.c: dcc_talk_to_include_server()                   *)
(***************************************************************************)
ClientConnects(c) ==
  LET p == PumpOf[c] IN
  /\ asking[c].at = "idle" /\ pump[p] = "build"
  /\ IF port[p] /\ Alive(p)
     THEN /\ asking' = [asking EXCEPT ![c].at = "connected"]
          /\ backlog' = [backlog EXCEPT ![p] = Append(@, c)]
     ELSE /\ asking' = [asking EXCEPT ![c].at = "refused"]
          /\ UNCHANGED backlog
  /\ UNCHANGED <<pumpVars, server, term, port, client_tmp, lost>>
ClientSends(c) ==
  /\ asking[c].at = "connected"
  /\ asking' = [asking EXCEPT ![c].at = "sent"]
  /\ UNCHANGED <<pumpVars, serverVars>>
(* the files have been sent to the compile server *)
ClientDone(c) ==
  /\ asking[c].at = "using"
  /\ asking' = [asking EXCEPT ![c] = [at |-> "done", root |-> <<>>]]
  /\ UNCHANGED <<pumpVars, serverVars>>
(* the compilation is interrupted, before or after the command is sent *)
ClientKilled(c) ==
  /\ asking[c].at \in {"connected", "sent", "using"}
  /\ asking' = [asking EXCEPT ![c] =
                  [at |-> IF @.at = "sent" THEN "left" ELSE "gone", root |-> <<>>]]
  /\ UNCHANGED <<pumpVars, serverVars>>

IncludeInit ==
  /\ pump = [p \in Pumps |-> "start"]
  /\ pump_files = [p \in Pumps |-> {}]
  /\ knows_pid = [p \in Pumps |-> FALSE]
  /\ parent = [p \in Pumps |-> "none"]
  /\ port_ready = [p \in Pumps |-> FALSE]
  /\ server = [p \in Pumps |-> NoServer]
  /\ term = [p \in Pumps |-> FALSE]
  /\ port = [p \in Pumps |-> FALSE]
  /\ backlog = [p \in Pumps |-> <<>>]
  /\ client_tmp = {}
  /\ lost = {}
  /\ asking = [c \in Askers |-> [at |-> "idle", root |-> <<>>]]

PumpStep(p) == PumpChecks(p) \/ PumpKills(p) \/ PumpRemoves(p)
ServerStep(p) == SetUp(p) \/ CleanOut(p) \/ Sigterm(p) \/ Accept(p) \/ ReadRequest(p)
                   \/ Analyse(p) \/ Reply(p)
IncludeNext ==
  \/ \E p \in Pumps : \/ PumpStarts(p) \/ Acquire(p) \/ BuildEnds(p) \/ PumpStep(p)
                      \/ ServerStep(p) \/ SetUpFails(p) \/ ServerKilled(p)
  \/ \E c \in Askers : ClientConnects(c) \/ ClientSends(c) \/ ClientDone(c) \/ ClientKilled(c)
IncludeSpec == IncludeInit /\ [][IncludeNext]_includeVars

-----------------------------------------------------------------------------
(* basics.py ClientRootKeeper, include_analyzer.py ClearStatCaches(): the
   files of an answer stay where the client was told they are while the
   server lives, though later requests make it start over in a new root. *)
AnsweredFilesStay ==
  \A c \in Askers : asking[c].at = "using" /\ Serving(PumpOf[c]) => asking[c].root \in client_tmp

(* basics.py CleanOutOthers(): no start of another include server takes the
   client root from one that serves. *)
OthersAreSpared ==
  \A p \in Pumps : Serving(p) => <<p, server[p].generation>> \in client_tmp

(* pump.in ShutDown(), include_server.py _CleanOut(): when pump ends, its files,
   the socket and all client roots are gone, whatever the server was doing;
   unless the server died in its set-up or while it cleaned out. *)
NothingLeftOfPump ==
  \A p \in Pumps : pump[p] = "end" =>
    /\ pump_files[p] = {} /\ ~port[p] /\ ~(knows_pid[p] /\ Alive(p))
    /\ RootsOf(p) = {} \/ p \in lost

(* include_server.py handle(): every client that connects gets an answer or
   the end of the connection, whatever the analysis runs into. *)
ClientsAreAnswered ==
  \A c \in Askers : asking[c].at \in {"connected", "sent"}
                      ~> asking[c].at \notin {"connected", "sent"}

(* pump.in: pump gets past the start of its server unless the set-up of the
   server fails, and past its end. *)
PumpMovesOn ==
  \A p \in Pumps :
    /\ pump[p] = "startup" ~> (pump[p] # "startup" \/ server[p].at = "dead")
    /\ pump[p] = "stopping" ~> pump[p] = "end"

(* A client root is there as long as its server serves, whatever other servers
   do, and no longer than its pump.  (basics.py ClientRootKeeper, pump.in) *)
RootsComeAndGo == AnsweredFilesStay /\ OthersAreSpared /\ NothingLeftOfPump

(* Neither a client nor pump waits for ever.  (include_server.py handle(),
   pump.in) *)
NobodyIsStuck == ClientsAreAnswered /\ PumpMovesOn
=============================================================================
