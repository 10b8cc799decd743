------------------------------ MODULE MCServer ------------------------------
(***************************************************************************)
(* The server beside its pool of processes, for model checking: access     *)
(* lists, the daemon from its options on, the process that counts what the *)
(* children report, the directories of a job and those of the clients, and *)
(* a child with its client.                                                *)
(* The parts share no variable; a behaviour is one of a single part.       *)
(***************************************************************************)
EXTENDS Access, Startup, Stats, TempDirs, ServeJob

VARIABLE part
mcVars == <<part, accessVars, startVars, statsVars, tempVars, jobVars>>

(* access lists: addresses of one byte, and of two bytes *)
V6 == {<<i, j>> : i, j \in 0 .. 3}
MCPeers == {[family |-> "inet", value |-> v] : v \in 0 .. 3} \cup {[family |-> "inet6", value |-> v] : v \in V6}
           \cup {[family |-> "none", value |-> 0]}
MCSpecs == {[family |-> "inet", value |-> v, bits |-> b] : v \in {0, 2, 3}, b \in -1 .. 3}
   \cup {[family |-> "inet6", value |-> v, bits |-> b] : v \in {<<0, 0>>, <<1, 2>>, <<2, 3>>}, b \in -2 .. 5}

(* the options of the daemon *)
Given(n, a) == [name |-> n, arg |-> a]
MCOptions ==
  {Given(n, "") : n \in {"help", "unknown", "auth", "daemon", "inetd", "no-detach", "log-stderr",
                         "verbose", "wizard"}}
  \cup {Given("allow", "ok"), Given("allow", "bad"), Given("blacklist", "b"),
        Given("whitelist", "w"), Given("user", "root"), Given("user", "nosuch"),
        Given("log-file", "ok"), Given("log-file", "bad")}
  \cup {Given("jobs", 0), Given("jobs", 200), Given("jobs", 201), Given("job-lifetime", -1),
        Given("lifetime", 5), Given("log-level", -1), Given("log-level", 2), Given("log-level", 4)}
MCPasswd == [u \in {"root", "distcc"} |-> IF u = "root" THEN 0 ELSE 7]

(* the names in a job: below its directory, and through links that it holds *)
Below(s) == <<"job">> \o s
MCCwds == {Below(<<"w">>), Below(<<"d", "e">>)}
MCFileNames ==
  {Below(p) : p \in {<<"a">>, <<"d", "a">>, <<"d", "e", "b">>, <<"l", "a">>, <<"l", "e", "c">>, <<"a", "b">>}}
MCLinkNames == {Below(<<"l">>), Below(<<"d", "l">>)}
MCLinkTargets == {Below(<<"d">>), Below(<<"x">>)}

-----------------------------------------------------------------------------
MCInit ==
  /\ part \in {"access", "start", "stats", "temp", "dirs", "job"}
  /\ AccessInit /\ (part # "access" => peer.family = "none")
  /\ StartInit
  /\ part # "start" => who = "distcc" /\ priv.uid = 1000 /\ priv.euid = 1000 /\ ~priv.stdin_socket
  /\ StatsInit
  /\ TempInit /\ (part # "dirs" => made = {} /\ topdir = "HOME")
  /\ JobInit /\ (part # "job" => version = 1)

InAccess(step) ==
  /\ part = "access" /\ step
  /\ UNCHANGED <<part, startVars, statsVars, tempVars, jobVars>>
InStartup(step) ==
  /\ part = "start" /\ step
  /\ UNCHANGED <<part, accessVars, statsVars, tempVars, jobVars>>
InStats(step) ==
  /\ part = "stats" /\ step
  /\ UNCHANGED <<part, accessVars, startVars, tempVars, jobVars>>
InTemp(step) ==
  /\ part = "temp" /\ step
  /\ UNCHANGED <<part, accessVars, startVars, statsVars, jobVars>>
InDirs(step) ==
  /\ part = "dirs" /\ step
  /\ UNCHANGED <<part, accessVars, startVars, statsVars, jobVars>>
InServing(step) ==
  /\ part = "job" /\ step
  /\ UNCHANGED <<part, accessVars, startVars, statsVars, tempVars>>

MCNext ==
  \/ InAccess(AccessNext) \/ InStartup(StartNext) \/ InStats(StatsNext)
  \/ InTemp(TreeNext) \/ InDirs(ClientDirsNext) \/ InServing(JobNext)

MCSafety == MCInit /\ [][MCNext]_mcVars

(* The processes run; a wait that lasts ends in the client's timeout. *)
MCSpec ==
  /\ MCSafety
  /\ WF_jobVars(part = "job" /\ ClientStep) /\ WF_jobVars(part = "job" /\ ServerStep)
  /\ WF_jobVars(part = "job" /\ CompilerEnds)
=============================================================================
