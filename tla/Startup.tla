------------------------------ MODULE Startup ------------------------------
(***************************************************************************)
(* How the two programs start and where their messages go: the options of  *)
(* distccd (dopt.c), its main() up to the first job (daemon.c, setuid.c,   *)
(* the first half of dparent.c), the list of loggers (trace.c), the log of *)
(* a job (serve.c), and the client's log and error mail (traceenv.c,       *)
(* emaillog.c).  Options are read by popt, one at a time.                  *)
(***************************************************************************)
EXTENDS Integers, Sequences, SequencesExt, FiniteSets

CONSTANTS
  CommandOptions,  \* options of distccd: records with a name and an argument
  MaxOptions,      \* bound: options of one command
  MaxServed,       \* bound: jobs of one process
  Passwd,          \* the uids of known users
  LogFds           \* descriptors the programs may open

VARIABLES
  who,             \* "distcc" or "distccd"
  pc,
  opt,             \* the options read so far
  priv,            \* real and effective uid, groups
  loggers,         \* logger_list
  trace_level,
  fds,             \* open descriptors
  job_log,         \* dcc_compile_log_fd
  served,
  armed,           \* a SIGALRM is due
  sighup,          \* "default", "ignored" or "terminate"
  mail             \* emaillog.c: never, wanted, fd, sent; and cleanups run
startVars == <<who, pc, opt, priv, loggers, trace_level, fds, job_log, served, armed, sighup, mail>>

WARNING == 4
INFO == 6
DEBUG == 7
STDERR == 2
NoFd == -1
Exit(code) == pc' = code
FreeFd == Min(LogFds \ fds)
MayOpen == LogFds \ fds # {}

(***************************************************************************)
(* trace.c: the newest logger is first                                     *)
(***************************************************************************)
AddLogger(list, fn, level, fd) == <<[fn |-> fn, level |-> level, fd |-> fd]>> \o list
RemoveLogger(list, logger) ==
  LET at == {i \in DOMAIN list : list[i] = logger} IN
  IF at = {} THEN list ELSE RemoveAt(list, Min(at))

(***************************************************************************)
(* distccd_parse_options()                                                 *)
(***************************************************************************)
NoOptions == [allowed |-> 0, auth |-> FALSE, blacklist |-> FALSE, whitelist |-> FALSE, list_file |-> "none",
              jobs |-> 0, daemon |-> FALSE, inetd |-> FALSE, lifetime |-> 0, job_lifetime |-> 0, log_file |-> "none",
              level |-> 5, log_stderr |-> FALSE, no_detach |-> FALSE, no_fork |-> FALSE, user |-> "distcc", count |-> 0]
Unpriv == priv.uid # 0 /\ priv.euid # 0
(* What one option does: the options after it, or an exit code *)
TakeDaemonOption(o) ==
  LET Set(r) == [ret |-> "ok", opt |-> r]
      Stop(code) == [ret |-> code, opt |-> opt] IN
  CASE o.name \in {"help", "version", "show-principal"} -> Stop("0")
    [] o.name = "allow" -> IF o.arg = "bad" THEN Stop("EXIT_BAD_ARGUMENTS") ELSE Set([opt EXCEPT !.allowed = @ + 1])
    [] o.name = "auth" -> Set([opt EXCEPT !.auth = TRUE])
    [] o.name = "blacklist" -> IF opt.whitelist THEN Stop("EXIT_BAD_ARGUMENTS")
                               ELSE Set([opt EXCEPT !.blacklist = TRUE, !.list_file = o.arg])
    [] o.name = "whitelist" -> IF opt.blacklist THEN Stop("EXIT_BAD_ARGUMENTS")
                               ELSE Set([opt EXCEPT !.whitelist = TRUE, !.list_file = o.arg])
    [] o.name = "jobs" -> IF o.arg < 1 \/ o.arg > 200 THEN Stop("EXIT_BAD_ARGUMENTS") ELSE Set([opt EXCEPT !.jobs = o.arg])
    [] o.name = "job-lifetime" -> Set([opt EXCEPT !.job_lifetime = IF o.arg < 0 THEN 0 ELSE o.arg])
    [] o.name = "lifetime" -> Set([opt EXCEPT !.lifetime = o.arg])
    [] o.name = "daemon" -> Set([opt EXCEPT !.daemon = TRUE])
    [] o.name = "inetd" -> Set([opt EXCEPT !.inetd = TRUE])
    [] o.name = "no-detach" -> Set([opt EXCEPT !.no_detach = TRUE])
    [] o.name = "log-file" -> Set([opt EXCEPT !.log_file = o.arg])
    [] o.name = "log-stderr" -> Set([opt EXCEPT !.log_stderr = TRUE])
    [] o.name = "log-level" -> IF o.arg = -1 THEN Set(opt) ELSE Set([opt EXCEPT !.level = o.arg])
    [] o.name = "verbose" -> Set([opt EXCEPT !.level = DEBUG])
    [] o.name = "user" -> Set([opt EXCEPT !.user = o.arg])
    [] o.name = "wizard" -> Set([opt EXCEPT !.log_stderr = TRUE, !.daemon = TRUE, !.no_detach = TRUE,
                                            !.no_fork = TRUE, !.level = DEBUG])
    [] OTHER -> Stop("EXIT_BAD_ARGUMENTS")
ParseOption ==
  /\ who = "distccd" /\ pc = "options" /\ opt.count < MaxOptions
  /\ \E o \in CommandOptions :
       LET r == TakeDaemonOption(o) IN
       /\ opt' = [r.opt EXCEPT !.count = @ + 1]
       /\ Exit(IF r.ret = "ok" THEN "options" ELSE r.ret)
       /\ trace_level' = IF o.name \in {"verbose", "wizard"} \/ (o.name = "log-level" /\ o.arg # -1)
                           THEN r.opt.level ELSE trace_level
  /\ UNCHANGED <<who, priv, loggers, fds, job_log, served, armed, sighup, mail>>

(***************************************************************************)
(* main() of the daemon                                                    *)
(***************************************************************************)
(* dcc_should_be_inetd() *)
Inetd == opt.inetd \/ (~opt.daemon /\ priv.stdin_socket)
(* The list of clients is mandatory for a daemon; dcc_set_lifetime(). *)
CheckOptions ==
  /\ who = "distccd" /\ pc = "options"
  /\ IF ~Inetd /\ opt.allowed = 0 THEN Exit("EXIT_BAD_ARGUMENTS") /\ UNCHANGED armed
     ELSE Exit("setuid") /\ armed' = (opt.lifetime # 0)
  /\ UNCHANGED <<who, opt, priv, loggers, trace_level, fds, job_log, served, sighup, mail>>

(* dcc_discard_root(): any of the three calls may fail; what they have done
   is looked at again.  dcc_preferred_user() gives the user. *)
DiscardRoot ==
  /\ pc = "setuid"
  /\ LET user == IF opt.user \in DOMAIN Passwd THEN Passwd[opt.user]
                 ELSE IF "nobody" \in DOMAIN Passwd THEN Passwd["nobody"] ELSE 65534 IN
     \/ Unpriv /\ Exit("log") /\ UNCHANGED priv
     \/ ~Unpriv /\ Exit("EXIT_SETUID_FAILED") /\ UNCHANGED priv
     \/ /\ ~Unpriv /\ priv.euid = 0
        /\ priv' = [priv EXCEPT !.uid = user, !.euid = user, !.groups = {user}]
        /\ Exit(IF user = 0 THEN "EXIT_SETUID_FAILED" ELSE "log")
  /\ UNCHANGED <<who, opt, loggers, trace_level, fds, job_log, served, armed, sighup, mail>>

(* dcc_setup_real_log() *)
SetupRealLog ==
  /\ pc = "log"
  /\ \/ /\ opt.log_stderr
        /\ loggers' = AddLogger(<<>>, "file", opt.level, STDERR) /\ UNCHANGED fds
     \/ /\ ~opt.log_stderr /\ opt.log_file = "ok" /\ MayOpen
        /\ loggers' = AddLogger(<<>>, "file", opt.level, FreeFd) /\ fds' = fds \cup {FreeFd}
     \/ /\ ~opt.log_stderr /\ (opt.log_file # "ok" \/ ~MayOpen)
        /\ loggers' = AddLogger(<<>>, "syslog", opt.level, NoFd) /\ UNCHANGED fds
  /\ Exit("prepare")
  /\ UNCHANGED <<who, opt, priv, trace_level, job_log, served, armed, sighup, mail>>
(* dcc_gssapi_acquire_credentials(): no DISTCCD_PRINCIPAL, a name that is not
   understood, no credentials for it; dcc_gssapi_obtain_list() fails likewise *)
CredentialsMissing == opt.auth /\ Exit("EXIT_GSSAPI_FAILED")
(* The temporary directory, the PATH, credentials and lists of principals:
   each may end the program. *)
Prepare ==
  /\ pc = "prepare"
  /\ \/ Exit(IF Inetd THEN "serving" ELSE "detach")
     \/ Exit("EXIT_IO_ERROR")
     \/ CredentialsMissing
  /\ UNCHANGED <<who, opt, priv, loggers, trace_level, fds, job_log, served, armed, sighup, mail>>

(* the child that goes on has no alarm *)
Detach_NoLifetime ==
  /\ pc = "detach"
  /\ IF opt.no_detach THEN UNCHANGED <<armed, sighup>>
     ELSE armed' = FALSE /\ sighup' = "ignored"
  /\ Exit("catch")
  /\ UNCHANGED <<who, opt, priv, loggers, trace_level, fds, job_log, served, mail>>
(* dcc_detach(): fork() cancels the alarm in the child, which sets it again;
   descriptors 0 to 2 become /dev/null and stay open. *)
Detach ==
  /\ pc = "detach"
  /\ IF opt.no_detach THEN UNCHANGED <<armed, sighup>>
     ELSE armed' = (opt.lifetime # 0) /\ sighup' = "ignored"
  /\ Exit("catch")
  /\ UNCHANGED <<who, opt, priv, loggers, trace_level, fds, job_log, served, mail>>
(* dcc_daemon_catch_signals() *)
CatchSignals ==
  /\ pc = "catch" /\ Exit("serving")
  /\ sighup' = "terminate"
  /\ UNCHANGED <<who, opt, priv, loggers, trace_level, fds, job_log, served, armed, mail>>

(***************************************************************************)
(* The log of a job                                                        *)
(***************************************************************************)
(* dcc_service_job(), dcc_add_log_to_file(): without a log the job goes on. *)
AddLogToJob ==
  /\ pc = "serving" /\ served < MaxServed
  /\ \/ /\ MayOpen
        /\ job_log' = FreeFd /\ fds' = fds \cup {FreeFd}
        /\ loggers' = AddLogger(loggers, "file", WARNING, FreeFd)
     \/ UNCHANGED <<job_log, fds, loggers>>
  /\ Exit("job") /\ served' = served + 1
  /\ UNCHANGED <<who, opt, priv, trace_level, armed, sighup, mail>>
(* dcc_remove_log_to_file(); dcc_inetd_server() ends after one job. *)
RemoveLogToJob ==
  /\ pc = "job"
  /\ IF job_log = NoFd THEN UNCHANGED <<loggers, fds, job_log>>
     ELSE /\ loggers' = RemoveLogger(loggers, [fn |-> "file", level |-> WARNING, fd |-> job_log])
          /\ fds' = fds \ {job_log} /\ job_log' = NoFd
  /\ Exit(IF Inetd THEN "0" ELSE "serving")
  /\ UNCHANGED <<who, opt, priv, trace_level, served, armed, sighup, mail>>

(***************************************************************************)
(* The client                                                              *)
(***************************************************************************)
(* dcc_set_trace_from_env(): the file of DISTCC_LOG, or standard error *)
SetTraceFromEnv ==
  /\ who = "distcc" /\ pc = "trace"
  /\ trace_level' = DEBUG
  /\ \E verbose \in BOOLEAN :
       \/ /\ MayOpen
          /\ loggers' = AddLogger(loggers, "file", IF verbose THEN DEBUG ELSE INFO, FreeFd)
          /\ fds' = fds \cup {FreeFd}
       \/ /\ loggers' = AddLogger(loggers, "file", IF verbose THEN DEBUG ELSE WARNING, STDERR)
          /\ UNCHANGED fds
  /\ Exit("mail")
  /\ UNCHANGED <<who, opt, priv, job_log, served, armed, sighup, mail>>
(* dcc_setup_log_email() *)
SetupLogEmail ==
  /\ pc = "mail"
  /\ \/ mail' = [mail EXCEPT !.never = TRUE] /\ UNCHANGED <<loggers, fds>>
     \/ /\ MayOpen
        /\ mail' = [mail EXCEPT !.fd = FreeFd] /\ fds' = fds \cup {FreeFd}
        /\ loggers' = AddLogger(loggers, "file", DEBUG, FreeFd)
     \/ UNCHANGED <<mail, loggers, fds>>
  /\ Exit("build")
  /\ UNCHANGED <<who, opt, priv, trace_level, job_log, served, armed, sighup>>
(* dcc_build_somewhere(): the results differ (dcc_please_send_email()) or not *)
BuildOnce ==
  /\ pc = "build"
  /\ \E differ \in BOOLEAN : mail' = [mail EXCEPT !.wanted = differ]
  /\ Exit("send")
  /\ UNCHANGED <<who, opt, priv, loggers, trace_level, fds, job_log, served, armed, sighup>>
(* dcc_maybe_send_email() and dcc_exit(): the mailer's process ends with
   _exit() when it cannot become /bin/mail. *)
MaybeSendEmail ==
  /\ pc = "send"
  /\ Exit("0")
  /\ IF ~mail.wanted \/ mail.never \/ mail.fd = NoFd THEN mail' = [mail EXCEPT !.cleanups = @ + 1]
     ELSE \E sent \in BOOLEAN : mail' = [mail EXCEPT !.sent = sent, !.cleanups = @ + 1]
  /\ UNCHANGED <<who, opt, priv, loggers, trace_level, fds, job_log, served, armed, sighup>>

(* dcc_setup_startup_log(): a socket on standard error is not written to. *)
StartInit ==
  /\ who \in {"distcc", "distccd"}
  /\ opt = NoOptions
  /\ priv \in [uid : {0, 1000}, euid : {0, 1000}, groups : {{0, 1000}}, stdin_socket : BOOLEAN]
  /\ fds = {0, 1, STDERR} /\ job_log = NoFd /\ served = 0
  /\ armed = FALSE /\ sighup = "default"
  /\ mail = [never |-> FALSE, wanted |-> FALSE, fd |-> NoFd, sent |-> FALSE, cleanups |-> 0]
  /\ IF who = "distcc" THEN pc = "trace" /\ loggers = <<>> /\ trace_level = WARNING
     ELSE /\ pc = "options" /\ trace_level = INFO
          /\ loggers = IF priv.stdin_socket THEN AddLogger(<<>>, "syslog", DEBUG, NoFd)
                       ELSE AddLogger(<<>>, "file", DEBUG, STDERR)
StartNext ==
  \/ ParseOption \/ CheckOptions \/ DiscardRoot \/ SetupRealLog \/ Prepare \/ Detach \/ CatchSignals
  \/ AddLogToJob \/ RemoveLogToJob
  \/ SetTraceFromEnv \/ SetupLogEmail \/ BuildOnce \/ MaybeSendEmail

(***************************************************************************)
(* Properties                                                              *)
(***************************************************************************)
(* No job is served with any of root's identities, whatever --user names and
   whichever call fails; a daemon on the network has a list of clients; and
   not both lists of principals are in force.
   (dcc_discard_root(), main(), distccd_parse_options()) *)
ServesUnprivileged ==
  who = "distccd" /\ pc \in {"serving", "job"} =>
    Unpriv /\ (Inetd \/ opt.allowed > 0) /\ ~(opt.blacklist /\ opt.whitelist)

(* Between jobs a serving process has exactly the log it set up, every logger
   writes to an open descriptor, and no descriptor of an earlier job is left
   open: the log of a job leaves nothing behind, whether it was opened or not.
   (dcc_setup_real_log(), dcc_add_log_to_file(), dcc_remove_log_to_file()) *)
JobLogLeavesNothing ==
  /\ \A i \in DOMAIN loggers : loggers[i].fn = "file" => loggers[i].fd \in fds
  /\ pc = "serving" =>
       /\ Len(loggers) = 1
       /\ fds \ {0, 1, STDERR} = {loggers[1].fd} \ {NoFd, STDERR}

(* A daemon with a limited lifetime has an alarm due whenever it serves, also
   after it has detached.  (dcc_set_lifetime(), dcc_detach()) *)
LifetimeStaysArmed == who = "distccd" /\ pc \in {"serving", "job"} => armed = (opt.lifetime # 0)

(* The exit handlers of a client run once, also when the mailer cannot be
   started; a mail is only sent when the results differed, mail is enabled and
   its log could be opened.  (dcc_maybe_send_email(), dcc_setup_log_email()) *)
MailEndsCleanly ==
  /\ mail.cleanups = IF who = "distcc" /\ pc = "0" THEN 1 ELSE 0
  /\ mail.sent => mail.wanted /\ ~mail.never /\ mail.fd \in fds

(* A daemon serves without privileges, with its alarm set and with nothing left
   of earlier jobs; a client ends once, with a mail or without.
   (daemon.c, dparent.c, emaillog.c) *)
ProgramsInOrder == ServesUnprivileged /\ JobLogLeavesNothing /\ LifetimeStaysArmed /\ MailEndsCleanly
=============================================================================
