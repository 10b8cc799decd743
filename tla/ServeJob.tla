----------------------------- MODULE ServeJob ------------------------------
(***************************************************************************)
(* One compilation over the wire: the client's dcc_compile_remote() and    *)
(* dcc_retrieve_results() (remote.c, clirpc.c) against the server's        *)
(* dcc_run_job() (serve.c, srvrpc.c), with the token protocol (rpc.c,      *)
(* bulk.c), the temporary files of the server and their cleanup            *)
(* (tempfile.c, cleanup.c), and the compiler it runs (exec.c).             *)
(*                                                                         *)
(* The same server child serves Jobs connections one after the other, so   *)
(* that what one job leaves behind meets the next one.  A message is a     *)
(* token with its value or body; what the code does with a body that ends  *)
(* early is kept, its bytes are not.                                       *)
(***************************************************************************)
EXTENDS Integers, Sequences

CONSTANTS
  Jobs,      \* bound: connections served
  Versions,  \* protocol versions in use, a subset of 1 .. 3
  Capacity,  \* messages in flight in each direction
  JobFaults     \* subset of {"reset", "send", "tmp", "reject", "compiler", "signal", "email", "cwd", "cpp"}

ASSUME ServeJobAssumption ==
  /\ Jobs \in Nat \ {0}
  /\ Versions \subseteq 1 .. 3
  /\ Capacity \in Nat \ {0}

VARIABLES
  job,         \* number of the connection
  version,     \* the client's protocol version
  reset,       \* the connection was lost
  to_server, to_client, \* messages in flight
  \* the client
  c_at,        \* position in its script; 0 when it is done
  c_open,      \* its end of the connection is open
  c_ret, c_status, \* what dcc_compile_remote() returns
  c_output,    \* its output file
  c_deps,      \* its .d file
  c_end,       \* why it ended before the output: "none", "cpp" or "email"
  deps_fname,  \* it wants a .d file
  \* the server
  s_pc, s_next,\* the statement, and the one after dcc_add_cleanup()
  s_open, s_ret, compile_ret, status, job_result,
  input,       \* the source that the server has received
  cc,          \* the compiler process
  log_open,    \* dcc_compile_log_fd # -1
  cwd,         \* the working directory of the server
  tmp,         \* the temporary files and directories on disk
  making,      \* the one not yet registered for cleanup, or "none"
  cleanups     \* cleanups[0 .. n_cleanups-1]

wire == <<reset, to_server, to_client>>
client == <<c_at, c_open, c_ret, c_status, c_output, c_deps, c_end, deps_fname>>
files == <<tmp, making, cleanups>>
server == <<s_pc, s_next, s_open, s_ret, compile_ret, status, job_result, input, cc, log_open, cwd>>
jobVars == <<job, version, wire, client, server, files>>

Pump == version = 3              \* DCC_CPP_ON_SERVER
Lzo == version # 1               \* DCC_COMPRESS_LZO1X
JobMayFail(f) == f \in JobFaults

Result == {"0", "io", "protocol", "truncated", "other"}
Short == -1                      \* a body that is not all there
OldFile == -2                    \* the output of an earlier build
NoFile == -3
Temp == {"deps", "err", "out", "dir", "cwd", "obj", "input", "file", "dotd"}
Bodies == {"DOTI", "FILE", "SERR", "SOUT", "DOTO", "DOTD"}
Token == {"DIST", "CDIR", "ARGV", "NFIL", "DONE", "STAT"} \cup Bodies
Message == [tok : Token, val : -1 .. Jobs]

\* The requests and the answers, in the order of the client's statements.
Request(v) == IF v = 3 THEN <<"DIST", "CDIR", "ARGV", "NFIL", "FILE">> ELSE <<"DIST", "ARGV", "DOTI">>
Answer(v) == <<"DONE", "STAT", "SERR", "SOUT", "DOTO">> \o (IF v = 3 THEN <<"DOTD">> ELSE <<>>)
Script(v) == Request(v) \o Answer(v)
Now == Script(version)[c_at]
Sending == c_at \in 1 .. Len(Request(version))
Receiving == c_at > Len(Request(version))

S_pc == {"accept", "tmp_deps", "tmp_err", "tmp_out", "register", "log", "r_dist", "mkdir", "r_cwd",
         "mk_cwd", "chdir", "r_argv", "tmp_o", "r_nfil", "r_file", "tmp_i", "r_doti", "check", "spawn",
         "collect", "x_done", "x_stat", "x_serr", "x_sout", "x_doto0", "x_doto", "mk_dotd", "x_dotd",
         "finish", "cleanup", "dying", "dead"}

JobTypeOK ==
  /\ job \in 0 .. Jobs /\ version \in Versions
  /\ reset \in BOOLEAN
  /\ to_server \in Seq(Message) /\ to_client \in Seq(Message)
  /\ c_at \in 0 .. Len(Script(3))
  /\ c_open \in BOOLEAN /\ c_end \in {"none", "cpp", "email"} /\ deps_fname \in BOOLEAN
  /\ c_ret \in {"0", "error"} /\ c_status \in {0, 1}
  /\ c_output \in {OldFile, NoFile} \cup (0 .. Jobs)
  /\ c_deps \in {NoFile} \cup (0 .. Jobs)
  /\ s_pc \in S_pc /\ s_next \in S_pc
  /\ s_open \in BOOLEAN
  /\ s_ret \in Result /\ compile_ret \in {"0", "io", "timeout", "other"} /\ status \in {0, 1}
  /\ job_result \in {"none", "COMPILE_ERROR", "COMPILE_OK", "CLI_DISCONN", "COMPILE_TIMEOUT",
                     "REJ_BAD_REQ", "OTHER"}
  /\ input \in 0 .. Jobs
  /\ cc \in {"none", "running", "ok", "fail", "killed", "orphan", "left"}
  /\ log_open \in BOOLEAN
  /\ cwd \in {"daemon", "temp"}
  /\ tmp \subseteq Temp
  /\ making \in {"none"} \cup Temp
  /\ cleanups \in Seq(Temp)

JobInit ==
  /\ job = 0 /\ version \in Versions
  /\ reset = FALSE /\ to_server = <<>> /\ to_client = <<>>
  /\ c_at = 0 /\ c_open = FALSE /\ c_ret = "0" /\ c_status = 0
  /\ c_output = OldFile /\ c_deps = NoFile /\ c_end = "none" /\ deps_fname = FALSE
  /\ s_pc = "accept" /\ s_next = "accept" /\ s_open = FALSE
  /\ s_ret = "0" /\ compile_ret = "0" /\ status = 0 /\ job_result = "none"
  /\ input = 0 /\ cc = "none" /\ log_open = FALSE /\ cwd = "daemon"
  /\ tmp = {} /\ making = "none" /\ cleanups = <<>>

-----------------------------------------------------------------------------
(* The connection.                                                         *)

\* The ways to write m: what is in flight then, and whether the call succeeds.  A
\* write after the other side closed may still be accepted by the kernel.
Write(ch, peer, m) ==
  IF reset THEN {[ch |-> ch, ok |-> FALSE]}
  ELSE IF ~peer THEN {[ch |-> ch, ok |-> b] : b \in BOOLEAN}
  ELSE IF Len(ch) < Capacity THEN {[ch |-> Append(ch, m), ok |-> TRUE]}
  ELSE {}

\* A message may have stopped in the middle of its body.
Cut == reset \/ s_pc = "dead" \/ c_ret # "0"

\* A mutant of Read: the end of the connection is taken for a lack of data.
ReadNoEnd(ch, peer, tok) ==
  LET over(ret) == {[ch |-> <<>>, val |-> 0, ret |-> ret]}
                   \cup (IF Cut /\ tok \in Bodies THEN {[ch |-> <<>>, val |-> Short, ret |-> "io"]} ELSE {})
  IN IF reset THEN over("io")
     ELSE IF ch = <<>> THEN {}
     ELSE IF Head(ch).tok # tok THEN {[ch |-> Tail(ch), val |-> 0, ret |-> "protocol"]}
     ELSE IF Head(ch).val # Short THEN {[ch |-> Tail(ch), val |-> Head(ch).val, ret |-> "0"]}
     ELSE IF peer /\ Len(ch) = 1 THEN {}
     ELSE {[ch |-> <<>>, val |-> Short, ret |-> "io"]}

\* The ways to read token tok with its value or body; val = Short if the token
\* came but not all of the body.  Bytes that are missing from a body are taken
\* from what follows it, or waited for; either way the reader fails.
Read(ch, peer, tok) ==
  LET over(ret) == {[ch |-> <<>>, val |-> 0, ret |-> ret]}
                   \cup (IF Cut /\ tok \in Bodies THEN {[ch |-> <<>>, val |-> Short, ret |-> "io"]} ELSE {})
  IN IF reset THEN over("io")
     ELSE IF ch = <<>> THEN IF peer THEN {} ELSE over("truncated")
     ELSE IF Head(ch).tok # tok THEN {[ch |-> Tail(ch), val |-> 0, ret |-> "protocol"]}
     ELSE IF Head(ch).val # Short THEN {[ch |-> Tail(ch), val |-> Head(ch).val, ret |-> "0"]}
     ELSE IF peer /\ Len(ch) = 1 THEN {}
     ELSE {[ch |-> <<>>, val |-> Short, ret |-> "io"]}

\* A mutant of XFile: a file that cannot be opened is sent as an empty one.
XFileEmpty(ch, peer, tok, val, lzo) ==
  UNION {{[ch |-> w.ch, ret |-> IF w.ok \/ lzo THEN "0" ELSE "io"] :
            w \in Write(ch, peer, [tok |-> tok, val |-> v])} :
           v \in {val} \cup (IF JobMayFail("send") THEN {0} ELSE {})}

\* dcc_x_file().  It fails if the file cannot be opened or, uncompressed, if the
\* token cannot be written.  It ignores a failure in the body, which is left
\* short, and any failure of dcc_x_file_lzo1x(), which may send nothing at all.
XFile(ch, peer, tok, val, lzo) ==
  (UNION {{[ch |-> w.ch, ret |-> ret] : ret \in IF w.ok \/ lzo THEN {"0"} ELSE {"0", "io"}} :
            w \in Write(ch, peer, [tok |-> tok, val |-> val])})
  \cup (IF JobMayFail("send")
        THEN {[ch |-> ch, ret |-> "io"]}
             \cup (IF lzo THEN {[ch |-> ch, ret |-> "0"]}
                   ELSE {[ch |-> w.ch, ret |-> "0"] :
                           w \in Write(ch, peer, [tok |-> tok, val |-> Short])})
        ELSE {})

Disconnected == /\ to_server = <<>>
                /\ reset \/ ~c_open

\* The network drops the connection.
Reset ==
  /\ JobMayFail("reset")
  /\ c_open /\ s_open /\ ~reset
  /\ reset' = TRUE
  /\ UNCHANGED <<job, version, to_server, to_client, client, server, files>>

-----------------------------------------------------------------------------
(* The client.                                                             *)

ClientGoto(n) == c_at' = n /\ UNCHANGED <<c_open, c_ret>>

\* The end of dcc_compile_remote(): the connection is closed.
ClientReturn(ret) ==
  /\ c_at' = 0
  /\ c_open' = FALSE
  /\ c_ret' = ret

\* A client connects; it leaves the output of an earlier build in place.
ClientStart ==
  /\ job < Jobs /\ c_at = 0
  /\ s_pc = "accept" /\ ~s_open
  /\ job' = job + 1
  /\ version' \in Versions
  /\ reset' = FALSE /\ to_server' = <<>> /\ to_client' = <<>>
  /\ c_at' = 1 /\ c_open' = TRUE /\ c_ret' = "0" /\ c_status' = 0
  /\ c_output' = OldFile /\ c_deps' = NoFile /\ c_end' = "none"
  /\ deps_fname' \in {FALSE, version' = 3}
  /\ s_open' = TRUE
  /\ UNCHANGED <<s_pc, s_next, s_ret, compile_ret, status, job_result, input, cc, log_open, cwd, files>>

\* dcc_send_header(), dcc_x_many_files(), dcc_x_file() of the preprocessed source.
\* NFIL is sent without a look at the result; CDIR is not sent at all if there is
\* no working directory.  The files of a pump job are compressed already.
ClientSend ==
  /\ Sending
  /\ \/ /\ Now \notin Bodies
        /\ \E w \in Write(to_server, s_open, [tok |-> Now, val |-> 0]) :
             /\ to_server' = w.ch
             /\ IF w.ok \/ Now = "NFIL" THEN ClientGoto(c_at + 1) ELSE ClientReturn("error")
     \/ /\ Now \in Bodies
        /\ \E x \in XFile(to_server, s_open, Now, job, version = 2) :
             /\ to_server' = x.ch
             /\ IF x.ret = "0" THEN ClientGoto(c_at + 1) ELSE ClientReturn("error")
     \/ /\ Now = "CDIR" /\ JobMayFail("cwd")
        /\ ClientGoto(c_at + 1)
        /\ UNCHANGED to_server
  /\ UNCHANGED <<job, version, reset, to_client, c_status, c_output, c_deps, c_end, deps_fname, server, files>>

\* dcc_wait_for_cpp(): cpp failed, or it could not be waited for.
ClientCppFails ==
  /\ Sending /\ Now = "DOTI" /\ JobMayFail("cpp")
  /\ \/ ClientReturn("0") /\ c_status' = 1 /\ c_end' = "cpp"
     \/ ClientReturn("error") /\ UNCHANGED <<c_status, c_end>>
  /\ UNCHANGED <<job, version, wire, c_output, c_deps, deps_fname, server, files>>

\* The reader of a token or of its body gives up.  A file that did not come whole
\* is removed.  It is no failure if there is no DOTD.
ClientReadFails(val) ==
  /\ ClientReturn(IF Now = "DOTD" /\ (val # Short \/ ~deps_fname) THEN "0" ELSE "error")
  /\ c_output' = IF Now = "DOTO" /\ val = Short /\ c_status = 0 THEN NoFile ELSE c_output
  /\ UNCHANGED <<c_status, c_deps, c_end, deps_fname>>

\* The last answer that dcc_retrieve_results() reads: the output and what follows
\* it only come if the compiler succeeded.
LastAnswer ==
  \/ c_at = Len(Script(version))
  \/ Now = "DOTO" /\ c_status # 0

\* dcc_retrieve_results(), token by token.  The version in DONE is not looked at.
ClientReceive ==
  /\ Receiving
  /\ \E r \in Read(to_client, s_open, Now) :
       /\ to_client' = r.ch
       /\ \/ r.ret # "0" /\ ClientReadFails(r.val)
          \/ /\ r.ret = "0"
             /\ c_status' = IF Now = "STAT" THEN r.val ELSE c_status
             /\ c_output' = IF Now = "DOTO" /\ c_status = 0 THEN r.val ELSE c_output
             /\ c_deps' = IF Now = "DOTD" /\ deps_fname THEN r.val ELSE c_deps
             /\ \/ /\ IF LastAnswer THEN ClientReturn("0") ELSE ClientGoto(c_at + 1)
                   /\ UNCHANGED c_end
                \/ Now = "SERR" /\ JobMayFail("email") /\ ClientReturn("0") /\ c_end' = "email"
             /\ UNCHANGED deps_fname
  /\ UNCHANGED <<job, version, reset, to_server, server, files>>

\* dcc_select_for_read() or dcc_select_for_write() waited for dcc_get_io_timeout().
ClientTimeout ==
  /\ \/ /\ Receiving /\ Read(to_client, s_open, Now) = {}
        /\ ClientReadFails(IF to_client = <<>> THEN 0 ELSE Short)
     \/ /\ Sending /\ Write(to_server, s_open, [tok |-> Now, val |-> 0]) = {}
        /\ ClientReturn("error")
        /\ UNCHANGED <<c_status, c_output, c_deps, c_end, deps_fname>>
  /\ UNCHANGED <<job, version, wire, server, files>>

-----------------------------------------------------------------------------
(* The server: temporary files.                                            *)

JobGoto(l) == s_pc' = l /\ UNCHANGED s_next

\* goto out_cleanup, with ret.
Fail(ret) == JobGoto("finish") /\ s_ret' = ret

\* A mutant of CreateTemp: the file is not registered for cleanup.
CreateUnregistered(f, l) ==
  /\ tmp' = tmp \cup {f}
  /\ s_pc' = l /\ UNCHANGED <<s_next, making, cleanups>>

\* Create f on disk; dcc_add_cleanup() follows, then statement l.
CreateTemp(f, l) ==
  /\ tmp' = tmp \cup {f}
  /\ making' = f
  /\ s_pc' = "register" /\ s_next' = l
  /\ UNCHANGED cleanups

\* dcc_make_tmpnam() and dcc_get_new_tmpdir().
MakeTemp(at, f, l) ==
  /\ s_pc = at
  /\ \/ CreateTemp(f, l) /\ UNCHANGED s_ret
     \/ JobMayFail("tmp") /\ Fail("io") /\ UNCHANGED files
  /\ UNCHANGED <<job, version, wire, client, s_open, compile_ret, status, job_result, input, cc,
                 log_open, cwd>>

\* dcc_add_cleanup().
Register ==
  /\ s_pc = "register"
  /\ cleanups' = Append(cleanups, making)
  /\ making' = "none"
  /\ s_pc' = s_next /\ s_next' = "accept"
  /\ UNCHANGED <<job, version, wire, client, s_open, s_ret, compile_ret, status, job_result, input,
                 cc, log_open, cwd, tmp>>

\* Remove f from fs; rmdir() fails on a directory that still has something in it.
Removed(f, fs) ==
  IF \/ f = "dir" /\ fs \cap {"cwd", "file"} # {}
     \/ f = "cwd" /\ "file" \in fs
  THEN fs ELSE fs \ {f}

\* dcc_cleanup_tempfiles_inner(), one file at a time from the last, at the end of a
\* job or in the handler of a signal; then the child closes the connection, or dies.
Cleanup ==
  /\ s_pc \in {"cleanup", "dying"}
  /\ \/ /\ cleanups # <<>>
        /\ tmp' = Removed(cleanups[Len(cleanups)], tmp)
        /\ cleanups' = SubSeq(cleanups, 1, Len(cleanups) - 1)
        /\ UNCHANGED <<s_pc, s_open, cc>>
     \/ /\ cleanups = <<>>
        /\ s_pc' = IF s_pc = "dying" THEN "dead" ELSE "accept"
        /\ s_open' = FALSE
        /\ cc' = IF s_pc = "dying" THEN cc ELSE "none"
        /\ UNCHANGED <<tmp, cleanups>>
  /\ UNCHANGED <<job, version, wire, client, s_next, s_ret, compile_ret, status, job_result, input,
                 log_open, cwd, making>>

-----------------------------------------------------------------------------
(* The server: the request.                                                *)

\* dcc_service_job(): the client may be refused, else dcc_run_job() starts.
StartJob ==
  /\ s_pc = "accept" /\ s_open
  /\ \/ JobGoto("tmp_deps") /\ UNCHANGED s_open
     \/ JobMayFail("reject") /\ s_open' = FALSE /\ UNCHANGED <<s_pc, s_next>>
  /\ s_ret' = "0" /\ compile_ret' = "0" /\ status' = 0 /\ job_result' = "none" /\ input' = 0
  /\ UNCHANGED <<job, version, wire, client, cc, log_open, cwd, files>>

\* The files of the three names are removed again, and the log is opened, which
\* may fail without consequence.
AddLogToFile ==
  /\ s_pc = "log"
  /\ \/ tmp' = (tmp \ {"deps", "out"}) \cup {"err"} /\ log_open' = TRUE
     \/ JobMayFail("tmp") /\ tmp' = tmp \ {"deps", "err", "out"} /\ UNCHANGED log_open
  /\ JobGoto("r_dist")
  /\ UNCHANGED <<job, version, wire, client, s_open, s_ret, compile_ret, status, job_result, input, cc, cwd,
                 making, cleanups>>

\* Read token tok and go on at l.  dcc_r_argv() hides what went wrong with ARGC, and
\* the result of dcc_r_many_files() never gets into ret.
ReadToken(at, tok, l) ==
  /\ s_pc = at
  /\ \E r \in Read(to_server, c_open, tok) :
       /\ to_server' = r.ch
       /\ IF r.ret = "0" THEN JobGoto(l) /\ UNCHANGED s_ret
          ELSE Fail(IF tok = "ARGV" THEN "protocol" ELSE IF tok = "NFIL" THEN "0" ELSE r.ret)
  /\ UNCHANGED <<job, version, reset, to_client, client, s_open, compile_ret, status, job_result, input, cc,
                 log_open, cwd, files>>

\* chdir() into the client's directory below the temporary one.
Chdir ==
  /\ s_pc = "chdir"
  /\ \/ cwd' = "temp" /\ JobGoto("r_argv") /\ UNCHANGED s_ret
     \/ JobMayFail("tmp") /\ Fail("io") /\ UNCHANGED cwd
  /\ UNCHANGED <<job, version, wire, client, s_open, compile_ret, status, job_result, input, cc, log_open,
                 files>>

\* dcc_r_file() of the source: into a name registered before (DOTI), or into a
\* new file below the temporary directory (FILE).
ReadSource ==
  /\ \/ /\ s_pc = "r_doti"
        /\ \E r \in Read(to_server, c_open, "DOTI") :
             /\ to_server' = r.ch
             /\ IF r.ret = "0"
                THEN input' = r.val /\ JobGoto("check") /\ UNCHANGED <<s_ret, tmp>>
                ELSE Fail(r.ret) /\ UNCHANGED input
                     /\ tmp' = IF r.val = Short THEN tmp \ {"input"} ELSE tmp
        /\ UNCHANGED <<making, cleanups>>
     \/ /\ s_pc = "r_file"
        /\ \E r \in Read(to_server, c_open, "FILE") :
             /\ to_server' = r.ch
             /\ IF r.ret = "0"
                THEN input' = r.val /\ CreateTemp("file", "check") /\ UNCHANGED s_ret
                ELSE Fail("0") /\ UNCHANGED <<input, files>>
  /\ UNCHANGED <<job, version, reset, to_client, client, s_open, compile_ret, status, job_result, cc,
                 log_open, cwd>>

\* dcc_scan_args(), dcc_remap_compiler() (which leaves ret at 0) or
\* dcc_check_compiler_masq() turns the job down: there is no answer.
Reject ==
  /\ JobMayFail("reject")
  /\ s_pc \in {"tmp_o", "check"}
  /\ \E ret \in IF s_pc = "tmp_o" THEN {"other"} ELSE {"0", "other"} : Fail(ret)
  /\ UNCHANGED <<job, version, wire, client, s_open, compile_ret, status, job_result, input, cc, log_open,
                 cwd, files>>

-----------------------------------------------------------------------------
(* The server: the compiler.                                               *)

Check ==
  /\ s_pc = "check"
  /\ JobGoto("spawn")
  /\ UNCHANGED <<job, version, wire, client, s_open, s_ret, compile_ret, status, job_result, input, cc,
                 log_open, cwd, files>>

\* dcc_spawn_child(): the child opens the files for its standard output and errors.
Spawn ==
  /\ s_pc = "spawn"
  /\ \/ /\ cc' = "running" /\ tmp' = tmp \cup {"out", "err"}
        /\ JobGoto("collect")
        /\ UNCHANGED <<compile_ret, status>>
     \/ /\ JobMayFail("compiler")
        /\ compile_ret' = "other" /\ status' = 1
        /\ JobGoto("x_done")
        /\ UNCHANGED <<cc, tmp>>
  /\ UNCHANGED <<job, version, wire, client, s_open, s_ret, job_result, input, log_open, cwd, making, cleanups>>

\* The compiler ends and has written its files.
CompilerEnds ==
  /\ cc \in {"running", "orphan"}
  /\ \E result \in {"ok"} \cup (IF JobMayFail("compiler") THEN {"fail"} ELSE {}) :
       /\ cc' = IF cc = "orphan" THEN "left" ELSE result
       /\ tmp' = tmp \cup (IF Pump THEN {"obj", "deps"} ELSE {"obj"})
  /\ UNCHANGED <<job, version, wire, client, s_pc, s_next, s_open, s_ret, compile_ret, status, job_result,
                 input, log_open, cwd, making, cleanups>>

\* dcc_collect_child() with the connection: the compiler ended, the client is
\* gone, or the job lasts too long.
Collect ==
  /\ s_pc = "collect"
  /\ \/ /\ cc \in {"ok", "fail"}
        /\ status' = IF cc = "ok" THEN 0 ELSE 1
        /\ UNCHANGED <<compile_ret, cc>>
     \/ /\ cc = "running" /\ Disconnected
        /\ compile_ret' = "io" /\ status' = 1 /\ cc' = "killed"
     \/ /\ cc = "running" /\ JobMayFail("compiler")
        /\ compile_ret' = "timeout" /\ status' = 1 /\ cc' = "killed"
  /\ JobGoto("x_done")
  /\ UNCHANGED <<job, version, wire, client, s_open, s_ret, job_result, input, log_open, cwd, files>>

-----------------------------------------------------------------------------
(* The server: the answer.                                                 *)

\* DONE and STAT; whatever fails, a DOTO of length 0 is tried.
SendToken(at, tok, val, l) ==
  /\ s_pc = at
  /\ \E w \in Write(to_client, c_open, [tok |-> tok, val |-> val]) :
       /\ to_client' = w.ch
       /\ IF w.ok THEN JobGoto(l) /\ UNCHANGED s_ret
          ELSE JobGoto("x_doto0") /\ s_ret' = "io"
  /\ UNCHANGED <<job, version, reset, to_server, client, s_open, compile_ret, status, job_result, input, cc,
                 log_open, cwd, files>>

\* SERR and SOUT.  Without a child the file for its output does not exist.
SendOutput(at, tok, f, l) ==
  /\ s_pc = at
  /\ \E x \in XFile(to_client, c_open, tok, 0, Lzo) :
       LET ret == IF f \in tmp THEN x.ret ELSE "io"
       IN  /\ to_client' = IF f \in tmp THEN x.ch ELSE to_client
           /\ IF ret = "0" THEN JobGoto(l) /\ UNCHANGED s_ret
              ELSE JobGoto("x_doto0") /\ s_ret' = ret
  /\ UNCHANGED <<job, version, reset, to_server, client, s_open, compile_ret, status, job_result, input, cc,
                 log_open, cwd, files>>

\* DOTO 0 after a failure of the compiler or of the answer.
SendNoObject ==
  /\ s_pc = "x_doto0"
  /\ \E w \in Write(to_client, c_open, [tok |-> "DOTO", val |-> 0]) : to_client' = w.ch
  /\ job_result' = CASE compile_ret = "io" -> "CLI_DISCONN"
                     [] compile_ret = "timeout" -> "COMPILE_TIMEOUT"
                     [] OTHER -> "COMPILE_ERROR"
  /\ JobGoto("finish")
  /\ UNCHANGED <<job, version, reset, to_server, client, s_open, s_ret, compile_ret, status, input, cc,
                 log_open, cwd, files>>

\* What follows SOUT.
ObjectNext == IF status = 0 THEN "x_doto" ELSE "x_doto0"

\* The object, after dcc_fix_debug_info() in a pump job, which may fail.
SendObject ==
  /\ s_pc = "x_doto"
  /\ \/ \E x \in XFile(to_client, c_open, "DOTO", IF cc = "ok" THEN input ELSE 0, Lzo) :
          /\ to_client' = x.ch
          /\ IF x.ret # "0" THEN Fail(x.ret) /\ UNCHANGED job_result
             ELSE /\ JobGoto(IF Pump THEN "mk_dotd" ELSE "finish")
                  /\ job_result' = IF Pump THEN job_result ELSE "COMPILE_OK"
                  /\ UNCHANGED s_ret
     \/ /\ Pump /\ JobMayFail("send")
        /\ Fail("other")
        /\ UNCHANGED <<to_client, job_result>>
  /\ UNCHANGED <<job, version, reset, to_server, client, s_open, compile_ret, status, input, cc, log_open,
                 cwd, files>>

\* The dependencies, in the file that dcc_cleanup_dotd() made, which may fail.
SendDeps ==
  /\ s_pc = "x_dotd"
  /\ \/ \E x \in XFile(to_client, c_open, "DOTD", input, Lzo) :
          /\ to_client' = x.ch
          /\ s_ret' = x.ret
          /\ job_result' = "COMPILE_OK"
          /\ JobGoto("finish")
     \/ /\ JobMayFail("send")
        /\ Fail("other")
        /\ UNCHANGED <<to_client, job_result>>
  /\ UNCHANGED <<job, version, reset, to_server, client, s_open, compile_ret, status, input, cc, log_open,
                 cwd, files>>

\* out_cleanup: the directory, the statistics, the log.
Finish ==
  /\ s_pc = "finish"
  /\ cwd' = "daemon"
  /\ job_result' = CASE s_ret = "io" -> "CLI_DISCONN"
                     [] s_ret = "protocol" -> "REJ_BAD_REQ"
                     [] OTHER -> IF job_result = "none" THEN "OTHER" ELSE job_result
  /\ log_open' = FALSE
  /\ JobGoto("cleanup")
  /\ UNCHANGED <<job, version, wire, client, s_open, s_ret, compile_ret, status, input, cc, files>>

\* SIGTERM or SIGALRM, at any statement: the handler takes over, for good.  The
\* compiler is in a process group of its own and goes on.
Signal ==
  /\ JobMayFail("signal")
  /\ s_pc \notin {"dying", "dead"}
  /\ s_pc' = "dying"
  /\ cc' = IF cc = "running" THEN "orphan" ELSE cc
  /\ UNCHANGED <<job, version, wire, client, s_next, s_open, s_ret, compile_ret, status, job_result, input,
                 log_open, cwd, files>>

\* Every job is served.
Done == /\ c_at = 0 /\ s_pc \in {"accept", "dead"} /\ ~s_open
        /\ job = Jobs \/ s_pc = "dead"
        /\ UNCHANGED jobVars

ClientStep == ClientSend \/ ClientReceive \/ ClientTimeout

ServerStep ==
  \/ StartJob
  \/ MakeTemp("tmp_deps", "deps", "tmp_err")
  \/ MakeTemp("tmp_err", "err", "tmp_out")
  \/ MakeTemp("tmp_out", "out", "log")
  \/ Register \/ AddLogToFile
  \/ ReadToken("r_dist", "DIST", IF Pump THEN "mkdir" ELSE "r_argv")
  \/ MakeTemp("mkdir", "dir", "r_cwd")
  \/ ReadToken("r_cwd", "CDIR", "mk_cwd")
  \/ MakeTemp("mk_cwd", "cwd", "chdir")
  \/ Chdir
  \/ ReadToken("r_argv", "ARGV", "tmp_o")
  \/ MakeTemp("tmp_o", "obj", IF Pump THEN "r_nfil" ELSE "tmp_i")
  \/ ReadToken("r_nfil", "NFIL", "r_file")
  \/ MakeTemp("tmp_i", "input", "r_doti")
  \/ ReadSource \/ Reject \/ Check \/ Spawn \/ Collect
  \/ SendToken("x_done", "DONE", 0, "x_stat")
  \/ SendToken("x_stat", "STAT", status, "x_serr")
  \/ SendOutput("x_serr", "SERR", "err", "x_sout")
  \/ SendOutput("x_sout", "SOUT", "out", ObjectNext)
  \/ SendNoObject \/ SendObject
  \/ MakeTemp("mk_dotd", "dotd", "x_dotd")
  \/ SendDeps \/ Finish \/ Cleanup

JobNext ==
  \/ ClientStart \/ ClientStep \/ ClientCppFails \/ ServerStep \/ CompilerEnds
  \/ Reset \/ Signal \/ Done

JobSpec == JobInit /\ [][JobNext]_jobVars

-----------------------------------------------------------------------------
(***************************************************************************)
(* A client that reports success has the object that the server compiled   *)
(* from this client's source, whatever was lost, cut short, late or        *)
(* refused on the way: dcc_retrieve_results() of clirpc.c against          *)
(* dcc_run_job() of serve.c.  (A failure to keep a copy for the log mail   *)
(* makes the client leave early: see ReportedSuccessHasOutput of           *)
(* BuildSomewhere.)                                                        *)
(***************************************************************************)
ObjectIsMine ==
  c_at = 0 /\ job > 0 /\ c_ret = "0" /\ c_status = 0 /\ c_end = "none" => c_output = job

(***************************************************************************)
(* A client that reports a failed compilation, which is not repeated       *)
(* locally as a lost connection is, reports what a compiler did: its own   *)
(* cpp, or the one of the server, which ended or was stopped after the     *)
(* lifetime of a job.  A server that could not start one (serve.c 681-687) *)
(* does not make the build fail.                                           *)
(***************************************************************************)
FailureIsTheCompilers ==
  c_at = 0 /\ job > 0 /\ c_ret = "0" /\ c_status = 1 /\ c_end # "email" =>
    \/ c_end = "cpp"
    \/ status = 1 /\ compile_ret \in {"0", "timeout"}

(***************************************************************************)
(* Between two jobs the child has no temporary files and none registered,  *)
(* its log is closed and it is back in its directory, after every path     *)
(* through dcc_run_job() to out_cleanup.                                   *)
(***************************************************************************)
IdleIsClean ==
  s_pc = "accept" => tmp = {} /\ cleanups = <<>> /\ ~log_open /\ cwd = "daemon"

(***************************************************************************)
(* A signal in the middle of a job leaves no file behind, unless it comes  *)
(* between the creation of a file and dcc_add_cleanup(), or the compiler   *)
(* outlives the child.                                                     *)
(***************************************************************************)
SignalCleansUp ==
  s_pc = "dead" /\ making = "none" /\ cc \notin {"orphan", "left"} => tmp = {}

(***************************************************************************)
(* What a client reports is what happened to its job: success with the     *)
(* object of this job, failure by a compiler (dcc_retrieve_results(),      *)
(* dcc_run_job()).                                                         *)
(***************************************************************************)
ReportIsTrue == ObjectIsMine /\ FailureIsTheCompilers

(***************************************************************************)
(* No job leaves anything to the next one or on the disk, however it ends  *)
(* (out_cleanup of dcc_run_job(), dcc_daemon_terminate()).                 *)
(***************************************************************************)
NothingLeftBehind == JobTypeOK /\ IdleIsClean /\ SignalCleansUp

(***************************************************************************)
(* The two sides of a connection both come to an end: no loss, refusal,    *)
(* omitted message or short file lets client and server wait for each      *)
(* other for ever (io.c), and the child finishes with every connection     *)
(* that it accepted, although it waits for its client without a timeout    *)
(* (serve.c).  A new connection needs both at rest, so this says no less   *)
(* than that each of the two ends.                                         *)
(***************************************************************************)
BothFinish == (c_at # 0 \/ s_open) ~> (c_at = 0 /\ ~s_open)
=============================================================================
