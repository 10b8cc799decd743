---------------------------- MODULE ServeProofs ----------------------------
(***************************************************************************)
(* Proofs about one compilation over the wire (ServeJob): what a client    *)
(* reports is what happened to its job, and no job leaves anything behind, *)
(* for any number of jobs, any capacity of the connection and every fault. *)
(***************************************************************************)
EXTENDS ServeJob, TLAPS

(***************************************************************************)
(* The statements of the server, by what it is about; a file that is being *)
(* registered belongs to the statement that follows.                       *)
(***************************************************************************)
At == IF s_pc = "register" THEN s_next ELSE s_pc

Naming == {"tmp_deps", "tmp_err", "tmp_out", "log"}
Reading == {"r_dist", "mkdir", "r_cwd", "mk_cwd", "chdir", "r_argv", "tmp_o", "r_nfil", "r_file", "tmp_i", "r_doti"}
Running == {"check", "spawn", "collect"}
Answering == {"x_done", "x_stat", "x_serr", "x_sout", "x_doto0", "x_doto", "mk_dotd", "x_dotd"}

Unanswered ==
  \/ At \in Naming \cup Reading \cup Running \cup {"x_done"}
  \/ s_pc = "accept" /\ s_open

\* The answers that the client has taken, and those taken or on their way.
Got == IF Receiving THEN c_at - Len(Request(version)) - 1 ELSE 0
Sofar == Got + Len(to_client)

(***************************************************************************)
(* The source that is compiled is the client's; there is an object if and  *)
(* only if the status says so; without a compiler there is no file for its *)
(* output, and after a disconnection nobody to answer.                     *)
(***************************************************************************)
SourceInv ==
  \A k \in 1 .. Len(to_server) : to_server[k].tok \in {"DOTI", "FILE"} => to_server[k].val \in {job, Short}
JobInv ==
  /\ At \in Naming \cup Reading \cup Running => compile_ret = "0"
  /\ At \in Running \cup Answering => input = job
  /\ At \in Reading \cup {"check", "spawn"} => "out" \notin tmp
  /\ At \in Answering /\ compile_ret = "other" => "out" \notin tmp
  /\ At \in {"x_done", "x_stat", "x_serr", "x_sout", "x_doto"} /\ status = 0 => cc = "ok"
  /\ At = "x_doto" => status = 0
  /\ At \in Answering /\ compile_ret = "io" => reset \/ ~c_open

(***************************************************************************)
(* Answers are omitted, never repeated or exchanged: so many have been     *)
(* sent, at most.  The empty object of a failure stands behind a gap,      *)
(* unless it is the answer to a compiler that failed.                      *)
(***************************************************************************)
CountInv ==
  c_at # 0 =>
    /\ Unanswered => Sofar = 0
    /\ At = "x_stat" => Sofar <= 1
    /\ At = "x_serr" => Sofar <= 2
    /\ At = "x_sout" => Sofar <= 3
    /\ At \in {"x_doto0", "x_doto"} => Sofar <= 4
    /\ At = "x_doto0" /\ (status = 0 \/ compile_ret = "other") => Sofar <= 3

(***************************************************************************)
(* An object that is not behind a gap is the one of this job.              *)
(***************************************************************************)
Fits(val) ==
  IF status = 0 THEN val \in {job, Short} ELSE compile_ret \in {"0", "timeout"} \/ reset

AnswerInv ==
  c_at # 0 => \A k \in 1 .. Len(to_client) :
    /\ to_client[k].tok = "STAT" => to_client[k].val = status
    /\ to_client[k].tok = "DOTO" => Got + k <= 5 /\ (Got + k = 5 => Fits(to_client[k].val))

(***************************************************************************)
(* A client that has taken all answers up to some point knows the status,  *)
(* then the object; and what it reports in the end stays true.             *)
(***************************************************************************)
ReceiverInv ==
  /\ c_at <= Len(Script(version))
  /\ c_at # 0 =>
       /\ c_open /\ c_ret = "0" /\ c_end = "none"
       /\ Got < 2 => c_status = 0
       /\ Got >= 2 => c_status = status
       /\ Got = 5 => c_output = job /\ c_status = 0
  /\ c_at = 0 /\ job > 0 /\ c_ret = "0" /\ c_end = "none" =>
       /\ c_status = 0 => c_output = job
       /\ c_status = 1 => status = 1 /\ compile_ret \in {"0", "timeout"} /\ ~Unanswered

ReportInv == SourceInv /\ JobInv /\ CountInv /\ AnswerInv /\ ReceiverInv

-----------------------------------------------------------------------------
(* The connection.                                                         *)

LEMMA Scripts ==
  ASSUME version \in 1 .. 3, c_at \in Nat
  PROVE  /\ Len(Request(version)) \in 3 .. 5 /\ Len(Script(version)) \in 8 .. 11
         /\ version = 3 => Len(Request(version)) = 5 /\ Len(Script(version)) = 11
         /\ version # 3 => Len(Request(version)) = 3 /\ Len(Script(version)) = 8
BY DEF Request, Script, Answer

LEMMA Requests ==
  ASSUME version \in 1 .. 3, c_at \in Nat, Sending
  PROVE  Now \in {"DIST", "CDIR", "ARGV", "NFIL", "FILE", "DOTI"} /\ c_at <= 5 /\ c_at # 0
BY DEF Request, Script, Answer, Now, Sending

LEMMA Answers ==
  ASSUME version \in 1 .. 3, c_at \in Nat, Receiving, c_at <= Len(Script(version))
  PROVE  /\ Got \in 0 .. 5
         /\ Got = 0 => Now = "DONE"
         /\ Got = 1 => Now = "STAT"
         /\ Got = 2 => Now = "SERR"
         /\ Got = 3 => Now = "SOUT"
         /\ Got = 4 => Now = "DOTO"
         /\ Got = 5 => Now = "DOTD"
         /\ c_at = Len(Script(version)) <=> Got = 5 \/ (Got = 4 /\ version # 3)
BY DEF Request, Script, Answer, Now, Receiving, Got

LEMMA WriteOutcome ==
  ASSUME NEW ch \in Seq(Message), NEW m \in Message, NEW peer \in BOOLEAN, reset \in BOOLEAN,
         NEW w \in Write(ch, peer, m)
  PROVE  /\ w.ok \in BOOLEAN
         /\ w.ch = ch \/ (peer /\ w.ok /\ w.ch = Append(ch, m))
<1>1. CASE reset
  <2>1. w = [ch |-> ch, ok |-> FALSE]
    BY <1>1, Zenon DEF Write
  <2> QED
    BY <2>1, Zenon
<1>2. CASE ~reset /\ ~peer
  <2>1. PICK b \in BOOLEAN : w = [ch |-> ch, ok |-> b]
    BY <1>2, Zenon DEF Write
  <2> QED
    BY <2>1, Zenon
<1>3. CASE ~reset /\ peer
  <2>1. w = [ch |-> Append(ch, m), ok |-> TRUE]
    BY <1>3, Zenon DEF Write
  <2> QED
    BY <1>3, <2>1, Zenon
<1> QED
  BY <1>1, <1>2, <1>3, Zenon

LEMMA XFileOutcome ==
  ASSUME NEW ch \in Seq(Message), NEW tok \in Token, NEW val \in -1 .. Jobs, NEW peer \in BOOLEAN,
         NEW lzo \in BOOLEAN, reset \in BOOLEAN, NEW x \in XFile(ch, peer, tok, val, lzo)
  PROVE  /\ x.ret \in {"0", "io"}
         /\ \/ x.ch = ch
            \/ peer /\ x.ret = "0" /\ \E v \in {val, Short} : x.ch = Append(ch, [tok |-> tok, val |-> v])
<1>1. [tok |-> tok, val |-> val] \in Message /\ [tok |-> tok, val |-> Short] \in Message
  BY ServeJobAssumption DEF Message, Short
<1>2. \A v \in {val, Short} : \A w \in Write(ch, peer, [tok |-> tok, val |-> v]) :
        /\ w.ok \in BOOLEAN
        /\ w.ch = ch \/ (peer /\ w.ok /\ w.ch = Append(ch, [tok |-> tok, val |-> v]))
  BY <1>1, WriteOutcome
<1> QED
  <2> DEFINE W(v) == Write(ch, peer, [tok |-> tok, val |-> v])
             Whole == UNION {{[ch |-> w.ch, ret |-> ret] : ret \in IF w.ok \/ lzo THEN {"0"} ELSE {"0", "io"}} : w \in W(val)}
             Broken == {[ch |-> w.ch, ret |-> "0"] : w \in W(Short)}
             unopened == [ch |-> ch, ret |-> "io"]
             lost == [ch |-> ch, ret |-> "0"]
  <2>1. x \in Whole \/ x \in {unopened, lost} \/ x \in Broken
    <3>1. x \in Whole \cup (IF JobMayFail("send")
                           THEN {unopened} \cup (IF lzo THEN {lost} ELSE Broken)
                           ELSE {})
      BY Zenon DEF XFile
    <3> HIDE DEF Whole, Broken, W, unopened, lost
    <3> QED
      BY <3>1, Zenon
  <2>2. ASSUME x \in Whole
        PROVE  \E w \in W(val) : \E ret \in {"0", "io"} : x = [ch |-> w.ch, ret |-> ret] /\ (w.ok => ret = "0")
    <3> HIDE DEF W
    <3> QED
      BY <2>2, Zenon
  <2>3. ASSUME x \in Broken PROVE \E w \in W(Short) : x = [ch |-> w.ch, ret |-> "0"]
    BY <2>3, Zenon
  <2>4. CASE x \in Whole
    BY <1>2, <2>2, <2>4
  <2>5. CASE x \in {unopened, lost}
    BY <2>5
  <2>6. CASE x \in Broken
    BY <1>2, <2>3, <2>6
  <2> QED
    BY <2>1, <2>4, <2>5, <2>6, Zenon

LEMMA ReadOutcome ==
  ASSUME NEW ch \in Seq(Message), NEW tok \in Token, NEW peer \in BOOLEAN,
         NEW r \in Read(ch, peer, tok)
  PROVE  /\ r.ret \in Result /\ r.val \in -1 .. Jobs
         /\ r.ch \in Seq(Message)
         /\ r.ch = <<>> \/ (ch # <<>> /\ r.ch = Tail(ch))
         /\ r.ret = "0" => /\ ch # <<>> /\ ~reset /\ r.ch = Tail(ch)
                           /\ Head(ch).tok = tok /\ r.val = Head(ch).val /\ r.val # Short
<1>1. ch # <<>> => Head(ch) \in Message /\ Tail(ch) \in Seq(Message)
  OBVIOUS
<1>2. 0 \in -1 .. Jobs /\ Short \in -1 .. Jobs
  BY ServeJobAssumption DEF Short
<1>3. ch # <<>> => Head(ch).val \in -1 .. Jobs
  BY <1>1, Zenon DEF Message
<1>4. CASE r \in {[ch |-> <<>>, val |-> 0, ret |-> "io"], [ch |-> <<>>, val |-> Short, ret |-> "io"],
                 [ch |-> <<>>, val |-> 0, ret |-> "truncated"]}
  <2>1. r.ch = <<>> /\ r.val \in {0, Short} /\ r.ret \in {"io", "truncated"}
    BY <1>4
  <2>2. <<>> \in Seq(Message)
    OBVIOUS
  <2> QED
    BY <1>2, <2>1, <2>2, Zenon DEF Result
<1>5. CASE ch # <<>> /\ r = [ch |-> Tail(ch), val |-> 0, ret |-> "protocol"]
  BY <1>1, <1>2, <1>5, Zenon DEF Result
<1>6. CASE /\ ~reset /\ ch # <<>> /\ Head(ch).tok = tok /\ Head(ch).val # Short
           /\ r = [ch |-> Tail(ch), val |-> Head(ch).val, ret |-> "0"]
  BY <1>1, <1>3, <1>6, Zenon DEF Result
<1> QED
  BY <1>4, <1>5, <1>6, Zenon DEF Read

-----------------------------------------------------------------------------
(* Types.                                                                  *)

Bools ==
  /\ reset \in BOOLEAN
  /\ c_open \in BOOLEAN /\ deps_fname \in BOOLEAN
  /\ s_open \in BOOLEAN /\ log_open \in BOOLEAN
WireTypes ==
  /\ job \in 0 .. Jobs /\ version \in Versions
  /\ to_server \in Seq(Message) /\ to_client \in Seq(Message)
ClientTypes ==
  /\ c_at \in 0 .. 11 /\ c_end \in {"none", "cpp", "email"}
  /\ c_ret \in {"0", "error"} /\ c_status \in {0, 1}
  /\ c_output \in {OldFile, NoFile} \cup (0 .. Jobs)
  /\ c_deps \in {NoFile} \cup (0 .. Jobs)
ServerTypes ==
  /\ s_pc \in S_pc /\ s_next \in S_pc
  /\ s_ret \in Result /\ compile_ret \in {"0", "io", "timeout", "other"} /\ status \in {0, 1}
  /\ job_result \in {"none", "COMPILE_ERROR", "COMPILE_OK", "CLI_DISCONN", "COMPILE_TIMEOUT",
                     "REJ_BAD_REQ", "OTHER"}
  /\ input \in 0 .. Jobs
  /\ cc \in {"none", "running", "ok", "fail", "killed", "orphan", "left"}
  /\ cwd \in {"daemon", "temp"}
FileTypes == tmp \subseteq Temp /\ making \in {"none"} \cup Temp /\ cleanups \in Seq(Temp)
Types == Bools /\ WireTypes /\ ClientTypes /\ ServerTypes /\ FileTypes

LEMMA TypesApart == Types <=> JobTypeOK
<1>1. Len(Script(3)) = 11
  BY DEF Script, Request, Answer
<1> QED
  BY <1>1, Zenon DEF Types, Bools, WireTypes, ClientTypes, ServerTypes, FileTypes, JobTypeOK

LEMMA VersionType == WireTypes => version \in 1 .. 3
BY ServeJobAssumption, Zenon DEF WireTypes

\* What is in flight after a call.
LEMMA Written ==
  ASSUME NEW ch \in Seq(Message), NEW peer \in BOOLEAN, NEW tok \in Token, NEW val \in -1 .. Jobs,
         reset \in BOOLEAN, NEW w \in Write(ch, peer, [tok |-> tok, val |-> val])
  PROVE  w.ch \in Seq(Message)
<1>1. [tok |-> tok, val |-> val] \in Message
  BY Zenon DEF Message
<1>2. w.ch = ch \/ w.ch = Append(ch, [tok |-> tok, val |-> val])
  BY <1>1, WriteOutcome, Zenon
<1>3. Append(ch, [tok |-> tok, val |-> val]) \in Seq(Message)
  BY <1>1
<1> QED
  BY <1>2, <1>3, Zenon

LEMMA FileWritten ==
  ASSUME NEW ch \in Seq(Message), NEW peer \in BOOLEAN, NEW tok \in Token, NEW val \in -1 .. Jobs,
         NEW lzo \in BOOLEAN, reset \in BOOLEAN, NEW x \in XFile(ch, peer, tok, val, lzo)
  PROVE  x.ch \in Seq(Message)
<1>1. \A v \in {val, Short} : [tok |-> tok, val |-> v] \in Message
  BY ServeJobAssumption DEF Message, Short
<1>2. x.ch = ch \/ \E v \in {val, Short} : x.ch = Append(ch, [tok |-> tok, val |-> v])
  BY XFileOutcome
<1>3. ASSUME NEW v \in {val, Short} PROVE Append(ch, [tok |-> tok, val |-> v]) \in Seq(Message)
  BY <1>1
<1> QED
  BY <1>2, <1>3, Zenon


\* What a statement of the server leaves alone.
Others == <<job, version, reset, client>>

\* The statements of the server that create a file, that read a token and that send one.
Makes(at, f, l) ==
  \/ at = "tmp_deps" /\ f = "deps" /\ l = "tmp_err"
  \/ at = "tmp_err" /\ f = "err" /\ l = "tmp_out"
  \/ at = "tmp_out" /\ f = "out" /\ l = "log"
  \/ at = "mkdir" /\ f = "dir" /\ l = "r_cwd"
  \/ at = "mk_cwd" /\ f = "cwd" /\ l = "chdir"
  \/ at = "tmp_o" /\ f = "obj" /\ l \in {"r_nfil", "tmp_i"}
  \/ at = "tmp_i" /\ f = "input" /\ l = "r_doti"
  \/ at = "mk_dotd" /\ f = "dotd" /\ l = "x_dotd"
Follows(f, l) ==
  \/ f = "deps" /\ l = "tmp_err"
  \/ f = "err" /\ l = "tmp_out"
  \/ f = "out" /\ l = "log"
  \/ f = "dir" /\ l = "r_cwd"
  \/ f = "cwd" /\ l = "chdir"
  \/ f = "obj" /\ l \in {"r_nfil", "tmp_i"}
  \/ f = "input" /\ l = "r_doti"
  \/ f = "file" /\ l = "check"
  \/ f = "dotd" /\ l = "x_dotd"
Reads(at, tok, l) ==
  \/ at = "r_dist" /\ tok = "DIST" /\ l \in {"mkdir", "r_argv"}
  \/ at = "r_cwd" /\ tok = "CDIR" /\ l = "mk_cwd"
  \/ at = "r_argv" /\ tok = "ARGV" /\ l = "tmp_o"
  \/ at = "r_nfil" /\ tok = "NFIL" /\ l = "r_file"

LEMMA Quiet ==
  ASSUME Types, UNCHANGED <<Others, to_server, to_client>>
  PROVE  WireTypes' /\ ClientTypes'
BY Zenon DEF Types, WireTypes, ClientTypes, Others, client

LEMMA MakeTypes ==
  ASSUME Types, NEW at, NEW f, NEW l, Makes(at, f, l), MakeTemp(at, f, l)
  PROVE  Types' /\ UNCHANGED <<Others, to_server, to_client>>
<1>1. UNCHANGED <<Others, to_server, to_client>>
  BY Zenon DEF MakeTemp, Others, wire
<1>2. f \in Temp /\ l \in S_pc
  BY DEF Makes, Temp, S_pc
<1>3. ServerTypes'
  BY <1>2 DEF MakeTemp, CreateTemp, JobGoto, Fail, Types, ServerTypes, S_pc, Result
<1>4. FileTypes'
  BY <1>2, Zenon DEF MakeTemp, CreateTemp, Types, FileTypes, files
<1>5. Bools'
  BY Zenon DEF MakeTemp, Types, Bools, wire, client
<1> QED
  BY <1>1, <1>3, <1>4, <1>5, Quiet, Zenon DEF Types

LEMMA ReadTypes ==
  ASSUME Types, NEW at, NEW tok, NEW l, Reads(at, tok, l), ReadToken(at, tok, l)
  PROVE  Types' /\ UNCHANGED <<Others, to_client>>
<1>1. UNCHANGED <<Others, to_client>>
  BY Zenon DEF ReadToken, Others
<1>2. tok \in Token /\ l \in S_pc
  BY Zenon DEF Reads, S_pc, Token
<1>3. PICK r \in Read(to_server, c_open, tok) :
        /\ to_server' = r.ch
        /\ IF r.ret = "0" THEN JobGoto(l) /\ UNCHANGED s_ret
           ELSE Fail(IF tok = "ARGV" THEN "protocol" ELSE IF tok = "NFIL" THEN "0" ELSE r.ret)
  BY Zenon DEF ReadToken
<1>4. to_server \in Seq(Message) /\ c_open \in BOOLEAN
  BY Zenon DEF Types, WireTypes, Bools
<1>5. r.ret \in Result /\ r.ch \in Seq(Message)
  BY <1>2, <1>4, ReadOutcome, Zenon
<1>6. s_pc' \in S_pc /\ s_next' \in S_pc /\ s_ret' \in Result
  BY <1>2, <1>3, <1>5 DEF Types, ServerTypes, JobGoto, Fail, S_pc, Result
<1>7. ServerTypes'
  BY <1>6 DEF ReadToken, Types, ServerTypes
<1>8. FileTypes' /\ Bools'
  BY Zenon DEF ReadToken, Types, FileTypes, Bools, files, client
<1>9. WireTypes' /\ ClientTypes'
  BY <1>1, <1>3, <1>5, Zenon DEF Types, WireTypes, ClientTypes, Others, client
<1> QED
  BY <1>1, <1>7, <1>8, <1>9, Zenon DEF Types

LEMMA SourceTypes ==
  ASSUME Types, ReadSource
  PROVE  Types' /\ UNCHANGED <<Others, to_client>>
<1>1. UNCHANGED <<Others, to_client>>
  BY Zenon DEF ReadSource, Others
<1>2. to_server \in Seq(Message) /\ c_open \in BOOLEAN
  BY Zenon DEF Types, WireTypes, Bools
<1>3. \A tok \in {"DOTI", "FILE"} : \A r \in Read(to_server, c_open, tok) :
        r.ret \in Result /\ r.ch \in Seq(Message) /\ (r.ret = "0" => r.val \in 0 .. Jobs)
  <2>1. "DOTI" \in Token /\ "FILE" \in Token
    BY Zenon DEF Token, Bodies
  <2> QED
    BY <1>2, <2>1, ReadOutcome DEF Short
<1>4. PICK tok \in {"DOTI", "FILE"}, r \in UNION {Read(to_server, c_open, "DOTI"), Read(to_server, c_open, "FILE")} :
        /\ r \in Read(to_server, c_open, tok)
        /\ to_server' = r.ch
        /\ input' = IF r.ret = "0" THEN r.val ELSE input
        /\ \/ r.ret = "0" /\ JobGoto("check") /\ UNCHANGED <<s_ret, files>>
           \/ r.ret = "0" /\ CreateTemp("file", "check") /\ UNCHANGED s_ret
           \/ Fail(r.ret) /\ tmp' \in {tmp, tmp \ {"input"}} /\ UNCHANGED <<making, cleanups>>
           \/ Fail("0") /\ UNCHANGED files
  BY Zenon DEF ReadSource, files
<1>5. /\ to_server' \in Seq(Message) /\ input' \in 0 .. Jobs
  BY <1>3, <1>4, Zenon DEF Types, ServerTypes
<1>6. s_pc' \in S_pc /\ s_next' \in S_pc /\ s_ret' \in Result
  BY <1>3, <1>4, Zenon DEF Types, ServerTypes, JobGoto, Fail, CreateTemp, S_pc, Result
<1>7. ServerTypes'
  BY <1>5, <1>6 DEF ReadSource, Types, ServerTypes
<1>8. FileTypes'
  BY <1>4, Zenon DEF Types, FileTypes, CreateTemp, files, Temp
<1>9. Bools' /\ WireTypes' /\ ClientTypes'
  BY <1>1, <1>5 DEF ReadSource, Types, Bools, WireTypes, ClientTypes, Others, client
<1> QED
  BY <1>1, <1>7, <1>8, <1>9, Zenon DEF Types

LEMMA SendTypes ==
  ASSUME Types, NEW tok \in Token, NEW val \in 0 .. Jobs, NEW at, NEW l \in S_pc, SendToken(at, tok, val, l)
  PROVE  Types' /\ UNCHANGED Others
<1>1. PICK w \in Write(to_client, c_open, [tok |-> tok, val |-> val]) :
        /\ to_client' = w.ch
        /\ IF w.ok THEN JobGoto(l) /\ UNCHANGED s_ret
           ELSE JobGoto("x_doto0") /\ s_ret' = "io"
  BY Zenon DEF SendToken
<1>2. to_client \in Seq(Message) /\ c_open \in BOOLEAN /\ reset \in BOOLEAN /\ val \in -1 .. Jobs
  BY ServeJobAssumption DEF Types, WireTypes, Bools
<1>3. to_client' \in Seq(Message)
  BY <1>1, <1>2, Written, Zenon
<1>4. ServerTypes'
  BY <1>1 DEF SendToken, JobGoto, Types, ServerTypes, S_pc, Result
<1>5. UNCHANGED Others
  BY Zenon DEF SendToken, Others
<1>6. WireTypes' /\ ClientTypes' /\ FileTypes' /\ Bools'
  BY <1>3, <1>5 DEF SendToken, Others, files, client, Types, WireTypes, ClientTypes, FileTypes, Bools
<1> QED
  BY <1>4, <1>5, <1>6, Zenon DEF Types

LEMMA OutputTypes ==
  ASSUME Types, NEW tok \in Token, NEW f, NEW at, NEW l \in S_pc, SendOutput(at, tok, f, l)
  PROVE  Types' /\ UNCHANGED Others
<1>1. PICK x \in XFile(to_client, c_open, tok, 0, Lzo) :
        /\ to_client' = IF f \in tmp THEN x.ch ELSE to_client
        /\ IF (IF f \in tmp THEN x.ret ELSE "io") = "0" THEN JobGoto(l) /\ UNCHANGED s_ret
           ELSE JobGoto("x_doto0") /\ s_ret' = IF f \in tmp THEN x.ret ELSE "io"
  BY Zenon DEF SendOutput
<1>2. to_client \in Seq(Message) /\ c_open \in BOOLEAN /\ reset \in BOOLEAN /\ 0 \in -1 .. Jobs /\ Lzo \in BOOLEAN
  BY ServeJobAssumption DEF Types, WireTypes, Bools, Lzo
<1>3. to_client' \in Seq(Message) /\ x.ret \in {"0", "io"}
  BY <1>1, <1>2, FileWritten, XFileOutcome, Zenon
<1>4. ServerTypes'
  BY <1>1, <1>3 DEF SendOutput, JobGoto, Types, ServerTypes, S_pc, Result
<1>5. UNCHANGED Others
  BY Zenon DEF SendOutput, Others
<1>6. WireTypes' /\ ClientTypes' /\ FileTypes' /\ Bools'
  BY <1>3, <1>5 DEF SendOutput, Others, files, client, Types, WireTypes, ClientTypes, FileTypes, Bools
<1> QED
  BY <1>4, <1>5, <1>6, Zenon DEF Types

LEMMA NoObjectTypes ==
  ASSUME Types, SendNoObject
  PROVE  Types' /\ UNCHANGED Others
<1>1. PICK w \in Write(to_client, c_open, [tok |-> "DOTO", val |-> 0]) : to_client' = w.ch
  BY Zenon DEF SendNoObject
<1>2. to_client \in Seq(Message) /\ c_open \in BOOLEAN /\ reset \in BOOLEAN /\ 0 \in -1 .. Jobs /\ "DOTO" \in Token
  BY ServeJobAssumption DEF Types, WireTypes, Bools, Token, Bodies
<1>3. to_client' \in Seq(Message)
  BY <1>1, <1>2, Written, Zenon
<1>4. ServerTypes'
  BY DEF SendNoObject, JobGoto, Types, ServerTypes, S_pc
<1>5. UNCHANGED Others
  BY Zenon DEF SendNoObject, Others
<1>6. WireTypes' /\ ClientTypes' /\ FileTypes' /\ Bools'
  BY <1>3, <1>5 DEF SendNoObject, Others, files, client, Types, WireTypes, ClientTypes, FileTypes, Bools
<1> QED
  BY <1>4, <1>5, <1>6, Zenon DEF Types

LEMMA ObjectTypes ==
  ASSUME Types, SendObject \/ SendDeps
  PROVE  Types' /\ UNCHANGED Others
<1> DEFINE object == IF cc = "ok" THEN input ELSE 0
<1>1. to_client \in Seq(Message) /\ c_open \in BOOLEAN /\ reset \in BOOLEAN /\ Lzo \in BOOLEAN
  BY Zenon DEF Types, WireTypes, Bools, Lzo
<1>2. "DOTO" \in Token /\ "DOTD" \in Token /\ input \in -1 .. Jobs /\ object \in -1 .. Jobs
  BY ServeJobAssumption DEF Types, ServerTypes, Token, Bodies
<1>3. /\ \A x \in XFile(to_client, c_open, "DOTO", object, Lzo) : x.ch \in Seq(Message) /\ x.ret \in {"0", "io"}
      /\ \A x \in XFile(to_client, c_open, "DOTD", input, Lzo) : x.ch \in Seq(Message) /\ x.ret \in {"0", "io"}
  <2> HIDE DEF object
  <2>1. \A x \in XFile(to_client, c_open, "DOTO", object, Lzo) : x.ch \in Seq(Message) /\ x.ret \in {"0", "io"}
    BY <1>1, <1>2, FileWritten, XFileOutcome, Zenon
  <2>2. \A x \in XFile(to_client, c_open, "DOTD", input, Lzo) : x.ch \in Seq(Message) /\ x.ret \in {"0", "io"}
    BY <1>1, <1>2, FileWritten, XFileOutcome, Zenon
  <2> QED
    BY <2>1, <2>2, Zenon
<1>4. to_client' \in Seq(Message)
  BY <1>1, <1>3, Zenon DEF SendObject, SendDeps
<1>5. /\ s_pc' \in S_pc /\ s_ret' \in Result
      /\ UNCHANGED <<s_next, compile_ret, status, input, cc, cwd>>
      /\ job_result' \in {job_result, "COMPILE_OK"}
  BY <1>3, Zenon DEF SendObject, SendDeps, JobGoto, Fail, Types, ServerTypes, S_pc, Result
<1>6. ServerTypes'
  BY <1>5, Zenon DEF Types, ServerTypes
<1>7. UNCHANGED Others
  BY Zenon DEF SendObject, SendDeps, Others
<1>8. UNCHANGED <<to_server, log_open, s_open, files>>
  BY Zenon DEF SendObject, SendDeps
<1>9. WireTypes' /\ ClientTypes' /\ FileTypes' /\ Bools'
  BY <1>4, <1>7, <1>8 DEF Others, files, client, Types, WireTypes, ClientTypes, FileTypes, Bools
<1> QED
  BY <1>6, <1>7, <1>9, Zenon DEF Types

\* The other statements of the server, and what happens to its compiler.
Moves ==
  \/ Register \/ Cleanup \/ StartJob \/ AddLogToFile \/ Chdir \/ Reject \/ Check \/ Spawn
  \/ CompilerEnds \/ Collect \/ Finish \/ Signal

LEMMA MoveTypes ==
  ASSUME Types, s_pc = "register" => making \in Temp, Moves
  PROVE  Types' /\ UNCHANGED <<Others, to_server, to_client>>
<1>1. UNCHANGED <<Others, to_server, to_client>>
  BY Zenon DEF Moves, Register, Cleanup, StartJob, AddLogToFile, Chdir, Reject, Check, Spawn, CompilerEnds, Collect,
         Finish, Signal, Others, wire
<1>2. ServerTypes
  BY Zenon DEF Types
<1>3. ServerTypes'
  <2>1. CASE Register \/ Chdir \/ Reject \/ Check
    BY <1>2, <2>1 DEF Register, Chdir, Reject, Check, JobGoto, Fail, ServerTypes, S_pc, Result
  <2>2. CASE StartJob \/ AddLogToFile \/ Cleanup
    BY <1>2, <2>2, ServeJobAssumption DEF StartJob, AddLogToFile, Cleanup, JobGoto, ServerTypes, S_pc, Result
  <2>3. CASE Spawn \/ CompilerEnds \/ Collect
    BY <1>2, <2>3 DEF Spawn, CompilerEnds, Collect, JobGoto, ServerTypes, S_pc
  <2>4. CASE Finish \/ Signal
    BY <1>2, <2>4 DEF Finish, Signal, JobGoto, ServerTypes, S_pc
  <2> QED
    BY <2>1, <2>2, <2>3, <2>4, Zenon DEF Moves
<1>4. FileTypes'
  <2>1. FileTypes
    BY Zenon DEF Types
  <2>2. CASE Register
    BY <2>1, <2>2 DEF Register, FileTypes
  <2>3. CASE Cleanup
    <3>1. ASSUME NEW f, NEW fs PROVE Removed(f, fs) \subseteq fs
      BY Zenon DEF Removed
    <3>2. tmp' \subseteq Temp /\ making' = making
      BY <2>1, <2>3, <3>1, Zenon DEF Cleanup, FileTypes
    <3>3. cleanups' \in Seq(Temp)
      BY <2>1, <2>3 DEF Cleanup, FileTypes
    <3> QED
      BY <2>1, <3>2, <3>3, Zenon DEF FileTypes
  <2>4. CASE AddLogToFile \/ Spawn \/ CompilerEnds
    BY <2>1, <2>4, Zenon DEF AddLogToFile, Spawn, CompilerEnds, FileTypes, Temp
  <2>5. CASE StartJob \/ Chdir \/ Reject \/ Check \/ Collect \/ Finish \/ Signal
    BY <2>1, <2>5, Zenon DEF StartJob, Chdir, Reject, Check, Collect, Finish, Signal, FileTypes, files
  <2> QED
    BY <2>2, <2>3, <2>4, <2>5, Zenon DEF Moves
<1>5. Bools'
  <2>1. UNCHANGED <<reset, c_open, deps_fname>>
    BY <1>1, Zenon DEF Others, client
  <2>2. s_open' = s_open \/ s_open' = FALSE
    BY Zenon DEF Moves, Register, Cleanup, StartJob, AddLogToFile, Chdir, Reject, Check, Spawn, CompilerEnds, Collect,
           Finish, Signal
  <2>3. log_open' = log_open \/ log_open' = TRUE \/ log_open' = FALSE
    BY Zenon DEF Moves, Register, Cleanup, StartJob, AddLogToFile, Chdir, Reject, Check, Spawn, CompilerEnds, Collect,
           Finish, Signal
  <2> QED
    BY <2>1, <2>2, <2>3, Zenon DEF Types, Bools
<1> QED
  BY <1>1, <1>3, <1>4, <1>5, Quiet, Zenon DEF Types

-----------------------------------------------------------------------------
(* The types of the client's steps.                                        *)

LEMMA StartTypes ==
  ASSUME Types, ClientStart
  PROVE  Types'
<1>1. <<>> \in Seq(Message)
  OBVIOUS
<1>2. WireTypes'
  BY <1>1, ServeJobAssumption DEF Types, ClientStart, WireTypes
<1>3. ClientTypes'
  BY ServeJobAssumption DEF ClientStart, ClientTypes
<1>4. ServerTypes' /\ FileTypes'
  BY DEF Types, ClientStart, ServerTypes, FileTypes, files
<1>5. Bools'
  BY Zenon DEF Types, ClientStart, Bools
<1> QED
  BY <1>2, <1>3, <1>4, <1>5, Zenon DEF Types

LEMMA ClientSendTypes ==
  ASSUME Types, ClientSend
  PROVE  Types'
<1>1. version \in 1 .. 3 /\ c_at \in Nat /\ Sending
  BY VersionType DEF Types, ClientTypes, ClientSend
<1>2. Now \in Token
  BY <1>1, Requests, Zenon DEF Token, Bodies
<1>3. c_at + 1 \in 0 .. 11
  <2>1. c_at <= 5
    BY <1>1, Requests, Zenon
  <2> QED
    BY <1>1, <2>1
<1>4. /\ 0 \in -1 .. Jobs /\ job \in -1 .. Jobs /\ (version = 2) \in BOOLEAN
      /\ to_server \in Seq(Message) /\ s_open \in BOOLEAN /\ reset \in BOOLEAN
  BY ServeJobAssumption DEF Types, WireTypes, Bools
<1>5. \A w \in Write(to_server, s_open, [tok |-> Now, val |-> 0]) : w.ch \in Seq(Message)
  BY <1>2, <1>4, Written, Zenon
<1>6. \A x \in XFile(to_server, s_open, Now, job, version = 2) : x.ch \in Seq(Message)
  BY <1>2, <1>4, FileWritten, Zenon
<1>7. to_server' \in Seq(Message)
  BY <1>4, <1>5, <1>6, Zenon DEF ClientSend
<1>8. /\ (c_at' = c_at + 1 /\ UNCHANGED <<c_open, c_ret>>) \/ (c_at' = 0 /\ c_open' = FALSE /\ c_ret' = "error")
      /\ UNCHANGED <<job, version, reset, to_client, c_status, c_output, c_deps, c_end, deps_fname, server, files>>
  BY Zenon DEF ClientSend, ClientGoto, ClientReturn
<1>9. WireTypes' /\ ClientTypes'
  <2>1. WireTypes'
    BY <1>7, <1>8, Zenon DEF Types, WireTypes
  <2>2. (c_at' = c_at + 1 \/ c_at' = 0) /\ (c_ret' = c_ret \/ c_ret' = "error")
    BY <1>8, Zenon
  <2>3. ClientTypes'
    BY <1>3, <1>8, <2>2 DEF Types, ClientTypes
  <2> QED
    BY <2>1, <2>3, Zenon
<1>10. ServerTypes' /\ FileTypes' /\ UNCHANGED <<s_open, log_open>>
  BY <1>8 DEF Types, ServerTypes, FileTypes, server, files
<1>11. Bools'
  BY <1>8, <1>10, Zenon DEF Types, Bools
<1> QED
  BY <1>9, <1>10, <1>11, Zenon DEF Types

\* The client returns, or goes on, and nothing else changes but its results.
LEMMA ClientEnds ==
  ASSUME Types, c_at' \in 0 .. 11, c_open' = c_open \/ c_open' = FALSE, c_ret' \in {"0", "error"},
         c_end' \in {"none", "cpp", "email"}, c_status' \in {0, 1},
         c_output' \in {OldFile, NoFile} \cup (0 .. Jobs), c_deps' \in {NoFile} \cup (0 .. Jobs),
         to_client' \in Seq(Message), UNCHANGED <<job, version, reset, to_server, deps_fname, server, files>>
  PROVE  Types'
<1>1. WireTypes' /\ ServerTypes' /\ FileTypes' /\ UNCHANGED <<reset, deps_fname, s_open, log_open>>
  BY DEF Types, WireTypes, ServerTypes, FileTypes, server, files
<1>2. ClientTypes'
  BY Zenon DEF ClientTypes
<1>3. Bools'
  BY <1>1, Zenon DEF Types, Bools
<1> QED
  BY <1>1, <1>2, <1>3, Zenon DEF Types

LEMMA CppFailsTypes ==
  ASSUME Types, ClientCppFails
  PROVE  Types'
<1>1. UNCHANGED <<job, version, reset, to_server, to_client, c_output, c_deps, deps_fname, server, files>>
  BY Zenon DEF ClientCppFails, wire
<1>2. c_at' = 0 /\ c_open' = FALSE
  BY Zenon DEF ClientCppFails, ClientReturn
<1>3. c_ret' \in {"0", "error"} /\ c_status' \in {0, 1} /\ c_end' \in {"none", "cpp", "email"}
  BY Zenon DEF Types, ClientTypes, ClientCppFails, ClientReturn
<1>4. /\ c_output' \in {OldFile, NoFile} \cup (0 .. Jobs) /\ c_deps' \in {NoFile} \cup (0 .. Jobs)
      /\ to_client' \in Seq(Message) /\ c_at' \in 0 .. 11
  BY <1>1, <1>2 DEF Types, ClientTypes, WireTypes
<1> QED
  BY <1>1, <1>2, <1>3, <1>4, ClientEnds, Zenon

LEMMA ReadFailsTypes ==
  ASSUME Types, NEW v, ClientReadFails(v), to_client' \in Seq(Message),
         UNCHANGED <<job, version, reset, to_server, server, files>>
  PROVE  Types'
<1>1. UNCHANGED <<job, version, reset, to_server, deps_fname, server, files>>
  BY Zenon DEF ClientReadFails
<1>2. c_at' = 0 /\ c_open' = FALSE
  BY Zenon DEF ClientReadFails, ClientReturn
<1>3. c_ret' \in {"0", "error"} /\ c_status' \in {0, 1} /\ c_end' \in {"none", "cpp", "email"}
  BY Zenon DEF Types, ClientTypes, ClientReadFails, ClientReturn
<1>4. c_output' \in {OldFile, NoFile} \cup (0 .. Jobs) /\ c_deps' \in {NoFile} \cup (0 .. Jobs) /\ c_at' \in 0 .. 11
  BY <1>2 DEF Types, ClientTypes, ClientReadFails
<1> QED
  BY <1>1, <1>2, <1>3, <1>4, ClientEnds, Zenon

LEMMA TimeoutTypes ==
  ASSUME Types, ClientTimeout
  PROVE  Types'
<1>1. UNCHANGED <<job, version, reset, to_server, to_client, server, files>>
  BY Zenon DEF ClientTimeout, wire
<1>2. to_client' \in Seq(Message)
  BY <1>1, Zenon DEF Types, WireTypes
<1>3. ASSUME NEW v, ClientReadFails(v) PROVE Types'
  BY <1>1, <1>2, <1>3, ReadFailsTypes, Zenon
<1>4. ASSUME ClientReturn("error"), UNCHANGED <<c_status, c_output, c_deps, c_end, deps_fname>> PROVE Types'
  <2>1. c_at' = 0 /\ c_open' = FALSE /\ c_ret' = "error"
    BY <1>4, Zenon DEF ClientReturn
  <2>2. /\ c_at' \in 0 .. 11 /\ c_ret' \in {"0", "error"} /\ c_status' \in {0, 1} /\ c_end' \in {"none", "cpp", "email"}
        /\ c_output' \in {OldFile, NoFile} \cup (0 .. Jobs) /\ c_deps' \in {NoFile} \cup (0 .. Jobs)
    BY <1>4, <2>1 DEF Types, ClientTypes
  <2> QED
    BY <1>1, <1>2, <1>4, <2>1, <2>2, ClientEnds, Zenon
<1> QED
  BY <1>3, <1>4, Zenon DEF ClientTimeout

LEMMA ResetTypes ==
  ASSUME Types, Reset
  PROVE  Types'
<1>1. reset' = TRUE /\ UNCHANGED <<job, version, to_server, to_client, client, server, files>>
  BY Zenon DEF Reset
<1>2. WireTypes' /\ ClientTypes' /\ ServerTypes' /\ FileTypes' /\ UNCHANGED <<c_open, deps_fname, s_open, log_open>>
  BY <1>1 DEF Types, WireTypes, ClientTypes, ServerTypes, FileTypes, client, server, files
<1>3. Bools'
  BY <1>1, <1>2, Zenon DEF Types, Bools
<1> QED
  BY <1>2, <1>3, Zenon DEF Types

\* What the client has just taken.
LEMMA Taken ==
  ASSUME Types, ReceiverInv, Receiving, NEW r \in Read(to_client, s_open, Now)
  PROVE  /\ c_at # 0 /\ c_at <= Len(Script(version)) /\ Got \in 0 .. 5
         /\ r.ch \in Seq(Message)
         /\ r.ret = "0" => /\ to_client # <<>> /\ r.ch = Tail(to_client) /\ ~reset
                           /\ to_client[1].tok = Now /\ r.val = to_client[1].val /\ r.val \in 0 .. Jobs
<1>1. version \in 1 .. 3 /\ c_at \in Nat /\ to_client \in Seq(Message) /\ s_open \in BOOLEAN
  BY VersionType DEF Types, ClientTypes, WireTypes, Bools
<1>2. c_at <= Len(Script(version))
  BY Zenon DEF ReceiverInv
<1>3. Got \in 0 .. 5 /\ Now \in Token
  BY <1>1, <1>2, Answers DEF Token, Bodies
<1>4. c_at # 0
  BY <1>1 DEF Receiving, Request
<1>5. /\ r.ch \in Seq(Message) /\ r.val \in -1 .. Jobs
      /\ r.ret = "0" => /\ to_client # <<>> /\ r.ch = Tail(to_client) /\ ~reset
                        /\ Head(to_client).tok = Now /\ r.val = Head(to_client).val /\ r.val # Short
  BY <1>1, <1>3, ReadOutcome
<1>6. to_client # <<>> => Head(to_client) = to_client[1]
  BY <1>1
<1> QED
  BY <1>2, <1>3, <1>4, <1>5, <1>6 DEF Short

LEMMA ReceiveTypes ==
  ASSUME Types, AnswerInv, ReceiverInv, ClientReceive
  PROVE  Types'
<1>1. Receiving /\ UNCHANGED <<job, version, reset, to_server, server, files>>
  BY Zenon DEF ClientReceive
<1>2. PICK r \in Read(to_client, s_open, Now) :
          /\ to_client' = r.ch
          /\ \/ r.ret # "0" /\ ClientReadFails(r.val)
             \/ /\ r.ret = "0"
                /\ c_status' = IF Now = "STAT" THEN r.val ELSE c_status
                /\ c_output' = IF Now = "DOTO" /\ c_status = 0 THEN r.val ELSE c_output
                /\ c_deps' = IF Now = "DOTD" /\ deps_fname THEN r.val ELSE c_deps
                /\ \/ /\ IF LastAnswer THEN ClientReturn("0") ELSE ClientGoto(c_at + 1)
                      /\ UNCHANGED c_end
                   \/ Now = "SERR" /\ JobMayFail("email") /\ ClientReturn("0") /\ c_end' = "email"
                /\ UNCHANGED deps_fname
  BY Zenon DEF ClientReceive
<1>3. /\ c_at # 0 /\ c_at <= Len(Script(version)) /\ r.ch \in Seq(Message)
      /\ r.ret = "0" => /\ to_client # <<>> /\ to_client[1].tok = Now /\ r.val = to_client[1].val /\ r.val \in 0 .. Jobs
  BY <1>1, Taken, Zenon
<1>4. CASE r.ret # "0"
  BY <1>1, <1>2, <1>3, <1>4, ReadFailsTypes, Zenon
<1>5. CASE r.ret = "0"
  <2>1. to_client \in Seq(Message) /\ c_at \in 0 .. 11 /\ version \in 1 .. 3 /\ c_at \in Nat
    BY VersionType DEF Types, WireTypes, ClientTypes
  <2>2. Now = "STAT" => r.val \in {0, 1}
    <3>1. 1 \in 1 .. Len(to_client)
      BY <1>3, <1>5, <2>1
    <3>2. Now = "STAT" => r.val = status
      BY <1>3, <1>5, <3>1, Zenon DEF AnswerInv
    <3> QED
      BY <3>2, Zenon DEF Types, ServerTypes
  <2>3. ~LastAnswer => c_at + 1 \in 0 .. 11
    <3>1. PICK n \in 8 .. 11 : n = Len(Script(version))
      BY <2>1, Scripts, Zenon
    <3>2. c_at <= n /\ (~LastAnswer => c_at # n)
      BY <1>3, <3>1, Zenon DEF LastAnswer
    <3> QED
      BY <2>1, <3>2
  <2>4. /\ c_at' = 0 \/ (c_at' = c_at + 1 /\ ~LastAnswer)
        /\ c_open' = c_open \/ c_open' = FALSE
        /\ c_ret' = c_ret \/ c_ret' = "0"
        /\ c_end' = c_end \/ c_end' = "email"
    BY <1>2, <1>5, Zenon DEF ClientReturn, ClientGoto
  <2>5. c_at' \in 0 .. 11 /\ c_ret' \in {"0", "error"} /\ c_end' \in {"none", "cpp", "email"}
    BY <2>3, <2>4 DEF Types, ClientTypes
  <2>6. /\ c_status' \in {0, 1} /\ c_output' \in {OldFile, NoFile} \cup (0 .. Jobs)
        /\ c_deps' \in {NoFile} \cup (0 .. Jobs)
    BY <1>2, <1>3, <1>5, <2>2, Zenon DEF Types, ClientTypes
  <2>7. to_client' \in Seq(Message) /\ UNCHANGED deps_fname
    BY <1>2, <1>3, <1>5, Zenon
  <2> QED
    BY <1>1, <2>4, <2>5, <2>6, <2>7, ClientEnds, Zenon
<1> QED
  BY <1>4, <1>5, Zenon

-----------------------------------------------------------------------------
(* What is reported: the server's steps.                                   *)

\* The server does not answer: what holds of the answers stays true.
SilentStep ==
  /\ Unanswered \/ UNCHANGED <<status, compile_ret>>
  /\ Unanswered' => Unanswered
  /\ At' \in {"x_stat", "x_serr", "x_sout", "x_doto", "x_doto0"} => At' = At

LEMMA Silent ==
  ASSUME Types, ReportInv, UNCHANGED Others, UNCHANGED to_client, SilentStep
  PROVE  CountInv' /\ AnswerInv' /\ ReceiverInv'
<1>0. /\ CountInv /\ AnswerInv /\ ReceiverInv
      /\ Unanswered \/ UNCHANGED <<status, compile_ret>>
      /\ Unanswered' => Unanswered
      /\ At' \in {"x_stat", "x_serr", "x_sout", "x_doto", "x_doto0"} => At' = At
  BY Zenon DEF ReportInv, SilentStep
<1>1. UNCHANGED <<job, version, reset, c_at, c_open, c_ret, c_status, c_output, c_end, to_client>>
  BY Zenon DEF Others, client
<1>2. /\ to_client \in Seq(Message) /\ version \in 1 .. 3 /\ c_at \in Nat /\ job \in Nat
      /\ status \in {0, 1} /\ c_status \in {0, 1}
  BY VersionType DEF Types, WireTypes, ClientTypes, ServerTypes
<1>3. Got' = Got /\ Sofar' = Sofar
  BY <1>1, Zenon DEF Got, Sofar, Receiving
<1>4. Got \in Nat /\ Len(to_client) \in Nat /\ Len(Script(version)) \in Nat
  BY <1>2 DEF Got, Receiving, Request, Script, Answer
<1>5. CASE Unanswered
  <2>1. c_at # 0 => Got = 0 /\ Len(to_client) = 0
    BY <1>0, <1>4, <1>5 DEF CountInv, Sofar
  <2>2. CountInv'
    BY <1>0, <1>1, <1>3, <1>4, <1>5, <2>1 DEF CountInv, Sofar
  <2>3. AnswerInv'
    BY <1>1, <2>1 DEF AnswerInv
  <2>4. ReceiverInv'
    BY <1>0, <1>1, <1>2, <1>3, <1>5, <2>1 DEF ReceiverInv
  <2> QED
    BY <2>2, <2>3, <2>4, Zenon
<1>6. CASE ~Unanswered /\ UNCHANGED <<status, compile_ret>>
  <2>1. CountInv'
    BY <1>0, <1>1, <1>3, <1>6, Zenon DEF CountInv
  <2>2. AnswerInv'
    BY <1>0, <1>1, <1>3, <1>6, Zenon DEF AnswerInv, Fits
  <2>3. ReceiverInv'
    BY <1>0, <1>1, <1>3, <1>6, Zenon DEF ReceiverInv
  <2> QED
    BY <2>1, <2>2, <2>3, Zenon
<1> QED
  BY <1>0, <1>5, <1>6, Zenon

\* One more message: the status is the right one, and an object that is not
\* behind a gap fits.
LEMMA Told ==
  ASSUME Types, AnswerInv, ReceiverInv, UNCHANGED <<Others, status, compile_ret>>, ~Unanswered',
         NEW m \in Message, to_client' = to_client \/ to_client' = Append(to_client, m),
         m.tok = "STAT" => m.val = status,
         m.tok = "DOTO" => (c_at # 0 => Sofar <= 4 /\ (Sofar = 4 => Fits(m.val)))
  PROVE  /\ AnswerInv' /\ ReceiverInv'
         /\ Sofar' = Sofar + Len(to_client') - Len(to_client)
         /\ c_at # 0 => Sofar \in Nat /\ Got \in Nat
<1>1. UNCHANGED <<job, version, reset, c_at, c_open, c_ret, c_status, c_output, c_end>>
  BY Zenon DEF Others, client
<1>2. to_client \in Seq(Message) /\ version \in 1 .. 3 /\ c_at \in Nat
  BY VersionType DEF Types, WireTypes, ClientTypes
<1>3. Got' = Got
  BY <1>1, Zenon DEF Got, Receiving
<1>4. Got \in Nat /\ Len(to_client) \in Nat
  BY <1>2 DEF Got, Receiving, Request
<1>5. to_client' \in Seq(Message) /\ Len(to_client') \in Nat
  BY <1>2
<1>6. ReceiverInv'
  BY <1>1, <1>3, Zenon DEF ReceiverInv
<1>7. ASSUME c_at # 0, NEW k \in 1 .. Len(to_client')
      PROVE  /\ to_client'[k].tok = "STAT" => to_client'[k].val = status
             /\ to_client'[k].tok = "DOTO" => Got + k <= 5 /\ (Got + k = 5 => Fits(to_client'[k].val))
  <2>1. CASE k \in 1 .. Len(to_client) /\ to_client'[k] = to_client[k]
    BY <1>7, <2>1, Zenon DEF AnswerInv
  <2>2. CASE k = Len(to_client) + 1 /\ to_client'[k] = m
    BY <1>4, <1>7, <2>2 DEF Sofar
  <2> QED
    BY <1>2, <1>7, <2>1, <2>2
<1>8. AnswerInv'
  BY <1>1, <1>3, <1>7, Zenon DEF AnswerInv, Fits
<1> QED
  BY <1>3, <1>4, <1>5, <1>6, <1>8 DEF Sofar

-----------------------------------------------------------------------------
(* What is reported: the request.                                          *)

\* A message is taken, or everything that was on its way is lost.
LEMMA SourceTaken ==
  ASSUME Types, SourceInv, UNCHANGED job,
         to_server' = to_server \/ to_server' = <<>> \/ (to_server # <<>> /\ to_server' = Tail(to_server))
  PROVE  SourceInv'
<1>1. to_server \in Seq(Message)
  BY Zenon DEF Types, WireTypes
<1>2. CASE to_server' = to_server
  BY <1>2, Zenon DEF SourceInv
<1>3. CASE to_server' = <<>>
  BY <1>3 DEF SourceInv
<1>4. CASE to_server # <<>> /\ to_server' = Tail(to_server)
  <2>1. \A k \in 1 .. Len(to_server') : k + 1 \in 1 .. Len(to_server) /\ to_server'[k] = to_server[k + 1]
    BY <1>1, <1>4
  <2> QED
    BY <2>1, Zenon DEF SourceInv
<1> QED
  BY <1>2, <1>3, <1>4, Zenon

\* Statements that do not answer.
LEMMA MakeReport ==
  ASSUME Types, ReportInv, NEW at, NEW f, NEW l, Makes(at, f, l), MakeTemp(at, f, l)
  PROVE  ReportInv'
<1>1. UNCHANGED <<Others, to_server, to_client>>
  BY MakeTypes, Zenon
<1>2. SourceInv /\ JobInv
  BY Zenon DEF ReportInv
<1>3. /\ At = at /\ (At' = l \/ At' = "finish")
      /\ s_pc = at /\ s_pc' \in {"register", "finish"}
      /\ UNCHANGED <<s_open, compile_ret, status, input, cc>>
      /\ tmp' = tmp \/ tmp' = tmp \cup {f}
  BY Zenon DEF MakeTemp, CreateTemp, JobGoto, Fail, files, Makes, At
<1>4. UNCHANGED <<job, reset, c_open>>
  BY <1>1, Zenon DEF Others, client
<1>5. JobInv'
  BY <1>2, <1>3, <1>4, Zenon DEF Makes, JobInv, Naming, Reading, Running, Answering
<1>6. SilentStep
  BY <1>3, Zenon DEF Makes, SilentStep, Unanswered, Naming, Reading, Running
<1>7. SourceInv'
  BY <1>1, <1>2, <1>4, SourceTaken, Zenon
<1>8. CountInv' /\ AnswerInv' /\ ReceiverInv'
  BY <1>1, <1>6, Silent, Zenon
<1> QED
  BY <1>5, <1>7, <1>8, Zenon DEF ReportInv

LEMMA ReadReport ==
  ASSUME Types, ReportInv, NEW at, NEW tok, NEW l, Reads(at, tok, l), ReadToken(at, tok, l)
  PROVE  ReportInv'
<1>1. UNCHANGED <<Others, to_client>>
  BY ReadTypes, Zenon
<1>2. SourceInv /\ JobInv
  BY Zenon DEF ReportInv
<1>3. /\ At = at /\ (At' = l \/ At' = "finish")
      /\ s_pc = at /\ s_pc' \in {l, "finish"}
      /\ UNCHANGED <<s_open, compile_ret, status, input, cc, tmp>>
  BY Zenon DEF ReadToken, JobGoto, Fail, files, Reads, At
<1>4. UNCHANGED <<job, reset, c_open>>
  BY <1>1, Zenon DEF Others, client
<1>5. JobInv'
  BY <1>2, <1>3, <1>4, Zenon DEF Reads, JobInv, Naming, Reading, Running, Answering
<1>6. SilentStep
  BY <1>3, Zenon DEF Reads, SilentStep, Unanswered, Naming, Reading, Running
<1>7. SourceInv'
  <2>1. tok \in Token /\ to_server \in Seq(Message) /\ c_open \in BOOLEAN
    BY Zenon DEF Reads, Token, Types, WireTypes, Bools
  <2>2. PICK r \in Read(to_server, c_open, tok) : to_server' = r.ch
    BY Zenon DEF ReadToken
  <2>3. to_server' = <<>> \/ (to_server # <<>> /\ to_server' = Tail(to_server))
    BY <2>1, <2>2, ReadOutcome
  <2> QED
    BY <1>2, <1>4, <2>3, SourceTaken, Zenon
<1>8. CountInv' /\ AnswerInv' /\ ReceiverInv'
  BY <1>1, <1>6, Silent, Zenon
<1> QED
  BY <1>5, <1>7, <1>8, Zenon DEF ReportInv

LEMMA SourceReport ==
  ASSUME Types, ReportInv, ReadSource
  PROVE  ReportInv'
<1>1. UNCHANGED <<Others, to_client>>
  BY SourceTypes, Zenon
<1>2. SourceInv /\ JobInv
  BY Zenon DEF ReportInv
<1>3. /\ s_pc \in {"r_doti", "r_file"} /\ At = s_pc
      /\ UNCHANGED <<s_open, compile_ret, status, cc>>
  BY Zenon DEF ReadSource, At
<1>4. UNCHANGED <<job, reset, c_open>>
  BY <1>1, Zenon DEF Others, client
<1>5. PICK tok \in {"DOTI", "FILE"}, r \in UNION {Read(to_server, c_open, "DOTI"), Read(to_server, c_open, "FILE")} :
        /\ r \in Read(to_server, c_open, tok)
        /\ to_server' = r.ch
        /\ \/ r.ret = "0" /\ input' = r.val /\ At' = "check"
           \/ At' = "finish"
        /\ s_pc' \in {"register", "check", "finish"}
        /\ tmp' \in {tmp, tmp \cup {"file"}, tmp \ {"input"}}
  BY Zenon DEF ReadSource, JobGoto, Fail, CreateTemp, At, files
<1>6. tok \in Token /\ to_server \in Seq(Message) /\ c_open \in BOOLEAN
  BY <1>5, Zenon DEF Token, Bodies, Types, WireTypes, Bools
<1>7. /\ to_server' = <<>> \/ (to_server # <<>> /\ to_server' = Tail(to_server))
      /\ r.ret = "0" => to_server # <<>> /\ Head(to_server).tok = tok /\ r.val = Head(to_server).val /\ r.val # Short
  BY <1>5, <1>6, ReadOutcome
<1>8. r.ret = "0" => r.val = job
  <2>1. to_server # <<>> => 1 \in 1 .. Len(to_server) /\ Head(to_server) = to_server[1]
    BY <1>6
  <2>2. to_server # <<>> /\ to_server[1].tok = tok => to_server[1].val \in {job, Short}
    BY <1>2, <2>1, Zenon DEF SourceInv
  <2> QED
    BY <1>7, <2>1, <2>2, Zenon
<1>9. JobInv'
  BY <1>2, <1>3, <1>4, <1>5, <1>8, Zenon DEF JobInv, Naming, Reading, Running, Answering
<1>10. SilentStep
  BY <1>3, <1>5, Zenon DEF SilentStep, Unanswered, Naming, Reading, Running
<1>11. SourceInv'
  BY <1>2, <1>4, <1>7, SourceTaken, Zenon
<1>12. CountInv' /\ AnswerInv' /\ ReceiverInv'
  BY <1>1, <1>10, Silent, Zenon
<1> QED
  BY <1>9, <1>11, <1>12, Zenon DEF ReportInv

LEMMA MoveReport ==
  ASSUME Types, ReportInv, s_pc = "register" => Follows(making, s_next), Moves
  PROVE  ReportInv'
<1>0. s_pc = "register" => making \in Temp
  BY Zenon DEF Follows, Temp
<1>1. UNCHANGED <<Others, to_server, to_client>>
  BY <1>0, MoveTypes, Zenon
<1>2. SourceInv /\ JobInv
  BY Zenon DEF ReportInv
<1>3. UNCHANGED <<job, reset, c_open>>
  BY <1>1, Zenon DEF Others, client
<1>4. SourceInv'
  BY <1>1, <1>2, <1>3, SourceTaken, Zenon
<1>5. ASSUME Register PROVE JobInv' /\ SilentStep
  <2>1. At' = At /\ At \notin {"accept", "register"} /\ s_pc' # "accept" /\ s_pc # "accept"
    BY <1>5, Zenon DEF Register, Follows, At
  <2>2. UNCHANGED <<tmp, compile_ret, status, input, cc>>
    BY <1>5, Zenon DEF Register
  <2> QED
    BY <1>2, <1>3, <2>1, <2>2, Zenon DEF JobInv, SilentStep, Unanswered
<1>6. ASSUME Cleanup PROVE JobInv' /\ SilentStep
  BY <1>6, Zenon DEF Cleanup, JobInv, SilentStep, Unanswered, At, Naming, Reading, Running, Answering
<1>7. ASSUME StartJob PROVE JobInv' /\ SilentStep
  BY <1>7, Zenon DEF StartJob, JobGoto, JobInv, SilentStep, Unanswered, At, Naming, Reading, Running, Answering
<1>8. ASSUME AddLogToFile \/ Chdir PROVE JobInv' /\ SilentStep
  BY <1>2, <1>3, <1>8, Zenon DEF AddLogToFile, Chdir, files, JobGoto, Fail, JobInv, SilentStep, Unanswered, At, Naming, Reading, Running, Answering
<1>9. ASSUME Reject \/ Check PROVE JobInv' /\ SilentStep
  BY <1>2, <1>3, <1>9, Zenon DEF Reject, Check, files, JobGoto, Fail, JobInv, SilentStep, Unanswered, At, Naming, Reading, Running, Answering
<1>10. ASSUME Spawn PROVE JobInv' /\ SilentStep
  <2>1. /\ s_pc = "spawn" /\ At = s_pc /\ s_pc' \in {"collect", "x_done"} /\ At' = s_pc'
        /\ UNCHANGED <<s_open, input>>
    BY <1>10, Zenon DEF Spawn, JobGoto, At
  <2>2. /\ s_pc' = "x_done" => status' = 1 /\ UNCHANGED tmp
        /\ s_pc' = "collect" => UNCHANGED <<compile_ret, status>>
        /\ compile_ret' # "io"
    BY <1>2, <1>10, <2>1, Zenon DEF Spawn, JobGoto, JobInv, Running
  <2> QED
    BY <1>2, <1>3, <2>1, <2>2 DEF JobInv, SilentStep, Unanswered, Naming, Reading, Running, Answering
<1>11. ASSUME CompilerEnds PROVE JobInv' /\ SilentStep
  <2>1. UNCHANGED <<s_pc, s_next, s_open, compile_ret, status, input>> /\ cc # "ok"
    BY <1>11, Zenon DEF CompilerEnds
  <2>2. "out" \notin tmp => "out" \notin tmp'
    BY <1>11 DEF CompilerEnds
  <2>3. At' = At /\ Unanswered' = Unanswered
    BY <2>1, Zenon DEF At, Unanswered
  <2> QED
    BY <1>2, <1>3, <2>1, <2>2, <2>3, Zenon DEF JobInv, SilentStep
<1>12. ASSUME Collect PROVE JobInv' /\ SilentStep
  <2>1. /\ s_pc = "collect" /\ At = s_pc /\ s_pc' \in {"collect", "x_done"} /\ At' = s_pc'
        /\ UNCHANGED <<s_open, input>>
    BY <1>12, Zenon DEF Collect, JobGoto, At
  <2>2. /\ s_pc' = "x_done" /\ UNCHANGED tmp
        /\ status' = 0 => cc' = "ok"
        /\ compile_ret' # "other"
        /\ compile_ret' = "io" => reset \/ ~c_open
    BY <1>2, <1>12, <2>1 DEF Collect, Disconnected, JobGoto, files, JobInv, Running
  <2> QED
    BY <1>2, <1>3, <2>1, <2>2, Zenon DEF JobInv, SilentStep, Unanswered, Naming, Reading, Running, Answering
<1>13. ASSUME Finish \/ Signal PROVE JobInv' /\ SilentStep
  BY <1>13, Zenon DEF Finish, Signal, JobGoto, JobInv, SilentStep, Unanswered, At, Naming, Reading, Running, Answering
<1>14. JobInv' /\ SilentStep
  BY <1>5, <1>6, <1>7, <1>8, <1>9, <1>10, <1>11, <1>12, <1>13, Zenon DEF Moves
<1>15. CountInv' /\ AnswerInv' /\ ReceiverInv'
  BY <1>1, <1>14, Silent, Zenon
<1> QED
  BY <1>4, <1>14, <1>15, Zenon DEF ReportInv

\* Statements that answer.
AnswerStep ==
  /\ UNCHANGED <<Others, to_server, s_open, compile_ret, status, input, cc, tmp>>
  /\ s_pc \in {"x_done", "x_stat", "x_serr", "x_sout", "x_doto0", "x_doto", "x_dotd"}
  /\ s_pc' \in {"x_stat", "x_serr", "x_sout", "x_doto0", "x_doto", "mk_dotd", "finish"}
  /\ s_pc' \in {"x_stat", "x_serr", "x_sout", "x_doto"} => s_pc \in {"x_done", "x_stat", "x_serr", "x_sout"}
  /\ s_pc' = "x_doto" => status = 0

LEMMA Answered ==
  ASSUME Types, ReportInv, AnswerStep
  PROVE  SourceInv' /\ JobInv' /\ ~Unanswered' /\ At = s_pc /\ At' = s_pc'
<1>1. UNCHANGED <<job, reset, c_open, to_server, compile_ret, status, input, cc, tmp>>
  BY Zenon DEF AnswerStep, Others, client
<1>2. At = s_pc /\ At' = s_pc'
  BY Zenon DEF AnswerStep, At
<1>3. SourceInv'
  BY <1>1, Zenon DEF ReportInv, SourceInv
<1>4. JobInv'
  BY <1>1, <1>2, Zenon DEF AnswerStep, ReportInv, JobInv, Naming, Reading, Running, Answering
<1>5. ~Unanswered'
  BY <1>2, Zenon DEF AnswerStep, Unanswered, Naming, Reading, Running
<1> QED
  BY <1>2, <1>3, <1>4, <1>5, Zenon

\* So many answers, and one more at most.
Adds(m) ==
  /\ to_client' = to_client \/ to_client' = Append(to_client, m)
  /\ m.tok = "STAT" => m.val = status
  /\ m.tok = "DOTO" => s_pc \in {"x_doto", "x_doto0"} /\ (c_at # 0 /\ Sofar = 4 => Fits(m.val))
  /\ s_pc = "x_done" => s_pc' \in {"x_stat", "x_doto0"}
  /\ s_pc = "x_stat" => s_pc' \in {"x_serr", "x_doto0"}
  /\ s_pc = "x_serr" => s_pc' \in {"x_sout", "x_doto0"}
  /\ s_pc = "x_sout" => s_pc' \in {"x_doto", "x_doto0"}
  /\ s_pc \in {"x_doto", "x_doto0", "x_dotd"} => s_pc' \in {"mk_dotd", "finish"}
  /\ s_pc = "x_sout" /\ s_pc' = "x_doto0" /\ (status = 0 \/ compile_ret = "other") => to_client' = to_client

LEMMA Counted ==
  ASSUME Types, ReportInv, AnswerStep, NEW m \in Message, Adds(m)
  PROVE  ReportInv'
<1>1. SourceInv' /\ JobInv' /\ ~Unanswered' /\ At = s_pc /\ At' = s_pc'
  BY Answered, Zenon
<1>2. UNCHANGED <<Others, status, compile_ret>> /\ UNCHANGED c_at /\ to_client \in Seq(Message)
  BY Zenon DEF AnswerStep, Others, client, Types, WireTypes
<1>3. m.tok = "DOTO" => (c_at # 0 => Sofar <= 4 /\ (Sofar = 4 => Fits(m.val)))
  <2>1. m.tok = "DOTO" => At \in {"x_doto", "x_doto0"} /\ (c_at # 0 /\ Sofar = 4 => Fits(m.val))
    BY <1>1, Zenon DEF Adds
  <2> QED
    BY <2>1, Zenon DEF ReportInv, CountInv
<1>4. AnswerInv /\ ReceiverInv /\ CountInv
  BY Zenon DEF ReportInv
<1>5. (to_client' = to_client \/ to_client' = Append(to_client, m)) /\ (m.tok = "STAT" => m.val = status)
  BY Zenon DEF Adds
<1>6. /\ AnswerInv' /\ ReceiverInv'
      /\ Sofar' = Sofar + Len(to_client') - Len(to_client)
      /\ c_at # 0 => Sofar \in Nat
  BY <1>1, <1>2, <1>3, <1>4, <1>5, Told, Zenon
<1>7. PICK d \in {0, 1} : Sofar' = Sofar + d /\ (to_client' = to_client => d = 0)
  <2>1. CASE to_client' = to_client
    BY <1>2, <1>6, <2>1
  <2>2. CASE to_client' = Append(to_client, m)
    BY <1>2, <1>6, <2>2
  <2> QED
    BY <1>5, <2>1, <2>2, Zenon
<1>8. s_pc = "x_done" => Unanswered
  BY <1>1, Zenon DEF Unanswered
<1>9. CountInv'
  <2>1. /\ s_pc \in {"x_done", "x_stat", "x_serr", "x_sout", "x_doto0", "x_doto", "x_dotd"}
        /\ s_pc = "x_done" => s_pc' \in {"x_stat", "x_doto0"}
        /\ s_pc = "x_stat" => s_pc' \in {"x_serr", "x_doto0"}
        /\ s_pc = "x_serr" => s_pc' \in {"x_sout", "x_doto0"}
        /\ s_pc = "x_sout" => s_pc' \in {"x_doto", "x_doto0"}
        /\ s_pc \in {"x_doto", "x_doto0", "x_dotd"} => s_pc' \in {"mk_dotd", "finish"}
        /\ s_pc = "x_sout" /\ s_pc' = "x_doto0" /\ (status = 0 \/ compile_ret = "other") => to_client' = to_client
    BY Zenon DEF Adds, AnswerStep
  <2> QED
    BY <1>1, <1>2, <1>4, <1>6, <1>7, <1>8, <2>1, SMTT(30) DEF CountInv
<1> QED
  BY <1>1, <1>6, <1>9, Zenon DEF ReportInv

LEMMA SendReport ==
  ASSUME Types, ReportInv, NEW at, NEW tok, NEW val \in {0, status}, NEW l, SendToken(at, tok, val, l),
         \/ at = "x_done" /\ l = "x_stat" /\ tok = "DONE"
         \/ at = "x_stat" /\ l = "x_serr" /\ tok = "STAT" /\ val = status
  PROVE  ReportInv' /\ AnswerStep
<1> DEFINE m == [tok |-> tok, val |-> val]
<1>1. /\ to_client \in Seq(Message) /\ c_open \in BOOLEAN /\ reset \in BOOLEAN
      /\ tok \in Token /\ val \in -1 .. Jobs
  BY ServeJobAssumption DEF Types, WireTypes, ServerTypes, Bools, Token
<1>2. m \in Message /\ m.tok = tok /\ m.val = val
  BY <1>1, Zenon DEF Message
<1>3. PICK w \in Write(to_client, c_open, m) :
        to_client' = w.ch /\ s_pc' = IF w.ok THEN l ELSE "x_doto0"
  BY Zenon DEF SendToken, JobGoto
<1> HIDE DEF m
<1>4. to_client' = to_client \/ to_client' = Append(to_client, m)
  BY <1>1, <1>2, <1>3, WriteOutcome, Zenon
<1>5. s_pc = at /\ s_pc' \in {l, "x_doto0"}
  BY <1>3, Zenon DEF SendToken
<1>6. UNCHANGED <<Others, to_server, s_open, compile_ret, status, input, cc, tmp>>
  BY Zenon DEF SendToken, Others, files
<1>7. AnswerStep
  BY <1>5, <1>6, Zenon DEF AnswerStep
<1>8. Adds(m)
  BY <1>2, <1>4, <1>5, Zenon DEF Adds
<1> QED
  BY <1>2, <1>7, <1>8, Counted, Zenon

LEMMA OutputReport ==
  ASSUME Types, ReportInv, NEW at, NEW tok, NEW f, NEW l, SendOutput(at, tok, f, l),
         \/ at = "x_serr" /\ tok = "SERR" /\ l = "x_sout"
         \/ at = "x_sout" /\ tok = "SOUT" /\ f = "out" /\ l = ObjectNext
  PROVE  ReportInv' /\ AnswerStep
<1>1. /\ to_client \in Seq(Message) /\ c_open \in BOOLEAN /\ reset \in BOOLEAN
      /\ tok \in Token /\ tok \notin {"STAT", "DOTO"} /\ 0 \in -1 .. Jobs
  BY ServeJobAssumption DEF Types, WireTypes, Bools, Token, Bodies
<1>2. Lzo \in BOOLEAN
  BY Zenon DEF Lzo
<1>3. PICK x \in XFile(to_client, c_open, tok, 0, Lzo) :
        /\ to_client' = IF f \in tmp THEN x.ch ELSE to_client
        /\ s_pc' \in {l, "x_doto0"}
        /\ f \in tmp /\ x.ret = "0" => s_pc' = l
  BY Zenon DEF SendOutput, JobGoto
<1>4. \/ x.ch = to_client
      \/ x.ret = "0" /\ \E v \in {0, Short} : x.ch = Append(to_client, [tok |-> tok, val |-> v])
  BY <1>1, <1>2, XFileOutcome
<1>5. \A v \in {0, Short} : [tok |-> tok, val |-> v] \in Message /\ [tok |-> tok, val |-> v].tok = tok
  BY <1>1, ServeJobAssumption DEF Message, Short
<1>6. PICK m \in Message : m.tok = tok /\ (to_client' = to_client \/ to_client' = Append(to_client, m))
  BY <1>3, <1>4, <1>5, Zenon
<1>7. s_pc = at
  BY Zenon DEF SendOutput
<1>8. UNCHANGED <<Others, to_server, s_open, compile_ret, status, input, cc, tmp>>
  BY Zenon DEF SendOutput, Others, files
<1>9. AnswerStep
  BY <1>3, <1>7, <1>8, Zenon DEF AnswerStep, ObjectNext
<1>10. s_pc = "x_sout" /\ s_pc' = "x_doto0" /\ (status = 0 \/ compile_ret = "other") => to_client' = to_client
  <2>1. s_pc = "x_sout" /\ compile_ret = "other" => "out" \notin tmp
    BY Zenon DEF ReportInv, JobInv, At, Answering
  <2>2. x.ret # "0" => x.ch = to_client
    BY <1>4, Zenon
  <2> QED
    BY <1>3, <1>7, <2>1, <2>2, Zenon DEF ObjectNext
<1>11. Adds(m)
  BY <1>1, <1>3, <1>6, <1>7, <1>10, Zenon DEF Adds, ObjectNext
<1> QED
  BY <1>9, <1>11, Counted, Zenon

LEMMA NoObjectReport ==
  ASSUME Types, ReportInv, SendNoObject
  PROVE  ReportInv' /\ AnswerStep
<1> DEFINE m == [tok |-> "DOTO", val |-> 0]
<1>1. to_client \in Seq(Message) /\ c_open \in BOOLEAN /\ reset \in BOOLEAN
  BY Zenon DEF Types, WireTypes, Bools
<1>2. m \in Message /\ m.tok = "DOTO" /\ m.val = 0
  BY ServeJobAssumption DEF Message, Token, Bodies
<1>3. PICK w \in Write(to_client, c_open, m) : to_client' = w.ch
  BY Zenon DEF SendNoObject
<1> HIDE DEF m
<1>4. to_client' = to_client \/ to_client' = Append(to_client, m)
  BY <1>1, <1>2, <1>3, WriteOutcome, Zenon
<1>5. s_pc = "x_doto0" /\ s_pc' = "finish"
  BY Zenon DEF SendNoObject, JobGoto
<1>6. UNCHANGED <<Others, to_server, s_open, compile_ret, status, input, cc, tmp>>
  BY Zenon DEF SendNoObject, Others, files
<1>7. AnswerStep
  BY <1>5, <1>6, Zenon DEF AnswerStep
<1>8. ASSUME c_at # 0, Sofar = 4 PROVE Fits(0)
  <2>1. status # 0 /\ compile_ret # "other"
    BY <1>5, <1>8 DEF ReportInv, CountInv, At
  <2>2. compile_ret = "io" => reset
    BY <1>5, <1>8, Zenon DEF ReportInv, JobInv, ReceiverInv, At, Answering
  <2>3. compile_ret \in {"0", "io", "timeout", "other"}
    BY Zenon DEF Types, ServerTypes
  <2> QED
    BY <2>1, <2>2, <2>3, Zenon DEF Fits
<1>9. Adds(m)
  BY <1>2, <1>4, <1>5, <1>8, Zenon DEF Adds
<1> QED
  BY <1>2, <1>7, <1>9, Counted, Zenon

LEMMA ObjectReport ==
  ASSUME Types, ReportInv, SendObject
  PROVE  ReportInv' /\ AnswerStep
<1>1. /\ to_client \in Seq(Message) /\ c_open \in BOOLEAN /\ reset \in BOOLEAN
      /\ "DOTO" \in Token /\ job \in -1 .. Jobs
  BY DEF Types, WireTypes, Bools, Token, Bodies
<1>2. Lzo \in BOOLEAN
  BY Zenon DEF Lzo
<1>3. s_pc = "x_doto" /\ s_pc' \in {"mk_dotd", "finish"}
  BY Zenon DEF SendObject, JobGoto, Fail
<1>4. UNCHANGED <<Others, to_server, s_open, compile_ret, status, input, cc, tmp>>
  BY Zenon DEF SendObject, Others, files
<1>5. status = 0 /\ (IF cc = "ok" THEN input ELSE 0) = job
  BY <1>3, Zenon DEF ReportInv, JobInv, At, Answering
<1>6. \/ \E x \in XFile(to_client, c_open, "DOTO", job, Lzo) : to_client' = x.ch
      \/ to_client' = to_client
  BY <1>5, Zenon DEF SendObject
<1>7. \A v \in {job, Short} : [tok |-> "DOTO", val |-> v] \in Message /\ [tok |-> "DOTO", val |-> v].val = v
                             /\ [tok |-> "DOTO", val |-> v].tok = "DOTO"
  BY <1>1, ServeJobAssumption DEF Message, Short
<1>8. PICK m \in Message : m.tok = "DOTO" /\ m.val \in {job, Short} /\ (to_client' = to_client \/ to_client' = Append(to_client, m))
  <2>1. ASSUME NEW x \in XFile(to_client, c_open, "DOTO", job, Lzo)
        PROVE  x.ch = to_client \/ \E v \in {job, Short} : x.ch = Append(to_client, [tok |-> "DOTO", val |-> v])
    BY <1>1, <1>2, XFileOutcome
  <2> QED
    BY <1>6, <1>7, <2>1, Zenon
<1>9. AnswerStep
  BY <1>3, <1>4, Zenon DEF AnswerStep
<1>10. Fits(m.val)
  BY <1>5, <1>8, Zenon DEF Fits
<1>11. Adds(m)
  BY <1>3, <1>8, <1>10, Zenon DEF Adds
<1> QED
  BY <1>9, <1>11, Counted, Zenon

LEMMA DepsReport ==
  ASSUME Types, ReportInv, SendDeps
  PROVE  ReportInv' /\ AnswerStep
<1>1. /\ to_client \in Seq(Message) /\ c_open \in BOOLEAN /\ reset \in BOOLEAN
      /\ "DOTD" \in Token /\ input \in -1 .. Jobs
  BY DEF Types, WireTypes, ServerTypes, Bools, Token, Bodies
<1>2. Lzo \in BOOLEAN
  BY Zenon DEF Lzo
<1>3. s_pc = "x_dotd" /\ s_pc' = "finish"
  BY Zenon DEF SendDeps, JobGoto, Fail
<1>4. UNCHANGED <<Others, to_server, s_open, compile_ret, status, input, cc, tmp>>
  BY Zenon DEF SendDeps, Others, files
<1>5. \/ \E x \in XFile(to_client, c_open, "DOTD", input, Lzo) : to_client' = x.ch
      \/ to_client' = to_client
  BY Zenon DEF SendDeps
<1>6. \A v \in {input, Short} : [tok |-> "DOTD", val |-> v] \in Message /\ [tok |-> "DOTD", val |-> v].tok = "DOTD"
  BY <1>1, ServeJobAssumption DEF Message, Short
<1>7. PICK m \in Message : m.tok = "DOTD" /\ (to_client' = to_client \/ to_client' = Append(to_client, m))
  <2>1. ASSUME NEW x \in XFile(to_client, c_open, "DOTD", input, Lzo)
        PROVE  x.ch = to_client \/ \E v \in {input, Short} : x.ch = Append(to_client, [tok |-> "DOTD", val |-> v])
    BY <1>1, <1>2, XFileOutcome
  <2> QED
    BY <1>5, <1>6, <2>1, Zenon
<1>8. AnswerStep
  BY <1>3, <1>4, Zenon DEF AnswerStep
<1>9. Adds(m)
  BY <1>3, <1>7, Zenon DEF Adds
<1> QED
  BY <1>8, <1>9, Counted, Zenon

-----------------------------------------------------------------------------
(* What is reported: the client's steps.                                   *)

\* A step that leaves the server alone.
LEMMA ClientFrame ==
  ASSUME JobInv, UNCHANGED <<job, server, files>>, reset \/ ~c_open => reset' \/ ~c_open'
  PROVE  /\ JobInv' /\ At' = At /\ Unanswered' = Unanswered
         /\ UNCHANGED <<status, compile_ret, s_open>>
<1>1. UNCHANGED <<s_pc, s_next, s_open, compile_ret, status, input, cc, tmp>>
  BY Zenon DEF server, files
<1>2. At' = At
  BY <1>1, Zenon DEF At
<1>3. Unanswered' = Unanswered
  BY <1>1, <1>2, Zenon DEF Unanswered
<1>4. JobInv'
  BY <1>1, <1>2, Zenon DEF JobInv
<1> QED
  BY <1>1, <1>2, <1>3, <1>4, Zenon

\* The client has returned.
LEMMA EndReport ==
  ASSUME Types, ReportInv, UNCHANGED <<job, version, reset, server, files>>, SourceInv',
         c_at' = 0, c_open' = FALSE,
         \/ c_ret' = "error" \/ c_end' # "none"
         \/ c_status' = 0 /\ c_output' = job
         \/ status = 1 /\ compile_ret \in {"0", "timeout"} /\ ~Unanswered /\ c_status' = 1
  PROVE  ReportInv'
<1>1. JobInv' /\ Unanswered' = Unanswered /\ UNCHANGED <<status, compile_ret>>
  BY ClientFrame, Zenon DEF ReportInv
<1>2. CountInv' /\ AnswerInv'
  BY Zenon DEF CountInv, AnswerInv
<1>3. version \in 1 .. 3 /\ c_at \in Nat
  BY VersionType DEF Types, ClientTypes
<1>4. Len(Script(version)) \in 8 .. 11
  BY <1>3, Scripts, Zenon
<1>5. c_at' <= Len(Script(version))'
  BY <1>4
<1>6. ReceiverInv'
  BY <1>1, <1>5 DEF ReceiverInv
<1> QED
  BY <1>1, <1>2, <1>6, Zenon DEF ReportInv

LEMMA StartReport ==
  ASSUME Types, ReportInv, ClientStart
  PROVE  ReportInv'
<1>1. /\ s_pc' = "accept" /\ s_open' = TRUE /\ c_at' = 1 /\ c_open' = TRUE /\ c_ret' = "0"
      /\ c_status' = 0 /\ c_end' = "none" /\ to_server' = <<>> /\ to_client' = <<>> /\ version' \in 1 .. 3
  BY ServeJobAssumption, Zenon DEF ClientStart
<1>2. /\ ~Receiving' /\ c_at' <= Len(Script(version))'
  BY <1>1 DEF Receiving, Request, Script, Answer
<1>3. Got' = 0 /\ Sofar' = 0
  BY <1>1, <1>2 DEF Got, Sofar
<1>4. At' = "accept"
  BY <1>1, Zenon DEF At
<1>5. SourceInv' /\ AnswerInv'
  BY <1>1 DEF SourceInv, AnswerInv
<1>6. JobInv'
  BY <1>4, Zenon DEF JobInv, Naming, Reading, Running, Answering
<1>7. CountInv'
  BY <1>3, <1>4, Zenon DEF CountInv
<1>8. ReceiverInv'
  BY <1>1, <1>2, <1>3 DEF ReceiverInv
<1> QED
  BY <1>5, <1>6, <1>7, <1>8, Zenon DEF ReportInv

\* The source that is sent is the one of this job.
LEMMA SourceSent ==
  ASSUME Types, SourceInv, ClientSend
  PROVE  SourceInv'
<1>1. version \in 1 .. 3 /\ c_at \in Nat /\ Sending /\ UNCHANGED job
  BY VersionType DEF Types, ClientTypes, ClientSend
<1>2. Now \in Token
  BY <1>1, Requests, Zenon DEF Token, Bodies
<1>3. /\ 0 \in -1 .. Jobs /\ job \in -1 .. Jobs /\ (version = 2) \in BOOLEAN
      /\ to_server \in Seq(Message) /\ s_open \in BOOLEAN /\ reset \in BOOLEAN
  BY ServeJobAssumption DEF Types, WireTypes, Bools
<1>4. [tok |-> Now, val |-> 0] \in Message /\ [tok |-> Now, val |-> 0].tok = Now
  BY <1>2, <1>3, Zenon DEF Message
<1>5. \A v \in {job, Short} : [tok |-> Now, val |-> v] \in Message /\ [tok |-> Now, val |-> v].val = v
  BY <1>2, <1>3, ServeJobAssumption DEF Message, Short
<1>6. ASSUME NEW w \in Write(to_server, s_open, [tok |-> Now, val |-> 0])
      PROVE  w.ch = to_server \/ w.ch = Append(to_server, [tok |-> Now, val |-> 0])
  BY <1>3, <1>4, WriteOutcome, Zenon
<1>7. ASSUME NEW x \in XFile(to_server, s_open, Now, job, version = 2)
      PROVE  x.ch = to_server \/ \E v \in {job, Short} : x.ch = Append(to_server, [tok |-> Now, val |-> v])
  <2>1. PICK lzo \in BOOLEAN : lzo = (version = 2)
    BY <1>3, Zenon
  <2>2. x \in XFile(to_server, s_open, Now, job, lzo)
    BY <1>7, <2>1, Zenon
  <2> QED
    BY <1>2, <1>3, <2>2, XFileOutcome
<1>8. \/ to_server' = to_server
      \/ \E m \in Message : /\ to_server' = Append(to_server, m)
                            /\ m.tok \in {"DOTI", "FILE"} => m.val \in {job, Short}
  <2>1. CASE Now \notin Bodies /\ \E w \in Write(to_server, s_open, [tok |-> Now, val |-> 0]) : to_server' = w.ch
    BY <1>4, <1>6, <2>1, Zenon DEF Bodies
  <2>2. CASE \E x \in XFile(to_server, s_open, Now, job, version = 2) : to_server' = x.ch
    BY <1>5, <1>7, <2>2, Zenon
  <2>3. CASE UNCHANGED to_server
    BY <2>3, Zenon
  <2> QED
    BY <2>1, <2>2, <2>3, Zenon DEF ClientSend
<1>9. CASE to_server' = to_server
  BY <1>1, <1>9, Zenon DEF SourceInv
<1>10. ASSUME NEW m \in Message, to_server' = Append(to_server, m), m.tok \in {"DOTI", "FILE"} => m.val \in {job, Short}
       PROVE  SourceInv'
  <2>1. \A k \in 1 .. Len(to_server') : (k \in 1 .. Len(to_server) /\ to_server'[k] = to_server[k]) \/ to_server'[k] = m
    BY <1>3, <1>10
  <2> QED
    BY <1>1, <1>10, <2>1, Zenon DEF SourceInv
<1> QED
  BY <1>8, <1>9, <1>10, Zenon

LEMMA ClientSendReport ==
  ASSUME Types, ReportInv, ClientSend
  PROVE  ReportInv'
<1>1. SourceInv'
  BY SourceSent, Zenon DEF ReportInv
<1>2. /\ Sending
      /\ (c_at' = c_at + 1 /\ UNCHANGED <<c_open, c_ret>>) \/ (c_at' = 0 /\ c_open' = FALSE /\ c_ret' = "error")
      /\ UNCHANGED <<job, version, reset, to_client, c_status, c_output, c_deps, c_end, deps_fname, server, files>>
  BY Zenon DEF ClientSend, ClientGoto, ClientReturn
<1>3. CASE c_at' = 0 /\ c_open' = FALSE /\ c_ret' = "error"
  BY <1>1, <1>2, <1>3, EndReport, Zenon
<1>4. CASE c_at' = c_at + 1 /\ UNCHANGED <<c_open, c_ret>>
  <2>1. version \in 1 .. 3 /\ c_at \in Nat /\ c_at # 0 /\ c_at <= 5
    BY <1>2, Requests, VersionType DEF Types, ClientTypes
  <2>2. Got = 0 /\ Got' = 0
    BY <1>2, <1>4, <2>1 DEF Got, Receiving, Sending, Request
  <2>3. Sofar' = Sofar
    BY <1>2, <2>2, Zenon DEF Sofar
  <2>4. c_at' <= Len(Script(version))'
    BY <1>2, <1>4, <2>1 DEF Script, Answer, Request
  <2>5. JobInv' /\ At' = At /\ Unanswered' = Unanswered /\ UNCHANGED <<status, compile_ret>>
    BY <1>2, <1>4, ClientFrame, Zenon DEF ReportInv
  <2>6. CountInv'
    BY <2>1, <2>3, <2>5, Zenon DEF ReportInv, CountInv
  <2>7. AnswerInv'
    BY <1>2, <2>1, <2>2, <2>5, Zenon DEF ReportInv, AnswerInv, Fits
  <2>8. ReceiverInv'
    BY <1>2, <1>4, <2>1, <2>2, <2>4, <2>5 DEF ReportInv, ReceiverInv
  <2> QED
    BY <1>1, <2>5, <2>6, <2>7, <2>8, Zenon DEF ReportInv
<1> QED
  BY <1>2, <1>3, <1>4, Zenon

LEMMA CppFailsReport ==
  ASSUME Types, ReportInv, ClientCppFails
  PROVE  ReportInv'
<1>1. UNCHANGED <<job, version, reset, to_server, to_client, server, files>>
  BY Zenon DEF ClientCppFails, wire
<1>2. c_at' = 0 /\ c_open' = FALSE /\ (c_ret' = "error" \/ c_end' # "none")
  BY Zenon DEF ClientCppFails, ClientReturn
<1>3. SourceInv'
  BY <1>1, Zenon DEF ReportInv, SourceInv
<1> QED
  BY <1>1, <1>2, <1>3, EndReport, Zenon

\* A client that gives up reports success only behind the object.
LEMMA ReadFailsReport ==
  ASSUME Types, ReportInv, Receiving, NEW v, ClientReadFails(v),
         UNCHANGED <<job, version, reset, to_server, server, files>>
  PROVE  ReportInv'
<1>1. version \in 1 .. 3 /\ c_at \in Nat /\ c_at <= Len(Script(version))
  BY VersionType DEF Types, ClientTypes, ReportInv, ReceiverInv
<1>2. Got \in 0 .. 5 /\ (Got = 5 <=> Now = "DOTD") /\ c_at # 0
  <2>1. c_at # 0
    BY <1>1 DEF Receiving, Request
  <2> QED
    BY <1>1, <2>1, Answers
<1>3. c_at' = 0 /\ c_open' = FALSE /\ (Now # "DOTD" => c_ret' = "error") /\ UNCHANGED c_status
  BY Zenon DEF ClientReadFails, ClientReturn
<1>4. Now = "DOTD" => c_output' = c_output
  BY Zenon DEF ClientReadFails
<1>5. Now = "DOTD" => c_status' = 0 /\ c_output' = job
  BY <1>2, <1>3, <1>4, Zenon DEF ReportInv, ReceiverInv
<1>6. SourceInv'
  BY Zenon DEF ReportInv, SourceInv
<1> QED
  BY <1>3, <1>5, <1>6, EndReport, Zenon

LEMMA TimeoutReport ==
  ASSUME Types, ReportInv, ClientTimeout
  PROVE  ReportInv'
<1>1. UNCHANGED <<job, version, reset, to_server, to_client, server, files>>
  BY Zenon DEF ClientTimeout, wire
<1>2. ASSUME Receiving, NEW v, ClientReadFails(v) PROVE ReportInv'
  BY <1>1, <1>2, ReadFailsReport, Zenon
<1>3. ASSUME ClientReturn("error") PROVE ReportInv'
  <2>1. c_at' = 0 /\ c_open' = FALSE /\ c_ret' = "error"
    BY <1>3, Zenon DEF ClientReturn
  <2>2. SourceInv'
    BY <1>1, Zenon DEF ReportInv, SourceInv
  <2> QED
    BY <1>1, <2>1, <2>2, EndReport, Zenon
<1> QED
  BY <1>2, <1>3, Zenon DEF ClientTimeout

\* The client takes one answer and goes on.
LEMMA NextAnswer ==
  ASSUME Types, ReportInv, Receiving, c_at' = c_at + 1, UNCHANGED <<c_open, c_ret, c_end>>,
         c_at < Len(Script(version)),
         UNCHANGED <<job, version, reset, to_server, server, files>>,
         to_client # <<>>, to_client' = Tail(to_client),
         Got = 0 => c_status' = c_status,
         Got >= 1 => c_status' = status,
         Got = 4 => c_output' = job /\ c_status' = 0
  PROVE  ReportInv'
<1>1. version \in 1 .. 3 /\ c_at \in Nat /\ to_client \in Seq(Message)
  BY VersionType DEF Types, ClientTypes, WireTypes
<1>2. Got \in 0 .. 5 /\ (c_at # Len(Script(version)) => Got # 5) /\ c_at # 0 /\ c_at' # 0
  <2>1. c_at # 0 /\ c_at' # 0 /\ c_at <= Len(Script(version)) /\ Len(Script(version)) \in 8 .. 11
    BY <1>1, Scripts DEF Receiving, Request
  <2> QED
    BY <1>1, <2>1, Answers, Zenon
<1>3. Got' = Got + 1
  BY <1>1 DEF Got, Receiving, Request
<1>4. /\ Len(to_client') = Len(to_client) - 1 /\ Len(to_client) \in Nat
      /\ \A k \in 1 .. Len(to_client') : k + 1 \in 1 .. Len(to_client) /\ to_client'[k] = to_client[k + 1]
  BY <1>1
<1>5. Sofar' = Sofar
  BY <1>2, <1>3, <1>4 DEF Sofar
<1>6. JobInv' /\ At' = At /\ Unanswered' = Unanswered /\ UNCHANGED <<status, compile_ret>>
  BY ClientFrame, Zenon DEF ReportInv
<1>7. SourceInv'
  BY Zenon DEF ReportInv, SourceInv
<1>8. CountInv'
  BY <1>2, <1>5, <1>6, Zenon DEF ReportInv, CountInv
<1>9. AnswerInv'
  <2>1. ASSUME NEW k \in 1 .. Len(to_client')
        PROVE  /\ to_client'[k].tok = "STAT" => to_client'[k].val = status
               /\ to_client'[k].tok = "DOTO" => Got' + k <= 5 /\ (Got' + k = 5 => Fits(to_client'[k].val))
    <3>1. k + 1 \in 1 .. Len(to_client) /\ to_client'[k] = to_client[k + 1]
      BY <1>4, Zenon
    <3>2. Got' + k = Got + (k + 1)
      BY <1>2, <1>3
    <3>3. /\ to_client[k + 1].tok = "STAT" => to_client[k + 1].val = status
          /\ to_client[k + 1].tok = "DOTO" => Got + (k + 1) <= 5 /\ (Got + (k + 1) = 5 => Fits(to_client[k + 1].val))
      BY <1>2, <3>1, Zenon DEF ReportInv, AnswerInv
    <3> QED
      BY <3>1, <3>2, <3>3, Zenon
  <2> QED
    BY <1>6, <2>1, Zenon DEF AnswerInv, Fits
<1>10. ReceiverInv'
  <2>1. c_at' <= Len(Script(version))'
    <3>1. PICK n \in 8 .. 11 : n = Len(Script(version))
      BY <1>1, Scripts, Zenon
    <3> QED
      BY <1>1, <3>1
  <2>2. c_open /\ c_ret = "0" /\ c_end = "none" /\ (Got < 2 => c_status = 0)
    BY <1>2, Zenon DEF ReportInv, ReceiverInv
  <2> QED
    BY <1>2, <1>3, <1>6, <2>1, <2>2 DEF ReceiverInv
<1> QED
  BY <1>6, <1>7, <1>8, <1>9, <1>10, Zenon DEF ReportInv

LEMMA ReceiveReport ==
  ASSUME Types, ReportInv, ClientReceive
  PROVE  ReportInv'
<1>1. Receiving /\ UNCHANGED <<job, version, reset, to_server, server, files>>
  BY Zenon DEF ClientReceive
<1>2. PICK r \in Read(to_client, s_open, Now) :
          /\ to_client' = r.ch
          /\ \/ r.ret # "0" /\ ClientReadFails(r.val)
             \/ /\ r.ret = "0"
                /\ c_status' = IF Now = "STAT" THEN r.val ELSE c_status
                /\ c_output' = IF Now = "DOTO" /\ c_status = 0 THEN r.val ELSE c_output
                /\ c_deps' = IF Now = "DOTD" /\ deps_fname THEN r.val ELSE c_deps
                /\ \/ /\ IF LastAnswer THEN ClientReturn("0") ELSE ClientGoto(c_at + 1)
                      /\ UNCHANGED c_end
                   \/ Now = "SERR" /\ JobMayFail("email") /\ ClientReturn("0") /\ c_end' = "email"
                /\ UNCHANGED deps_fname
  BY Zenon DEF ClientReceive
<1>3. ReceiverInv /\ AnswerInv /\ CountInv
  BY Zenon DEF ReportInv
<1>4. /\ c_at # 0 /\ c_at <= Len(Script(version)) /\ Got \in 0 .. 5
      /\ r.ret = "0" => /\ to_client # <<>> /\ r.ch = Tail(to_client) /\ ~reset
                        /\ to_client[1].tok = Now /\ r.val = to_client[1].val /\ r.val \in 0 .. Jobs
  BY <1>1, <1>2, <1>3, Taken, Zenon
<1>5. CASE r.ret # "0"
  BY <1>1, <1>2, <1>5, ReadFailsReport, Zenon
<1>6. CASE r.ret = "0"
  <2>1. to_client \in Seq(Message) /\ version \in 1 .. 3 /\ c_at \in Nat /\ status \in {0, 1} /\ c_status \in {0, 1}
    BY VersionType DEF Types, WireTypes, ClientTypes, ServerTypes
  <2>2. /\ Got = 0 => Now = "DONE"
        /\ Got = 1 => Now = "STAT"
        /\ Got = 2 => Now = "SERR"
        /\ Got = 3 => Now = "SOUT"
        /\ Got = 4 => Now = "DOTO"
        /\ Got = 5 => Now = "DOTD"
        /\ c_at = Len(Script(version)) => Got = 5 \/ Got = 4
    BY <1>1, <1>4, <2>1, Answers, Zenon
  <2>3. 1 \in 1 .. Len(to_client)
    BY <1>4, <1>6, <2>1
  <2>4. /\ Now = "STAT" => r.val = status
        /\ Got = 4 => Fits(r.val)
    <3>1. /\ to_client[1].tok = "STAT" => to_client[1].val = status
          /\ to_client[1].tok = "DOTO" => (Got + 1 = 5 => Fits(to_client[1].val))
      BY <1>3, <1>4, <2>3, Zenon DEF AnswerInv
    <3>2. Got = 4 => Got + 1 = 5
      OBVIOUS
    <3> QED
      BY <1>4, <1>6, <2>2, <3>1, <3>2, Zenon
  <2>5. Got = 4 => IF status = 0 THEN r.val = job ELSE compile_ret \in {"0", "timeout"}
    BY <1>4, <1>6, <2>4 DEF Fits, Short
  <2>6. /\ c_open /\ c_ret = "0" /\ c_end = "none"
        /\ Got < 2 => c_status = 0
        /\ Got >= 2 => c_status = status
        /\ Got = 5 => c_output = job /\ c_status = 0
    BY <1>3, <1>4, Zenon DEF ReceiverInv
  <2>7. /\ Got = 0 => c_status' = c_status
        /\ Got >= 1 => c_status' = status
        /\ Got = 4 /\ status = 0 => c_output' = job
        /\ Got = 5 => c_output' = job /\ c_status' = 0
    <3>1. /\ c_status' = IF Now = "STAT" THEN r.val ELSE c_status
          /\ c_output' = IF Now = "DOTO" /\ c_status = 0 THEN r.val ELSE c_output
      BY <1>2, <1>6, Zenon
    <3> QED
      BY <1>4, <2>2, <2>4, <2>5, <2>6, <3>1
  <2>8. CASE LastAnswer /\ ClientReturn("0")
    <3>1. Got = 4 \/ Got = 5
      BY <1>4, <2>2, <2>8 DEF LastAnswer
    <3>2. ~Unanswered
      BY <1>3, <1>4, <2>1, <3>1 DEF CountInv, Sofar
    <3>3. SourceInv'
      BY <1>1, Zenon DEF ReportInv, SourceInv
    <3>4. c_at' = 0 /\ c_open' = FALSE
      BY <2>8, Zenon DEF ClientReturn
    <3>5. \/ c_status' = 0 /\ c_output' = job
          \/ status = 1 /\ compile_ret \in {"0", "timeout"} /\ c_status' = 1
      BY <2>1, <2>5, <2>7, <3>1
    <3> QED
      BY <1>1, <3>2, <3>3, <3>4, <3>5, EndReport, Zenon
  <2>9. CASE ~LastAnswer /\ ClientGoto(c_at + 1) /\ UNCHANGED c_end
    <3>1. Got # 5 /\ (Got = 4 => c_status = 0) /\ c_at # Len(Script(version))
      BY <2>1, <2>2, <2>9, <1>1, <1>4, Answers DEF LastAnswer
    <3>2. c_at < Len(Script(version))
      <4>1. PICK n \in 8 .. 11 : n = Len(Script(version))
        BY <2>1, Scripts, Zenon
      <4> QED
        BY <1>4, <2>1, <3>1, <4>1
    <3>3. Got = 4 => c_output' = job /\ c_status' = 0
      BY <2>6, <2>7, <3>1
    <3>4. c_at' = c_at + 1 /\ UNCHANGED <<c_open, c_ret, c_end>>
      BY <2>9, Zenon DEF ClientGoto
    <3>5. to_client # <<>> /\ to_client' = Tail(to_client)
      BY <1>2, <1>4, <1>6, Zenon
    <3> QED
      BY <1>1, <2>7, <3>2, <3>3, <3>4, <3>5, NextAnswer, Zenon
  <2>10. CASE ClientReturn("0") /\ c_end' = "email"
    <3>1. SourceInv'
      BY <1>1, Zenon DEF ReportInv, SourceInv
    <3>2. c_at' = 0 /\ c_open' = FALSE /\ c_end' # "none"
      BY <2>10, Zenon DEF ClientReturn
    <3> QED
      BY <1>1, <3>1, <3>2, EndReport, Zenon
  <2> QED
    BY <1>2, <1>6, <2>8, <2>9, <2>10, Zenon
<1> QED
  BY <1>5, <1>6, Zenon

LEMMA ResetReport ==
  ASSUME Types, ReportInv, Reset
  PROVE  ReportInv'
<1>1. reset' = TRUE /\ UNCHANGED <<job, version, to_server, to_client, client, server, files>>
  BY Zenon DEF Reset
<1>2. UNCHANGED <<c_at, c_open, c_ret, c_status, c_output, c_end>>
  BY <1>1, Zenon DEF client
<1>3. JobInv' /\ At' = At /\ Unanswered' = Unanswered /\ UNCHANGED <<status, compile_ret>>
  BY <1>1, ClientFrame, Zenon DEF ReportInv
<1>4. Got' = Got /\ Sofar' = Sofar
  BY <1>1, <1>2, Zenon DEF Got, Sofar, Receiving
<1>5. SourceInv'
  BY <1>1 DEF ReportInv, SourceInv
<1>6. CountInv'
  BY <1>2, <1>3, <1>4 DEF ReportInv, CountInv
<1>7. AnswerInv'
  BY <1>1, <1>2, <1>3, <1>4, Zenon DEF ReportInv, AnswerInv, Fits
<1>8. ReceiverInv'
  BY <1>1, <1>2, <1>3, <1>4 DEF ReportInv, ReceiverInv
<1> QED
  BY <1>3, <1>5, <1>6, <1>7, <1>8, Zenon DEF ReportInv

-----------------------------------------------------------------------------
(***************************************************************************)
(* The temporary files: each has been registered, or is being, and what    *)
(* is in a directory was registered after it, so that rmdir() succeeds.    *)
(* This needs the names that are in use at each statement, since the       *)
(* compiler and the log create files again under names registered before.  *)
(***************************************************************************)
Registered(f) == \E i \in 1 .. Len(cleanups) : cleanups[i] = f
Has(f) == f = making \/ Registered(f)
Inside(d, f) == (d = "dir" /\ f \in {"cwd", "file"}) \/ (d = "cwd" /\ f = "file")
Spared == cc \in {"orphan", "left"} \/ (s_pc \in {"dying", "dead"} /\ making # "none")

PlaceInv ==
  /\ s_pc = "register" => Follows(making, s_next)
  /\ s_pc \notin {"register", "dying", "dead"} => making = "none"
  /\ cc = "running" => s_pc = "collect"
  /\ cc \in {"orphan", "left"} => s_pc \in {"dying", "dead"}
  /\ s_pc = "accept" => cleanups = <<>> /\ tmp = {}
  /\ s_pc = "dead" => cleanups = <<>>
  /\ At \in {"accept", "cleanup"} \cup Naming => ~log_open /\ cwd = "daemon"

NamedInv ==
  /\ At \in {"tmp_err", "tmp_out", "log"} \cup Reading \cup Running => Has("deps")
  /\ At \in {"tmp_out", "log"} \cup Reading \cup Running => Has("err")
  /\ At \in {"log"} \cup Reading \cup Running => Has("out")
  /\ At \in {"r_nfil", "r_file", "tmp_i", "r_doti"} \cup Running => Has("obj")
  /\ At \in {"accept"} \cup Naming \cup {"r_dist", "mkdir", "r_cwd", "mk_cwd"} => "cwd" \notin tmp
  /\ At \in {"accept"} \cup Naming \cup Reading => "file" \notin tmp

InOrder == \A i \in 1 .. Len(cleanups), f \in tmp \ {making} :
             Inside(cleanups[i], f) => \E j \in i + 1 .. Len(cleanups) : cleanups[j] = f
KeptInv == ~Spared => InOrder /\ \A f \in tmp : Has(f)

FilesInv == PlaceInv /\ NamedInv /\ KeptInv

\* Files are created again under registered names, or removed.
LEMMA Grows ==
  ASSUME PlaceInv, KeptInv, UNCHANGED <<making, cleanups>>, s_pc \notin {"dying", "dead"},
         \A f \in tmp' : f \in tmp \/ (Has(f) /\ f \notin {"cwd", "file"})
  PROVE  KeptInv' /\ \A f : Has(f)' = Has(f)
<1>1. \A f : Has(f)' = Has(f)
  BY Zenon DEF Has, Registered
<1>2. ~Spared
  BY Zenon DEF PlaceInv, Spared
<1>3. \A f \in tmp' : Has(f)
  BY <1>2, Zenon DEF KeptInv
<1>4. \A i \in 1 .. Len(cleanups), f \in tmp' \ {making} :
         Inside(cleanups[i], f) => \E j \in i + 1 .. Len(cleanups) : cleanups[j] = f
  BY <1>2, Zenon DEF KeptInv, InOrder, Inside
<1>5. InOrder'
  BY <1>4 DEF InOrder, Inside
<1> QED
  BY <1>1, <1>3, <1>5, Zenon DEF KeptInv

\* Every error leads to out_cleanup.
LEMMA FailFiles ==
  ASSUME FilesInv, UNCHANGED <<making, cleanups, cc>>, tmp' \subseteq tmp, s_pc' = "finish",
         s_pc \notin {"accept", "register", "collect", "dying", "dead"}
  PROVE  FilesInv'
<1>1. PlaceInv /\ KeptInv
  BY Zenon DEF FilesInv
<1>2. At' = "finish"
  BY Zenon DEF At
<1>3. PlaceInv'
  BY <1>1, <1>2, Zenon DEF PlaceInv, Naming
<1>4. NamedInv'
  BY <1>2, Zenon DEF NamedInv, Naming, Reading, Running
<1>5. KeptInv'
  BY <1>1, Grows, Zenon
<1> QED
  BY <1>3, <1>4, <1>5, Zenon DEF FilesInv

LEMMA AnswerFiles ==
  ASSUME FilesInv, AnswerStep, UNCHANGED <<files, cc, log_open, cwd>>
  PROVE  FilesInv'
<1>1. PlaceInv /\ KeptInv /\ UNCHANGED <<tmp, making, cleanups>>
  BY Zenon DEF FilesInv, files
<1>2. /\ At' = s_pc' /\ s_pc' \in {"x_stat", "x_serr", "x_sout", "x_doto0", "x_doto", "mk_dotd", "finish"}
      /\ s_pc \in {"x_done", "x_stat", "x_serr", "x_sout", "x_doto0", "x_doto", "x_dotd"}
  BY Zenon DEF At, AnswerStep
<1>3. PlaceInv'
  BY <1>1, <1>2, Zenon DEF PlaceInv, Naming
<1>4. NamedInv'
  BY <1>2, Zenon DEF NamedInv, Naming, Reading, Running
<1>5. KeptInv'
  BY <1>1, <1>2, Grows, Zenon
<1> QED
  BY <1>3, <1>4, <1>5, Zenon DEF FilesInv

LEMMA ClientFiles ==
  ASSUME FilesInv, UNCHANGED <<s_pc, s_next, cc, log_open, cwd, tmp, making, cleanups>>
  PROVE  FilesInv'
<1>1. At' = At /\ \A f : Has(f)' = Has(f)
  BY Zenon DEF At, Has, Registered
<1>2. PlaceInv'
  BY <1>1, Zenon DEF FilesInv, PlaceInv
<1>3. NamedInv'
  BY <1>1, Zenon DEF FilesInv, NamedInv
<1>4. KeptInv'
  <2>1. Spared' = Spared /\ KeptInv
    BY Zenon DEF Spared, FilesInv
  <2>2. InOrder => InOrder'
    BY DEF InOrder, Inside
  <2> QED
    BY <1>1, <2>1, <2>2, Zenon DEF KeptInv
<1> QED
  BY <1>2, <1>3, <1>4, Zenon DEF FilesInv

\* A file is created, and not registered yet.
LEMMA Created ==
  ASSUME FileTypes, FilesInv, NEW at, NEW f, NEW l, Makes(at, f, l) \/ (at = "r_file" /\ f = "file" /\ l = "check"),
         s_pc = at, CreateTemp(f, l), UNCHANGED <<cc, log_open, cwd>>
  PROVE  FilesInv'
<1>1. PlaceInv /\ NamedInv /\ KeptInv
  BY Zenon DEF FilesInv
<1>2. /\ tmp' = tmp \cup {f} /\ making' = f /\ cleanups' = cleanups /\ s_pc' = "register" /\ s_next' = l
      /\ At' = l /\ At = at
  BY Zenon DEF CreateTemp, At, Makes
<1>3. making = "none" /\ f \in Temp /\ ~Spared
  BY <1>1, Zenon DEF PlaceInv, Spared, Makes, Temp
<1>4. Has(f)' /\ \A g : g # "none" /\ Has(g) => Has(g)'
  BY <1>2, <1>3, Zenon DEF Has, Registered
<1>5. PlaceInv'
  BY <1>1, <1>2, Zenon DEF PlaceInv, Makes, Follows, Naming
<1>6. NamedInv'
  BY <1>1, <1>2, <1>4, Zenon DEF NamedInv, Makes, Naming, Reading, Running
<1>7. \A g \in tmp' : Has(g)'
  <2>1. \A g \in tmp : Has(g) /\ g # "none"
    BY <1>1, <1>3, Zenon DEF KeptInv, FileTypes, Temp
  <2> QED
    BY <1>2, <1>4, <2>1, Zenon
<1>8. InOrder'
  <2>1. \A i \in 1 .. Len(cleanups), g \in tmp' \ {f} :
           Inside(cleanups[i], g) => \E j \in i + 1 .. Len(cleanups) : cleanups[j] = g
    <3>1. \A g \in tmp' \ {f} : g \in tmp /\ g # making
      BY <1>2, <1>3, Zenon DEF FileTypes, Temp
    <3> QED
      BY <1>1, <1>3, <3>1, Zenon DEF KeptInv, InOrder
  <2> QED
    BY <1>2, <2>1 DEF InOrder, Inside
<1> QED
  BY <1>5, <1>6, <1>7, <1>8, Zenon DEF FilesInv, KeptInv

LEMMA MakeFiles ==
  ASSUME FileTypes, FilesInv, NEW at, NEW f, NEW l, Makes(at, f, l), MakeTemp(at, f, l)
  PROVE  FilesInv'
<1>1. s_pc = at /\ UNCHANGED <<cc, log_open, cwd>>
  BY Zenon DEF MakeTemp
<1>2. CASE CreateTemp(f, l)
  BY <1>1, <1>2, Created, Zenon
<1>3. CASE Fail("io") /\ UNCHANGED files
  <2>1. s_pc' = "finish" /\ UNCHANGED <<tmp, making, cleanups>>
    BY <1>3, Zenon DEF Fail, JobGoto, files
  <2>2. s_pc \notin {"accept", "register", "collect", "dying", "dead"}
    BY <1>1, Zenon DEF Makes
  <2> QED
    BY <1>1, <2>1, <2>2, FailFiles, Zenon
<1> QED
  BY <1>2, <1>3, Zenon DEF MakeTemp

LEMMA ReadFiles ==
  ASSUME FilesInv, NEW at, NEW tok, NEW l, Reads(at, tok, l), ReadToken(at, tok, l)
  PROVE  FilesInv'
<1>1. /\ s_pc = at /\ s_pc' \in {l, "finish"} /\ UNCHANGED <<tmp, making, cleanups, cc, log_open, cwd>>
  BY Zenon DEF ReadToken, JobGoto, Fail, files
<1>2. CASE s_pc' = "finish"
  <2>1. s_pc \notin {"accept", "register", "collect", "dying", "dead"}
    BY <1>1, Zenon DEF Reads
  <2> QED
    BY <1>1, <1>2, <2>1, FailFiles, Zenon
<1>3. CASE s_pc' = l
  <2>1. PlaceInv /\ NamedInv /\ KeptInv
    BY Zenon DEF FilesInv
  <2>2. At = at /\ At' = l
    BY <1>1, <1>3, Zenon DEF At, Reads
  <2>3. KeptInv' /\ \A f : Has(f)' = Has(f)
    BY <1>1, <2>1, Grows, Zenon DEF Reads
  <2>4. PlaceInv'
    BY <1>1, <1>3, <2>1, <2>2, Zenon DEF PlaceInv, Reads, Naming
  <2>5. NamedInv'
    BY <1>1, <2>1, <2>2, <2>3, Zenon DEF NamedInv, Reads, Naming, Reading, Running
  <2> QED
    BY <2>3, <2>4, <2>5, Zenon DEF FilesInv
<1> QED
  BY <1>1, <1>2, <1>3, Zenon

\* A statement of the server that creates no new name.
GoesOn(new) ==
  /\ UNCHANGED <<making, cleanups>>
  /\ tmp' \subseteq tmp \cup new
  /\ At = s_pc /\ At' = s_pc'

LEMMA GoOnFiles ==
  ASSUME FilesInv, NEW new, GoesOn(new), new \subseteq {"deps", "err", "out", "obj"}, \A f \in new : Has(f),
         s_pc \in {"log", "r_doti", "chdir", "check", "spawn", "collect", "finish"},
         s_pc' \in {"r_dist", "r_argv", "check", "spawn", "collect", "x_done", "cleanup"},
         s_pc' = "r_dist" => s_pc = "log",
         s_pc' = "r_argv" => s_pc = "chdir",
         s_pc' = "check" => s_pc = "r_doti",
         s_pc' = "spawn" => s_pc = "check",
         s_pc' = "collect" => s_pc \in {"spawn", "collect"},
         s_pc' = "cleanup" => ~log_open' /\ cwd' = "daemon",
         cc' \notin {"orphan", "left"}, cc' = "running" => s_pc' = "collect"
  PROVE  FilesInv'
<1>1. PlaceInv /\ NamedInv /\ KeptInv
  BY Zenon DEF FilesInv
<1>2. UNCHANGED <<making, cleanups>> /\ At = s_pc /\ At' = s_pc'
  BY Zenon DEF GoesOn
<1>3. /\ \A f \in tmp' : f \in tmp \/ (Has(f) /\ f \notin {"cwd", "file"})
      /\ "cwd" \notin tmp => "cwd" \notin tmp'
      /\ "file" \notin tmp => "file" \notin tmp'
  BY Zenon DEF GoesOn
<1>4. KeptInv' /\ \A f : Has(f)' = Has(f)
  BY <1>1, <1>2, <1>3, Grows, Zenon
<1>5. PlaceInv'
  BY <1>1, <1>2, Zenon DEF PlaceInv, Naming
<1>6. NamedInv'
  BY <1>1, <1>2, <1>3, <1>4 DEF NamedInv, Naming, Reading, Running
<1> QED
  BY <1>4, <1>5, <1>6, Zenon DEF FilesInv

LEMMA SourceFiles ==
  ASSUME FileTypes, FilesInv, ReadSource
  PROVE  FilesInv'
<1>1. UNCHANGED <<cc, log_open, cwd>>
  BY Zenon DEF ReadSource
<1>2. \/ s_pc = "r_file" /\ CreateTemp("file", "check")
      \/ s_pc \in {"r_doti", "r_file"} /\ s_pc' = "finish" /\ UNCHANGED <<making, cleanups>> /\ tmp' \subseteq tmp
      \/ s_pc = "r_doti" /\ s_pc' = "check" /\ UNCHANGED <<tmp, making, cleanups>>
  BY Zenon DEF ReadSource, JobGoto, Fail, files
<1>3. CASE s_pc = "r_file" /\ CreateTemp("file", "check")
  BY <1>1, <1>3, Created, Zenon
<1>4. CASE s_pc \in {"r_doti", "r_file"} /\ s_pc' = "finish" /\ UNCHANGED <<making, cleanups>> /\ tmp' \subseteq tmp
  BY <1>1, <1>4, FailFiles, Zenon
<1>5. CASE s_pc = "r_doti" /\ s_pc' = "check" /\ UNCHANGED <<tmp, making, cleanups>>
  <2>1. GoesOn({})
    BY <1>5, Zenon DEF GoesOn, At
  <2>2. cc' \notin {"orphan", "left", "running"}
    BY <1>1, <1>5, Zenon DEF FilesInv, PlaceInv
  <2> QED
    BY <1>5, <2>1, <2>2, GoOnFiles, Zenon
<1> QED
  BY <1>2, <1>3, <1>4, <1>5, Zenon

LEMMA RegisterFiles ==
  ASSUME FileTypes, FilesInv, Register
  PROVE  FilesInv'
<1>1. PlaceInv /\ NamedInv /\ KeptInv
  BY Zenon DEF FilesInv
<1>2. /\ s_pc = "register" /\ cleanups' = Append(cleanups, making) /\ making' = "none"
      /\ s_pc' = s_next /\ UNCHANGED <<tmp, cc, log_open, cwd>>
  BY Zenon DEF Register
<1>3. Follows(making, s_next) /\ making \in Temp /\ ~Spared /\ At' = s_next /\ At = s_next
  BY <1>1, <1>2 DEF PlaceInv, Follows, Spared, Temp, At
<1>4. /\ Len(cleanups') = Len(cleanups) + 1 /\ Len(cleanups) \in Nat
      /\ cleanups'[Len(cleanups) + 1] = making
      /\ \A i \in 1 .. Len(cleanups) : cleanups'[i] = cleanups[i]
  BY <1>2, <1>3 DEF FileTypes
<1>5. \A f : Has(f) => Has(f)'
  BY <1>4 DEF Has, Registered
<1>6. PlaceInv'
  BY <1>1, <1>2, <1>3, Zenon DEF PlaceInv, Follows, Naming
<1>7. NamedInv'
  BY <1>1, <1>2, <1>3, <1>5 DEF NamedInv
<1>8. ASSUME NEW i \in 1 .. Len(cleanups'), NEW f \in tmp, Inside(cleanups'[i], f)
      PROVE  \E j \in i + 1 .. Len(cleanups') : cleanups'[j] = f
  <2>1. CASE i = Len(cleanups) + 1
    <3>1. Inside(making, f)
      BY <1>4, <1>8, <2>1
    <3> QED
      BY <1>1, <1>3, <3>1, Zenon DEF Inside, Follows, NamedInv, Reading
  <2>2. CASE i \in 1 .. Len(cleanups) /\ f = making
    <3>1. Len(cleanups) + 1 \in i + 1 .. Len(cleanups')
      BY <1>4, <2>2
    <3> QED
      BY <1>4, <2>2, <3>1, Zenon
  <2>3. CASE i \in 1 .. Len(cleanups) /\ f # making
    <3>1. PICK j \in i + 1 .. Len(cleanups) : cleanups[j] = f
      BY <1>1, <1>3, <1>4, <1>8, <2>3, Zenon DEF KeptInv, InOrder
    <3>2. j \in i + 1 .. Len(cleanups') /\ j \in 1 .. Len(cleanups)
      BY <1>4, <2>3
    <3> QED
      BY <1>4, <3>1, <3>2
  <2> QED
    BY <1>4, <1>8, <2>1, <2>2, <2>3
<1>9. InOrder'
  BY <1>2, <1>8, Zenon DEF InOrder, Inside
<1>10. \A f \in tmp' : Has(f)'
  BY <1>1, <1>2, <1>3, <1>5, Zenon DEF KeptInv
<1> QED
  BY <1>6, <1>7, <1>9, <1>10, Zenon DEF FilesInv, KeptInv

LEMMA CleanupFiles ==
  ASSUME FileTypes, FilesInv, Cleanup
  PROVE  FilesInv'
<1>1. PlaceInv /\ NamedInv /\ KeptInv
  BY Zenon DEF FilesInv
<1>2. s_pc \in {"cleanup", "dying"} /\ UNCHANGED <<making, log_open, cwd>>
  BY Zenon DEF Cleanup
<1>3. ~Spared => making = "none"
  BY <1>1, <1>2, Zenon DEF PlaceInv, Spared
<1>4. CASE /\ cleanups # <<>>
           /\ tmp' = Removed(cleanups[Len(cleanups)], tmp)
           /\ cleanups' = SubSeq(cleanups, 1, Len(cleanups) - 1)
           /\ UNCHANGED <<s_pc, s_open, cc>>
  <2> DEFINE n == Len(cleanups)
  <2>1. /\ n \in Nat \ {0} /\ Len(cleanups') = n - 1
        /\ \A i \in 1 .. n - 1 : cleanups'[i] = cleanups[i]
    <3>1. n \in Nat \ {0} /\ cleanups \in Seq(Temp)
      BY <1>4 DEF FileTypes
    <3>2. cleanups' = SubSeq(cleanups, 1, n - 1)
      BY <1>4, Zenon
    <3> HIDE DEF n
    <3> QED
      BY <3>1, <3>2
  <2> HIDE DEF n
  <2>2. At' = s_pc /\ At = s_pc /\ UNCHANGED <<s_pc, cc>>
    BY <1>2, <1>4, Zenon DEF At
  <2>3. PlaceInv'
    BY <1>1, <1>2, <2>2, Zenon DEF PlaceInv, Naming
  <2>4. NamedInv'
    BY <1>2, <2>2, Zenon DEF NamedInv, Naming, Reading, Running
  <2>5. Spared' = Spared
    BY <1>2, <1>4, Zenon DEF Spared
  <2>6. ASSUME ~Spared PROVE tmp' = tmp \ {cleanups[n]}
    <3>1. \A f \in tmp : ~Inside(cleanups[n], f)
      <4>1. n \in 1 .. n /\ n + 1 .. n = {}
        BY <2>1
      <4>2. \A f \in tmp : f # making
        BY <1>3, <2>6, Zenon DEF FileTypes, Temp
      <4> QED
        BY <1>1, <2>6, <4>1, <4>2, Zenon DEF KeptInv, InOrder, n
    <3> QED
      BY <1>4, <3>1, Zenon DEF Removed, Inside, n
  <2>7. ASSUME ~Spared PROVE \A f \in tmp' : Has(f)'
    <3>1. ASSUME NEW f \in tmp' PROVE Registered(f)'
      <4>1. f \in tmp /\ f # cleanups[n] /\ f # making
        BY <1>3, <2>6, <2>7, Zenon DEF FileTypes, Temp
      <4>2. PICK i \in 1 .. n : cleanups[i] = f
        BY <1>1, <2>7, <4>1, Zenon DEF KeptInv, Has, Registered, n
      <4>3. i \in 1 .. n - 1
        BY <2>1, <4>1, <4>2
      <4> QED
        BY <2>1, <4>2, <4>3 DEF Registered
    <3> QED
      BY <3>1, Zenon DEF Has
  <2>8. ASSUME ~Spared PROVE InOrder'
    <3>1. ASSUME NEW i \in 1 .. Len(cleanups'), NEW f \in tmp' \ {making'}, Inside(cleanups'[i], f)
          PROVE  \E j \in i + 1 .. Len(cleanups') : cleanups'[j] = f
      <4>1. f \in tmp \ {making} /\ f # cleanups[n] /\ i \in 1 .. n - 1 /\ i \in 1 .. n /\ Inside(cleanups[i], f)
        BY <1>2, <2>1, <2>6, <2>8, <3>1
      <4>2. PICK j \in i + 1 .. n : cleanups[j] = f
        BY <1>1, <2>8, <4>1, Zenon DEF KeptInv, InOrder, n
      <4>3. j \in i + 1 .. n - 1 /\ j \in 1 .. n - 1
        BY <2>1, <4>1, <4>2
      <4> QED
        BY <2>1, <4>2, <4>3, Zenon
    <3> QED
      BY <3>1, Zenon DEF InOrder, Inside
  <2>9. KeptInv'
    BY <2>5, <2>7, <2>8, Zenon DEF KeptInv
  <2> QED
    BY <2>3, <2>4, <2>9, Zenon DEF FilesInv
<1>5. CASE /\ cleanups = <<>>
           /\ s_pc' = IF s_pc = "dying" THEN "dead" ELSE "accept"
           /\ s_open' = FALSE
           /\ cc' = IF s_pc = "dying" THEN cc ELSE "none"
           /\ UNCHANGED <<tmp, cleanups>>
  <2>1. ASSUME ~Spared PROVE tmp = {}
    <3>1. \A f : ~Registered(f)
      BY <1>5 DEF Registered
    <3>2. \A f \in tmp : f = "none"
      BY <1>1, <1>3, <2>1, <3>1, Zenon DEF KeptInv, Has
    <3> QED
      BY <3>2, Zenon DEF FileTypes, Temp
  <2>2. s_pc = "cleanup" => ~Spared
    BY <1>1, Zenon DEF PlaceInv, Spared
  <2>3. At' = s_pc' /\ At = s_pc
    BY <1>2, <1>5, Zenon DEF At
  <2>4. PlaceInv'
    BY <1>1, <1>2, <1>5, <2>1, <2>2, <2>3, Zenon DEF PlaceInv, Naming
  <2>5. NamedInv'
    BY <1>2, <1>5, <2>1, <2>2, <2>3, Zenon DEF NamedInv, Naming, Reading, Running
  <2>6. KeptInv'
    <3>1. ~Spared' => tmp' = {}
      BY <1>2, <1>5, <2>1, <2>2, Zenon DEF Spared
    <3> QED
      BY <3>1, Zenon DEF KeptInv, InOrder
  <2> QED
    BY <2>4, <2>5, <2>6, Zenon DEF FilesInv
<1> QED
  BY <1>4, <1>5, Zenon DEF Cleanup

LEMMA MoveFiles ==
  ASSUME FileTypes, FilesInv, Moves
  PROVE  FilesInv'
<1>1. PlaceInv /\ NamedInv /\ KeptInv
  BY Zenon DEF FilesInv
<1>2. CASE StartJob
  <2>1. /\ s_pc = "accept" /\ s_pc' \in {"tmp_deps", "accept"} /\ UNCHANGED <<tmp, making, cleanups, cc, log_open, cwd>>
    BY <1>2, Zenon DEF StartJob, JobGoto, files
  <2>2. At = s_pc /\ At' = s_pc'
    BY <2>1, Zenon DEF At
  <2>3. PlaceInv'
    BY <1>1, <2>1, <2>2, Zenon DEF PlaceInv, Naming
  <2>4. NamedInv'
    BY <1>1, <2>1, <2>2, Zenon DEF NamedInv, Naming, Reading, Running
  <2>5. KeptInv'
    BY <1>1, <2>1, Grows, Zenon
  <2> QED
    BY <2>3, <2>4, <2>5, Zenon DEF FilesInv
<1>3. CASE AddLogToFile
  <2>1. /\ GoesOn({"err"}) /\ s_pc = "log" /\ s_pc' = "r_dist" /\ At = "log"
        /\ cc' = cc
    BY <1>3, Zenon DEF AddLogToFile, JobGoto, GoesOn, At
  <2>2. Has("err")
    BY <1>1, <2>1, Zenon DEF NamedInv
  <2>3. cc' \notin {"orphan", "left", "running"}
    BY <1>1, <2>1, Zenon DEF PlaceInv
  <2> QED
    BY <2>1, <2>2, <2>3, GoOnFiles, Zenon
<1>4. CASE Chdir
  <2>1. /\ s_pc = "chdir" /\ s_pc' \in {"r_argv", "finish"} /\ UNCHANGED <<tmp, making, cleanups, cc>>
    BY <1>4, Zenon DEF Chdir, JobGoto, Fail, files
  <2>2. cc' \notin {"orphan", "left", "running"}
    BY <1>1, <2>1, Zenon DEF PlaceInv
  <2>3. CASE s_pc' = "finish"
    BY <2>1, <2>3, FailFiles, Zenon
  <2>4. CASE s_pc' = "r_argv"
    <3>1. GoesOn({})
      BY <2>1, <2>4, Zenon DEF GoesOn, At
    <3> QED
      BY <2>1, <2>2, <2>4, <3>1, GoOnFiles, Zenon
  <2> QED
    BY <2>1, <2>3, <2>4, Zenon
<1>5. CASE Reject
  <2>1. /\ s_pc \in {"tmp_o", "check"} /\ s_pc' = "finish" /\ UNCHANGED <<tmp, making, cleanups, cc>>
    BY <1>5, Zenon DEF Reject, JobGoto, Fail, files
  <2> QED
    BY <2>1, FailFiles, Zenon
<1>6. CASE Check
  <2>1. /\ s_pc = "check" /\ s_pc' = "spawn" /\ GoesOn({}) /\ cc' = cc
    BY <1>6, Zenon DEF Check, JobGoto, files, GoesOn, At
  <2>2. cc' \notin {"orphan", "left", "running"}
    BY <1>1, <2>1, Zenon DEF PlaceInv
  <2> QED
    BY <2>1, <2>2, GoOnFiles, Zenon
<1>7. CASE Spawn
  <2>1. /\ s_pc = "spawn" /\ s_pc' \in {"collect", "x_done"} /\ GoesOn({"out", "err"}) /\ At = "spawn"
        /\ IF s_pc' = "collect" THEN cc' = "running" ELSE cc' = cc
    BY <1>7, Zenon DEF Spawn, JobGoto, GoesOn, At
  <2>2. Has("out") /\ Has("err")
    BY <1>1, <2>1, Zenon DEF NamedInv, Running
  <2>3. cc' \notin {"orphan", "left"} /\ (cc' = "running" => s_pc' = "collect")
    BY <1>1, <2>1, Zenon DEF PlaceInv
  <2> QED
    BY <2>1, <2>2, <2>3, GoOnFiles, Zenon
<1>8. CASE CompilerEnds
  <2>1. UNCHANGED <<s_pc, s_next, log_open, cwd, making, cleanups>>
    BY <1>8, Zenon DEF CompilerEnds
  <2>2. CASE cc = "running"
    <3>1. s_pc = "collect" /\ At = "collect"
      BY <1>1, <2>2, Zenon DEF PlaceInv, At
    <3>2. GoesOn({"obj", "deps"}) /\ cc' \in {"ok", "fail"}
      BY <1>8, <2>1, <2>2, <3>1, Zenon DEF CompilerEnds, GoesOn, At
    <3>3. Has("obj") /\ Has("deps")
      BY <1>1, <3>1 DEF NamedInv, Running
    <3> QED
      BY <2>1, <3>1, <3>2, <3>3, GoOnFiles
  <2>3. CASE cc = "orphan"
    <3>1. s_pc \in {"dying", "dead"} /\ cc' = "left" /\ At' = s_pc
      BY <1>1, <1>8, <2>1, <2>3, Zenon DEF PlaceInv, CompilerEnds, At
    <3>2. PlaceInv'
      BY <1>1, <2>1, <3>1, Zenon DEF PlaceInv, Naming
    <3>3. NamedInv'
      BY <3>1, Zenon DEF NamedInv, Naming, Reading, Running
    <3>4. KeptInv'
      BY <3>1, Zenon DEF KeptInv, Spared
    <3> QED
      BY <3>2, <3>3, <3>4, Zenon DEF FilesInv
  <2> QED
    BY <1>8, <2>2, <2>3, Zenon DEF CompilerEnds
<1>9. CASE Collect
  <2>1. s_pc = "collect" /\ s_pc' = "x_done" /\ GoesOn({}) /\ cc' \in {"ok", "fail", "killed"}
    BY <1>9, Zenon DEF Collect, JobGoto, files, GoesOn, At
  <2> QED
    BY <2>1, GoOnFiles, Zenon
<1>10. CASE Finish
  <2>1. /\ s_pc = "finish" /\ s_pc' = "cleanup" /\ GoesOn({}) /\ cc' = cc
        /\ ~log_open' /\ cwd' = "daemon"
    BY <1>10, Zenon DEF Finish, JobGoto, files, GoesOn, At
  <2>2. cc' \notin {"orphan", "left", "running"}
    BY <1>1, <2>1, Zenon DEF PlaceInv
  <2> QED
    BY <2>1, <2>2, GoOnFiles, Zenon
<1>11. CASE Signal
  <2>1. /\ s_pc \notin {"dying", "dead"} /\ s_pc' = "dying" /\ At' = "dying"
        /\ cc' = IF cc = "running" THEN "orphan" ELSE cc
        /\ UNCHANGED <<tmp, making, cleanups>>
    BY <1>11, Zenon DEF Signal, files, At
  <2>2. PlaceInv'
    BY <1>1, <2>1, Zenon DEF PlaceInv, Naming
  <2>3. NamedInv'
    BY <2>1, Zenon DEF NamedInv, Naming, Reading, Running
  <2>4. KeptInv'
    BY <1>1, <2>1, Grows, Zenon
  <2> QED
    BY <2>2, <2>3, <2>4, Zenon DEF FilesInv
<1>12. CASE Register \/ Cleanup
  BY <1>12, RegisterFiles, CleanupFiles, Zenon
<1> QED
  BY <1>2, <1>3, <1>4, <1>5, <1>6, <1>7, <1>8, <1>9, <1>10, <1>11, <1>12, Zenon DEF Moves

-----------------------------------------------------------------------------
(* The theorems.                                                           *)

JobIInv == Types /\ ReportInv /\ FilesInv

LEMMA JobStart == JobInit => JobIInv
<1> SUFFICES ASSUME JobInit PROVE JobIInv
  BY Zenon
<1>1. <<>> \in Seq(Message) /\ <<>> \in Seq(Temp)
  OBVIOUS
<1>2. WireTypes /\ ClientTypes
  BY <1>1, ServeJobAssumption DEF JobInit, WireTypes, ClientTypes
<1>3. ServerTypes /\ FileTypes
  BY <1>1, ServeJobAssumption DEF JobInit, ServerTypes, FileTypes, S_pc, Result
<1>4. Bools
  BY Zenon DEF JobInit, Bools
<1>5. At = "accept" /\ c_at = 0 /\ job = 0 /\ tmp = {} /\ cleanups = <<>> /\ making = "none" /\ to_server = <<>>
  BY Zenon DEF JobInit, At
<1>6. SourceInv /\ CountInv /\ AnswerInv
  BY <1>5 DEF SourceInv, CountInv, AnswerInv
<1>7. JobInv
  BY <1>5, Zenon DEF JobInv, Naming, Reading, Running, Answering
<1>8. ReceiverInv
  <2>1. version \in 1 .. 3
    BY <1>2, VersionType, Zenon
  <2>2. c_at <= Len(Script(version))
    BY <1>5, <2>1 DEF Script, Request, Answer
  <2> QED
    BY <1>5, <2>2 DEF ReceiverInv
<1>9. FilesInv
  BY <1>5, Zenon DEF JobInit, FilesInv, PlaceInv, NamedInv, KeptInv, InOrder, Naming, Reading, Running
<1> QED
  BY <1>2, <1>3, <1>4, <1>6, <1>7, <1>8, <1>9, Zenon DEF JobIInv, Types, ReportInv

LEMMA ClientStepInv ==
  ASSUME JobIInv, ClientStart \/ ClientStep \/ ClientCppFails \/ Reset
  PROVE  JobIInv'
<1>1. Types /\ ReportInv /\ FilesInv /\ AnswerInv /\ ReceiverInv
  BY Zenon DEF JobIInv, ReportInv
<1>2. Types'
  BY <1>1, StartTypes, ClientSendTypes, CppFailsTypes, TimeoutTypes, ResetTypes, ReceiveTypes, Zenon DEF ClientStep
<1>3. ReportInv'
  BY <1>1, StartReport, ClientSendReport, CppFailsReport, TimeoutReport, ResetReport, ReceiveReport, Zenon DEF ClientStep
<1>4. UNCHANGED <<s_pc, s_next, cc, log_open, cwd, tmp, making, cleanups>>
  BY Zenon DEF ClientStart, ClientStep, ClientSend, ClientReceive, ClientTimeout, ClientCppFails, Reset, server, files
<1>5. FilesInv'
  BY <1>1, <1>4, ClientFiles
<1> QED
  BY <1>2, <1>3, <1>5, Zenon DEF JobIInv

LEMMA ServerStepInv ==
  ASSUME JobIInv, ServerStep \/ CompilerEnds \/ Signal
  PROVE  JobIInv'
<1>1. Types /\ ReportInv /\ FilesInv /\ FileTypes
  BY Zenon DEF JobIInv, Types
<1>2. ASSUME NEW at, NEW f, NEW l, Makes(at, f, l), MakeTemp(at, f, l) PROVE JobIInv'
  BY <1>1, <1>2, MakeTypes, MakeReport, MakeFiles, Zenon DEF JobIInv
<1>3. ASSUME NEW at, NEW tok, NEW l, Reads(at, tok, l), ReadToken(at, tok, l) PROVE JobIInv'
  BY <1>1, <1>3, ReadTypes, ReadReport, ReadFiles, Zenon DEF JobIInv
<1>4. ASSUME ReadSource PROVE JobIInv'
  BY <1>1, <1>4, SourceTypes, SourceReport, SourceFiles, Zenon DEF JobIInv
<1>5. ASSUME Moves PROVE JobIInv'
  <2>1. s_pc = "register" => Follows(making, s_next)
    BY <1>1, Zenon DEF FilesInv, PlaceInv
  <2>2. s_pc = "register" => making \in Temp
    BY <2>1, Zenon DEF Follows, Temp
  <2> QED
    BY <1>1, <1>5, <2>1, <2>2, MoveTypes, MoveReport, MoveFiles, Zenon DEF JobIInv
<1>6. ASSUME SendToken("x_done", "DONE", 0, "x_stat") \/ SendToken("x_stat", "STAT", status, "x_serr")
      PROVE  JobIInv'
  <2>1. /\ {"DONE", "STAT"} \subseteq Token /\ {"x_stat", "x_serr"} \subseteq S_pc
        /\ 0 \in 0 .. Jobs /\ status \in 0 .. Jobs
    BY <1>1, ServeJobAssumption DEF Types, ServerTypes, Token, S_pc
  <2>2. Types'
    BY <1>1, <1>6, <2>1, SendTypes, Zenon
  <2>3. ReportInv' /\ AnswerStep
    BY <1>1, <1>6, SendReport
  <2>4. UNCHANGED <<files, cc, log_open, cwd>>
    BY <1>6, Zenon DEF SendToken
  <2> QED
    BY <1>1, <2>2, <2>3, <2>4, AnswerFiles, Zenon DEF JobIInv
<1>7. ASSUME SendOutput("x_serr", "SERR", "err", "x_sout") \/ SendOutput("x_sout", "SOUT", "out", ObjectNext)
      PROVE  JobIInv'
  <2>1. {"SERR", "SOUT"} \subseteq Token /\ {"x_sout", ObjectNext} \subseteq S_pc
    BY DEF Token, Bodies, S_pc, ObjectNext
  <2>2. Types'
    BY <1>1, <1>7, <2>1, OutputTypes, Zenon
  <2>3. ReportInv' /\ AnswerStep
    BY <1>1, <1>7, OutputReport, Zenon
  <2>4. UNCHANGED <<files, cc, log_open, cwd>>
    BY <1>7 DEF SendOutput
  <2> QED
    BY <1>1, <2>2, <2>3, <2>4, AnswerFiles, Zenon DEF JobIInv
<1>8. ASSUME SendNoObject \/ SendObject \/ SendDeps PROVE JobIInv'
  <2>1. Types'
    BY <1>1, <1>8, NoObjectTypes, ObjectTypes, Zenon
  <2>2. ReportInv' /\ AnswerStep
    BY <1>1, <1>8, NoObjectReport, ObjectReport, DepsReport, Zenon
  <2>3. UNCHANGED <<files, cc, log_open, cwd>>
    BY <1>8, Zenon DEF SendNoObject, SendObject, SendDeps
  <2> QED
    BY <1>1, <2>1, <2>2, <2>3, AnswerFiles, Zenon DEF JobIInv
<1> QED
  BY <1>2, <1>3, <1>4, <1>5, <1>6, <1>7, <1>8, Zenon DEF ServerStep, Moves, Makes, Reads

LEMMA JobStep == JobIInv /\ [JobNext]_jobVars => JobIInv'
<1> SUFFICES ASSUME JobIInv, [JobNext]_jobVars PROVE JobIInv'
  BY Zenon
<1>1. CASE UNCHANGED jobVars
  <2>1. Types /\ ReportInv /\ FilesInv
    BY Zenon DEF JobIInv
  <2>2. UNCHANGED Others /\ UNCHANGED <<to_server, to_client, server, files>>
    BY <1>1 DEF jobVars, wire, Others
  <2>3. Types'
    BY <2>1, <2>2 DEF Types, Bools, WireTypes, ClientTypes, ServerTypes, FileTypes, Others, client, server, files
  <2>4. UNCHANGED <<job, reset, c_open, s_pc, s_next, cc, log_open, cwd, tmp, making, cleanups, status, compile_ret>>
    BY <2>2, Zenon DEF Others, client, server, files
  <2>5. FilesInv'
    BY <2>1, <2>4, ClientFiles, Zenon
  <2>6. SourceInv' /\ JobInv' /\ At' = At /\ Unanswered' = Unanswered
    BY <2>1, <2>2, <2>4, ClientFrame, Zenon DEF ReportInv, SourceInv
  <2>7. SilentStep
    BY <2>4, <2>6, Zenon DEF SilentStep
  <2>8. CountInv' /\ AnswerInv' /\ ReceiverInv'
    BY <2>1, <2>2, <2>7, Silent, Zenon
  <2> QED
    BY <2>3, <2>5, <2>6, <2>8, Zenon DEF JobIInv, ReportInv
<1> QED
  BY <1>1, ClientStepInv, ServerStepInv, Zenon DEF JobNext, Done

(***************************************************************************)
(* What a client reports is what happened to its job, for any number of    *)
(* jobs in one child, any number of messages in flight and every fault:    *)
(* dcc_retrieve_results() against dcc_run_job().                           *)
(***************************************************************************)
THEOREM ReportsAreTrue == JobSpec => []ReportIsTrue
<1>1. JobIInv => ReportIsTrue
  <2> SUFFICES ASSUME JobIInv PROVE ReportIsTrue
    BY Zenon
  <2>1. ReceiverInv /\ c_end \in {"none", "cpp", "email"}
    BY Zenon DEF JobIInv, ReportInv, Types, ClientTypes
  <2> QED
    BY <2>1, Zenon DEF ReportIsTrue, ObjectIsMine, FailureIsTheCompilers, ReceiverInv
<1> QED
  BY <1>1, JobStart, JobStep, PTL DEF JobSpec

(***************************************************************************)
(* A child between two jobs, or one that a signal ended, has left no       *)
(* temporary file (dcc_cleanup_tempfiles()), for any number of jobs.       *)
(***************************************************************************)
THEOREM ChildLeavesNothing == JobSpec => []NothingLeftBehind
<1>1. JobIInv => NothingLeftBehind
  <2> SUFFICES ASSUME JobIInv PROVE NothingLeftBehind
    BY Zenon
  <2>1. JobTypeOK
    BY TypesApart, Zenon DEF JobIInv
  <2>2. IdleIsClean
    BY Zenon DEF JobIInv, FilesInv, PlaceInv, IdleIsClean, At
  <2>3. SignalCleansUp
    <3> SUFFICES ASSUME s_pc = "dead", making = "none", cc \notin {"orphan", "left"} PROVE tmp = {}
      BY Zenon DEF SignalCleansUp
    <3>1. cleanups = <<>> /\ \A f \in tmp : Has(f)
      BY Zenon DEF JobIInv, FilesInv, PlaceInv, KeptInv, Spared
    <3>2. \A f \in tmp : f = "none"
      BY <3>1 DEF Has, Registered
    <3> QED
      BY <3>2, Zenon DEF JobIInv, Types, FileTypes, Temp
  <2> QED
    BY <2>1, <2>2, <2>3, Zenon DEF NothingLeftBehind
<1> QED
  BY <1>1, JobStart, JobStep, PTL DEF JobSpec
=============================================================================
