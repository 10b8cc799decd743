------------------------------ MODULE MCClient ------------------------------
(***************************************************************************)
(* The client program, for model checking.  Its translations - host lists, *)
(* command lines, invocations, files to be rewritten - build up their      *)
(* input step by step, so that every input within the bounds is a state.   *)
(* The files that clients share beside the locks - state files and their   *)
(* monitor, the discrepancy counter, the backoff timefiles, the list of    *)
(* zeroconf hosts - are used by several processes at once.  The parts share*)
(* no variable; a behaviour is one of a single part.                       *)
(***************************************************************************)
EXTENDS HostSpec, CommandLine, Invocation, Rewrites, StateFiles, Discrepancy, Backoff,
  Zeroconf

VARIABLE part
sharedVars == <<stateVars, discrepancyVars, backoffVars, zcVars>>
mcVars == <<part, hostVars, argVars, invocationVars, rewriteVars, sharedVars>>

(* host lists: what is written, and what it means (man/distcc.1, HOST SPECIFICATIONS) *)
Tcp(name, limit, port, opts) ==
  [is |-> IF "cpp" \in ToSet(opts) /\ "lzo" \notin ToSet(opts) THEN "bad" ELSE "host",
   word |-> <<name>> \o (IF limit = "" THEN <<>> ELSE <<"/", limit>>)
            \o (IF port = "" THEN <<>> ELSE <<":", port>>)
            \o FoldLeft(LAMBDA s, o : s \o <<",", o>>, <<>>, opts),
   means |-> [NewHost EXCEPT !.mode = "TCP", !.hostname = <<name>>,
               !.n_slots = IF limit = "" THEN 4 ELSE Val[limit],
               !.port = IF port = "" THEN 3632 ELSE Val[port],
               !.is_up = "down" \notin ToSet(opts),
               !.authenticate = "auth" \in ToSet(opts),
               !.compr = IF "lzo" \in ToSet(opts) THEN "LZO1X" ELSE "NONE",
               !.cpp_where = IF "cpp" \in ToSet(opts) THEN "SERVER" ELSE "CLIENT",
               !.protover = 1 + Cardinality(ToSet(opts) \cap {"lzo", "cpp"})]]
Ssh(user, limit, remote, opts) ==
  LET t == Tcp("h1", limit, "", opts) IN
  [is |-> t.is,
   word |-> user \o <<"@", "h1">> \o (IF limit = "" THEN <<>> ELSE <<"/", limit>>)
            \o (IF remote = "" THEN <<>> ELSE <<":", remote>>)
            \o FoldLeft(LAMBDA s, o : s \o <<",", o>>, <<>>, opts),
   means |-> [t.means EXCEPT !.mode = "SSH", !.port = 0, !.user = user,
                !.ssh_command = IF remote = "" THEN NULL ELSE <<remote>>]]
OptionLists == {<<>>, <<"lzo">>, <<"cpp", "lzo">>, <<"cpp">>, <<"down", "lzo">>, <<"auth">>}
MCDescriptions ==
  {Tcp("h1", l, p, o) : l \in {"", "8"}, p \in {"", "9"}, o \in OptionLists}
  \cup {Ssh(u, l, c, o) : u \in {<<>>, <<"u">>}, l \in {"", "8"}, c \in {"", "rsh"}, o \in OptionLists}
  \cup {[is |-> "host", word |-> <<"localhost">>,
         means |-> [NewHost EXCEPT !.mode = "LOCAL", !.hostname = <<"localhost">>, !.n_slots = 2]],
        [is |-> "host", word |-> <<"localhost", "/", "3">>,
         means |-> [NewHost EXCEPT !.mode = "LOCAL", !.hostname = <<"localhost">>, !.n_slots = 3]],
        [is |-> "bad", word |-> <<"localhost", "/", "0">>, means |-> 0],
        [is |-> "localslots", word |-> <<"--localslots", "=", "8">>, means |-> 8],
        [is |-> "localslots", word |-> <<"--localslots", "/", "3">>, means |-> 3],
        [is |-> "bad", word |-> <<"--localslots", "/", "0">>, means |-> 0],
        [is |-> "keyword", word |-> <<"--localslots_cpp", "=", "3">>, means |-> 3],
        [is |-> "randomize", word |-> <<"--randomize">>, means |-> 0],
        [is |-> "zeroconf", word |-> <<"+zeroconf">>, means |-> 0]}
MCZeroconf == << <<"h1", "/", "8", ",", "lzo">> >>

(* command lines: what may stand together on one *)
MCGroups ==
  {<<Option(o)>> : o \in {"-c", "-S", "-E", "-MD", "-g"}}
  \cup {<<Option("-o"), Word("x", "o")>>, <<Option("-o"), Option("-")>>,
        <<Argument("-o", "", "z", "o")>>,
        <<Option("-MF"), Word("f", "d")>>, <<Argument("-MF", "", "y", "d")>>,
        <<Option("-MT"), Word("t", "o")>>,
        <<Option("-I"), Argument("", "/", "w", "")>>, <<Argument("-I", "/", "w", "")>>,
        <<Option("-include"), Argument("", "/", "p", "h")>>, <<Argument("-D", "", "q", "c")>>,
        <<Word("x", "c")>>, <<Argument("", "/", "y", "cc")>>, <<Word("x", "o")>>,
        <<Word("conftest", "c")>>}
MCParts == {Option("-MD"), Option("-MMD"), Option("-MF"), Word("f", "d"), Word("", "")}

(* invocations: a PATH of three directories, called by any name *)
MCDirectories == {<<"a">>, <<"b">>, <<"a", "b">>}
MCCwd == <<"a">>
MCSpellings ==
  {NoDir, <<"/", "a">>, <<"/", "b">>, <<".">>, <<".", "b">>, <<"..", "b">>, <<"/", "a", "..", "b">>}
Typed(t) == [dir |-> NoDir, text |-> t]
MCCommands ==
  {<<>>, <<Typed("--help")>>, <<Typed("--scan-includes")>>, <<Typed("--scan-includes"), Typed("gcc")>>,
   <<Typed("-c")>>, <<Typed("gcc")>>, <<[dir |-> <<"/", "b">>, text |-> "gcc"]>>,
   <<[dir |-> <<"/", "c">>, text |-> "gcc"]>>, <<Typed("distcc")>>, <<Typed("distcc"), Typed("-c")>>}
MCCalls ==
  {<<[dir |-> d, text |-> "gcc"], Typed("-c")>> : d \in MCSpellings}
  \cup {<<Typed("distcc")>> \o c : c \in MCCommands}

(* object files, dependency files and dependencies *)
Section(n, z, l, h) == [name |-> n, size |-> z, link |-> l, holds |-> h]
Elf(m, d, c, t, o, x, n, s) ==
  [magic |-> m, data |-> d, class |-> c, truncated |-> t, shoff |-> o, shstrndx |-> x,
   shnum |-> n, strings_at |-> 2, sections |-> s]
MCSections ==
  {<<Section("", 3, 2, "none"), Section(".shstrtab", 1, 0, "none"), Section(n, z, 0, "strings")>> :
     n \in {".debug_info", ".debug_str", ".text"}, z \in {0, 1}}
  \cup {<<Section("", 4, 2, "none"), Section(".shstrtab", 1, 0, "none"),
          Section(".debug_info", 1, 0, "none"), Section(".debug_str", 1, 0, "strings")>>}
MCHeaders ==
  {Elf(TRUE, "host", c, FALSE, TRUE, x, n, s) :
     c \in {"ELFCLASS32", "ELFCLASS64", "other"}, x \in {2, SHN_XINDEX, SHN_UNDEF}, n \in {0, 3},
     s \in MCSections}
  \cup {Elf(m, d, "ELFCLASS64", t, o, 2, 3, s) :
          m \in BOOLEAN, d \in {"host", "other"}, t \in BOOLEAN, o \in BOOLEAN, s \in MCSections}
MCServerPath == <<"/", "t", "c">>
MCClientPath == <<"/", "c">>
MCStrings == {MCServerPath, MCServerPath \o <<"/", "f">>, <<"f">>, MCClientPath, <<"/", "t">>}
MCLexemes == {"server.o", "root", "x.h", "newline"}
MCLength ==
  [l \in {"server.o", "client.o", "root", "x.h", "newline", "overflow"} |->
     CASE l = "server.o" -> 3 [] l = "client.o" -> 5 [] l = "root" -> 4 [] l = "newline" -> 1
       [] OTHER -> 2]
MCDependencies ==
  {[name |-> <<"a">>, excluded |-> FALSE, ctime |-> 1],
   [name |-> <<"a", "b">>, excluded |-> FALSE, ctime |-> 2],
   [name |-> <<"b">>, excluded |-> FALSE, ctime |-> 3],
   [name |-> <<"c">>, excluded |-> TRUE, ctime |-> 3],
   [name |-> <<"e">>, excluded |-> FALSE, ctime |-> Missing]}
MCSeparators == {<<" ">>, <<" ", "\\", "newline", " ">>, <<"newline">>}

(* the monitor's order differs from the order of the process ids *)
MCSlotOf == [p \in Pids |-> 2 - p]

(* zeroconf: one server announced on two interfaces *)
MCAnnouncements == {<<"s1", "e1">>, <<"s1", "e2">>}

-----------------------------------------------------------------------------
MCInit ==
  /\ part \in {"host", "arg", "invocation", "rewrite", "state", "discrepancy", "backoff", "zeroconf"}
  /\ HostInit /\ (part # "host" => source = 1)
  /\ ArgInit
  /\ RewritesInit /\ (part # "rewrite" => file.kind = "deps")
  /\ StateInit /\ DiscrepancyInit /\ BackoffInit
  /\ ZcInit /\ (part # "zeroconf" => announced = {})
  /\ IF part = "invocation" THEN InvocationInit
     ELSE /\ bin = [d \in Directories |-> CHOOSE k \in Kinds : TRUE]
          /\ path = <<MCCwd>> /\ command = <<Typed("distcc")>>
          /\ call = [path |-> path, command |-> command]
          /\ safeguard = 0 /\ builds = 0 /\ phase = "exit"

InHost(step) ==
  /\ part = "host" /\ step
  /\ UNCHANGED <<part, argVars, invocationVars, rewriteVars, sharedVars>>
InArg(step) ==
  /\ part = "arg" /\ step
  /\ UNCHANGED <<part, hostVars, invocationVars, rewriteVars, sharedVars>>
InInvocation(step) ==
  /\ part = "invocation" /\ step
  /\ UNCHANGED <<part, hostVars, argVars, rewriteVars, sharedVars>>
InRewrites(step) ==
  /\ part = "rewrite" /\ step
  /\ UNCHANGED <<part, hostVars, argVars, invocationVars, sharedVars>>
InState(step) ==
  /\ part = "state" /\ step
  /\ UNCHANGED <<part, hostVars, argVars, invocationVars, rewriteVars, discrepancyVars, backoffVars, zcVars>>
InDiscrepancy(step) ==
  /\ part = "discrepancy" /\ step
  /\ UNCHANGED <<part, hostVars, argVars, invocationVars, rewriteVars, stateVars, backoffVars, zcVars>>
InBackoff(step) ==
  /\ part = "backoff" /\ step
  /\ UNCHANGED <<part, hostVars, argVars, invocationVars, rewriteVars, stateVars, discrepancyVars, zcVars>>
InZeroconf(step) ==
  /\ part = "zeroconf" /\ step
  /\ UNCHANGED <<part, hostVars, argVars, invocationVars, rewriteVars, stateVars, discrepancyVars, backoffVars>>

MCNext ==
  \/ InHost(HostNext) \/ InArg(ArgNext) \/ InInvocation(InvocationNext)
  \/ InRewrites(RewritesNext) \/ InState(StateNext)
  \/ InDiscrepancy(DiscrepancyNext) \/ InBackoff(BackoffNext) \/ InZeroconf(ZcNext)

MCSpec == MCInit /\ [][MCNext]_mcVars
=============================================================================
