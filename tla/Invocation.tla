----------------------------- MODULE Invocation -----------------------------
(***************************************************************************)
(* How the client finds out what it was called for (main() of distcc.c,    *)
(* climasq.c, safeguard.c, dcc_find_compiler()) and which program its      *)
(* child becomes (dcc_inside_child(), dcc_execvp()).  The compiler's name  *)
(* may lead to distcc again: the variables follow one chain of processes,  *)
(* each the child of the one before.                                       *)
(*                                                                         *)
(* A word of a command is a directory, as a sequence of components, and a  *)
(* name; NoDir is a word without a slash and "/" begins an absolute one.   *)
(***************************************************************************)
EXTENDS Integers, Sequences, SequencesExt, FiniteSets

CONSTANTS
  Directories,    \* what PATH may hold: absolute directories
  Cwd,            \* the working directory
  Calls,          \* commands a user or make may start
  MaxPath         \* bound: components of PATH

VARIABLES
  bin,            \* what each directory holds under the compiler's names
  call,           \* how the chain was started: PATH and command
  command,        \* argv of the process that is running
  path,           \* its PATH
  safeguard,      \* its _DISTCC_SAFEGUARD; 0: not set
  builds,         \* calls of dcc_build_somewhere() along the chain
  phase           \* "main", "build" or how the chain ended
invocationVars == <<bin, call, command, path, safeguard, builds, phase>>

NoDir == <<>>
MaxBuilds == 3     \* bound: the count of builds stops here
OneMore(n) == IF n < MaxBuilds THEN n + 1 ELSE n
Kinds == {"absent", "distcc", "compiler"}
(* the answers of main() that need no compiler *)
Answers == {"--help", "--version", "--show-hosts", "-j", "--show-principal"}

(***************************************************************************)
(* dcc_abspath()                                                           *)
(***************************************************************************)
(* "dir/.." is dropped where a slash follows it, "./" only in front. *)
AbsPath(dir) ==
  LET typed_dir == IF dir[1] = "/" THEN Tail(dir)
                   ELSE IF dir[1] = "." /\ Len(dir) > 1 THEN Cwd \o Tail(dir) ELSE Cwd \o dir
      Step(acc, i) == IF typed_dir[i] = ".." /\ i < Len(typed_dir)
                        THEN SubSeq(acc, 1, Len(acc) - 1) ELSE Append(acc, typed_dir[i])
  IN FoldLeft(Step, <<>>, [i \in DOMAIN typed_dir |-> i])
(* where the kernel finds the directory *)
Resolved(dir) ==
  LET Step(acc, c) == CASE c = "." -> acc [] c = ".." -> SubSeq(acc, 1, Len(acc) - 1) [] OTHER -> Append(acc, c)
  IN FoldLeft(Step, <<>>, IF dir[1] = "/" THEN Tail(dir) ELSE Cwd \o dir)
HeldBy(dir) == IF dir \in Directories THEN bin[dir] ELSE "absent"

(***************************************************************************)
(* dcc_support_masquerade(): the PATH past our directory, or past the      *)
(* first one that holds the name                                           *)
(***************************************************************************)
(* the directory that matched stays in front *)
SupportMasquerade_KeepsOurs(word, dirs) ==
  LET match == {i \in DOMAIN dirs : IF word.dir # NoDir THEN dirs[i] = AbsPath(word.dir)
                                    ELSE HeldBy(dirs[i]) # "absent"}
      past == IF match = {} THEN <<>> ELSE SubSeq(dirs, Min(match), Len(dirs)) IN
  IF past # <<>> THEN [path |-> past, tweaked |-> 1] ELSE [path |-> dirs, tweaked |-> 0]
SupportMasquerade(word, dirs) ==
  LET match == {i \in DOMAIN dirs : IF word.dir # NoDir THEN dirs[i] = AbsPath(word.dir)
                                    ELSE HeldBy(dirs[i]) # "absent"}
      past == IF match = {} THEN <<>> ELSE SubSeq(dirs, Min(match) + 1, Len(dirs)) IN
  IF past # <<>> THEN [path |-> past, tweaked |-> 1] ELSE [path |-> dirs, tweaked |-> 0]

(* dcc_find_compiler(): an option or a file is no compiler's name *)
CompilerCommand(words) ==
  IF words[2].text \in Answers \cup {"-c", "hello.c", "hello.o", "--scan-includes"}
    THEN <<[dir |-> NoDir, text |-> "cc"]>> \o Tail(words) ELSE Tail(words)

(***************************************************************************)
(* main(), up to dcc_build_somewhere_timed()                               *)
(***************************************************************************)
(* What the words ask of a program called distcc: an exit code or a
   command.  --scan-includes drops one word, and what follows it is not
   compared with the other answers except --show-principal. *)
Explicit(words) ==
  LET scans == Len(words) > 1 /\ words[2].text = "--scan-includes"
      rest == IF scans THEN Tail(words) ELSE words IN
  CASE Len(rest) <= 1 -> [exit |-> "EXIT_BAD_ARGUMENTS"]
    [] Len(rest) > 1 /\ rest[2].text \in (IF scans THEN {"--show-principal"} ELSE Answers) -> [exit |-> "0"]
    [] OTHER -> [exit |-> "none", command |-> CompilerCommand(rest)]

Main ==
  /\ phase = "main"
  /\ UNCHANGED <<bin, call, safeguard>>
  /\ LET words == command
         explicit == Explicit(words)
         masq == SupportMasquerade(words[1], path)
         Guarded(tweaked) == IF safeguard - tweaked > 0
                               THEN phase' = "EXIT_RECURSION" /\ builds' = builds
                               ELSE phase' = "build" /\ builds' = OneMore(builds) IN
     IF words[1].text = "distcc"
       THEN /\ path' = path
            /\ IF explicit.exit # "none" THEN phase' = explicit.exit /\ UNCHANGED <<command, builds>>
               ELSE command' = explicit.command /\ Guarded(0)
       ELSE /\ path' = masq.path
            /\ command' = [words EXCEPT ![1].dir = NoDir]
            /\ Guarded(masq.tweaked)

(***************************************************************************)
(* The child: dcc_increment_safeguard(), dcc_execvp()                      *)
(***************************************************************************)
(* One digit is written; the level read back from ':' would be 1. *)
IncrementSafeguard(level) == IF level + 1 > 9 THEN 1 ELSE level + 1
(* What execvp() runs: the file named, or else its basename on the PATH *)
Execvp(word) ==
  LET there == IF word.dir = NoDir THEN "absent" ELSE HeldBy(Resolved(word.dir))
      match == {i \in DOMAIN path : HeldBy(path[i]) # "absent"} IN
  IF there # "absent" THEN there ELSE IF match = {} THEN "absent" ELSE HeldBy(path[Min(match)])
(* The compiler, or the preprocessor of a job for a server, runs here. *)
InsideChild ==
  /\ phase = "build"
  /\ LET what == IF command[1].text = "distcc" THEN "distcc" ELSE Execvp(command[1]) IN
     phase' = CASE what = "distcc" -> "main" [] what = "compiler" -> "compiler" [] OTHER -> "EXIT_COMPILER_MISSING"
  /\ safeguard' = IncrementSafeguard(safeguard)
  /\ UNCHANGED <<bin, call, command, path, builds>>
(* A server does all of it; a recursive client compiles here. *)
BuildRemotely ==
  /\ phase = "build" /\ safeguard = 0
  /\ phase' = "remote"
  /\ UNCHANGED <<bin, call, command, path, safeguard, builds>>

InvocationInit ==
  /\ bin \in [Directories -> Kinds]
  /\ path \in UNION {[1 .. n -> Directories] : n \in 1 .. MaxPath}
  /\ command \in Calls
  /\ call = [path |-> path, command |-> command]
  /\ safeguard = 0 /\ builds = 0 /\ phase = "main"
InvocationNext == Main \/ InsideChild \/ BuildRemotely

(***************************************************************************)
(* Properties                                                              *)
(***************************************************************************)
(* However many links to distcc the PATH leads through, the chain of calls
   that began with one command asks for a compilation at most twice: once as
   the user's command and once from behind one more masquerade directory.
   (dcc_recursion_safeguard(), dcc_increment_safeguard(), main()) *)
AtMostTwoBuilds == builds <= 2

(* A compiler's name called without a directory, or with the one that stands
   in the PATH, reaches the compiler behind one or two masquerade
   directories.  (dcc_support_masquerade(), dcc_execvp()) *)
MasqueradeReachesCompiler ==
  LET word == call.command[1]
      found == {i \in DOMAIN call.path : bin[call.path[i]] = "compiler"}
      links == {i \in DOMAIN call.path : bin[call.path[i]] = "distcc" /\ i < Min(found)} IN
  (/\ word.text = "gcc" /\ found # {} /\ Cardinality(links) \in 1 .. 2
   /\ word.dir = NoDir \/ (word.dir[1] = "/" /\ Tail(word.dir) = call.path[Min(links)]))
    => phase \in {"main", "build", "compiler", "remote"}

(* A compiler's name that leads to distcc again costs at most one more build,
   and a masqueraded call gets past its own directory to the compiler.
   (dcc_support_masquerade(), dcc_increment_safeguard()) *)
RecursionIsCaught == AtMostTwoBuilds /\ MasqueradeReachesCompiler
=============================================================================
