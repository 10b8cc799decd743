----------------------------- MODULE CommandLine -----------------------------
(***************************************************************************)
(* What distcc makes of a compiler's command line (arg.c, strip.c, dotd.c, *)
(* implicit.c, filename.c, and the part of serve.c that adapts it to the   *)
(* server).  An argument is a record: the option it begins with, "" for a  *)
(* file name, and the file name that is joined to it or that it is, cut    *)
(* into directory, name and extension.  parts are the parts of a -Wp,      *)
(* option, which are arguments themselves.                                 *)
(***************************************************************************)
EXTENDS Integers, Sequences, SequencesExt, FiniteSets

CONSTANTS
  Groups,     \* what a user may add to a command: an option with its argument, a file
  MaxGroups,  \* bound: groups of a command
  WpParts,    \* parts of a -Wp, option
  MaxParts    \* bound: parts of an option

VARIABLES argv, groups, wp
argVars == <<argv, groups, wp>>

Argument(opt, dir, name, ext) ==
  [opt |-> opt, dir |-> dir, name |-> name, ext |-> ext]
Option(opt) == Argument(opt, "", "", "")
Word(name, ext) == Argument("", "", name, ext)
Bare(a) == a.name = ""
FileOf(a) == [a EXCEPT !.opt = ""]
Cc == Word("cc", "")

FAILED == "EXIT_DISTCC_FAILED"

(***************************************************************************)
(* filename.c                                                              *)
(***************************************************************************)
(* dcc_is_source(), built without ENABLE_REMOTE_ASSEMBLE *)
SourceExtensions == {"i", "ii", "c", "cc", "cpp", "cxx", "cp", "c++", "C", "m", "mm", "mi", "mii", "M"}
IsSource(a) == a.ext \in SourceExtensions
(* dcc_is_preprocessed() *)
IsPreprocessed(a) == a.ext \in {"i", "ii", "mi", "mii"}
(* dcc_preproc_exten(), "none" for NULL *)
PreprocExten(ext) ==
  CASE ext \in {"i", "c"} -> "i"
    [] ext \in {"cc", "cpp", "cxx", "cp", "c++", "C", "ii"} -> "ii"
    [] ext \in {"mi", "m"} -> "mi"
    [] ext \in {"mii", "mm", "M"} -> "mii"
    [] ext \in {"s", "S"} -> "s"
    [] OTHER -> "none"
(* dcc_is_object() *)
IsObject(a) == a.ext = "o"
(* dcc_source_needs_local() *)
SourceNeedsLocal(a) == a.name \in {"conftest", "tmp.conftest"}
(* dcc_output_from_source(): in the current directory *)
OutputFromSource(source, ext) == [FileOf(source) EXCEPT !.dir = "", !.ext = ext]

(***************************************************************************)
(* arg.c: the scan goes through the arguments from left to right; next is  *)
(* what the argument of the preceding option is.                           *)
(***************************************************************************)
NoFile == Option("none")
Local == {"-E", "-M", "-MM", "-march=native", "-mtune=native", "-Wa,-a", "-specs=", "-fprofile-arcs",
          "-ftest-coverage", "--coverage", "-frepo", "-x", "-dr"}
StartScan == [next |-> "none", ret |-> "ok", c |-> FALSE, s |-> FALSE, input |-> NoFile, output |-> NoFile]
GotOutput(st, file) ==
  IF st.output # NoFile THEN [st EXCEPT !.ret = FAILED] ELSE [st EXCEPT !.output = file, !.next = "none"]
ScanOption(st, a) ==
  CASE a.opt \in Local -> [st EXCEPT !.ret = FAILED]
    [] a.opt \in {"-MF", "-MT", "-MQ"} /\ Bare(a) -> [st EXCEPT !.next = "skip"]
    [] a.opt = "-S" -> [st EXCEPT !.s = TRUE]
    [] a.opt = "-c" -> [st EXCEPT !.c = TRUE]
    [] a.opt = "-o" /\ Bare(a) -> [st EXCEPT !.next = "output"]
    [] a.opt = "-o" -> GotOutput(st, FileOf(a))
    [] OTHER -> st
ScanArg(st, a) ==
  CASE st.ret # "ok" -> st
    [] st.next = "skip" -> [st EXCEPT !.next = "none"]
    [] st.next = "output" -> GotOutput(st, a)
    [] a.opt # "" -> ScanOption(st, a)
    [] IsSource(a) -> IF st.input # NoFile THEN [st EXCEPT !.ret = FAILED] ELSE [st EXCEPT !.input = a]
    [] IsObject(a) -> GotOutput(st, a)
    [] OTHER -> st
(* dcc_scan_args(): an output that is not named is added to the arguments. *)
Completed(st, args) ==
  LET derived == OutputFromSource(st.input, IF st.s THEN "s" ELSE "o")
      full == IF st.output # NoFile THEN st @@ [argv |-> args]
              ELSE [st EXCEPT !.output = derived] @@ [argv |-> args \o <<Option("-o"), derived>>]
      fails == \/ st.ret # "ok" \/ ~(st.c \/ st.s) \/ st.input = NoFile
               \/ SourceNeedsLocal(st.input) \/ st.output = Option("-")
  IN IF fails THEN [full EXCEPT !.ret = FAILED] ELSE full
ScanArgs(args) == Completed(FoldLeft(ScanArg, StartScan, args), args)

(* the operand of -o is taken for the first thing that looks like an object *)
SetOutput_FirstObject(args, file) ==
  LET i == SelectInSeq(args, LAMBDA a : IsObject(a)) IN
  IF i = 0 THEN [ret |-> FAILED, argv |-> args]
  ELSE [ret |-> "ok", argv |-> [args EXCEPT ![i] = file]]
(* dcc_set_output() *)
SetOutput(args, file) ==
  LET i == SelectInSeq(args, LAMBDA a : a.opt = "-o") IN
  IF i = 0 THEN [ret |-> FAILED, argv |-> args]
  ELSE IF Bare(args[i]) /\ i < Len(args) THEN [ret |-> "ok", argv |-> [args EXCEPT ![i + 1] = file]]
  ELSE [ret |-> "ok", argv |-> [args EXCEPT ![i] = [file EXCEPT !.opt = "-o"]]]
(* dcc_set_input() *)
SetInput(args, file) ==
  LET i == SelectInSeq(args, LAMBDA a : IsSource(a)) IN
  IF i = 0 THEN [ret |-> FAILED, argv |-> args]
  ELSE [ret |-> "ok", argv |-> [args EXCEPT ![i] = file]]
(* dcc_set_action_opt() *)
SetActionOpt(args, opt) ==
  [ret |-> IF \E a \in ToSet(args) : a.opt \in {"-c", "-S"} THEN "ok" ELSE FAILED,
   argv |-> [i \in DOMAIN args |-> IF args[i].opt \in {"-c", "-S"} THEN Option(opt) ELSE args[i]]]

(* dcc_expand_preprocessor_options(): a -MD that names a file becomes three
   arguments.  count_extra_args() sizes the new array ... *)
NamesFile(parts, i) == parts[i].opt \in {"-MD", "-MMD"} /\ Bare(parts[i]) /\ i < Len(parts)
CountExtraArgs(parts) ==
  FoldLeft(LAMBDA st, i : IF st.skip THEN [st EXCEPT !.skip = FALSE]
                          ELSE IF NamesFile(parts, i) THEN [n |-> st.n + 3, skip |-> TRUE]
                          ELSE [n |-> st.n + 1, skip |-> FALSE],
           [n |-> 0, skip |-> FALSE], [i \in DOMAIN parts |-> i]).n
(* ... and copy_extra_args() fills it. *)
CopyExtraArgs(parts) ==
  FoldLeft(LAMBDA st, i :
             IF st.skip THEN [st EXCEPT !.skip = FALSE]
             ELSE IF NamesFile(parts, i)
               THEN [out |-> st.out \o <<parts[i], Option("-MF"), parts[i + 1]>>, skip |-> TRUE]
             ELSE [out |-> Append(st.out, parts[i]), skip |-> FALSE],
           [out |-> <<>>, skip |-> FALSE], [i \in DOMAIN parts |-> i]).out

(* dcc_find_compiler(): args[1] is distcc itself. *)
FindCompiler(args) ==
  IF args[2].opt # "" \/ IsSource(args[2]) \/ IsObject(args[2]) THEN <<Cc>> \o Tail(args) ELSE Tail(args)

(***************************************************************************)
(* strip.c                                                                 *)
(***************************************************************************)
WithArgument == {"-D", "-I", "-U", "-L", "-l", "-MF", "-MT", "-MQ", "-include", "-imacros", "-iprefix",
                 "-iwithprefix", "-isystem", "-iwithprefixbefore", "-idirafter"}
Joined == {"-Wp,", "-Wl,", "-D", "-U", "-I", "-l", "-L", "-MF", "-MT", "-MQ"}
CppOnly == {"-undef", "-nostdinc", "-nostdinc++", "-MD", "-MMD", "-MG", "-MP"}
(* dcc_strip_local_args() *)
StripLocalArgs(args) ==
  FoldLeft(LAMBDA st, a :
             IF st.skip THEN [st EXCEPT !.skip = FALSE]
             ELSE IF a.opt \in WithArgument /\ Bare(a) THEN [st EXCEPT !.skip = TRUE]
             ELSE IF a.opt \in Joined \/ (a.opt \in CppOnly /\ Bare(a)) THEN st
             ELSE [st EXCEPT !.out = Append(@, a)],
           [out |-> <<>>, skip |-> FALSE], args).out
(* dcc_strip_dasho() *)
StripDasho(args) ==
  FoldLeft(LAMBDA st, a :
             IF st.skip THEN [st EXCEPT !.skip = FALSE]
             ELSE IF a.opt = "-o" THEN [st EXCEPT !.skip = Bare(a)]
             ELSE [st EXCEPT !.out = Append(@, a)],
           [out |-> <<>>, skip |-> FALSE], args).out

(***************************************************************************)
(* dotd.c                                                                  *)
(***************************************************************************)
(* dcc_get_dotd_info() without DEPENDENCIES_OUTPUT: whether a .d file is
   wanted and its name; an explicit -MF, the last one, else after the operand of
   a separate -o, else after the input. *)
DotdScan(args) ==
  FoldLeft(LAMBDA st, a :
             CASE st.next = "target" -> [st EXCEPT !.next = "none"]
               [] st.next = "file" -> [st EXCEPT !.next = "none", !.file = a]
               [] a.opt \in {"-MT", "-MQ"} /\ Bare(a) -> [st EXCEPT !.sets_target = TRUE, !.next = "target"]
               [] a.opt = "-MF" /\ Bare(a) -> [st EXCEPT !.needs = TRUE, !.next = "file"]
               [] a.opt = "-MF" -> [st EXCEPT !.needs = TRUE, !.file = FileOf(a)]
               [] a.opt \in {"-MD", "-MMD", "-MG", "-MP", "-M", "-MM", "-MT", "-MQ"} -> [st EXCEPT !.needs = TRUE]
               [] a.opt = "-o" /\ Bare(a) -> [st EXCEPT !.dash_o = TRUE]
               [] OTHER -> st,
           [next |-> "none", needs |-> FALSE, sets_target |-> FALSE, file |-> NoFile, dash_o |-> FALSE], args)
DotdName(args) ==
  LET d == DotdScan(args)  scanned == ScanArgs(args) IN
  IF d.file # NoFile THEN d.file
  ELSE [(IF d.dash_o THEN scanned.output ELSE scanned.input) EXCEPT !.ext = "d"]

(***************************************************************************)
(* serve.c: the command on the server.                                     *)
(***************************************************************************)
IncludeOptions == {"-I", "-include", "-imacros", "-idirafter", "-iprefix", "-iwithprefix", "-isystem", "-iquote"}
UnderRoot(a) == IF a.dir = "/" THEN [a EXCEPT !.dir = "root"] ELSE a
(* tweak_include_arguments_for_server(): the option's own argument or the next,
   which is then not looked at as an option. *)
TweakIncludes(args) ==
  FoldLeft(LAMBDA st, a :
             IF st.next THEN [out |-> Append(st.out, UnderRoot(a)), next |-> FALSE]
             ELSE IF a.opt \in IncludeOptions
               THEN [out |-> Append(st.out, UnderRoot(a)), next |-> Bare(a)]
             ELSE [st EXCEPT !.out = Append(@, a)],
           [out |-> <<>>, next |-> FALSE], args).out
(* tweak_input_argument_for_server() *)
TweakInput(args) ==
  LET i == SelectInSeq(args, LAMBDA a : IsSource(a) /\ a.opt = "" /\ a.dir = "/") IN
  IF i = 0 THEN args ELSE [args EXCEPT ![i] = UnderRoot(@)]
(* dcc_convert_mt_to_dotd_target(): the first -MT and its argument are taken out. *)
ConvertMT(args) ==
  LET i == SelectInSeq(args, LAMBDA a : a = Option("-MT")) IN
  IF i = 0 THEN [ret |-> "ok", argv |-> args, target |-> NoFile]
  ELSE IF i = Len(args) THEN [ret |-> "1", argv |-> args, target |-> NoFile]
  ELSE [ret |-> "ok", argv |-> SubSeq(args, 1, i - 1) \o SubSeq(args, i + 2, Len(args)), target |-> args[i + 1]]
(* tweak_arguments_for_server() *)
TweakArguments(args) ==
  LET m == ConvertMT(args)
      deps == <<Option("-MMD"), Option("-MF"), Word("deps", "d")>>
  IN IF m.ret # "ok" THEN m ELSE [m EXCEPT !.argv = TweakInput(TweakIncludes(@ \o deps))]

(* dcc_input_tmpnam() and the temporary output of dcc_run_job() *)
InputTmpnam(input) ==
  Word("distccd_i", IF PreprocExten(input.ext) = "none" THEN "tmp" ELSE PreprocExten(input.ext))
OutputTmpnam == Word("distccd_o", "o")

(***************************************************************************)
(* A command grows by an argument; a -Wp, option by a part.                *)
(***************************************************************************)
ArgInit == argv = <<Cc>> /\ groups = 0 /\ wp = <<>>
AddArgument ==
  /\ groups < MaxGroups /\ wp = <<>>
  /\ groups' = groups + 1
  /\ \E g \in Groups : argv' = argv \o g
  /\ UNCHANGED wp
AddPart ==
  /\ Len(wp) < MaxParts /\ groups = 0
  /\ \E a \in WpParts : wp' = Append(wp, a)
  /\ UNCHANGED <<argv, groups>>
ArgNext == AddArgument \/ AddPart

(***************************************************************************)
(* Properties.  Every option of a command has the argument it takes: the   *)
(* code reads past the end of any other.                                   *)
(***************************************************************************)
Distributed(args) == ScanArgs(args).ret = "ok"
(* what the client of a plain job sends *)
Sent(args) == StripLocalArgs(ScanArgs(args).argv)
NamedOutput(args) == \E a \in ToSet(ScanArgs(args).argv) : a.opt = "-o"

(* The command a plain job sends is, to the server that scans it again, the
   compilation the client saw: the same input and the same output, whatever
   preprocessor options were cut from it and whatever their arguments look like,
   and also when the user left out the compiler's name. *)
StripKeepsCompilation ==
  Distributed(argv) =>
    LET c == ScanArgs(FindCompiler(<<Word("distcc", "")>> \o Tail(argv)))  s == ScanArgs(Sent(argv)) IN
    s.ret = "ok" /\ s.input = c.input /\ s.output = c.output /\ s.c = c.c /\ s.s = c.s

(* The server compiles its own temporary files: once their names are put into
   the command it received, another scan finds them and nothing else. *)
ServerFilesAreScanned ==
  Distributed(argv) /\ NamedOutput(argv) =>
    LET input == InputTmpnam(ScanArgs(Sent(argv)).input)
        i == SetInput(Sent(argv), input)
        o == SetOutput(i.argv, OutputTmpnam)
        s == ScanArgs(o.argv)
    IN /\ i.ret = "ok" /\ o.ret = "ok" /\ IsPreprocessed(input)
       /\ s.ret = "ok" /\ s.input = input /\ s.output = OutputTmpnam

(* The command that preprocesses on the client, without -o and with -E, is one
   that distcc itself would never distribute, so a compiler name that leads back
   to distcc does not loop. *)
CppCommandIsLocal ==
  Distributed(argv) =>
    LET cpp == SetActionOpt(StripDasho(ScanArgs(argv).argv), "-E") IN
    /\ cpp.ret = "ok" /\ ScanArgs(cpp.argv).ret = FAILED
    /\ \A a \in ToSet(cpp.argv) : a.opt # "-o"

(* In pump mode the server reads nothing by an absolute name outside the job's
   directory: every include option and the input are moved below it, and the
   compilation is otherwise the one the client asked for. *)
PumpReadsUnderRoot ==
  Distributed(argv) =>
    LET t == TweakArguments(ScanArgs(argv).argv)  s == ScanArgs(t.argv) IN
    t.ret = "ok" =>
      /\ s.ret = "ok" /\ s.input = UnderRoot(ScanArgs(argv).input) /\ s.output = ScanArgs(argv).output
      /\ \A i \in DOMAIN t.argv :
           t.argv[i].dir = "/" =>
             t.argv[i].opt \notin IncludeOptions
             /\ ~(i > 1 /\ t.argv[i - 1].opt \in IncludeOptions /\ Bare(t.argv[i - 1]))

(* The dependencies go where the compiler would put them: the last -MF, else
   beside the operand of -o, else after the input in the current directory, for
   an -o that stands alone and an input without a directory. *)
DotdWhereCompilerPutsIt ==
  Distributed(argv) /\ (\A a \in ToSet(argv) : a.opt = "-o" => Bare(a))
    /\ ScanArgs(argv).input.dir = "" =>
    LET explicit == {i \in DOMAIN argv : argv[i].opt = "-MF"}
        last == CHOOSE i \in explicit : \A j \in explicit : j <= i
        out == ScanArgs(argv).output
    IN DotdName(argv) =
         IF explicit # {} THEN IF Bare(argv[last]) THEN argv[last + 1] ELSE FileOf(argv[last])
         ELSE IF Option("-o") \in ToSet(argv) THEN [out EXCEPT !.ext = "d"]
         ELSE [ScanArgs(argv).input EXCEPT !.ext = "d"]

(* The array that count_extra_args() sizes is exactly filled: the assertion of
   copy_extra_args() holds for every -Wp, option, also one whose -MD comes last
   or is the file name of another. *)
WpExpansionFits == wp # <<>> => CountExtraArgs(wp) = Len(CopyExtraArgs(wp))

(* The commands derived from the user's command - for the preprocessor, for the
   compiler of a server, and for the place of the dependencies - still describe
   the compilation that the user asked for.  (arg.c, strip.c, dotd.c, serve.c) *)
CommandsAgree ==
  /\ StripKeepsCompilation /\ ServerFilesAreScanned /\ CppCommandIsLocal
  /\ PumpReadsUnderRoot /\ DotdWhereCompilerPutsIt /\ WpExpansionFits
=============================================================================
