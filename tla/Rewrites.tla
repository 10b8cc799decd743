------------------------------ MODULE Rewrites ------------------------------
(***************************************************************************)
(* What is done to the files of a job after the compiler wrote them: the   *)
(* server puts the client's directory into the debugging information of    *)
(* the object (fix_debug_info.c) and its names into the .d file            *)
(* (dcc_cleanup_dotd()), and the client reads a .d file to find out which  *)
(* source changed during the build (dcc_fresh_dependency_exists()).        *)
(*                                                                         *)
(* file grows as the compiler writes it: a section of strings, the lines   *)
(* of a .d file, or its dependencies as gcc lays them out.                 *)
(***************************************************************************)
EXTENDS Integers, Sequences, SequencesExt, FiniteSets

CONSTANTS
  ServerPath, ClientPath,   \* directories, as sequences of characters
  Strings,                  \* strings of a debugging section
  Headers,                  \* the fields of an ELF file that are looked at
  MaxStrings,               \* bound: strings of a section
  DotdLexemes, LengthOf,    \* pieces of a .d file and their lengths
  MAX_DOTD_LINE_LEN,
  MaxLexemes,               \* bound: lexemes of a .d file
  Dependencies,             \* records: name, excluded, ctime
  Separators,               \* what gcc writes between two dependencies
  BuildStart,               \* ctime of the include server's socket
  MaxDependencies           \* bound: dependencies of a .d file

ASSUME RewritesAssumption == Len(ClientPath) <= Len(ServerPath)

VARIABLES file, header
rewriteVars == <<file, header>>

NUL == "\\0"
SHN_UNDEF == 0
SHN_XINDEX == 65535
Missing == -1             \* the ctime of a file that stat() does not find

(***************************************************************************)
(* fix_debug_info.c                                                        *)
(***************************************************************************)
(* Every check of FindElfSection() before the names are compared; the two
   copies for ELFCLASS32 and ELFCLASS64 agree. *)
ReadableElf(h) ==
  /\ h.magic
  /\ h.data = "host"
  /\ h.class \in {"ELFCLASS32", "ELFCLASS64"}
  /\ ~h.truncated
  /\ h.shoff
  /\ h.shstrndx # SHN_UNDEF
(* Large counts and indices live in section 0. *)
NumSections(h) == IF h.shnum = 0 THEN h.sections[1].size ELSE h.shnum
StringSection(h) == IF h.shstrndx = SHN_XINDEX THEN h.sections[1].link ELSE h.shstrndx
(* The names are read through the string section, found or not. *)
NameOf(h, i) == IF StringSection(h) = h.strings_at THEN h.sections[i].name ELSE "garbage"
(* the index of the section, 0 when it is missing or empty *)
FindElfSection(h, name) ==
  LET match == {i \in 1 .. NumSections(h) : NameOf(h, i) = name} IN
  IF ~ReadableElf(h) \/ match = {} THEN 0
  ELSE IF h.sections[Min(match)].size > 0 THEN Min(match) ELSE 0

PaddedClientPath == ClientPath \o [i \in 1 .. Len(ServerPath) - Len(ClientPath) |-> "/"]
At(bytes, i, path) == SubSeq(bytes, i, i + Len(path) - 1) = path
(* replace_string(): the loop ends before the last place where a terminated
   string of this length could begin *)
ReplaceString(bytes, search, replace) ==
  IF Len(bytes) < Len(search) + 1 THEN bytes
  ELSE FoldLeft(LAMBDA b, i : IF At(b, i, search)
                                THEN SubSeq(b, 1, i - 1) \o replace \o SubSeq(b, i + Len(search), Len(b)) ELSE b,
                bytes, [i \in 1 .. Len(bytes) - Len(search) - 1 |-> i])

Bytes(strings) == FlattenSeq([i \in DOMAIN strings |-> Append(strings[i], NUL)])
(* update_section() for one of the two names *)
UpdateSection(h, contents, name) ==
  LET at == FindElfSection(h, name) IN
  IF at = 0 \/ h.sections[at].holds # "strings" THEN contents
  ELSE ReplaceString(contents, ServerPath, PaddedClientPath)
(* dcc_fix_debug_info(), update_debug_info(): the file is read, changed in
   memory and written back *)
FixDebugInfo(h, contents) ==
  UpdateSection(h, UpdateSection(h, contents, ".debug_info"), ".debug_str")

(***************************************************************************)
(* dcc_cleanup_dotd(): lines of lexemes                                    *)
(***************************************************************************)
LineLength(line) == FoldLeft(LAMBDA n, l : n + LengthOf[l], 0, line)
(* the last name of the line *)
Strgraft_LastOne(line, hay_size) ==
  LET at == {i \in DOMAIN line : line[i] = "server.o"} IN
  IF at = {} THEN line
  ELSE IF LineLength(line) - LengthOf["server.o"] + LengthOf["client.o"] + 1 > hay_size THEN <<"overflow">>
  ELSE [line EXCEPT ![Max(at)] = "client.o"]
(* dcc_strgraft(): the first name only, wherever it stands in the line *)
Strgraft(line, hay_size) ==
  LET at == {i \in DOMAIN line : line[i] = "server.o"} IN
  IF at = {} THEN line
  ELSE IF LineLength(line) - LengthOf["server.o"] + LengthOf["client.o"] + 1 > hay_size THEN <<"overflow">>
  ELSE [line EXCEPT ![Min(at)] = "client.o"]
(* What fgets() returns for the lexemes of the file: lines, the last one
   perhaps without its newline *)
Lines(lexemes) ==
  LET Step(ls, l) == IF l = "newline" THEN Append(SubSeq(ls, 1, Len(ls) - 1), Append(Last(ls), l)) \o <<<<>>>>
                     ELSE Append(SubSeq(ls, 1, Len(ls) - 1), Append(Last(ls), l))
  IN SelectSeq(FoldLeft(Step, <<<<>>>>, lexemes), LAMBDA l : l # <<>>)
(* A line that fills the buffer without a newline is refused, even where
   the file ends. *)
TooLong(line) == LineLength(line) > MAX_DOTD_LINE_LEN - 1 \/ (Last(line) # "newline" /\ LineLength(line) = MAX_DOTD_LINE_LEN - 1)
CleanupLine(line) == SelectSeq(Strgraft(line, 2 * MAX_DOTD_LINE_LEN), LAMBDA l : l # "root")
CleanupDotd(lexemes) ==
  LET ls == Lines(lexemes) IN
  IF \E i \in DOMAIN ls : TooLong(ls[i]) \/ Strgraft(ls[i], 2 * MAX_DOTD_LINE_LEN) = <<"overflow">>
    THEN [ret |-> 1]
    ELSE [ret |-> 0, file |-> FlattenSeq([i \in DOMAIN ls |-> CleanupLine(ls[i])])]

(***************************************************************************)
(* dcc_fresh_dependency_exists(): characters                               *)
(***************************************************************************)
Space == {" ", "newline"}
(* The automaton of the two loops: between names or in one, and whether the
   last character was a backslash in a name.  A backslash in a name joins
   what follows its newline to the name. *)
Scan(st, c) ==
  CASE st.in = "target" -> IF c = ":" THEN [st EXCEPT !.in = "gap"] ELSE st
    [] st.in = "gap" -> IF c \in Space \cup {"\\"} THEN st ELSE [st EXCEPT !.in = "name", !.name = <<c>>]
    [] st.in = "name" /\ c = "\\" -> [st EXCEPT !.in = "escape"]
    [] st.in = "escape" /\ c = "newline" -> [st EXCEPT !.in = "name"]
    [] st.in = "escape" /\ c = "\\" -> st
    [] OTHER -> IF c \in Space THEN [in |-> "gap", name |-> <<>>, names |-> Append(st.names, st.name)]
                ELSE [st EXCEPT !.in = "name", !.name = Append(@, c)]
NamesIn(chars) ==
  LET st == FoldLeft(Scan, [in |-> "target", name |-> <<>>, names |-> <<>>], chars) IN
  IF st.name = <<>> THEN st.names ELSE Append(st.names, st.name)

DependencyNamed(name) ==
  IF \E d \in Dependencies : d.name = name THEN CHOOSE d \in Dependencies : d.name = name
  ELSE [name |-> name, excluded |-> FALSE, ctime |-> Missing]
(* The search ends at the first dependency that is fresh or cannot be
   examined; <<>> is no result. *)
FreshDependency(chars) ==
  LET names == NamesIn(chars)
      Stops(i) == LET d == DependencyNamed(names[i]) IN ~d.excluded /\ (d.ctime = Missing \/ d.ctime >= BuildStart)
      stop == {i \in DOMAIN names : Stops(i)} IN
  IF stop = {} \/ DependencyNamed(names[Min(stop)]).ctime = Missing THEN <<>> ELSE names[Min(stop)]

(***************************************************************************)
(* The compiler writes                                                     *)
(***************************************************************************)
RewritesInit ==
  \/ file = [kind |-> "object", strings |-> <<>>] /\ header \in Headers
  \/ file \in {[kind |-> "dotd", lexemes |-> <<>>], [kind |-> "deps", list |-> <<>>]} /\ header = "none"
AddString ==
  /\ file.kind = "object" /\ Len(file.strings) < MaxStrings
  /\ \E s \in Strings : file' = [file EXCEPT !.strings = Append(@, s)]
  /\ UNCHANGED header
AddLexeme ==
  /\ file.kind = "dotd" /\ Len(file.lexemes) < MaxLexemes
  /\ \E l \in DotdLexemes : file' = [file EXCEPT !.lexemes = Append(@, l)]
  /\ UNCHANGED header
AddDependency ==
  /\ file.kind = "deps" /\ Len(file.list) < MaxDependencies
  /\ \E d \in Dependencies, s \in Separators : file' = [file EXCEPT !.list = Append(@, [dep |-> d, after |-> s])]
  /\ UNCHANGED header
RewritesNext == AddString \/ AddLexeme \/ AddDependency

(***************************************************************************)
(* Properties                                                              *)
(***************************************************************************)
StartsWithPath(s) == Len(s) >= Len(ServerPath) /\ At(s, 1, ServerPath)
Rewritten(s) == IF StartsWithPath(s) THEN PaddedClientPath \o SubSeq(s, Len(ServerPath) + 1, Len(s)) ELSE s
(* the section that h shows under one of the two names, if it holds the strings *)
HasDebugStrings(h) == \E name \in {".debug_info", ".debug_str"} :
  LET at == FindElfSection(h, name) IN at # 0 /\ h.sections[at].holds = "strings"

(* In an object the server can read, every string of a debugging section that
   begins with the server's directory gets the client's directory, padded to
   the same length, and no other byte changes; the bare directory as the very
   last string is the exception.  Any other object is left as it was.
   (dcc_fix_debug_info(), FindElfSection(), replace_string()) *)
DebugInfoNamesClient ==
  file.kind = "object" =>
    LET s == file.strings
        fixed == FixDebugInfo(header, Bytes(s))
        Shown(strings) == Bytes([i \in DOMAIN strings |-> Rewritten(strings[i])]) IN
    IF ~HasDebugStrings(header) THEN fixed = Bytes(s)
    ELSE IF s # <<>> /\ Last(s) = ServerPath THEN fixed = Shown(SubSeq(s, 1, Len(s) - 1)) \o Bytes(<<Last(s)>>)
    ELSE fixed = Shown(s)

(* A .d file that is sent back names the client's output where the server's
   stood first in its line, nothing of the server's root directory is left,
   all else is kept in its order, and no line outgrows the buffer it is edited
   in.  (dcc_cleanup_dotd(), dcc_strgraft()) *)
DotdNamesClient ==
  file.kind = "dotd" =>
    LET r == CleanupDotd(file.lexemes)
        Elsewhere(l) == l \notin {"root", "server.o", "client.o"}
        Targets(s) == SelectSeq(s, LAMBDA l : l \in {"server.o", "client.o", "newline"}) IN
    r.ret = 0 =>
      /\ SelectSeq(r.file, Elsewhere) = SelectSeq(file.lexemes, Elsewhere)
      /\ "root" \notin ToSet(r.file)
      /\ \A i \in DOMAIN Targets(r.file) :
           Targets(r.file)[i] = "server.o" => i > 1 /\ Targets(r.file)[i - 1] # "newline"
      /\ \A i \in DOMAIN Lines(file.lexemes) :
           LineLength(Strgraft(Lines(file.lexemes)[i], 2 * MAX_DOTD_LINE_LEN)) < 2 * MAX_DOTD_LINE_LEN

DotdText(list) == <<"o", ":", " ">> \o FlattenSeq([i \in DOMAIN list |-> list[i].dep.name \o list[i].after])
(* In a .d file as gcc lays it out, whatever the line breaks, a dependency that
   changed since the build began is reported, unless one before it cannot be
   examined; a file that the user excluded, or an older one, never is.
   (dcc_fresh_dependency_exists()) *)
FreshSourceIsFound ==
  file.kind = "deps" =>
    LET deps == [i \in DOMAIN file.list |-> file.list[i].dep]
        missing == {i \in DOMAIN deps : ~deps[i].excluded /\ deps[i].ctime = Missing}
        seen == {i \in DOMAIN deps : ~deps[i].excluded /\ \A j \in missing : i < j}
        fresh == {i \in seen : deps[i].ctime >= BuildStart} IN
    FreshDependency(DotdText(file.list)) = IF fresh = {} THEN <<>> ELSE deps[Min(fresh)].name

(* The files that come back name the directory and the object of the client,
   and what changed during the build is found in them.  (fix_debug_info.c,
   dcc_cleanup_dotd(), dcc_fresh_dependency_exists()) *)
ResultsNameClient == DebugInfoNamesClient /\ DotdNamesClient /\ FreshSourceIsFound
=============================================================================
