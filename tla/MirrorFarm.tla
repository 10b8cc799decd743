----------------------------- MODULE MirrorFarm -----------------------------
(***************************************************************************)
(* The client root of the include server: the tree of compressed files,    *)
(* directories and links that a pump-mode client sends to the compile      *)
(* server (include_server/mirror_path.py, compress_files.py and the        *)
(* symlink farm of compiler_defaults.py).  A compiler's own directories    *)
(* exist on the server; each of them, or a directory above it, is a link   *)
(* that leads out of the tree.                                             *)
(*                                                                         *)
(* A path is a sequence of names, below "/" or below the root alike.       *)
(***************************************************************************)
EXTENDS Integers, Sequences, SequencesExt, FiniteSets, FiniteSetsExt, TLC

CONSTANTS
  Compilers,      \* functions from a compiler to its directories, in order
  Sources,        \* the paths that are included
  DirLinks,       \* links of the client's file system: path to real path
  NamePrefix,     \* pairs of names of which one begins with the other
  ClientTmps,     \* what DISTCC_CLIENT_TMP may be: paths of one or two names
  MaxIncluded,    \* bound: files of a request
  MaxServed       \* bound: requests

VARIABLES farm, compilers_seen, answered, served
farmVars == <<farm, compilers_seen, answered, served>>

Under(p, q) == Len(q) <= Len(p) /\ SubSeq(p, 1, Len(q)) = q
Parent(p) == SubSeq(p, 1, Len(p) - 1)
DirsOf(p) == {SubSeq(p, 1, n) : n \in 1 .. Len(p)}
(* startswith() of the two paths as strings *)
StartsWith(p, q) ==
  \/ Under(p, q)
  \/ /\ q # <<>> /\ Len(q) <= Len(p)
     /\ Under(p, Parent(q))
     /\ <<q[Len(q)], p[Len(q)]>> \in NamePrefix

(* CanonicalPath.Canonicalize() *)
Canonicalize(p) ==
  LET at == {q \in DOMAIN DirLinks : Under(p, q)} IN
  IF at = {} THEN p
  ELSE LET q == CHOOSE x \in at : TRUE IN DirLinks[q] \o SubSeq(p, Len(q) + 1, Len(p))

EmptyFarm ==
  [dirs |-> {}, links |-> {}, files |-> {},     \* what is in the root
   system_links |-> {}, system_dirs |-> {}, mirrored |-> {},  \* what is remembered
   is_system |-> <<>>,       \* systemdir_prefix_cache
   link_stat |-> {}, simple_build_stat |-> <<>>, must_exist_dirs |-> {},
   files_compressed |-> {},
   swallowed |-> FALSE]      \* a link took the place of files sent before

(* what stat() says of a path below the root; a link leads to what is really there *)
ExistsInRoot(f, p) == p = <<>> \/ p \in f.dirs \/ \E q \in f.links : Under(p, q)

(* SystemdirPrefixCache: decided once, when the path is first asked about *)
FillCache(f, paths) ==
  [f EXCEPT !.is_system = @ @@ [p \in paths |-> \E d \in f.system_dirs : StartsWith(p, d)]]

(***************************************************************************)
(* compiler_defaults.py                                                    *)
(***************************************************************************)
(* _RealPrefixWithinClientRoot(): the longest prefix of real directories *)
RealPrefix(f, p) ==
  LET real == {n \in 0 .. Len(p) : \A m \in 1 .. n : SubSeq(p, 1, m) \in f.dirs} IN
  SubSeq(p, 1, Max(real))
StoppedByLink(f, p) == SubSeq(p, 1, Len(RealPrefix(f, p)) + 1) \in f.links

LinkTo(f, d) ==
  [f EXCEPT !.links = @ \cup {d}, !.system_links = @ \cup {d},
            !.dirs = @ \cup (DirsOf(d) \ {d})]
(* a directory that is already there makes way for the link *)
Replaced(f, d) ==
  LET gone(set) == {p \in set : ~Under(p, d)}
      files == {g \in f.files : ~Under(g[1], d)}
  IN [f EXCEPT !.dirs = gone(@), !.links = gone(@), !.files = files,
               !.system_links = {p \in @ : ~StartsWith(p, d)},
               !.swallowed = @ \/ files # f.files \/ gone(f.must_exist_dirs) # f.must_exist_dirs]

(* _MakeLinkFromMirrorToRealLocation() *)
MakeLink(f, d) ==
  IF RealPrefix(f, d) = d THEN LinkTo(Replaced(f, d), d)
  ELSE IF StoppedByLink(f, d) THEN f
  ELSE LinkTo(f, d)

(* CompilerDefaults.SetSystemDirsDefaults() *)
SetSystemDirsDefaults(f, compiler) ==
  IF compiler \in compilers_seen THEN f
  ELSE FoldLeft(MakeLink, [f EXCEPT !.system_dirs = @ \cup ToSet(Compilers[compiler])],
                Compilers[compiler])

(***************************************************************************)
(* mirror_path.py                                                          *)
(***************************************************************************)
MakeDirs(f, p) == [f EXCEPT !.dirs = @ \cup DirsOf(p), !.must_exist_dirs = @ \cup {p}]
(* SimpleBuildStat.Lookup(): what is cached is believed *)
KnownToExist(f, p) ==
  IF p \in DOMAIN f.simple_build_stat THEN f.simple_build_stat[p] ELSE ExistsInRoot(f, p)
Note(f, p) == [f EXCEPT !.simple_build_stat = (p :> TRUE) @@ @]
(* MirrorPath.DoPath(): from the end of the path, the real parent of each
   prefix, and the prefix itself when it is a link. *)
RECURSIVE DoPath(_, _)
DoPath(f, p) ==
  LET Seen(g) == [g EXCEPT !.link_stat = @ \cup {p}]
      Mirrored(g, name) ==
        IF p \in DOMAIN DirLinks /\ ~ExistsInRoot(g, name)
        THEN [g EXCEPT !.links = @ \cup {name}, !.mirrored = @ \cup {name}]
        ELSE g
      Above(g, parent) == DoPath(Seen(Mirrored(Note(g, parent), Append(parent, p[Len(p)]))), Parent(p))
      New(asked, parent) ==
        IF asked.is_system[parent] THEN Seen(asked) ELSE Above(MakeDirs(asked, parent), parent)
      From(parent) ==
        IF KnownToExist(f, parent) \/ ExistsInRoot(f, parent) THEN Above(f, parent)
        ELSE New(FillCache(f, {parent}), parent)
  IN IF p = <<>> \/ p \in f.link_stat THEN f ELSE From(Canonicalize(Parent(p)))

(***************************************************************************)
(* compress_files.py                                                       *)
(***************************************************************************)
\* A mutant of Compress: the files compressed are remembered by their real path.
Compress_ByRealPath(f, real, abs) ==
  LET ready == IF ExistsInRoot(f, Parent(real)) THEN f ELSE DoPath(f, real)
  IN IF \E other \in BOOLEAN : <<real, other>> \in f.files_compressed THEN f
     ELSE [ready EXCEPT !.files_compressed = @ \cup {<<real, abs>>},
                        !.files = @ \cup {<<real, abs>>}]
(* An image is a pair of the real path and whether its name ends in .abs;
   one written through a link is not in the root. *)
Compress(f, real, abs) ==
  LET image == <<real, abs>>
      inside(ready) == Parent(real) = <<>> \/ Parent(real) \in ready.dirs
      Put(ready) == [ready EXCEPT !.files_compressed = @ \cup {image},
                                  !.files = IF inside(ready) THEN @ \cup {image} ELSE @]
  IN IF image \in f.files_compressed THEN f
     ELSE Put(IF ExistsInRoot(f, Parent(real)) THEN f ELSE DoPath(f, real))

(* DoCompilationCommand(), with the files the analysis comes up with: the
   paths are mirrored as they are met, the files outside the compiler's
   directories are compressed, and all links and forced directories of the
   root are sent along. *)
Answer(f, links, images) ==
  /\ farm' = f
  /\ answered' = [files |-> images, links |-> links, forced |-> f.must_exist_dirs]
CompressAll(asked, reals, abs) ==
  LET closure == {p \in reals : ~asked.is_system[p]} IN
  Answer(FoldLeft(LAMBDA f, p : Compress(f, p, abs), asked, SetToSeq(closure)),
         asked.system_links \cup asked.mirrored, {<<p, abs>> : p \in closure})
ServeRequest ==
  /\ served < MaxServed
  /\ served' = served + 1
  /\ \E compiler \in DOMAIN Compilers, included \in UNION {kSubset(n, Sources) : n \in 1 .. MaxIncluded},
        abs \in BOOLEAN :
       LET walked == FoldLeft(DoPath, SetSystemDirsDefaults(farm, compiler), SetToSeq(included))
           reals == {Canonicalize(p) : p \in included}
       IN /\ CompressAll(FillCache(walked, reals), reals, abs)
          /\ compilers_seen' = compilers_seen \cup {compiler}

(* ClearStatCaches(): a new root, and nothing is remembered *)
ClearFarm ==
  /\ served > 0
  /\ farm' = EmptyFarm
  /\ compilers_seen' = {}
  /\ answered' = [files |-> {}, links |-> {}, forced |-> {}]
  /\ UNCHANGED served

FarmInit ==
  /\ farm = EmptyFarm
  /\ compilers_seen = {}
  /\ answered = [files |-> {}, links |-> {}, forced |-> {}]
  /\ served = 0

FarmNext == ServeRequest \/ ClearFarm

(***************************************************************************)
(* What the client makes of an answer (include_server_if.c).  A name on the*)
(* wire is a path with the suffixes of its last name; files and directories*)
(* have no such suffixes of their own.                                     *)
(***************************************************************************)
INCLUDE_SERVER_DIR_DEPTH == 3
MAX_COMPONENTS_IN_SERVER_ROOT == 20
Forcing == "forcing_technique_271828"
(* ClientRootKeeper.ClientRootMakedir(): padded to three levels *)
ClientRoot(tmp) == Append(tmp, "tmp.include_server") \o [i \in 1 .. 2 - Len(tmp) |-> "padding"]
Sent(tmp, path, suffixes) == [path |-> ClientRoot(tmp) \o path, suffixes |-> suffixes]
(* dcc_get_original_fname() *)
Stripped(suffixes, s) == IF suffixes # <<>> /\ Last(suffixes) = s THEN Front(suffixes) ELSE suffixes
OriginalName(name) ==
  [path |-> SubSeq(name.path, INCLUDE_SERVER_DIR_DEPTH + 1, Len(name.path)),
   suffixes |-> Stripped(Stripped(name.suffixes, ".abs"), ".lzo")]
(* the link of a compiler's directory goes up far enough and down again; one
   that is mirrored is absolute *)
NoTarget == [up |-> 0, path |-> <<>>]
Target(f, link) ==
  IF link \in f.system_links
  THEN [up |-> MAX_COMPONENTS_IN_SERVER_ROOT + Len(link), path |-> link]
  ELSE [up |-> 0, path |-> Canonicalize(link)]
(* dcc_categorize_file(), dcc_count_slashes(), dcc_count_leading_dotdots() *)
Category(name, target) ==
  LET path == OriginalName(name).path
      forced == path # <<>> /\ Last(path) = Forcing
      filename == IF forced THEN Front(path) ELSE path
  IN CASE target.up > Len(filename) /\ target.path = filename -> "SYSTEMDIR"
       [] forced -> "DIRECTORY"
       [] target # NoTarget -> "SYMLINK"
       [] OTHER -> "FILE"

-----------------------------------------------------------------------------
(* compiler_defaults.py: whichever compilers are used in whichever order,
   each directory of each of them is reached through a link of the root, and
   the links that are sent are there and lie inside no other link. *)
SystemDirsLinked ==
  /\ \A d \in farm.system_dirs : \E l \in farm.system_links : Under(d, l)
  /\ farm.system_links \subseteq farm.links
  /\ \A k, l \in farm.links : Under(k, l) => k = l

ImagesThere ==
  /\ answered.files \subseteq farm.files
  /\ answered.links \subseteq farm.links
  /\ answered.forced \subseteq farm.dirs

(* compress_files.py, mirror_path.py: every file, link and directory of an
   answer is in the root, however much of it was made for earlier requests -
   unless a directory that was mirrored before turned out to be one of a
   compiler's own. *)
AnswerIsThere == farm.swallowed \/ ImagesThere

(* include_server_if.c: wherever the root is, the client sends each file of an
   answer under the name it has there, and takes links and forced directories for
   what the include server meant by them. *)
NamesAreUnderstood ==
  \A tmp \in ClientTmps :
    /\ \A <<real, abs>> \in answered.files :
         LET name == Sent(tmp, real, IF abs THEN <<".lzo", ".abs">> ELSE <<".lzo">>) IN
         OriginalName(name) = [path |-> real, suffixes |-> <<>>] /\ Category(name, NoTarget) = "FILE"
    /\ \A l \in answered.links :
         Category(Sent(tmp, l, <<>>), Target(farm, l))
           = IF l \in farm.system_links THEN "SYSTEMDIR" ELSE "SYMLINK"
    /\ \A d \in answered.forced :
         Category(Sent(tmp, Append(d, Forcing), <<>>), NoTarget) = "DIRECTORY"

(* What an answer names exists in the client root, below the directories of all
   compilers in use, and the client understands it.  (compiler_defaults.py,
   mirror_path.py, compress_files.py, include_server_if.c) *)
RootIsComplete == SystemDirsLinked /\ AnswerIsThere /\ NamesAreUnderstood
=============================================================================
