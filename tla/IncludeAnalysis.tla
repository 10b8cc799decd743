-------------------------- MODULE IncludeAnalysis --------------------------
(***************************************************************************)
(* The include analyzer (include_server/include_analyzer.py and            *)
(* include_analyzer_memoizing_node.py with the caches of cache_basics.py). *)
(* It answers a compile command with the files a preprocessor might read.  *)
(* What it finds is kept from one command to the next: which files exist,  *)
(* what they include, every #define seen, and a graph of nodes by include  *)
(* configuration.  A node depends on the symbols its computed includes     *)
(* mention; a new definition of one of them makes it invalid.              *)
(*                                                                         *)
(* A path is a pair of a directory and a name.  A tree says for every path *)
(* its real path and its text, a sequence of directives; disk is the set   *)
(* of paths that exist now.                                                *)
(***************************************************************************)
EXTENDS MacroEval, TLC

CONSTANTS
  Trees,         \* records: files, generated, triggers, commands
  SystemDirs,    \* the compiler's own directories, in order
  SourceNames,   \* names with a suffix the analyzer knows as source
  Quotas,        \* how many nodes may be visited before the timer is up
  MaxRequests,   \* bound: compile commands
  MaxTouches     \* bound: changes by the build

VARIABLES
  tree, disk,
  stamps,        \* trigger files that exist, and their stamps
  trigger_map,   \* stat_reset_triggers: the stamps last seen
  az,            \* the analyzer and its caches
  generation,
  answer,        \* what the last request was answered
  abandoned,     \* a node was left half built and the caches were kept
  requests, touches
analysisVars == <<tree, disk, stamps, trigger_map, az, generation,
                  answer, abandoned, requests, touches>>

NoNode == 0
NoDir == "no directory"
NoPath == <<NoDir, <<>>>>
NoAnswer == [kind |-> "none", closure |-> {}, command |-> <<>>]

(* _InitializeAllCaches() and _InitializeAllCachesMemoizing() *)
FreshCaches ==
  [symbol_table |-> {}, file_cache |-> <<>>, master_cache |-> <<>>, graph |-> <<>>,
   support |-> <<>>, build_stat |-> <<>>, error |-> "none", quota |-> 0]

Has(f, x) == x \in DOMAIN f
With(f, x, y) == (x :> y) @@ f

(***************************************************************************)
(* parse_command.py.  An argument is a pair: option, value; what a word    *)
(* means does not depend on whether its argument was joined to it.         *)
(***************************************************************************)
(* the arguments of the options in opts, in order *)
ArgsOf(args, opts) ==
  LET chosen == SelectSeq(args, LAMBDA a : a[1] \in opts) IN
  [i \in 1 .. Len(chosen) |-> chosen[i][2]]

(* An option without its argument, -I-, an option that is not implemented,
   anything but one source file and an unknown suffix are not covered. *)
ParseCommandArgs(args) ==
  LET sources == ArgsOf(args, {"file"})
      has(opt) == \E i \in 1 .. Len(args) : args[i][1] = opt
      angle == ArgsOf(args, {"-I", "-iwithprefixbefore"})
               \o ArgsOf(args, {"-isystem"})
               \o (IF has("-nostdinc") THEN <<>> ELSE SystemDirs)
               \o ArgsOf(args, {"-idirafter", "-iwithprefix"})
  IN [covered |-> /\ Len(sources) = 1
                  /\ sources[1] \in SourceNames \/ has("-x")
                  /\ ~has("missing argument")
                  /\ ~has("-I-") /\ ~has("-imultilib") /\ ~has("-Xpreprocessor"),
      source |-> IF sources = <<>> THEN <<>> ELSE sources[1],
      include_files |-> ArgsOf(args, {"-include", "-imacros"}),
      quote_dirs |-> ArgsOf(args, {"-iquote"}) \o angle,
      angle_dirs |-> angle,
      d_opts |-> ArgsOf(args, {"-D"})]

(***************************************************************************)
(* BuildStatCache.Resolve(): what is known of a path is believed, and what *)
(* is found out is kept.                                                   *)
(***************************************************************************)
Exists(a, p) == IF Has(a.build_stat, p) THEN a.build_stat[p] ELSE p \in disk
Resolve(a, name, dirs) ==
  LET hits == {i \in 1 .. Len(dirs) : Exists(a, <<dirs[i], name>>)}
      tried == IF hits = {} THEN 1 .. Len(dirs) ELSE 1 .. Min(hits)
      paths == {<<dirs[i], name>> : i \in tried}
  IN [a |-> [a EXCEPT !.build_stat = [p \in paths |-> Exists(a, p)] @@ @],
      found |-> IF hits = {} THEN NoPath ELSE <<dirs[Min(hits)], name>>]
RealOf(p) == tree.files[p].real
TextOf(p) == tree.files[p].text

(***************************************************************************)
(* The symbol table and the records that depend on it.                     *)
(***************************************************************************)
(* SupportMaster.InvalidateRecords() *)
InvalidateRecords(support, symbol) ==
  [r \in DOMAIN support |->
     IF symbol \in support[r].symbols THEN [support[r] EXCEPT !.valid = FALSE] ELSE support[r]]

\* A mutant of InsertMacroDef: only a symbol's first definition invalidates.
InsertMacroDef_FirstOnly(a, def) ==
  [a EXCEPT !.symbol_table = @ \cup {def},
            !.support = IF def[1] \in {d[1] : d \in a.symbol_table} THEN @
                        ELSE InvalidateRecords(@, def[1])]

(* InsertMacroDefInTable() with the callback *)
InsertMacroDef(a, def) ==
  [a EXCEPT !.symbol_table = @ \cup {def}, !.support = InvalidateRecords(@, def[1])]

(* SupportRecord.Update() *)
Support(a, node, symbols) ==
  [a EXCEPT !.support[a.graph[node].support].symbols = @ \cup symbols]
SymbolsOf(a, node) == a.support[a.graph[node].support].symbols
Valid(a, node) == a.support[a.graph[node].support].valid

(* ParseFile.Parse(): the directives in order; an absolute include is not
   covered and ends it. *)
Parse(a, real) ==
  LET text == TextOf(real)
      bad == {i \in 1 .. Len(text) : text[i].directive = "absolute"}
      read == IF bad = {} THEN text ELSE Upto(text, Min(bad) - 1)
      Names(kind) == LET chosen == SelectSeq(text, LAMBDA d : d.directive = kind) IN
                     [i \in 1 .. Len(chosen) |-> chosen[i].arg]
      defined == FoldLeft(LAMBDA b, d : IF d.directive = "define" THEN InsertMacroDef(b, d.arg) ELSE b,
                          a, read)
  IN IF bad # {} THEN [defined EXCEPT !.error = "not_covered"]
     ELSE [defined EXCEPT !.file_cache = With(@, real,
             [quote |-> Names("quote"), angle |-> Names("angle"),
              expr |-> Names("expr"), next |-> Names("next")])]

(***************************************************************************)
(* FindNode().  c is the include configuration; the result is the changed  *)
(* analyzer and the node.  Once an exception is raised nothing more        *)
(* happens, and what was built so far stays.                               *)
(***************************************************************************)
RECURSIVE FindNode(_, _, _, _, _)

Config(c) == <<c.quote_dirs, c.angle_dirs>>
NodesFor(a, c) == IF Has(a.master_cache, Config(c)) THEN a.master_cache[Config(c)] ELSE <<>>
Remember(a, c, key, node) ==
  [a EXCEPT !.master_cache = With(@, Config(c), With(NodesFor(a, c), key, node))]
(* A file that is linked into two directories has two sets of neighbours. *)
RealKey(p) == <<"REAL", RealOf(p), p[1]>>

(* a call that raises returns no node *)
Raised(a, node) == [a |-> a, node |-> IF a.error = "none" THEN node ELSE NoNode]

(* a child that was found is appended, and its symbols count as the node's *)
AddChild(node, found) ==
  IF found.node = NoNode THEN found.a
  ELSE Support([found.a EXCEPT !.graph[node].children = Append(@, found.node)],
               node, SymbolsOf(found.a, found.node))

QuoteIncludes(a, c, node, names, dir) ==
  FoldLeft(LAMBDA b, n : AddChild(node, FindNode(b, c, n, "QUOTE", dir)), a, names)
AngleIncludes(a, c, node, names) ==
  FoldLeft(LAMBDA b, n : AddChild(node, FindNode(b, c, n, "ANGLE", NoDir)), a, names)
NextIncludes(a, c, node, names) ==
  FoldLeft(LAMBDA b, n : AddChild(node, FindNode(b, c, n, "NEXT", NoDir)), a, names)

(* every file a computed include may name, in some order, then the symbols *)
ExprIncludesOf(a, c, node, exprs, dir) ==
  LET Child(r) == AddChild(node, FindNode(r.a, c, r.found, "RESOLVED", NoDir))
      Quoted(b, n) == IF b.error # "none" THEN b ELSE Child(Resolve(b, n, <<dir>> \o c.quote_dirs))
      Angled(b, n) == IF b.error # "none" THEN b ELSE Child(Resolve(b, n, c.angle_dirs))
      Supported(b, symbols) == IF b.error # "none" THEN b ELSE Support(b, node, symbols)
      Include(b, named) ==
        Supported(FoldLeft(Angled, FoldLeft(Quoted, b, SetToSeq(named.quote)), SetToSeq(named.angle)),
                  named.symbols)
      Computed(b, e) == Include(b, ExprIncludes(e, SymbolTable(b.symbol_table)))
  IN FoldLeft(Computed, a, exprs)

(* The children of the dummy node of an include_next: the file in every
   directory of the quote list.  Their symbols do not become the dummy's. *)
NextChildren(a, c, node, name) ==
  LET Added(found) ==
        IF found.node = NoNode THEN found.a
        ELSE [found.a EXCEPT !.graph[node].children = Append(@, found.node)]
      Child(r) == Added(FindNode(r.a, c, r.found, "RESOLVED", NoDir))
  IN FoldLeft(LAMBDA b, d : IF b.error # "none" THEN b ELSE Child(Resolve(b, name, <<d>>)),
              a, c.quote_dirs)

(* the rest of FindNode() once neither cache has the node *)
Marked(a, node) == [a EXCEPT !.support[a.graph[node].support].valid = TRUE]
ReadFile(a, real) == IF Has(a.file_cache, real) THEN a ELSE Parse(a, real)
Includes(a, c, node, inc, dir) ==
  NextIncludes(
    ExprIncludesOf(
      AngleIncludes(
        QuoteIncludes(a, c, node, inc.quote, dir), c, node, inc.angle), c, node, inc.expr, dir),
    c, node, inc.next)
BuildFrom(a, c, node, p) ==
  IF a.error # "none" THEN [a |-> a, node |-> NoNode]
  ELSE Raised(Includes(a, c, node, a.file_cache[RealOf(p)], p[1]), node)
Build(a, c, node, p) == BuildFrom(ReadFile(Marked(a, node), RealOf(p)), c, node, p)

(* Neither name is known: is it a file that was really visited before? *)
PostResolution(a, c, key, node, mode) ==
  LET nodes == NodesFor(a, c)
      p == a.graph[node].path
  IN IF mode # "RESOLVED" /\ Has(nodes, RealKey(p)) /\ Valid(a, node)
     THEN [a |-> Remember(a, c, key, nodes[RealKey(p)]), node |-> nodes[RealKey(p)]]
     ELSE Build(IF mode = "RESOLVED" THEN a ELSE Remember(a, c, RealKey(p), node), c, node, p)

(* the path of a node: a node whose support is no longer valid keeps its path *)
Located(a, c, fp, mode, dir) ==
  LET nodes == NodesFor(a, c)  key == <<mode, fp, dir>> IN
  CASE Has(nodes, key) /\ mode # "NEXT" -> [a |-> a, found |-> a.graph[nodes[key]].path]
    [] mode = "QUOTE" -> Resolve(a, fp, <<dir>> \o c.quote_dirs)
    [] mode = "ANGLE" -> Resolve(a, fp, c.angle_dirs)
    [] mode = "RESOLVED" -> [a |-> a, found |-> fp]
    [] OTHER -> [a |-> a, found |-> NoPath]
(* ... a new node, with the support record of the one it replaces *)
AddNode(a, c, key, path) ==
  LET nodes == NodesFor(a, c)
      old == Has(nodes, key)
      record == IF old THEN a.graph[nodes[key]].support ELSE Len(a.support) + 1
  IN Remember([a EXCEPT
       !.support = IF old THEN @ ELSE Append(@, [valid |-> TRUE, symbols |-> {}]),
       !.graph = Append(@, [path |-> path, children |-> <<>>, support |-> record])],
       c, key, Len(a.graph) + 1)
(* ... which is filled; it is the last of the graph *)
Explore(a, c, fp, mode, dir) ==
  LET node == Len(a.graph) IN
  IF a.graph[node].path # NoPath THEN PostResolution(a, c, <<mode, fp, dir>>, node, mode)
  ELSE IF mode = "NEXT" THEN Raised(NextChildren(a, c, node, fp), node)
  ELSE [a |-> a, node |-> node]

(* fp is a name, or a path when the mode is RESOLVED *)
FindNode(a0, c, fp, mode, dir) ==
  LET key == <<mode, fp, dir>>
      nodes == NodesFor(a0, c)
      a == [a0 EXCEPT !.quota = @ - 1]
      Made(r) == AddNode(r.a, c, key, r.found)
  IN IF a0.error # "none" \/ fp = NoPath THEN [a |-> a0, node |-> NoNode]
     ELSE IF a0.quota = 0 THEN [a |-> [a0 EXCEPT !.error = "timeout"], node |-> NoNode]
     ELSE IF Has(nodes, key) /\ Valid(a0, nodes[key]) THEN [a |-> a, node |-> nodes[key]]
     ELSE Explore(Made(Located(a, c, fp, mode, dir)), c, fp, mode, dir)

(* _CalculateIncludeClosureExceptSystem() *)
RECURSIVE Reach(_, _)
Reach(a, nodes) ==
  LET more == nodes \cup UNION {ToSet(a.graph[n].children) : n \in nodes} IN
  IF more = nodes THEN nodes ELSE Reach(a, more)
IsSystem(p) == p[1] \in ToSet(SystemDirs)
Closure(a, node) ==
  {p \in {RealOf(q) : q \in {a.graph[n].path : n \in Reach(a, {node})} \ {NoPath}} : ~IsSystem(p)}

(***************************************************************************)
(* A request.                                                              *)
(***************************************************************************)
CurDir == "cwd"
(* RunAlgorithm(): only a -D with a value reaches the symbol table. *)
RunAlgorithm(a, c, p) ==
  LET defined == FoldLeft(LAMBDA b, d : IF Len(d) = 2 THEN InsertMacroDef(b, d) ELSE b, a, c.d_opts)
      ClosureOf(found) ==
        [a |-> found.a,
         closure |-> IF found.node = NoNode THEN {} ELSE Closure(found.a, found.node)]
  IN ClosureOf(FindNode(defined, c, p, "RESOLVED", NoDir))

(* _ProcessFileFromCommandLine() *)
ProcessFile(done, c, name, dirs) ==
  LET Joined(run) == [a |-> run.a, closure |-> done.closure \cup run.closure]
      Run(r) == IF r.found = NoPath
                THEN [a |-> [r.a EXCEPT !.error = "not_covered"], closure |-> {}]
                ELSE Joined(RunAlgorithm(r.a, c, r.found))
  IN IF done.a.error # "none" THEN done ELSE Run(Resolve(done.a, name, <<CurDir>> \o dirs))

(* ProcessCompilationCommand(): the -include files, then the source *)
ProcessCompilationCommand(a, c) ==
  LET files == [i \in DOMAIN c.include_files |-> <<c.include_files[i], c.quote_dirs>>]
               \o <<<<c.source, <<>>>>>>
  IN FoldLeft(LAMBDA done, f : ProcessFile(done, c, f[1], f[2]), [a |-> a, closure |-> {}], files)

(* DoStatResetTriggers(): the pairs of a new trigger_map and whether the
   caches are cleared.  The first path that changed or is new is noted; one
   that is gone stays in the map. *)
DoStatResetTriggers ==
  LET changed == {p \in DOMAIN stamps : ~Has(trigger_map, p) \/ trigger_map[p] # stamps[p]}
      gone == DOMAIN trigger_map \ DOMAIN stamps
  IN IF changed # {} THEN {<<With(trigger_map, p, stamps[p]), TRUE>> : p \in changed}
     ELSE {<<trigger_map, gone # {}>>}

ClearStatCaches(a) == FreshCaches

(* DoCompilationCommand() under the handler: a timeout clears the caches,
   anything else that is not covered keeps them. *)
DoCompilationCommand(a, c, quota) ==
  IF c.covered THEN ProcessCompilationCommand([a EXCEPT !.error = "none", !.quota = quota], c)
  ELSE [a |-> [a EXCEPT !.error = "not_covered"], closure |-> {}]
Handle(args, cleared, covered, out) ==
  LET late == out.a.error = "timeout" IN
  /\ az' = IF late THEN ClearStatCaches(out.a) ELSE [out.a EXCEPT !.quota = 0]
  /\ generation' = generation + (IF cleared THEN 1 ELSE 0) + (IF late THEN 1 ELSE 0)
  /\ abandoned' = (~late /\ ((abandoned /\ ~cleared) \/ (covered /\ out.a.error # "none")))
  /\ answer' = IF out.a.error = "none"
               THEN [kind |-> "files", closure |-> out.closure, command |-> args]
               ELSE [kind |-> "empty", closure |-> {}, command |-> args]
Request ==
  /\ requests < MaxRequests
  /\ requests' = requests + 1
  /\ \E args \in tree.commands, quota \in Quotas, reset \in DoStatResetTriggers :
       LET c == ParseCommandArgs(args) IN
       /\ trigger_map' = reset[1]
       /\ Handle(args, reset[2], c.covered,
                 DoCompilationCommand(IF reset[2] THEN ClearStatCaches(az) ELSE az, c, quota))
  /\ UNCHANGED <<tree, disk, stamps, touches>>

(* The build makes or removes a generated file, and touches, makes or
   removes the trigger that goes with it. *)
Generate ==
  /\ touches < MaxTouches
  /\ touches' = touches + 1
  /\ \E p \in tree.generated : disk' = IF p \in disk THEN disk \ {p} ELSE disk \cup {p}
  /\ \E t \in tree.triggers :
       stamps' \in {With(stamps, t, touches + 1)}
                  \cup {[u \in DOMAIN stamps \ {t} |-> stamps[u]] : v \in {t} \cap DOMAIN stamps}
  /\ answer' = NoAnswer
  /\ UNCHANGED <<tree, trigger_map, az, generation, abandoned, requests>>

AnalysisInit ==
  /\ tree \in Trees
  /\ disk = DOMAIN tree.files
  /\ stamps \in {<<>>} \cup {t :> 0 : t \in tree.triggers}
  /\ trigger_map = stamps
  /\ az = FreshCaches
  /\ generation = 1
  /\ answer = NoAnswer
  /\ abandoned = FALSE
  /\ requests = 0
  /\ touches = 0

AnalysisNext == Request \/ Generate

-----------------------------------------------------------------------------
(* What the C preprocessor reads: directives in order, the definitions in
   effect when a computed include is reached, the directories in its order.
   A file it is already reading is guarded against. *)
First(dirs, name) ==
  LET hits == {i \in 1 .. Len(dirs) : <<dirs[i], name>> \in disk} IN
  IF hits = {} THEN NoPath ELSE <<dirs[Min(hits)], name>>
After(dirs, dir) ==
  LET at == {i \in 1 .. Len(dirs) : dirs[i] = dir} IN
  IF at = {} THEN dirs ELSE From(dirs, Min(at) + 1)

RECURSIVE Read(_, _, _)
Directive(w, c, p, d) ==
  LET Computed(value) ==
        CASE IncludeString(value) = "quote" -> Read(w, c, First(<<p[1]>> \o c.quote, Inside(value)))
          [] IncludeString(value) = "angle" -> Read(w, c, First(c.angle, Inside(value)))
          [] OTHER -> w
  IN
  CASE d.directive = "define" -> [w EXCEPT !.def = With(@, d.arg[1], d.arg[2])]
    [] d.directive = "quote" -> Read(w, c, First(<<p[1]>> \o c.quote, d.arg))
    [] d.directive = "angle" -> Read(w, c, First(c.angle, d.arg))
    [] d.directive = "next" -> Read(w, c, First(After(c.quote, p[1]), d.arg))
    [] d.directive = "expr" -> Computed(Spelled(Cpp(Plain(d.arg), w.def)))
    [] OTHER -> w
Read(w, c, p) ==
  IF p = NoPath \/ p \in w.read THEN w
  ELSE FoldLeft(LAMBDA v, d : Directive(v, c, p, d), [w EXCEPT !.read = @ \cup {p}], TextOf(p))

CppReads(args) ==
  LET angle == ArgsOf(args, {"-I"}) \o ArgsOf(args, {"-isystem"}) \o SystemDirs
               \o ArgsOf(args, {"-idirafter"})
      c == [quote |-> ArgsOf(args, {"-iquote"}) \o angle, angle |-> angle]
      given == FoldLeft(LAMBDA def, d : With(def, d[1], IF Len(d) = 2 THEN d[2]
                                                        ELSE [params |-> None, rhs |-> <<"1">>]),
                        <<>>, ArgsOf(args, {"-D"}))
      forced == ArgsOf(args, {"-include"})
      files == [i \in DOMAIN forced |-> First(<<CurDir>> \o c.quote, forced[i])]
               \o <<<<CurDir, ArgsOf(args, {"file"})[1]>>>>
  IN FoldLeft(LAMBDA w, p : Read(w, c, p), [def |-> given, read |-> {}], files).read

Covers ==
  answer.kind = "files" =>
    \A p \in CppReads(answer.command) : IsSystem(RealOf(p)) \/ RealOf(p) \in answer.closure

(* include_analyzer_memoizing_node.py: whatever was analysed before, under
   whatever definitions and directories, and however often the build changed
   a generated file and its trigger, an answer names every file the
   preprocessor is going to read - unless an earlier request gave up in the
   middle of a file. *)
ClosureCoversCpp == abandoned \/ Covers

(* include_server.py:452: "No exception raised, include closure can be
   trusted." *)
ClosureCanBeTrusted == Covers
=============================================================================
