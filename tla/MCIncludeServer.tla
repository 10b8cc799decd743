-------------------------- MODULE MCIncludeServer --------------------------
(***************************************************************************)
(* The parts of the include server for model checking: macro evaluation,   *)
(* the analysis of a sequence of requests, the client root, and the life   *)
(* of servers, pump scripts and clients.  They share no state; a behaviour *)
(* is one of one part.                                                     *)
(***************************************************************************)
EXTENDS IncludeAnalysis, MirrorFarm, IncludeServer

VARIABLE part
mcVars == <<part, macroVars, analysisVars, farmVars, includeVars>>

MCWords == {"A", "B", "F", "x", "p", "q", "X", "a", "b"}

(* macro evaluation: object-like and function-like macros, also of one another *)
Obj(s, r) == <<<<s>>, [params |-> None, rhs |-> r]>>
Fun(s, r) == <<<<s>>, [params |-> <<<<"x">>>>, rhs |-> r]>>
MCDefinitions ==
  {Obj("A", <<"B">>), Obj("A", <<"F">>), Obj("A", <<"A", ".", "p">>),
   Obj("B", <<"A">>), Obj("B", <<"q">>),
   Fun("F", <<"<", "x", ">">>), Fun("F", <<"#", "x">>),
   Fun("F", <<"F", "(", "B", ")">>), Fun("F", <<"x", ".", "A">>)}
MCPieces == {<<"A">>, <<"B">>, <<"F">>, <<"(">>, <<")">>, <<"F", "(", "A", ")">>, <<".">>}

(* the analysis: small source trees, each with the commands that compile in it *)
W(n) == <<n>>
D(k, n) == [directive |-> k, arg |-> W(n)]
Def(n, v) == <<W(n), [params |-> None, rhs |-> v]>>
DefLine(n, v) == [directive |-> "define", arg |-> Def(n, v)]
Expr(n) == [directive |-> "expr", arg |-> W(n)]
O(o, a) == <<o, a>>
F(n) == O("file", W(n))
File(d, n, text) == <<d, W(n)>> :> [real |-> <<d, W(n)>>, text |-> text]
Link(d, n, e, m) == <<d, W(n)>> :> [real |-> <<e, W(m)>>, text |-> <<>>]
Tree(fs, g, t, cs) == [files |-> fs, generated |-> g, triggers |-> t, commands |-> cs]
(* a computed include below a header that several sources share *)
Computed == Tree(
  File("cwd", "f", <<DefLine("X", <<"<", "a", ">">>), D("quote", "p")>>)
  @@ File("cwd", "g", <<DefLine("X", <<Quote, "b", Quote>>), D("quote", "p")>>)
  @@ File("cwd", "h", <<D("quote", "p")>>)
  @@ File("inc", "p", <<D("quote", "o")>>)
  @@ File("inc", "o", <<Expr("X")>>)
  @@ File("inc", "a", <<>>) @@ File("inc", "b", <<>>) @@ File("cwd", "b", <<>>),
  {}, {},
  {<<O("-I", "inc"), F("f")>>, <<O("-I", "inc"), F("g")>>,
   <<O("-I", "inc"), O("-D", Def("X", <<"<", "b", ">">>)), F("h")>>,
   <<O("-I", "inc"), O("-D", <<W("X")>>), F("h")>>,
   <<O("-include", W("f")), O("-I", "inc"), F("h")>>})
(* one header under two names *)
Linked == Tree(
  File("cwd", "f", <<D("angle", "x"), D("angle", "z")>>)
  @@ Link("d1", "x", "d2", "z") @@ File("d2", "z", <<D("quote", "y")>>)
  @@ File("d1", "y", <<>>) @@ File("d2", "y", <<>>),
  {}, {},
  {<<O("-I", "d1"), O("-I", "d2"), F("f")>>, <<O("-I", "d2"), O("-isystem", "d1"), F("f")>>,
   <<O("-I", "d1"), F("f")>>, <<F("f"), O("-I", "d2")>>})
(* headers that appear while the server runs *)
Generated == Tree(
  File("cwd", "f", <<D("quote", "p")>>) @@ File("cwd", "p", <<D("quote", "o"), D("angle", "o")>>)
  @@ File("cwd", "o", <<>>) @@ File("inc", "o", <<D("quote", "q")>>) @@ File("sys", "q", <<>>)
  @@ File("inc", "q", <<>>),
  {<<"cwd", W("o")>>, <<"inc", W("q")>>}, {"t", "u"},
  {<<O("-I", "inc"), F("f")>>, <<O("-idirafter", "inc"), F("f")>>})
(* include_next, and headers that include each other *)
Cyclic == Tree(
  File("cwd", "f", <<D("angle", "w"), D("angle", "q")>>)
  @@ File("d1", "w", <<D("next", "w"), D("quote", "y")>>) @@ File("d2", "w", <<D("quote", "v")>>)
  @@ File("d2", "v", <<D("quote", "w"), D("quote", "y")>>) @@ File("d2", "y", <<D("quote", "v")>>)
  @@ File("sys", "q", <<D("angle", "y")>>),
  {}, {},
  {<<O("-iquote", "d1"), O("-I", "d2"), F("f")>>, <<O("-I", "d1"), O("-isystem", "d2"), F("f")>>,
   <<O("-isystem", "d2"), O("-I", "d1"), F("f")>>})
(* what the analysis gives up on *)
Uncovered == Tree(
  File("cwd", "f", <<D("quote", "p"), D("quote", "q")>>)
  @@ File("cwd", "g", <<D("quote", "q")>>)
  @@ File("cwd", "p", <<D("quote", "a"), D("absolute", "b")>>)
  @@ File("cwd", "a", <<>>) @@ File("cwd", "q", <<>>),
  {}, {},
  {<<F("f")>>, <<F("g")>>, <<F("missing")>>, <<O("-I-", <<>>), F("g")>>, <<F("f"), F("g")>>, <<O("-include", W("n")), F("g")>>})
MCTrees == {Computed, Linked, Generated, Cyclic, Uncovered}
MCSourceNames == {W("f"), W("g"), W("h"), W("missing")}
MCSystemDirs == <<"sys">>

(* the client root: two compilers, the second with a directory that the
   first knows nothing of, and a source directory behind a link *)
MCCompilers ==
  [cc |-> <<<<"u", "i", "c">>, <<"u", "i">>>>,
   cross |-> <<<<"u", "i">>, <<"o", "i">>, <<"u", "v">>>>]
MCSources ==
  {<<"s", "l", "x">>, <<"t", "a", "w">>, <<"o", "i", "y">>, <<"u", "i", "t">>}
MCDirLinks == <<"s", "l">> :> <<"t", "a">>
NoNamePrefix == {}
MCClientTmps == {<<"tmp">>, <<"dev", "shm">>}

(* two pump scripts, the first with two clients *)
MCPumpOf == [c1 |-> 1, c2 |-> 1]

-----------------------------------------------------------------------------
MCInit ==
  /\ part \in {"macros", "analysis", "farm", "life"}
  /\ MacroInit /\ AnalysisInit /\ FarmInit /\ IncludeInit
  /\ part # "analysis" => tree = Cyclic

InMacros == part = "macros" /\ MacroNext
            /\ UNCHANGED <<part, analysisVars, farmVars, includeVars>>
InAnalysis == part = "analysis" /\ AnalysisNext
              /\ UNCHANGED <<part, macroVars, farmVars, includeVars>>
InFarm == part = "farm" /\ FarmNext
          /\ UNCHANGED <<part, macroVars, analysisVars, includeVars>>
InLife(step) == part = "life" /\ step
                /\ UNCHANGED <<part, macroVars, analysisVars, farmVars>>

MCNext == InMacros \/ InAnalysis \/ InFarm \/ InLife(IncludeNext)

(* Processes run: a server that has something to do does it, pump goes on,
   and a client that has connected sends its command.  Nothing makes a user
   start a build, end it, or kill anything. *)
MCSpec ==
  /\ MCInit /\ [][MCNext]_mcVars
  /\ \A p \in Pumps : /\ WF_mcVars(InLife(PumpStep(p)))
                      /\ WF_mcVars(InLife(Acquire(p)))
                      /\ WF_mcVars(InLife(ServerStep(p)))
  /\ \A c \in Askers : WF_mcVars(InLife(ClientSends(c)))
(* the safety part, for a run of one state property *)
MCSafety == MCInit /\ [][MCNext]_mcVars
=============================================================================
