------------------------------ MODULE TempDirs ------------------------------
(***************************************************************************)
(* The directories distcc makes (tempfile.c, cleanup.c): on the server the *)
(* tree of one pump-mode job, with the files and symbolic links it         *)
(* receives (serve.c, srvrpc.c, bulk.c), removed when the job ends; on the *)
(* client the lock and state directories, which every process makes.       *)
(*                                                                         *)
(* A path is a sequence of names.  tree is the set of what exists; the      *)
(* client's / is <<"job">>.                                               *)
(***************************************************************************)
EXTENDS Integers, Sequences, SequencesExt, FiniteSets, TLC

CONSTANTS
  Cwds,        \* working directories a client may announce
  FileNames,   \* names a client may send with FILE
  LinkNames,   \* names a client may send with LINK
  LinkTargets, \* targets of the links, below <<"job">>
  MaxReceived, \* bound: files and links of one job
  Processes    \* client processes that set up the client's directories

(* The include server sends each name once. *)
ASSUME TempAssumption == FileNames \cap LinkNames = {} /\ MaxReceived \in Nat

VARIABLES
  tree,      \* directories, files and links, each with its path
  to_remove, \* the paths registered with dcc_add_cleanup()
  job_pc,    \* what the job does next
  received,  \* the names that arrived
  made,      \* client directories that exist
  topdir,    \* "DISTCC_DIR" or "HOME": which variable names the top directory
  setup      \* process -> the directory it makes next

serverVars == <<tree, to_remove, job_pc, received>>
clientVars == <<made, topdir, setup>>
tempVars == <<serverVars, clientVars>>

Dir(p) == [path |-> p, is |-> "dir", to |-> <<>>]
File(p) == [path |-> p, is |-> "file", to |-> <<>>]
Link(p, target) == [path |-> p, is |-> "link", to |-> target]

(***************************************************************************)
(* Name lookup: links in a path are followed, from left to right.  Below,  *)
(* s is a record of the tree, the registered paths and a return value.     *)
(***************************************************************************)
Exists(t, p) == \E e \in t : e.path = p
IsDir(t, p) == p = <<>> \/ Dir(p) \in t
Follow(t, p) == IF \E e \in t : e.path = p /\ e.is = "link"
                  THEN (CHOOSE e \in t : e.path = p).to ELSE p
Lookup(t, path) == FoldLeft(LAMBDA dir, name : Append(Follow(t, dir), name), <<>>, path)
Without(t, p) == {e \in t : e.path # p}
Failed(s) == [s EXCEPT !.ret = "EXIT_IO_ERROR"]

(* dcc_mk_tmpdir(): only a directory made here is registered. *)
MkTmpdir(s, path) ==
  LET name == Lookup(s.tree, path)  at == Follow(s.tree, name) IN
  IF Exists(s.tree, at)
    THEN IF IsDir(s.tree, at) THEN [s EXCEPT !.ret = "ok"] ELSE Failed(s)
    ELSE IF Exists(s.tree, name) \/ ~IsDir(s.tree, Front(name)) THEN Failed(s)
    ELSE [tree |-> s.tree \cup {Dir(name)}, cleanups |-> Append(s.cleanups, path), ret |-> "ok"]

(* dcc_mk_tmp_ancestor_dirs(): the parent at once, else from the top. *)
MkAncestors(s, path) ==
  LET dir == Front(path)  direct == MkTmpdir(s, dir)
      prefixes == [i \in 1 .. Len(dir) |-> SubSeq(dir, 1, i)]
  IN IF dir = <<>> \/ direct.ret = "ok" THEN direct
     ELSE FoldLeft(LAMBDA t, p : IF t.ret = "ok" THEN MkTmpdir(t, p) ELSE t,
                   [s EXCEPT !.ret = "ok"], prefixes)

(* dcc_r_file() and dcc_add_cleanup(); a file whose body does not arrive is
   removed again. *)
ReceiveFile(s, path, arrives) ==
  LET t == MkAncestors(s, path)
      name == Lookup(t.tree, path)
  IN IF t.ret # "ok" \/ IsDir(t.tree, name) \/ ~IsDir(t.tree, Front(name)) THEN Failed(t)
     ELSE IF ~arrives THEN [Failed(t) EXCEPT !.tree = Without(t.tree, name)]
     ELSE [t EXCEPT !.tree = t.tree \cup {File(name)}, !.cleanups = Append(@, path)]

(* dcc_r_many_files() for a LINK: symlink() fails when the name exists. *)
ReceiveLink(s, path, target) ==
  LET t == MkAncestors(s, path)  name == Lookup(t.tree, path) IN
  IF t.ret # "ok" \/ Exists(t.tree, name) THEN Failed(t)
  ELSE [t EXCEPT !.tree = t.tree \cup {Link(name, target)}, !.cleanups = Append(@, path)]

(* dcc_cleanup_tempfiles(): rmdir(), else unlink(), from the last to the first. *)
RemoveOne(t, path) ==
  LET name == Lookup(t, path) IN
  IF \E e \in t : IsDir(t, name) /\ Front(e.path) = name THEN t ELSE Without(t, name)
(* from the first to the last *)
CleanupTempfiles_Forwards(t, paths) == FoldLeft(LAMBDA u, p : RemoveOne(u, p), t, paths)
CleanupTempfiles(t, paths) == FoldRight(LAMBDA p, u : RemoveOne(u, p), paths, t)

(***************************************************************************)
(* One job of the server at a time.                                        *)
(***************************************************************************)
JobNow == [tree |-> tree, cleanups |-> to_remove, ret |-> "ok"]
Becomes(s, next) ==
  /\ tree' = s.tree /\ to_remove' = s.cleanups
  /\ job_pc' = IF s.ret = "ok" THEN next ELSE "out_cleanup"

(* make_temp_dir_and_chdir_for_cpp() *)
MakeTempDir ==
  /\ job_pc = "idle"
  /\ \E cwd \in Cwds :
       LET top == MkTmpdir(JobNow, <<"job">>)  up == MkAncestors(top, cwd) IN
       Becomes(IF up.ret = "ok" THEN MkTmpdir(up, cwd) ELSE up, "files")
  /\ UNCHANGED <<received, clientVars>>

ReceiveSomething ==
  /\ job_pc = "files" /\ Cardinality(received) < MaxReceived
  /\ \/ \E path \in FileNames \ received, arrives \in BOOLEAN :
          /\ Becomes(ReceiveFile(JobNow, path, arrives), "files")
          /\ received' = IF job_pc' = "files" THEN received \cup {path} ELSE received
     \/ \E path \in LinkNames \ received, target \in LinkTargets :
          /\ Becomes(ReceiveLink(JobNow, path, target), "files")
          /\ received' = IF job_pc' = "files" THEN received \cup {path} ELSE received
  /\ UNCHANGED clientVars

(* dcc_run_job() ends, with or without an error. *)
CleanUpJob ==
  /\ job_pc \in {"files", "out_cleanup"}
  /\ tree' = CleanupTempfiles(tree, to_remove) /\ to_remove' = <<>>
  /\ job_pc' = "idle" /\ received' = {}
  /\ UNCHANGED clientVars

(***************************************************************************)
(* The client's directories.                                               *)
(***************************************************************************)
SetupStep == <<"top", "lock", "state">>

(* dcc_get_top_dir(), dcc_get_subdir() with dcc_mkdir(), which takes a
   directory that is there already for its own; the one named by DISTCC_DIR is
   used as it is. *)
MakeClientDir(p) ==
  LET dir == SetupStep[setup[p]] IN
  /\ setup[p] \in DOMAIN SetupStep
  /\ IF dir = "top" /\ topdir = "DISTCC_DIR"
       THEN setup' = [setup EXCEPT ![p] = @ + 1] /\ UNCHANGED made
       ELSE IF dir # "top" /\ "top" \notin made
       THEN setup' = [setup EXCEPT ![p] = 0] /\ UNCHANGED made
       ELSE setup' = [setup EXCEPT ![p] = @ + 1] /\ made' = made \cup {dir}
  /\ UNCHANGED <<serverVars, topdir>>

TempInit ==
  /\ tree = {} /\ to_remove = <<>> /\ job_pc = "idle" /\ received = {}
  /\ topdir \in {"DISTCC_DIR", "HOME"}
  /\ made \in {{}, {"top"}}
  /\ setup = [p \in Processes |-> 1]

TreeNext == MakeTempDir \/ ReceiveSomething \/ CleanUpJob
ClientDirsNext == \E p \in Processes : MakeClientDir(p)

(***************************************************************************)
(* Properties.                                                             *)
(***************************************************************************)
(* Between two jobs nothing is left of the tree of a job, whatever names and
   links were sent, in whatever order, and wherever the job failed. *)
NothingLeftOfJob == job_pc = "idle" => tree = {}

(* While the job runs each name that arrived leads to a file or a link, through
   the directories and the links that were made for the others. *)
ReceivedIsThere ==
  job_pc = "files" => \A path \in received : Exists(tree, Lookup(tree, path))

(* Processes that set up the client's directories at the same time all succeed,
   and end with the directories in place; only a DISTCC_DIR that does not exist
   makes them fail. *)
ClientDirsReady ==
  \A p \in Processes :
    /\ setup[p] = 4 => {"top", "lock", "state"} \subseteq made
    /\ setup[p] = 0 => topdir = "DISTCC_DIR" /\ "top" \notin made

(* The files of a job are where they were sent to while it runs and gone after
   it; the directories of the client are made once by whoever comes first.
   (srvrpc.c, tempfile.c, cleanup.c) *)
FilesComeAndGo == NothingLeftOfJob /\ ReceivedIsThere /\ ClientDirsReady
=============================================================================
