----------------------------- MODULE StateFiles -----------------------------
(***************************************************************************)
(* The state files of the clients (state.c) and a monitor that reads them  *)
(* (mon.c).  A client process writes binstate_<pid> at each phase of its   *)
(* build and removes it in an atexit() handler; a client that is killed    *)
(* leaves it behind.  The monitor polls the directory without any lock.    *)
(*                                                                         *)
(* A pid is used by several processes, one after the other.  A file is     *)
(* Absent, Empty (opened with O_TRUNC, not yet written) or a task state.   *)
(* Time is the age of a file in ticks, up to MaxAge + 1.                   *)
(***************************************************************************)
EXTENDS Naturals, Sequences, FiniteSets

CONSTANTS
  Pids,         \* process identifiers, naturals so that a poll has an order
  SlotOf,       \* pid -> the slot number the locks give its client, on any host
  MaxAge,       \* dcc_phase_max_age
  MaxProcesses  \* bound: processes that ever use one pid

ASSUME StateAssumption ==
  /\ Pids \subseteq Nat
  /\ SlotOf \in [Pids -> Nat]
  /\ MaxAge \in Nat
  /\ MaxProcesses \in Nat \ {0}

VARIABLES
  proc,     \* pid -> "none" (no such process) or the step its client is at
  my_state, \* pid -> the structs local_state and remote_state of the process
  target,   \* pid -> the struct my_state points to
  linked,   \* pid -> the descriptor a client writes to is still in the directory
  binstate, \* pid -> contents of binstate_<pid>
  age,      \* pid -> ticks since the file was written
  used,     \* pid -> processes that have used it
  mon,      \* the monitor: where it is, what it has opened and what it has read
  list,     \* the list a poll has built so far
  seen,     \* history: pids that had a process at some time of this poll
  orphans   \* history: pids without one that had an old file when it began

client == <<proc, my_state, target, linked>>
stateVars == <<client, binstate, age, used, mon, list, seen, orphans>>

Absent == [is |-> "absent"]
Empty == [is |-> "empty"]
InDirectory == [is |-> "link"]  \* not copied: what the directory entry has
(* Hosts in the order strcmp() gives them. *)
HostOrder == [a_server |-> 1, localhost |-> 2, unset |-> 0]
NewState == [host |-> "unset", slot |-> 0, curr_phase |-> "STARTUP"]
NewStates == [to \in {"local", "remote"} |-> NewState]

(* The calls of dcc_note_state() and dcc_note_state_slot() in a client, in the
   order of a build: which struct, whether a slot was just locked, the host
   (unset: NULL, the struct keeps its own).  CONNECT stands for SEND too, which
   follows it in the same struct with a NULL host. *)
Call ==
  [lock_remote |-> [to |-> "remote", slot |-> TRUE, host |-> "unset", phase |-> "none"],
   lock_cpp |-> [to |-> "local", slot |-> TRUE, host |-> "localhost", phase |-> "CPP"],
   connect |-> [to |-> "remote", slot |-> FALSE, host |-> "a_server", phase |-> "CONNECT"],
   wait_cpp |-> [to |-> "local", slot |-> FALSE, host |-> "unset", phase |-> "CPP"],
   receive |-> [to |-> "remote", slot |-> FALSE, host |-> "unset", phase |-> "RECEIVE"],
   run_local |-> [to |-> "local", slot |-> TRUE, host |-> "localhost", phase |-> "COMPILE"],
   finish |-> [to |-> "unknown", slot |-> FALSE, host |-> "unset", phase |-> "none"]]
Follows ==
  [start |-> {"lock_remote", "run_local"}, lock_remote |-> {"lock_cpp", "run_local"},
   lock_cpp |-> {"connect", "run_local"}, connect |-> {"wait_cpp", "run_local"},
   wait_cpp |-> {"receive", "run_local"}, receive |-> {"finish", "run_local"},
   run_local |-> {"finish"}]

StateInit ==
  /\ proc = [p \in Pids |-> "none"]
  /\ my_state = [p \in Pids |-> NewStates]
  /\ target = [p \in Pids |-> "remote"]
  /\ linked = [p \in Pids |-> FALSE]
  /\ binstate = [p \in Pids |-> Absent]
  /\ age = [p \in Pids |-> 0]
  /\ used = [p \in Pids |-> 0]
  /\ mon = [at |-> "idle", todo |-> {}, pid |-> 0, has |-> InDirectory]
  /\ list = <<>>
  /\ seen = {} /\ orphans = {}

(***************************************************************************)
(* A client process.                                                       *)
(***************************************************************************)
Started(p) == proc[p] # "none"
(* A file the monitor has open stays readable when its name is removed. *)
MonitorKeeps(p) ==
  mon' = IF mon.at \in {"old", "fresh"} /\ mon.pid = p /\ mon.has = InDirectory
           THEN [mon EXCEPT !.has = binstate[p]] ELSE mon

StartProcess(p) ==
  /\ ~Started(p) /\ used[p] < MaxProcesses
  /\ proc' = [proc EXCEPT ![p] = "start"]
  /\ used' = [used EXCEPT ![p] = @ + 1]
  /\ seen' = IF mon.at = "idle" THEN seen ELSE seen \cup {p}
  /\ UNCHANGED <<my_state, target, linked, binstate, age, mon, list, orphans>>

(* direct_my_state() *)
Direct(p, to) == IF to = "unknown" THEN target[p] ELSE to

(* dcc_note_state() up to the write: the struct is brought up to date and the
   file is truncated.  When the open fails only the struct has changed. *)
NoteState(p, step) ==
  LET call == Call[step]  to == Direct(p, call.to) IN
  /\ Started(p) /\ ~linked[p] /\ proc[p] \in DOMAIN Follows
  /\ step \in Follows[proc[p]] \ {"finish"}
  /\ target' = [target EXCEPT ![p] = to]
  /\ my_state' = [my_state EXCEPT ![p][to] =
       [host |-> IF call.host = "unset" THEN @.host ELSE call.host,
        slot |-> IF call.slot THEN SlotOf[p] ELSE @.slot,
        curr_phase |-> IF call.phase = "none" THEN @.curr_phase ELSE call.phase]]
  /\ proc' = [proc EXCEPT ![p] = step]
  /\ \/ /\ call.phase # "none"
        /\ linked' = [linked EXCEPT ![p] = TRUE]
        /\ binstate' = [binstate EXCEPT ![p] = Empty]
        /\ age' = [age EXCEPT ![p] = 0]
     \/ UNCHANGED <<linked, binstate, age>>
  /\ UNCHANGED <<used, mon, list, seen, orphans>>

(* dcc_write_state(): the struct as one block, at the start of the file. *)
WriteState(p) ==
  LET s == my_state[p][target[p]]
      record == [is |-> "state", cpid |-> p, host |-> s.host, slot |-> s.slot,
                 curr_phase |-> s.curr_phase] IN
  /\ linked[p]
  /\ linked' = [linked EXCEPT ![p] = FALSE]
  /\ binstate' = [binstate EXCEPT ![p] = IF @ = Absent THEN Absent ELSE record]
  /\ age' = [age EXCEPT ![p] = 0]
  /\ UNCHANGED <<proc, my_state, target, used, mon, list, seen, orphans>>

(* The memory of a process goes with it. *)
Ends(p) ==
  /\ proc' = [proc EXCEPT ![p] = "none"]
  /\ my_state' = [my_state EXCEPT ![p] = NewStates]
  /\ target' = [target EXCEPT ![p] = "remote"]
  /\ linked' = [linked EXCEPT ![p] = FALSE]

(* exit(): dcc_remove_state_file() is an atexit() handler. *)
ExitProcess(p) ==
  /\ Started(p) /\ ~linked[p] /\ "finish" \in Follows[proc[p]]
  /\ Ends(p)
  /\ MonitorKeeps(p)
  /\ binstate' = [binstate EXCEPT ![p] = Absent]
  /\ age' = [age EXCEPT ![p] = 0]
  /\ UNCHANGED <<used, list, seen, orphans>>

(* dcc_client_signalled() removes temporary files only; SIGKILL nothing. *)
KillProcess(p) ==
  /\ Started(p)
  /\ Ends(p)
  /\ UNCHANGED <<binstate, age, used, mon, list, seen, orphans>>

Tick ==
  /\ age' = [p \in Pids |-> IF binstate[p] = Absent \/ age[p] > MaxAge THEN age[p] ELSE age[p] + 1]
  /\ UNCHANGED <<client, binstate, used, mon, list, seen, orphans>>

(***************************************************************************)
(* The monitor.                                                            *)
(***************************************************************************)
(* dcc_mon_insert_sorted(): after every entry that is not behind the new one. *)
Before(a, b) ==
  \/ HostOrder[a.host] < HostOrder[b.host]
  \/ a.host = b.host /\ a.slot < b.slot
InsertSorted(l, new) ==
  LET behind == {i \in 1 .. Len(l) : Before(new, l[i])}
      at == IF behind = {} THEN Len(l) + 1 ELSE CHOOSE i \in behind : \A j \in behind : i <= j
  IN SubSeq(l, 1, at - 1) \o <<new>> \o SubSeq(l, at, Len(l))

(* dcc_mon_poll(): readdir() may or may not report a file that appears or
   disappears meanwhile, so every pid is tried in some order. *)
PollStart ==
  /\ mon.at = "idle"
  /\ mon' = [mon EXCEPT !.at = "dir", !.todo = Pids]
  /\ list' = <<>>
  /\ seen' = {p \in Pids : Started(p)}
  /\ orphans' = {p \in Pids \ seen' : binstate[p] # Absent /\ age[p] > MaxAge}
  /\ UNCHANGED <<client, binstate, age, used>>

PollEnd ==
  /\ mon.at = "dir" /\ mon.todo = {}
  /\ mon' = [mon EXCEPT !.at = "idle"]
  /\ list' = <<>>
  /\ seen' = {} /\ orphans' = {}
  /\ UNCHANGED <<client, binstate, age, used>>

(* dcc_mon_do_file(): the open, which finds nothing when the file is gone, and
   the fstat() of dcc_mon_kill_old(): the same inode, so nothing that happens
   between the two calls shows ... *)
MonOpen(p) ==
  /\ mon.at = "dir" /\ p \in mon.todo
  /\ mon' = IF binstate[p] = Absent THEN [mon EXCEPT !.todo = @ \ {p}]
             ELSE [mon EXCEPT !.todo = @ \ {p}, !.pid = p,
                              !.at = IF age[p] > MaxAge THEN "old" ELSE "fresh"]
  /\ UNCHANGED <<client, binstate, age, used, list, seen, orphans>>

Close == mon' = [mon EXCEPT !.at = "dir", !.pid = 0, !.has = InDirectory]

(* ... and the unlink(), by name, of a file that was old. *)
MonUnlink ==
  /\ mon.at = "old"
  /\ Close
  /\ binstate' = [binstate EXCEPT ![mon.pid] = Absent]
  /\ age' = [age EXCEPT ![mon.pid] = 0]
  /\ UNCHANGED <<client, used, list, seen, orphans>>

(* dcc_mon_load_state(): dcc_mon_read_state() refuses an empty file, then
   dcc_mon_check_orphans() asks whether the process exists; the next entry of
   the list. *)
Contents == IF mon.has = InDirectory THEN binstate[mon.pid] ELSE mon.has
(* dcc_mon_load_state() without dcc_mon_check_orphans() *)
MonLoad_NoOrphanCheck ==
  /\ mon.at = "fresh"
  /\ list' = IF Contents \notin {Absent, Empty} THEN InsertSorted(list, Contents) ELSE list
  /\ Close
  /\ UNCHANGED <<client, binstate, age, used, seen, orphans>>
MonLoad ==
  /\ mon.at = "fresh"
  /\ list' = IF Contents \notin {Absent, Empty} /\ Started(mon.pid)
               THEN InsertSorted(list, Contents) ELSE list
  /\ Close
  /\ UNCHANGED <<client, binstate, age, used, seen, orphans>>

Monitor == PollStart \/ PollEnd \/ (\E p \in Pids : MonOpen(p)) \/ MonUnlink \/ MonLoad
Process(p) ==
  \/ StartProcess(p) \/ WriteState(p) \/ ExitProcess(p) \/ KillProcess(p)
  \/ \E step \in DOMAIN Call : NoteState(p, step)
StateNext == Tick \/ Monitor \/ \E p \in Pids : Process(p)
StateSpec == StateInit /\ [][StateNext]_stateVars

(***************************************************************************)
(* Properties.                                                             *)
(***************************************************************************)
(* What a poll lists is a whole task state: the phase goes with the host it is
   about, whichever of the two structs was written last and while the file is
   being rewritten; and a process with that pid existed at some time of the poll,
   so what a killed client left behind is not shown. *)
ListedIsReal ==
  \A i \in 1 .. Len(list) :
    /\ list[i].is = "state" /\ list[i].cpid \in seen
    /\ list[i].curr_phase = "CPP" => list[i].host = "localhost"
    /\ list[i].curr_phase \in {"CONNECT", "RECEIVE"} => list[i].host = "a_server"
    /\ list[i].host # "unset"

(* The list is in the order of host and slot at every moment of the poll, in
   whatever order the directory is read. *)
ListSorted ==
  \A i, j \in 1 .. Len(list) : i < j => ~Before(list[j], list[i])

(* The file of a killed client does not stay: one that was old when a poll began
   is gone when it has read the directory, unless its pid was used again, however
   the ends of other clients fall between its calls. *)
OrphansVanish ==
  mon.at = "dir" /\ mon.todo = {} => \A p \in orphans \ seen : binstate[p] = Absent

(* A monitor shows what the processes do, in order, and clears up after those
   that were killed.  (dcc_mon_poll()) *)
MonitorIsRight == ListedIsReal /\ ListSorted /\ OrphansVanish
=============================================================================
