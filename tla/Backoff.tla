------------------------------ MODULE Backoff ------------------------------
(***************************************************************************)
(* The backoff timefiles (backoff.c, timefile.c) under the system clock.   *)
(* A client that a server disappoints writes to the server's timefile, one *)
(* that succeeds removes it, and every client leaves out the servers whose *)
(* file is younger than the period.  The age is a difference of readings   *)
(* of a clock that may be set back.  real counts the ticks that have       *)
(* passed, clock is what time() returns.                                   *)
(***************************************************************************)
EXTENDS Integers, FiniteSets

CONSTANTS
  Servers,
  Users,      \* client processes
  Period,     \* DISTCC_BACKOFF_PERIOD
  MaxTicks,   \* bound on real
  MaxSetBack  \* bound on the ticks the clock is set back in all

ASSUME BackoffAssumption ==
  Period \in Nat /\ MaxTicks \in Nat /\ MaxSetBack \in Nat

(* No file; also time zero, which dcc_check_timefile() reports for it: no period
   reaches back to it. *)
NoTimefile == -(Period + 1)

VARIABLES
  real, clock,
  mtime,     \* server -> modification time of its timefile
  opened,    \* user -> the server whose timefile it has open, to mark it
  orphan,    \* users whose open timefile was removed meanwhile
  todo,      \* user -> the servers of its list it has not looked at
  kept,      \* user -> the servers it has kept
  lastMark   \* history: server -> real time it was last marked

backoffVars == <<real, clock, mtime, opened, orphan, todo, kept, lastMark>>

Nowhere == "nowhere"
StartOfTime == MaxSetBack

BackoffInit ==
  /\ real = 0 /\ clock = StartOfTime
  /\ mtime = [h \in Servers |-> NoTimefile]
  /\ opened = [u \in Users |-> Nowhere]
  /\ orphan = {}
  /\ todo = [u \in Users |-> {}]
  /\ kept = [u \in Users |-> {}]
  /\ lastMark = [h \in Servers |-> NoTimefile]

SetBack == real + StartOfTime - clock

TimePasses ==
  /\ real < MaxTicks
  /\ real' = real + 1 /\ clock' = clock + 1
  /\ UNCHANGED <<mtime, opened, orphan, todo, kept, lastMark>>

ClockSetBack ==
  /\ SetBack < MaxSetBack
  /\ clock' = clock - 1
  /\ UNCHANGED <<real, mtime, opened, orphan, todo, kept, lastMark>>

(* dcc_remove_disliked() walks through the list; with a period of zero it
   leaves every server in it. *)
StartWalk(u) ==
  /\ todo[u] = {} /\ opened[u] = Nowhere
  /\ todo' = [todo EXCEPT ![u] = IF Period = 0 THEN {} ELSE Servers]
  /\ kept' = [kept EXCEPT ![u] = IF Period = 0 THEN Servers ELSE {}]
  /\ UNCHANGED <<real, clock, mtime, opened, orphan, lastMark>>

(* <= for < *)
StillInBackoff_Inclusive(h) == clock - mtime[h] <= Period
(* dcc_check_backoff() *)
StillInBackoff(h) == clock - mtime[h] < Period

LookAt(u, h) ==
  /\ h \in todo[u]
  /\ todo' = [todo EXCEPT ![u] = @ \ {h}]
  /\ kept' = [kept EXCEPT ![u] = IF StillInBackoff(h) THEN @ ELSE @ \cup {h}]
  /\ UNCHANGED <<real, clock, mtime, opened, orphan, lastMark>>

(* dcc_disliked_host(), dcc_mark_timefile(): the open, which creates the file ... *)
OpenTimefile(u, h) ==
  /\ Period # 0
  /\ todo[u] = {} /\ opened[u] = Nowhere /\ h \in kept[u]
  /\ opened' = [opened EXCEPT ![u] = h]
  /\ orphan' = orphan \ {u}
  /\ mtime' = [mtime EXCEPT ![h] = IF @ = NoTimefile THEN clock ELSE @]
  /\ lastMark' = [lastMark EXCEPT ![h] = IF mtime[h] = NoTimefile THEN real ELSE @]
  /\ UNCHANGED <<real, clock, todo, kept>>

(* ... and the write that sets the time, of a file that may have lost its name. *)
WriteTimefile(u) ==
  LET h == opened[u] IN
  /\ h # Nowhere
  /\ opened' = [opened EXCEPT ![u] = Nowhere]
  /\ mtime' = IF u \in orphan THEN mtime ELSE [mtime EXCEPT ![h] = clock]
  /\ lastMark' = IF u \in orphan THEN lastMark ELSE [lastMark EXCEPT ![h] = real]
  /\ UNCHANGED <<real, clock, orphan, todo, kept>>

(* dcc_enjoyed_host(), dcc_remove_timefile() *)
RemoveTimefile(u, h) ==
  /\ Period # 0
  /\ todo[u] = {} /\ opened[u] = Nowhere /\ h \in kept[u]
  /\ mtime' = [mtime EXCEPT ![h] = NoTimefile]
  /\ orphan' = orphan \cup {v \in Users : opened[v] = h}
  /\ UNCHANGED <<real, clock, opened, todo, kept, lastMark>>

BackoffNext ==
  \/ TimePasses \/ ClockSetBack
  \/ \E u \in Users :
       \/ StartWalk(u) \/ WriteTimefile(u)
       \/ \E h \in Servers : LookAt(u, h) \/ OpenTimefile(u, h) \/ RemoveTimefile(u, h)
BackoffSpec == BackoffInit /\ [][BackoffNext]_backoffVars

(* A server is in backoff for less than the period after it was last marked,
   plus what the clock was set back, whichever client marks or clears it at the
   same time: it is not lost to the build. *)
BackoffIsBounded ==
  \A h \in Servers : StillInBackoff(h) =>
    lastMark[h] # NoTimefile /\ real - lastMark[h] < Period + SetBack
=============================================================================
