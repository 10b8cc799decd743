--------------------------- MODULE MonitorProofs ---------------------------
(***************************************************************************)
(* Proofs about the state files of the clients and the monitor that reads  *)
(* them without a lock (StateFiles).  The invariant is checked by TLC on   *)
(* the run client; here it is proved for any number of processes, slots    *)
(* and polls and any age.                                                  *)
(***************************************************************************)
EXTENDS StateFiles, SequenceTheorems, WellFoundedInduction, TLAPS

(* A set of naturals has a least member. *)
LEMMA LeastNatural ==
  ASSUME NEW T \in SUBSET Nat, T # {}
  PROVE  \E x \in T : \A y \in T : x <= y
<1>1. PICK x \in T : \A y \in T : <<y, x>> \notin OpToRel(<, Nat)
  BY WFMin, NatLessThanWellFounded, Zenon
<1>2. \A y \in T : ~(y < x)
  BY <1>1, Zenon DEF OpToRel
<1>3. ASSUME NEW y \in T PROVE x <= y
  BY <1>2
<1> QED
  BY <1>3, Zenon

(* What dcc_mon_insert_sorted() makes of a list when it has found the place. *)
Inserted(l, n, e) == SubSeq(l, 1, n - 1) \o <<e>> \o SubSeq(l, n, Len(l))
LEMMA InsertedIs ==
  ASSUME NEW S, NEW l \in Seq(S), NEW e \in S, NEW n \in 1 .. Len(l) + 1
  PROVE  /\ Inserted(l, n, e) \in Seq(S) /\ Len(Inserted(l, n, e)) = Len(l) + 1
         /\ \A k \in 1 .. n - 1 : Inserted(l, n, e)[k] = l[k]
         /\ Inserted(l, n, e)[n] = e
         /\ \A k \in n + 1 .. Len(l) + 1 : Inserted(l, n, e)[k] = l[k - 1]
<1> DEFINE a == SubSeq(l, 1, n - 1)
           b == SubSeq(l, n, Len(l))
<1>0. Len(l) \in Nat /\ n \in Nat /\ n >= 1
  OBVIOUS
<1>1. a \in Seq(S) /\ Len(a) = n - 1 /\ \A k \in 1 .. n - 1 : a[k] = l[k]
  BY <1>0, SubSeqProperties
<1>2. b \in Seq(S) /\ Len(b) = Len(l) + 1 - n /\ \A k \in 1 .. Len(l) + 1 - n : b[k] = l[n + k - 1]
  BY <1>0, SubSeqProperties
<1>3. Inserted(l, n, e) = (a \o <<e>>) \o b
  BY Zenon DEF Inserted
<1> HIDE DEF a, b
<1>4. /\ a \o <<e>> \in Seq(S) /\ Len(a \o <<e>>) = n
      /\ \A k \in 1 .. n : (a \o <<e>>)[k] = IF k < n THEN a[k] ELSE e
  BY <1>0, <1>1
<1> DEFINE c == a \o <<e>>
<1> HIDE DEF c
<1>5. /\ c \o b \in Seq(S) /\ Len(c \o b) = Len(l) + 1
      /\ \A k \in 1 .. Len(l) + 1 : (c \o b)[k] = IF k <= n THEN c[k] ELSE b[k - n]
  <2>1. c \in Seq(S) /\ Len(c) = n
    BY <1>4, Zenon DEF c
  <2>2. /\ c \o b \in Seq(S) /\ Len(c \o b) = Len(c) + Len(b)
        /\ \A k \in 1 .. Len(c) + Len(b) :
             (c \o b)[k] = IF k <= Len(c) THEN c[k] ELSE b[k - Len(c)]
    BY <2>1, <1>2, ConcatProperties
  <2>3. n + (Len(l) + 1 - n) = Len(l) + 1
    BY <1>0
  <2> QED
    BY <1>2, <2>1, <2>2, <2>3, Zenon
<1>6. Inserted(l, n, e) = c \o b
  BY <1>3, Zenon DEF c
<1>7. \A k \in 1 .. n - 1 : (c \o b)[k] = l[k]
  BY <1>0, <1>1, <1>4, <1>5 DEF c
<1>8. (c \o b)[n] = e
  BY <1>0, <1>4, <1>5 DEF c
<1>9. \A k \in n + 1 .. Len(l) + 1 : (c \o b)[k] = l[k - 1]
  <2> TAKE k \in n + 1 .. Len(l) + 1
  <2>1. (c \o b)[k] = b[k - n]
    BY <1>0, <1>5
  <2>2. b[k - n] = l[n + (k - n) - 1]
    BY <1>0, <1>2
  <2>3. n + (k - n) - 1 = k - 1
    BY <1>0
  <2> QED
    BY <2>1, <2>2, <2>3, Zenon
<1> QED
  BY <1>5, <1>6, <1>7, <1>8, <1>9, Zenon

TaskState == [host : {"unset", "localhost", "a_server"}, slot : Nat,
              curr_phase : {"STARTUP", "CPP", "CONNECT", "RECEIVE", "COMPILE"}]
Record == [is : {"state"}, cpid : Pids, host : {"localhost", "a_server"}, slot : Nat,
           curr_phase : {"STARTUP", "CPP", "CONNECT", "RECEIVE", "COMPILE"}]
InOrder(l) == \A i, j \in 1 .. Len(l) : i < j => ~Before(l[j], l[i])

(* Before() is a strict order of the records' places in the list. *)
LEMMA BeforeIsOrder ==
  /\ \A a, b \in Record : Before(a, b) => ~Before(b, a)
  /\ \A a, b, c \in Record : Before(a, b) /\ ~Before(c, b) => Before(a, c)
<1>1. HostOrder["a_server"] = 1 /\ HostOrder["localhost"] = 2
  BY Zenon DEF HostOrder
<1>2. \A r \in Record : r.slot \in Nat /\ r.host \in {"localhost", "a_server"}
  BY Zenon DEF Record
<1> QED
  BY <1>1, <1>2 DEF Before

(* dcc_mon_insert_sorted() keeps the list in order. *)
LEMMA InsertSortedKeeps ==
  ASSUME NEW l \in Seq(Record), InOrder(l), NEW new \in Record
  PROVE  /\ InsertSorted(l, new) \in Seq(Record) /\ InOrder(InsertSorted(l, new))
         /\ \A k \in 1 .. Len(InsertSorted(l, new)) :
              \/ InsertSorted(l, new)[k] = new
              \/ \E i \in 1 .. Len(l) : InsertSorted(l, new)[k] = l[i]
<1> DEFINE behind == {i \in 1 .. Len(l) : Before(new, l[i])}
<1>0. Len(l) \in Nat /\ \A i \in 1 .. Len(l) : l[i] \in Record
  OBVIOUS
<1>1. PICK n \in 1 .. Len(l) + 1 :
        /\ InsertSorted(l, new) = Inserted(l, n, new)
        /\ \A i \in 1 .. n - 1 : ~Before(new, l[i])
        /\ \A i \in n .. Len(l) : Before(new, l[i])
  <2>1. CASE behind = {}
    <3>1. InsertSorted(l, new) = Inserted(l, Len(l) + 1, new)
      BY <2>1, Zenon DEF InsertSorted, Inserted
    <3>2. \A i \in 1 .. Len(l) + 1 - 1 : ~Before(new, l[i])
      BY <1>0, <2>1
    <3>3. Len(l) + 1 \in 1 .. Len(l) + 1 /\ \A i \in Len(l) + 1 .. Len(l) : Before(new, l[i])
      BY <1>0
    <3> QED
      BY <3>1, <3>2, <3>3
  <2>2. CASE behind # {}
    <3> DEFINE n == CHOOSE i \in behind : \A j \in behind : i <= j
    <3>1. n \in behind /\ \A j \in behind : n <= j
      <4>1. behind \in SUBSET Nat
        BY <1>0
      <4> HIDE DEF behind
      <4> QED
        BY <2>2, <4>1, LeastNatural, Zenon
    <3>2. InsertSorted(l, new) = Inserted(l, n, new)
      BY <2>2, Zenon DEF InsertSorted, Inserted
    <3> HIDE DEF n
    <3>3. n \in 1 .. Len(l) /\ Before(new, l[n])
      BY <3>1, Zenon
    <3>4. \A i \in 1 .. n - 1 : ~Before(new, l[i])
      <4> SUFFICES ASSUME NEW i \in 1 .. n - 1, Before(new, l[i]) PROVE FALSE
        BY Zenon
      <4>1. i \in behind
        BY <1>0, <3>3
      <4> QED
        BY <1>0, <3>1, <3>3, <4>1
    <3>5. \A i \in n .. Len(l) : Before(new, l[i])
      <4> TAKE i \in n .. Len(l)
      <4>1. CASE i = n
        BY <3>3, <4>1, Zenon
      <4>2. CASE i # n
        <5>1. i \in 1 .. Len(l) /\ n < i
          BY <1>0, <3>3, <4>2
        <5>2. ~Before(l[i], l[n])
          BY <3>3, <5>1, Zenon DEF InOrder
        <5>3. l[i] \in Record /\ l[n] \in Record
          BY <1>0, <3>3, <5>1, Zenon
        <5> QED
          BY <3>3, <5>2, <5>3, BeforeIsOrder, Zenon
      <4> QED
        BY <4>1, <4>2, Zenon
    <3> QED
      BY <1>0, <3>2, <3>3, <3>4, <3>5
  <2> QED
    BY <2>1, <2>2, Zenon
<1> DEFINE m == Inserted(l, n, new)
<1>2. /\ m \in Seq(Record) /\ Len(m) = Len(l) + 1
      /\ \A k \in 1 .. n - 1 : m[k] = l[k]
      /\ m[n] = new
      /\ \A k \in n + 1 .. Len(l) + 1 : m[k] = l[k - 1]
  BY InsertedIs
<1> HIDE DEF m, behind
<1>3. n \in Nat /\ n >= 1 /\ n <= Len(l) + 1
  BY <1>0
<1>4. \A k \in 1 .. Len(m) :
        \/ k \in 1 .. n - 1 /\ k \in 1 .. Len(l)
        \/ k = n
        \/ k \in n + 1 .. Len(l) + 1 /\ k - 1 \in n .. Len(l) /\ k - 1 \in 1 .. Len(l)
  BY <1>0, <1>2, <1>3
<1>5. InOrder(m)
  <2> SUFFICES ASSUME NEW i \in 1 .. Len(m), NEW j \in 1 .. Len(m), i < j PROVE ~Before(m[j], m[i])
    BY Zenon DEF InOrder
  <2>1. CASE i \in 1 .. n - 1
    <3>1. i \in 1 .. Len(l) /\ m[i] = l[i]
      BY <1>0, <1>2, <1>3, <2>1
    <3>2. CASE j \in 1 .. n - 1
      BY <1>2, <1>4, <3>1, <3>2, <1>0, <1>3 DEF InOrder
    <3>3. CASE j = n
      BY <1>1, <1>2, <2>1, <3>1, <3>3, Zenon
    <3>4. CASE j \in n + 1 .. Len(l) + 1
      <4>1. j - 1 \in 1 .. Len(l) /\ i < j - 1 /\ m[j] = l[j - 1]
        BY <1>0, <1>2, <1>3, <2>1, <3>4
      <4> QED
        BY <3>1, <4>1, Zenon DEF InOrder
    <3> QED
      BY <1>4, <3>2, <3>3, <3>4, Zenon
  <2>2. CASE i = n
    <3>1. j - 1 \in n .. Len(l) /\ j - 1 \in 1 .. Len(l) /\ m[j] = l[j - 1]
      BY <1>0, <1>2, <1>3, <2>2
    <3>2. Before(new, l[j - 1]) /\ l[j - 1] \in Record
      BY <1>0, <1>1, <3>1, Zenon
    <3> QED
      BY <1>2, <2>2, <3>1, <3>2, BeforeIsOrder, Zenon
  <2>3. CASE i \in n + 1 .. Len(l) + 1
    <3>1. i - 1 \in 1 .. Len(l) /\ j - 1 \in 1 .. Len(l) /\ i - 1 < j - 1
      BY <1>0, <1>2, <1>3, <2>3
    <3>2. m[i] = l[i - 1] /\ m[j] = l[j - 1]
      BY <1>0, <1>2, <1>3, <2>3
    <3> QED
      BY <3>1, <3>2, Zenon DEF InOrder
  <2> QED
    BY <1>4, <2>1, <2>2, <2>3, Zenon
<1>6. \A k \in 1 .. Len(m) : m[k] = new \/ \E i \in 1 .. Len(l) : m[k] = l[i]
  BY <1>2, <1>4, Zenon
<1>7. InsertSorted(l, new) = m
  BY <1>1, Zenon DEF m
<1> QED
  BY <1>2, <1>5, <1>6, <1>7

Structs == {"local", "remote"}
Files == {Absent, Empty} \cup Record
StateTypeOK ==
  /\ proc \in [Pids -> {"none", "start", "lock_remote", "lock_cpp", "connect", "wait_cpp",
                        "receive", "run_local"}]
  /\ my_state \in [Pids -> [Structs -> TaskState]]
  /\ target \in [Pids -> Structs]
  /\ linked \in [Pids -> BOOLEAN]
  /\ age \in [Pids -> Nat]
  /\ binstate \in [Pids -> Files]
  /\ mon \in [at : {"idle", "dir", "old", "fresh"}, todo : SUBSET Pids, pid : Nat,
              has : {InDirectory} \cup Files]
  /\ list \in Seq(Record)

(* Each struct speaks of one host, and tells a phase only of that one. *)
Truthful(s) ==
  /\ s.curr_phase = "CPP" => s.host = "localhost"
  /\ s.curr_phase \in {"CONNECT", "RECEIVE"} => s.host = "a_server"
StructsInv ==
  \A p \in Pids :
    /\ Truthful(my_state[p]["local"]) /\ Truthful(my_state[p]["remote"])
    /\ linked[p] => proc[p] # "none" /\ my_state[p][target[p]].host # "unset"
    /\ proc[p] \in {"lock_cpp", "connect", "wait_cpp"} => my_state[p]["local"].host = "localhost"
    /\ proc[p] \in {"connect", "wait_cpp"} => my_state[p]["remote"].host = "a_server"

(* A file, in the directory or in the monitor's hands, is of the process it is
   named after. *)
FileOf(f, p) == f \in {Absent, Empty} \/ (f \in Record /\ f.cpid = p /\ Truthful(f))
FilesInv ==
  /\ \A p \in Pids : FileOf(binstate[p], p)
  /\ mon.at \in {"old", "fresh"} =>
       mon.pid \in Pids /\ (mon.has = InDirectory \/ FileOf(mon.has, mon.pid))
  /\ mon.at \in {"idle", "dir"} => mon.has = InDirectory

(* Processes that run during a poll are seen.  An orphan's file is gone, or still
   to be looked at and old, or about to be removed. *)
PollInv ==
  /\ mon.at # "idle" => \A p \in Pids : proc[p] # "none" => p \in seen
  /\ mon.at = "idle" => orphans = {}
  /\ \A p \in orphans \ seen :
       /\ p \in Pids
       /\ \/ binstate[p] = Absent
          \/ p \in mon.todo /\ age[p] > MaxAge
          \/ mon.at = "old" /\ mon.pid = p
  /\ \A i \in 1 .. Len(list) : list[i].cpid \in seen /\ Truthful(list[i])
  /\ InOrder(list)
StatesInv == StateTypeOK /\ StructsInv /\ FilesInv /\ PollInv

(* dcc_note_state() leaves the structs truthful, in the order of a build. *)
LEMMA NoteStateKeeps ==
  ASSUME StateTypeOK, StructsInv, NEW p \in Pids, NEW step \in DOMAIN Call, NoteState(p, step)
  PROVE  /\ proc' = [proc EXCEPT ![p] = step] /\ proc[p] # "none"
         /\ step \in {"lock_remote", "lock_cpp", "connect", "wait_cpp", "receive", "run_local"}
         /\ my_state' \in [Pids -> [Structs -> TaskState]] /\ target' \in [Pids -> Structs]
         /\ StructsInv'
<1> DEFINE call == Call[step]
           to == Direct(p, call.to)
           old == my_state[p][to]
           new == [host |-> IF call.host = "unset" THEN old.host ELSE call.host,
                   slot |-> IF call.slot THEN SlotOf[p] ELSE old.slot,
                   curr_phase |-> IF call.phase = "none" THEN old.curr_phase ELSE call.phase]
<1>1. step \in {"lock_remote", "lock_cpp", "connect", "wait_cpp", "receive", "run_local"}
  BY Zenon DEF NoteState, Call
<1>2. /\ Call["lock_remote"] = [to |-> "remote", slot |-> TRUE, host |-> "unset", phase |-> "none"]
      /\ Call["lock_cpp"] = [to |-> "local", slot |-> TRUE, host |-> "localhost", phase |-> "CPP"]
      /\ Call["connect"] = [to |-> "remote", slot |-> FALSE, host |-> "a_server", phase |-> "CONNECT"]
      /\ Call["wait_cpp"] = [to |-> "local", slot |-> FALSE, host |-> "unset", phase |-> "CPP"]
      /\ Call["receive"] = [to |-> "remote", slot |-> FALSE, host |-> "unset", phase |-> "RECEIVE"]
      /\ Call["run_local"] = [to |-> "local", slot |-> TRUE, host |-> "localhost", phase |-> "COMPILE"]
  BY Zenon DEF Call
<1>3. /\ proc[p] # "none" /\ ~linked[p]
      /\ step = "connect" => proc[p] = "lock_cpp"
      /\ step = "wait_cpp" => proc[p] = "connect"
      /\ step = "receive" => proc[p] = "wait_cpp"
  <2>1. /\ Follows["start"] = {"lock_remote", "run_local"}
        /\ Follows["lock_remote"] = {"lock_cpp", "run_local"}
        /\ Follows["lock_cpp"] = {"connect", "run_local"}
        /\ Follows["connect"] = {"wait_cpp", "run_local"}
        /\ Follows["wait_cpp"] = {"receive", "run_local"}
        /\ Follows["receive"] = {"finish", "run_local"}
        /\ Follows["run_local"] = {"finish"}
    BY Zenon DEF Follows
  <2>2. step \in Follows[proc[p]] /\ proc[p] # "none" /\ ~linked[p]
    BY Zenon DEF NoteState, Started
  <2>3. proc[p] \in {"start", "lock_remote", "lock_cpp", "connect", "wait_cpp", "receive", "run_local"}
    BY <2>2, Zenon DEF StateTypeOK
  <2> QED
    BY <2>1, <2>2, <2>3, Zenon
<1>4. /\ call.to = to /\ to \in Structs /\ old \in TaskState /\ Truthful(old)
      /\ SlotOf[p] \in Nat
  <2>1. call.to = to /\ to \in Structs
    BY <1>1, <1>2 DEF Direct, Structs
  <2> HIDE DEF to
  <2>2. old \in TaskState /\ Truthful(old)
    BY <2>1 DEF StateTypeOK, StructsInv, Structs
  <2> QED
    BY <2>1, <2>2, StateAssumption, Zenon
<1>5. new \in TaskState
  <2> HIDE DEF to, old
  <2>1. /\ call.host \in {"unset", "localhost", "a_server"}
        /\ call.phase \in {"none", "CPP", "CONNECT", "RECEIVE", "COMPILE"}
    BY <1>1, <1>2
  <2> HIDE DEF call
  <2> QED
    BY <1>4, <2>1, Zenon DEF TaskState
<1>6. /\ Truthful(new)
      /\ call.phase # "none" => new.host # "unset"
      /\ to = "local" /\ step # "run_local" => new.host = "localhost"
      /\ to = "remote" /\ step # "lock_remote" => new.host = "a_server"
  <2>1. /\ step = "wait_cpp" => old.host = "localhost"
        /\ step = "receive" => old.host = "a_server"
    BY <1>2, <1>3, <1>4 DEF StructsInv
  <2> HIDE DEF to, old
  <2>2. CASE step = "lock_cpp"
    BY <1>2, <1>4, <2>2 DEF Truthful
  <2>5. CASE step = "connect"
    BY <1>2, <1>4, <2>5 DEF Truthful
  <2>6. CASE step = "run_local"
    BY <1>2, <1>4, <2>6 DEF Truthful
  <2>3. CASE step = "lock_remote"
    BY <1>2, <1>4, <2>3 DEF Truthful
  <2>4. CASE step \in {"wait_cpp", "receive"}
    BY <1>2, <1>4, <2>1, <2>4 DEF Truthful
  <2> QED
    BY <1>1, <2>2, <2>3, <2>4, <2>5, <2>6, Zenon
<1>7. /\ target' = [target EXCEPT ![p] = to] /\ proc' = [proc EXCEPT ![p] = step]
      /\ my_state' = [my_state EXCEPT ![p] = [my_state[p] EXCEPT ![to] = new]]
      /\ linked' = linked \/ (call.phase # "none" /\ linked' = [linked EXCEPT ![p] = TRUE])
  BY Zenon DEF NoteState
<1>8. /\ step \in {"lock_cpp", "wait_cpp", "run_local"} => to = "local"
      /\ step \in {"lock_remote", "connect", "receive"} => to = "remote"
  BY <1>2, <1>4
<1> HIDE DEF new, old, to, call
<1>9. my_state' \in [Pids -> [Structs -> TaskState]] /\ target' \in [Pids -> Structs]
  BY <1>4, <1>5, <1>7, Zenon DEF StateTypeOK
<1>10. StructsInv'
  <2> SUFFICES ASSUME NEW q \in Pids
               PROVE  /\ Truthful(my_state'[q]["local"]) /\ Truthful(my_state'[q]["remote"])
                      /\ linked'[q] => proc'[q] # "none" /\ my_state'[q][target'[q]].host # "unset"
                      /\ proc'[q] \in {"lock_cpp", "connect", "wait_cpp"} => my_state'[q]["local"].host = "localhost"
                      /\ proc'[q] \in {"connect", "wait_cpp"} => my_state'[q]["remote"].host = "a_server"
    BY Zenon DEF StructsInv, Truthful
  <2>1. CASE q # p
    <3>1. my_state'[q] = my_state[q] /\ target'[q] = target[q] /\ proc'[q] = proc[q] /\ linked'[q] = linked[q]
      BY <1>7, <2>1, Zenon DEF StateTypeOK
    <3> QED
      BY <3>1, Zenon DEF StructsInv
  <2>2. CASE q = p
    <3>1. /\ target'[q] = to /\ proc'[q] = step /\ my_state'[q][to] = new
          /\ \A s \in Structs \ {to} : my_state'[q][s] = my_state[p][s]
          /\ linked'[q] => call.phase # "none"
      BY <1>3, <1>4, <1>7, <2>2 DEF StateTypeOK
    <3>2. Truthful(my_state'[q]["local"]) /\ Truthful(my_state'[q]["remote"])
      BY <1>4, <1>6, <3>1, Zenon DEF StructsInv, Structs
    <3>3. linked'[q] => proc'[q] # "none" /\ my_state'[q][target'[q]].host # "unset"
      BY <1>1, <1>6, <3>1, Zenon
    <3>4. proc'[q] \in {"lock_cpp", "connect", "wait_cpp"} => my_state'[q]["local"].host = "localhost"
      <4>1. CASE step \in {"lock_cpp", "wait_cpp"}
        BY <1>6, <1>8, <3>1, <4>1, Zenon
      <4>2. CASE step = "connect"
        BY <1>3, <1>8, <3>1, <4>2, Zenon DEF StructsInv, Structs
      <4> QED
        BY <3>1, <4>1, <4>2, Zenon
    <3>5. proc'[q] \in {"connect", "wait_cpp"} => my_state'[q]["remote"].host = "a_server"
      <4>1. CASE step = "connect"
        BY <1>6, <1>8, <3>1, <4>1, Zenon
      <4>2. CASE step = "wait_cpp"
        BY <1>3, <1>8, <3>1, <4>2, Zenon DEF StructsInv, Structs
      <4> QED
        BY <3>1, <4>1, <4>2, Zenon
    <3> QED
      BY <3>2, <3>3, <3>4, <3>5, Zenon
  <2> QED
    BY <2>1, <2>2, Zenon
<1> QED
  BY <1>1, <1>3, <1>7, <1>9, <1>10, Zenon

LEMMA FileOfIsFile == ASSUME NEW f, NEW p, FileOf(f, p) PROVE f \in Files
BY Zenon DEF FileOf, Files

(* A step of a client: what it may do to its file leaves the monitor's view right. *)
LEMMA ProcessKeepsFiles ==
  ASSUME StatesInv, NEW p \in Pids, NEW f, FileOf(f, p), NEW a \in Nat,
         binstate' = [binstate EXCEPT ![p] = f], age' = [age EXCEPT ![p] = a],
         proc[p] # "none", UNCHANGED <<list, seen, orphans>>,
         mon' = mon \/ MonitorKeeps(p),
         \A q \in Pids \ {p} : proc'[q] = proc[q]
  PROVE  /\ binstate' \in [Pids -> Files] /\ age' \in [Pids -> Nat]
         /\ mon' \in [at : {"idle", "dir", "old", "fresh"}, todo : SUBSET Pids, pid : Nat,
                      has : {InDirectory} \cup Files]
         /\ FilesInv' /\ PollInv'
<1>1. f \in Files
  BY FileOfIsFile, Zenon
<1>2. binstate' \in [Pids -> Files] /\ age' \in [Pids -> Nat]
  BY <1>1, Zenon DEF StatesInv, StateTypeOK
<1>3. /\ mon' \in [at : {"idle", "dir", "old", "fresh"}, todo : SUBSET Pids, pid : Nat,
                   has : {InDirectory} \cup Files]
      /\ mon'.at = mon.at /\ mon'.todo = mon.todo /\ mon'.pid = mon.pid
      /\ mon'.has = mon.has \/ (mon'.has = binstate[p] /\ mon.pid = p /\ mon.at \in {"old", "fresh"})
  <2>1. binstate[p] \in Files
    BY Zenon DEF StatesInv, StateTypeOK
  <2>2. CASE mon' = mon
    BY <2>2, Zenon DEF StatesInv, StateTypeOK
  <2>3. CASE mon' = [mon EXCEPT !.has = binstate[p]] /\ mon.pid = p /\ mon.at \in {"old", "fresh"}
    BY <2>1, <2>3, Zenon DEF StatesInv, StateTypeOK
  <2> QED
    BY <2>2, <2>3, Zenon DEF MonitorKeeps
<1>4. \A q \in Pids : binstate'[q] = IF q = p THEN f ELSE binstate[q]
  BY Zenon DEF StatesInv, StateTypeOK
<1>5. FilesInv'
  <2>1. \A q \in Pids : FileOf(binstate'[q], q)
    BY <1>4, Zenon DEF StatesInv, FilesInv
  <2>2. mon'.at \in {"old", "fresh"} =>
          mon'.pid \in Pids /\ (mon'.has = InDirectory \/ FileOf(mon'.has, mon'.pid))
    BY <1>3, Zenon DEF StatesInv, FilesInv
  <2>3. mon'.at \in {"idle", "dir"} => mon'.has = InDirectory
    BY <1>3, Zenon DEF StatesInv, FilesInv
  <2> QED
    BY <2>1, <2>2, <2>3, Zenon DEF FilesInv, FileOf, Truthful
<1>6. PollInv'
  <2>1. mon'.at # "idle" => \A q \in Pids : proc'[q] # "none" => q \in seen
    BY <1>3, Zenon DEF StatesInv, PollInv
  <2>2. \A q \in orphans \ seen :
          /\ q \in Pids
          /\ \/ binstate'[q] = Absent
             \/ q \in mon'.todo /\ age'[q] > MaxAge
             \/ mon'.at = "old" /\ mon'.pid = q
    <3> TAKE q \in orphans \ seen
    <3>1. q \in Pids /\ q # p
      BY Zenon DEF StatesInv, PollInv
    <3>2. binstate'[q] = binstate[q] /\ age'[q] = age[q]
      BY <3>1, Zenon DEF StatesInv, StateTypeOK
    <3> QED
      BY <1>3, <3>1, <3>2, Zenon DEF StatesInv, PollInv
  <2> QED
    BY <1>3, <2>1, <2>2, Zenon DEF StatesInv, PollInv, InOrder, Before, Truthful
<1> QED
  BY <1>2, <1>3, <1>5, <1>6, Zenon

LEMMA ProcessStep ==
  ASSUME StatesInv, NEW p \in Pids, Process(p)
  PROVE  StatesInv'
<1>1. CASE StartProcess(p)
  <2>1. /\ proc[p] = "none" /\ proc' = [proc EXCEPT ![p] = "start"]
        /\ seen' = IF mon.at = "idle" THEN seen ELSE seen \cup {p}
        /\ UNCHANGED <<my_state, target, linked, binstate, age, mon, list, orphans>>
    BY <1>1, Zenon DEF StartProcess, Started
  <2>2. StateTypeOK' /\ StructsInv' /\ FilesInv'
    BY <2>1 DEF StatesInv, StateTypeOK, StructsInv, FilesInv, FileOf, Truthful
  <2>3. PollInv'
    BY <2>1, Zenon DEF StatesInv, StateTypeOK, PollInv, InOrder, Before, Truthful
  <2> QED
    BY <2>2, <2>3, Zenon DEF StatesInv
<1>2. CASE WriteState(p)
  <2> DEFINE s == my_state[p][target[p]]
             record == [is |-> "state", cpid |-> p, host |-> s.host, slot |-> s.slot,
                        curr_phase |-> s.curr_phase]
             f == IF binstate[p] = Absent THEN Absent ELSE record
  <2>1. /\ linked[p] /\ linked' = [linked EXCEPT ![p] = FALSE]
        /\ binstate' = [binstate EXCEPT ![p] = f] /\ age' = [age EXCEPT ![p] = 0]
        /\ UNCHANGED <<proc, my_state, target, used, mon, list, seen, orphans>>
    BY <1>2, Zenon DEF WriteState
  <2>2. s \in TaskState /\ s.host # "unset" /\ Truthful(s) /\ proc[p] # "none"
    <3>1. target[p] \in {"local", "remote"} /\ my_state[p] \in [Structs -> TaskState]
      BY Zenon DEF StatesInv, StateTypeOK, Structs
    <3>2. s \in TaskState
      BY <3>1, Zenon DEF Structs
    <3> QED
      BY <2>1, <3>1, <3>2, Zenon DEF StatesInv, StructsInv
  <2> HIDE DEF s
  <2>3. record \in Record /\ record.cpid = p /\ Truthful(record)
    BY <2>2, Zenon DEF TaskState, Record, Truthful
  <2> HIDE DEF record
  <2>4. FileOf(f, p)
    BY <2>3, Zenon DEF FileOf
  <2> HIDE DEF f
  <2>5. \A q \in Pids \ {p} : proc'[q] = proc[q]
    BY <2>1, Zenon
  <2>6. /\ binstate' \in [Pids -> Files] /\ age' \in [Pids -> Nat]
        /\ FilesInv' /\ PollInv'
    BY <2>1, <2>2, <2>4, <2>5, ProcessKeepsFiles, Zenon
  <2>7. StateTypeOK' /\ StructsInv'
    BY <2>1, <2>6 DEF StatesInv, StateTypeOK, StructsInv, Truthful
  <2> QED
    BY <2>6, <2>7, Zenon DEF StatesInv
<1>3. CASE ExitProcess(p) \/ KillProcess(p)
  <2>1. /\ proc[p] # "none" /\ Ends(p) /\ UNCHANGED <<list, seen, orphans>>
        /\ mon' = mon \/ MonitorKeeps(p)
    BY <1>3, Zenon DEF ExitProcess, KillProcess, Started
  <2>2. PICK f \in {Absent, binstate[p]}, a \in Nat :
          binstate' = [binstate EXCEPT ![p] = f] /\ age' = [age EXCEPT ![p] = a]
    <3>1. CASE ExitProcess(p)
      BY <3>1, Zenon DEF ExitProcess
    <3>2. CASE KillProcess(p)
      <4>1. binstate' = [binstate EXCEPT ![p] = binstate[p]] /\ age' = [age EXCEPT ![p] = age[p]]
            /\ age[p] \in Nat
        BY <3>2, Zenon DEF KillProcess, StatesInv, StateTypeOK
      <4> QED
        BY <4>1, Zenon
    <3> QED
      BY <1>3, <3>1, <3>2, Zenon
  <2>3. FileOf(f, p)
    BY Zenon DEF StatesInv, FilesInv, FileOf
  <2>4. /\ proc' = [proc EXCEPT ![p] = "none"] /\ target' = [target EXCEPT ![p] = "remote"]
        /\ linked' = [linked EXCEPT ![p] = FALSE]
        /\ my_state' = [my_state EXCEPT ![p] = NewStates]
    BY <2>1, Zenon DEF Ends
  <2>5. /\ NewStates \in [Structs -> TaskState]
        /\ Truthful(NewStates["local"]) /\ Truthful(NewStates["remote"])
    BY Zenon DEF NewStates, NewState, TaskState, Structs, Truthful
  <2>6. \A q \in Pids \ {p} : proc'[q] = proc[q]
    BY <2>4, Zenon DEF StatesInv, StateTypeOK
  <2>7. /\ binstate' \in [Pids -> Files] /\ age' \in [Pids -> Nat]
        /\ mon' \in [at : {"idle", "dir", "old", "fresh"}, todo : SUBSET Pids, pid : Nat,
                     has : {InDirectory} \cup Files]
        /\ FilesInv' /\ PollInv'
    BY <2>1, <2>2, <2>3, <2>6, ProcessKeepsFiles, Zenon
  <2>8. StateTypeOK'
    BY <2>1, <2>4, <2>5, <2>7, Zenon DEF StatesInv, StateTypeOK, Structs
  <2>9. StructsInv'
    <3> SUFFICES ASSUME NEW q \in Pids
                 PROVE  /\ Truthful(my_state'[q]["local"]) /\ Truthful(my_state'[q]["remote"])
                        /\ linked'[q] => proc'[q] # "none" /\ my_state'[q][target'[q]].host # "unset"
                        /\ proc'[q] \in {"lock_cpp", "connect", "wait_cpp"} => my_state'[q]["local"].host = "localhost"
                        /\ proc'[q] \in {"connect", "wait_cpp"} => my_state'[q]["remote"].host = "a_server"
      BY Zenon DEF StructsInv, Truthful
    <3>1. CASE q = p
      BY <2>4, <2>5, <3>1, Zenon DEF StatesInv, StateTypeOK
    <3>2. CASE q # p
      <4>1. my_state'[q] = my_state[q] /\ target'[q] = target[q] /\ proc'[q] = proc[q] /\ linked'[q] = linked[q]
        BY <2>4, <3>2, Zenon DEF StatesInv, StateTypeOK
      <4> QED
        BY <4>1, Zenon DEF StatesInv, StructsInv
    <3> QED
      BY <3>1, <3>2, Zenon
  <2> QED
    BY <2>7, <2>8, <2>9, Zenon DEF StatesInv
<1>4. ASSUME NEW step \in DOMAIN Call, NoteState(p, step) PROVE StatesInv'
  <2>1. /\ proc' = [proc EXCEPT ![p] = step] /\ proc[p] # "none"
        /\ step \in {"lock_remote", "lock_cpp", "connect", "wait_cpp", "receive", "run_local"}
        /\ my_state' \in [Pids -> [Structs -> TaskState]] /\ target' \in [Pids -> Structs]
        /\ StructsInv'
    BY <1>4, NoteStateKeeps, Zenon DEF StatesInv
  <2>2. UNCHANGED <<used, mon, list, seen, orphans>>
    BY <1>4, Zenon DEF NoteState
  <2>3. PICK f \in {Empty, binstate[p]}, a \in Nat :
          binstate' = [binstate EXCEPT ![p] = f] /\ age' = [age EXCEPT ![p] = a]
    <3>1. \/ binstate' = [binstate EXCEPT ![p] = Empty] /\ age' = [age EXCEPT ![p] = 0]
          \/ binstate' = binstate /\ age' = age
      BY <1>4, Zenon DEF NoteState
    <3>2. age[p] \in Nat /\ binstate = [binstate EXCEPT ![p] = binstate[p]] /\ age = [age EXCEPT ![p] = age[p]]
      BY Zenon DEF StatesInv, StateTypeOK
    <3> QED
      BY <3>1, <3>2, Zenon
  <2>4. FileOf(f, p)
    BY Zenon DEF StatesInv, FilesInv, FileOf
  <2>5. \A q \in Pids \ {p} : proc'[q] = proc[q]
    BY <2>1 DEF StatesInv, StateTypeOK
  <2>6. /\ binstate' \in [Pids -> Files] /\ age' \in [Pids -> Nat]
        /\ FilesInv' /\ PollInv'
    BY <2>1, <2>2, <2>3, <2>4, <2>5, ProcessKeepsFiles, Zenon
  <2>7. linked' \in [Pids -> BOOLEAN]
    BY <1>4, Zenon DEF NoteState, StatesInv, StateTypeOK
  <2>8. proc' \in [Pids -> {"none", "start", "lock_remote", "lock_cpp", "connect", "wait_cpp",
                            "receive", "run_local"}]
    BY <2>1 DEF StatesInv, StateTypeOK
  <2>9. StateTypeOK'
    BY <2>1, <2>2, <2>6, <2>7, <2>8 DEF StatesInv, StateTypeOK
  <2> QED
    BY <2>1, <2>6, <2>9, Zenon DEF StatesInv
<1> QED
  BY <1>1, <1>2, <1>3, <1>4, Zenon DEF Process

LEMMA MonitorStep ==
  ASSUME StatesInv, Monitor
  PROVE  StatesInv'
<1>c. /\ StructsInv' /\ proc' = proc /\ proc' \in [Pids -> {"none", "start", "lock_remote", "lock_cpp",
                                            "connect", "wait_cpp", "receive", "run_local"}]
      /\ my_state' \in [Pids -> [Structs -> TaskState]] /\ target' \in [Pids -> Structs]
      /\ linked' \in [Pids -> BOOLEAN]
  <2>1. UNCHANGED <<proc, my_state, target, linked>>
    BY Zenon DEF Monitor, PollStart, PollEnd, MonOpen, MonUnlink, MonLoad, client
  <2> QED
    BY <2>1, Zenon DEF StatesInv, StateTypeOK, StructsInv, Truthful
<1>m. mon \in [at : {"idle", "dir", "old", "fresh"}, todo : SUBSET Pids, pid : Nat,
               has : {InDirectory} \cup Files]
  BY Zenon DEF StatesInv, StateTypeOK
<1>1. CASE PollStart
  <2>1. /\ mon.at = "idle" /\ mon' = [mon EXCEPT !.at = "dir", !.todo = Pids] /\ list' = <<>>
        /\ seen' = {p \in Pids : proc[p] # "none"}
        /\ orphans' = {p \in Pids \ seen' : binstate[p] # Absent /\ age[p] > MaxAge}
        /\ UNCHANGED <<binstate, age>>
    BY <1>1, Zenon DEF PollStart, Started
  <2>2. /\ mon'.at = "dir" /\ mon'.todo = Pids /\ mon'.has = mon.has
        /\ mon' \in [at : {"idle", "dir", "old", "fresh"}, todo : SUBSET Pids, pid : Nat,
                     has : {InDirectory} \cup Files]
    BY <1>m, <2>1, Zenon
  <2>3. StateTypeOK'
    BY <1>c, <2>1, <2>2, EmptySeq, Zenon DEF StatesInv, StateTypeOK
  <2>4. FilesInv'
    BY <2>1, <2>2, Zenon DEF StatesInv, FilesInv, FileOf, Truthful
  <2>5. PollInv'
    BY <1>c, <2>1, <2>2 DEF PollInv, InOrder
  <2> QED
    BY <1>c, <2>3, <2>4, <2>5, Zenon DEF StatesInv
<1>2. CASE PollEnd
  <2>1. /\ mon' = [mon EXCEPT !.at = "idle"] /\ list' = <<>>
        /\ seen' = {} /\ orphans' = {} /\ UNCHANGED <<binstate, age>>
    BY <1>2, Zenon DEF PollEnd
  <2>0. mon.has = InDirectory
    BY <1>2, Zenon DEF PollEnd, StatesInv, FilesInv
  <2>2. /\ mon'.at = "idle" /\ mon'.has = mon.has
        /\ mon' \in [at : {"idle", "dir", "old", "fresh"}, todo : SUBSET Pids, pid : Nat,
                     has : {InDirectory} \cup Files]
    BY <1>m, <2>1, Zenon
  <2>3. StateTypeOK'
    BY <1>c, <2>1, <2>2, EmptySeq, Zenon DEF StatesInv, StateTypeOK
  <2>4. FilesInv' /\ PollInv'
    BY <2>0, <2>1, <2>2 DEF StatesInv, FilesInv, FileOf, Truthful, PollInv, InOrder
  <2> QED
    BY <1>c, <2>3, <2>4, Zenon DEF StatesInv
<1>3. ASSUME NEW p \in Pids, MonOpen(p) PROVE StatesInv'
  <2>1. /\ mon.at = "dir" /\ p \in mon.todo /\ p \in Nat
        /\ UNCHANGED <<binstate, age, list, seen, orphans>>
    BY <1>3, StateAssumption, Zenon DEF MonOpen
  <2>2. /\ mon' \in [at : {"idle", "dir", "old", "fresh"}, todo : SUBSET Pids, pid : Nat,
                     has : {InDirectory} \cup Files]
        /\ mon'.todo = mon.todo \ {p} /\ mon'.has = mon.has
        /\ mon'.at # "idle"
        /\ mon'.at \in {"old", "fresh"} => mon'.pid = p
        /\ binstate[p] = Absent \/ (age[p] > MaxAge => mon'.at = "old" /\ mon'.pid = p)
    <3>1. CASE binstate[p] = Absent
      <4>1. mon' = [mon EXCEPT !.todo = @ \ {p}]
        BY <1>3, <3>1, Zenon DEF MonOpen
      <4> QED
        BY <1>m, <2>1, <3>1, <4>1, Zenon
    <3>2. CASE binstate[p] # Absent
      <4>1. PICK l \in {"old", "fresh"} :
              /\ mon' = [mon EXCEPT !.todo = @ \ {p}, !.pid = p, !.at = l]
              /\ age[p] > MaxAge => l = "old"
        BY <1>3, <3>2, Zenon DEF MonOpen
      <4> QED
        BY <1>m, <2>1, <4>1, Zenon
    <3> QED
      BY <3>1, <3>2, Zenon
  <2>3. StateTypeOK'
    BY <1>c, <2>1, <2>2, Zenon DEF StatesInv, StateTypeOK
  <2>4. mon.has = InDirectory
    BY <2>1, Zenon DEF StatesInv, FilesInv
  <2>5. FilesInv'
    BY <2>1, <2>2, <2>4 DEF StatesInv, FilesInv, FileOf, Truthful
  <2>6. PollInv'
    <3>1. \A q \in orphans \ seen :
            /\ q \in Pids
            /\ \/ binstate[q] = Absent
               \/ q \in mon'.todo /\ age[q] > MaxAge
               \/ mon'.at = "old" /\ mon'.pid = q
      BY <2>1, <2>2, Zenon DEF StatesInv, PollInv
    <3> QED
      BY <1>c, <2>1, <2>2, <3>1 DEF StatesInv, PollInv, InOrder, Before, Truthful
  <2> QED
    BY <1>c, <2>3, <2>5, <2>6, Zenon DEF StatesInv
<1>4. ASSUME Close, mon.at # "idle"
      PROVE  /\ mon' \in [at : {"idle", "dir", "old", "fresh"}, todo : SUBSET Pids, pid : Nat,
                          has : {InDirectory} \cup Files]
             /\ mon'.at = "dir" /\ mon'.todo = mon.todo /\ mon'.has = InDirectory
  BY <1>4, <1>m, Zenon DEF Close
<1>5. CASE MonUnlink
  <2>1. /\ mon.at = "old" /\ Close /\ mon.pid \in Pids
        /\ binstate' = [binstate EXCEPT ![mon.pid] = Absent] /\ age' = [age EXCEPT ![mon.pid] = 0]
        /\ UNCHANGED <<list, seen, orphans>>
    BY <1>5, Zenon DEF MonUnlink, StatesInv, FilesInv
  <2>2. /\ mon' \in [at : {"idle", "dir", "old", "fresh"}, todo : SUBSET Pids, pid : Nat,
                     has : {InDirectory} \cup Files]
        /\ mon'.at = "dir" /\ mon'.todo = mon.todo /\ mon'.has = InDirectory
    BY <1>4, <2>1, Zenon
  <2>3. /\ binstate' \in [Pids -> Files] /\ age' \in [Pids -> Nat]
        /\ \A q \in Pids : FileOf(binstate'[q], q)
        /\ \A q \in Pids \ {mon.pid} : binstate'[q] = binstate[q] /\ age'[q] = age[q]
        /\ binstate'[mon.pid] = Absent
    BY <2>1, Zenon DEF StatesInv, StateTypeOK, FilesInv, FileOf, Files
  <2>4. StateTypeOK'
    BY <1>c, <2>1, <2>2, <2>3, Zenon DEF StatesInv, StateTypeOK
  <2>5. FilesInv'
    BY <2>2, <2>3, Zenon DEF FilesInv, FileOf, Truthful
  <2>6. PollInv'
    <3>1. \A q \in orphans \ seen :
            /\ q \in Pids
            /\ \/ binstate'[q] = Absent
               \/ q \in mon'.todo /\ age'[q] > MaxAge
               \/ mon'.at = "old" /\ mon'.pid = q
      <4> TAKE q \in orphans \ seen
      <4>1. CASE q = mon.pid
        BY <2>1, <2>3, <4>1
      <4>2. CASE q # mon.pid
        BY <2>2, <2>3, <4>2 DEF StatesInv, PollInv
      <4> QED
        BY <4>1, <4>2, Zenon
    <3> QED
      BY <1>c, <2>1, <2>2, <3>1 DEF StatesInv, PollInv, InOrder, Before, Truthful
  <2> QED
    BY <1>c, <2>4, <2>5, <2>6, Zenon DEF StatesInv
<1>6. CASE MonLoad
  <2>1. /\ mon.at = "fresh" /\ Close /\ mon.pid \in Pids
        /\ UNCHANGED <<binstate, age, seen, orphans>>
    BY <1>6 DEF MonLoad, StatesInv, FilesInv
  <2>2. /\ mon' \in [at : {"idle", "dir", "old", "fresh"}, todo : SUBSET Pids, pid : Nat,
                     has : {InDirectory} \cup Files]
        /\ mon'.at = "dir" /\ mon'.todo = mon.todo /\ mon'.has = InDirectory
    BY <1>4, <2>1, Zenon
  <2>3. FileOf(Contents, mon.pid)
    BY <2>1, Zenon DEF StatesInv, FilesInv, Contents
  <2>4. PICK n \in {Contents} : TRUE
    BY Zenon
  <2>5. /\ list' \in Seq(Record) /\ InOrder(list')
        /\ \A i \in 1 .. Len(list') : list'[i].cpid \in seen /\ Truthful(list'[i])
    <3>0. /\ list \in Seq(Record) /\ InOrder(list)
          /\ \A i \in 1 .. Len(list) : list[i].cpid \in seen /\ Truthful(list[i])
      BY Zenon DEF StatesInv, StateTypeOK, PollInv
    <3>1. CASE list' = list
      BY <3>0, <3>1
    <3>2. CASE list' # list
      <4>1. Contents \notin {Absent, Empty} /\ proc[mon.pid] # "none" /\ list' = InsertSorted(list, n)
        BY <1>6, <2>4, <3>2, Zenon DEF MonLoad, Started
      <4>2. n \in Record /\ n.cpid = mon.pid /\ Truthful(n)
        BY <2>3, <2>4, <4>1 DEF FileOf
      <4>3. mon.pid \in seen
        BY <2>1, <4>1, Zenon DEF StatesInv, PollInv
      <4>4. /\ list' \in Seq(Record) /\ InOrder(list')
            /\ \A k \in 1 .. Len(list') : list'[k] = n \/ \E i \in 1 .. Len(list) : list'[k] = list[i]
        BY <3>0, <4>1, <4>2, InsertSortedKeeps, Zenon
      <4> QED
        BY <3>0, <4>2, <4>3, <4>4
    <3> QED
      BY <3>1, <3>2, Zenon
  <2>6. StateTypeOK'
    BY <1>c, <2>1, <2>2, <2>5, Zenon DEF StatesInv, StateTypeOK
  <2>7. FilesInv'
    BY <2>1, <2>2, Zenon DEF StatesInv, FilesInv, FileOf, Truthful
  <2>8. PollInv'
    <3>1. \A q \in orphans \ seen :
            /\ q \in Pids
            /\ \/ binstate[q] = Absent
               \/ q \in mon'.todo /\ age[q] > MaxAge
      BY <2>1, <2>2, Zenon DEF StatesInv, PollInv
    <3> QED
      BY <1>c, <2>1, <2>2, <2>5, <3>1 DEF StatesInv, PollInv, InOrder, Before, Truthful
  <2> QED
    BY <1>c, <2>6, <2>7, <2>8, Zenon DEF StatesInv
<1> QED
  BY <1>1, <1>2, <1>3, <1>5, <1>6, Zenon DEF Monitor

LEMMA StatesStep == StatesInv /\ [StateNext]_stateVars => StatesInv'
<1> SUFFICES ASSUME StatesInv, [StateNext]_stateVars PROVE StatesInv'
  BY Zenon
<1>1. CASE Tick
  <2>1. /\ age' = [p \in Pids |-> IF binstate[p] = Absent \/ age[p] > MaxAge THEN age[p] ELSE age[p] + 1]
        /\ UNCHANGED <<proc, my_state, target, linked, binstate, mon, list, seen, orphans>>
    BY <1>1, Zenon DEF Tick, client
  <2>2. age' \in [Pids -> Nat] /\ \A p \in Pids : age[p] > MaxAge => age'[p] > MaxAge
    BY <2>1, StateAssumption DEF StatesInv, StateTypeOK
  <2>3. StateTypeOK' /\ StructsInv' /\ FilesInv'
    BY <2>1, <2>2 DEF StatesInv, StateTypeOK, StructsInv, FilesInv, FileOf, Truthful
  <2>4. PollInv'
    BY <2>1, <2>2, Zenon DEF StatesInv, PollInv, InOrder, Before, Truthful
  <2> QED
    BY <2>3, <2>4, Zenon DEF StatesInv
<1>2. CASE UNCHANGED stateVars
  <2>1. UNCHANGED <<proc, my_state, target, linked, binstate, age, mon, list, seen, orphans>>
    BY <1>2, Zenon DEF stateVars, client
  <2>2. StateTypeOK' /\ StructsInv' /\ FilesInv'
    BY <2>1 DEF StatesInv, StateTypeOK, StructsInv, FilesInv, FileOf, Truthful
  <2>3. PollInv'
    BY <2>1, Zenon DEF StatesInv, PollInv, InOrder, Before, Truthful
  <2> QED
    BY <2>2, <2>3, Zenon DEF StatesInv
<1> QED
  BY <1>1, <1>2, MonitorStep, ProcessStep, Zenon DEF StateNext

(* mon.c: the list of a poll holds whole states of processes that ran meanwhile,
   in order, and the files of killed clients go, although nothing is locked. *)
THEOREM PollIsRight == StateSpec => []MonitorIsRight
<1>1. StateInit => StatesInv
  <2> SUFFICES ASSUME StateInit PROVE StatesInv
    BY Zenon
  <2>1. /\ NewStates \in [Structs -> TaskState]
        /\ Truthful(NewStates["local"]) /\ Truthful(NewStates["remote"])
    BY Zenon DEF NewStates, NewState, TaskState, Structs, Truthful
  <2>2. StateTypeOK
    BY <2>1, EmptySeq, Zenon DEF StateInit, StateTypeOK, Structs, Files
  <2>3. StructsInv
    BY <2>1, Zenon DEF StateInit, StructsInv
  <2>4. FilesInv
    BY Zenon DEF StateInit, FilesInv, FileOf
  <2>5. PollInv
    BY DEF StateInit, PollInv, InOrder
  <2> QED
    BY <2>2, <2>3, <2>4, <2>5, Zenon DEF StatesInv
<1>2. StatesInv => MonitorIsRight
  <2> SUFFICES ASSUME StatesInv PROVE MonitorIsRight
    BY Zenon
  <2>1. ListedIsReal
    <3> SUFFICES ASSUME NEW i \in 1 .. Len(list)
                 PROVE  /\ list[i].is = "state" /\ list[i].cpid \in seen
                        /\ list[i].curr_phase = "CPP" => list[i].host = "localhost"
                        /\ list[i].curr_phase \in {"CONNECT", "RECEIVE"} => list[i].host = "a_server"
                        /\ list[i].host # "unset"
      BY Zenon DEF ListedIsReal
    <3>1. list[i] \in Record /\ list[i].cpid \in seen /\ Truthful(list[i])
      BY DEF StatesInv, StateTypeOK, PollInv
    <3> QED
      BY <3>1, Zenon DEF Record, Truthful
  <2>2. ListSorted
    BY Zenon DEF StatesInv, PollInv, ListSorted, InOrder
  <2>3. OrphansVanish
    BY Zenon DEF StatesInv, PollInv, OrphansVanish
  <2> QED
    BY <2>1, <2>2, <2>3, Zenon DEF MonitorIsRight
<1> QED
  BY <1>1, <1>2, StatesStep, PTL DEF StateSpec
=============================================================================
