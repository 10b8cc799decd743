---------------------------- MODULE DaemonProofs ----------------------------
(***************************************************************************)
(* Theorems about Daemon, for every number of children, every lifetime,    *)
(* every capacity of the pipe and every set of faults.                     *)
(***************************************************************************)
EXTENDS Daemon, FiniteSetTheorems, TLAPS

KidState == {"free", "zombie"} \cup LiveKid

\* The children that exist, the dead ones that are not collected included, and
\* those that have reported their connection and not yet its outcome.
Existing(f) == {k \in Kids : f[k] # "free"}
Between == {"serving", "compiling", "result"}
Reporting(f) == {k \in Kids : f[k] \in Between}

-----------------------------------------------------------------------------
(* Counting children.                                                      *)

LEMMA FinitelyMany ==
  ASSUME NEW f
  PROVE  /\ IsFiniteSet(Existing(f)) /\ Cardinality(Existing(f)) \in Nat
         /\ IsFiniteSet(Reporting(f)) /\ Cardinality(Reporting(f)) \in Nat
<1>1. Existing(f) \in SUBSET Kids /\ Reporting(f) \in SUBSET Kids
  BY Zenon DEF Existing, Reporting
<1>2. IsFiniteSet(Existing(f)) /\ IsFiniteSet(Reporting(f))
  BY <1>1, DaemonAssumption, FS_Subset, Zenon
<1> QED
  BY <1>2, FS_CardinalityType, Zenon

\* A child is added to those that exist, or removed, by what it changes to.
LEMMA ExistingUpdate ==
  ASSUME NEW f, NEW g, NEW k \in Kids, \A j \in Kids \ {k} : g[j] = f[j]
  PROVE  /\ f[k] # "free" /\ g[k] # "free" => Cardinality(Existing(g)) = Cardinality(Existing(f))
         /\ f[k] # "free" /\ g[k] = "free" => Cardinality(Existing(g)) = Cardinality(Existing(f)) - 1
         /\ f[k] = "free" /\ g[k] # "free" => Cardinality(Existing(g)) = Cardinality(Existing(f)) + 1
<1>1. CASE g[k] = "free"
  <2>1. Existing(g) = Existing(f) \ {k}
    BY <1>1, Zenon DEF Existing
  <2>2. k \in Existing(f) <=> f[k] # "free"
    BY Zenon DEF Existing
  <2>3. Cardinality(Existing(f) \ {k}) =
          IF k \in Existing(f) THEN Cardinality(Existing(f)) - 1 ELSE Cardinality(Existing(f))
    BY FinitelyMany, FS_RemoveElement, Zenon
  <2>4. Cardinality(Existing(f)) \in Nat
    BY FinitelyMany, Zenon
  <2>5. Cardinality(Existing(g)) = Cardinality(Existing(f) \ {k})
    BY <2>1, Zenon
  <2> QED
    BY <1>1, <2>2, <2>3, <2>4, <2>5, SMT
<1>2. CASE g[k] # "free"
  <2>1. Existing(g) = Existing(f) \cup {k}
    BY <1>2, Zenon DEF Existing
  <2>2. k \in Existing(f) <=> f[k] # "free"
    BY Zenon DEF Existing
  <2>3. Cardinality(Existing(f) \cup {k}) =
          IF k \in Existing(f) THEN Cardinality(Existing(f)) ELSE Cardinality(Existing(f)) + 1
    BY FinitelyMany, FS_AddElement, Zenon
  <2>4. Cardinality(Existing(f)) \in Nat
    BY FinitelyMany, Zenon
  <2>5. Cardinality(Existing(g)) = Cardinality(Existing(f) \cup {k})
    BY <2>1, Zenon
  <2> QED
    BY <1>2, <2>2, <2>3, <2>4, <2>5, SMT
<1> QED
  BY <1>1, <1>2, Zenon

LEMMA SameNumber ==
  ASSUME NEW f, NEW g, NEW k \in Kids, \A j \in Kids \ {k} : g[j] = f[j], f[k] # "free", g[k] # "free"
  PROVE  Cardinality(Existing(g)) = Cardinality(Existing(f))
BY ExistingUpdate, Zenon

LEMMA OneFewer ==
  ASSUME NEW f, NEW g, NEW k \in Kids, \A j \in Kids \ {k} : g[j] = f[j], f[k] # "free", g[k] = "free"
  PROVE  Cardinality(Existing(g)) = Cardinality(Existing(f)) - 1
BY ExistingUpdate, Zenon

LEMMA OneMore ==
  ASSUME NEW f, NEW g, NEW k \in Kids, \A j \in Kids \ {k} : g[j] = f[j], f[k] = "free", g[k] # "free"
  PROVE  Cardinality(Existing(g)) = Cardinality(Existing(f)) + 1
BY ExistingUpdate, Zenon

LEMMA ReportingUpdate ==
  ASSUME NEW f, NEW g, NEW k \in Kids, \A j \in Kids \ {k} : g[j] = f[j]
  PROVE  /\ g[k] \notin Between => Cardinality(Reporting(g)) <= Cardinality(Reporting(f))
         /\ f[k] \in Between /\ g[k] \in Between => Cardinality(Reporting(g)) = Cardinality(Reporting(f))
         /\ f[k] \in Between /\ g[k] \notin Between => Cardinality(Reporting(g)) = Cardinality(Reporting(f)) - 1
         /\ f[k] \notin Between /\ g[k] \in Between => Cardinality(Reporting(g)) = Cardinality(Reporting(f)) + 1
<1>1. CASE g[k] \notin Between
  <2>1. Reporting(g) = Reporting(f) \ {k}
    BY <1>1 DEF Reporting
  <2>2. k \in Reporting(f) <=> f[k] \in Between
    BY Zenon DEF Reporting
  <2>3. Cardinality(Reporting(f) \ {k}) =
          IF k \in Reporting(f) THEN Cardinality(Reporting(f)) - 1 ELSE Cardinality(Reporting(f))
    BY FinitelyMany, FS_RemoveElement, Zenon
  <2>4. Cardinality(Reporting(f)) \in Nat
    BY FinitelyMany, Zenon
  <2>5. Cardinality(Reporting(g)) = Cardinality(Reporting(f) \ {k})
    BY <2>1, Zenon
  <2> QED
    BY <1>1, <2>2, <2>3, <2>4, <2>5, SMT
<1>2. CASE g[k] \in Between
  <2>1. Reporting(g) = Reporting(f) \cup {k}
    BY <1>2 DEF Reporting
  <2>2. k \in Reporting(f) <=> f[k] \in Between
    BY Zenon DEF Reporting
  <2>3. Cardinality(Reporting(f) \cup {k}) =
          IF k \in Reporting(f) THEN Cardinality(Reporting(f)) ELSE Cardinality(Reporting(f)) + 1
    BY FinitelyMany, FS_AddElement, Zenon
  <2>4. Cardinality(Reporting(f)) \in Nat
    BY FinitelyMany, Zenon
  <2>5. Cardinality(Reporting(g)) = Cardinality(Reporting(f) \cup {k})
    BY <2>1, Zenon
  <2> QED
    BY <1>2, <2>2, <2>3, <2>4, <2>5, SMT
<1> QED
  BY <1>1, <1>2, Zenon

\* When the daemon dies, init collects the dead children and the others go on.
Adopted(f) == [k \in Kids |-> IF f[k] = "zombie" THEN "free" ELSE f[k]]

LEMMA AdoptedCount ==
  ASSUME NEW f \in [Kids -> KidState]
  PROVE  /\ Cardinality(Existing(Adopted(f))) <= Cardinality(Existing(f))
         /\ Reporting(Adopted(f)) = Reporting(f)
<1>1. Existing(Adopted(f)) \in SUBSET Existing(f) /\ Reporting(Adopted(f)) = Reporting(f)
  BY Zenon DEF Existing, Reporting, Between, Adopted
<1> QED
  BY <1>1, FinitelyMany, FS_Subset, Zenon

-----------------------------------------------------------------------------
(* The inductive invariant, but for the statistics.                        *)

\* What is true of the places the processes are at: no more connections wait
\* than arrived, signals are for living children, only the daemon's own children
\* are zombies, and a daemon that starts has none.
Positions ==
  /\ backlog <= arrived
  /\ pc = "listen" => gen < MaxStarts
  /\ armed \cup pending \subseteq {k \in Kids : Live(k)}
  /\ ~Bound => \A k \in Kids : kid[k] # "zombie"
  /\ pc \in {"detach", "catch", "master"} => dcc_nkids = 0 /\ Existing(kid) = {}

\* The children that exist are counted and within the limit, also while no
\* daemon counts them.
Counted ==
  /\ pc \in Loop =>
       dcc_nkids + (IF pc = "forked" THEN 1 ELSE 0) = Cardinality(Existing(kid))
  /\ pc = "forked" => dcc_nkids < MaxKids
  /\ Cardinality(Existing(kid)) <= MaxKids

PoolInv == TypeOK /\ Positions /\ Counted

LEMMA PoolInit == Init => PoolInv
<1> SUFFICES ASSUME Init PROVE PoolInv
  BY Zenon
<1>1. Existing(kid) = {}
  BY Zenon DEF Init, Existing
<1>2. Cardinality(Existing(kid)) = 0
  BY <1>1, FS_EmptySet, Zenon
<1>3. TypeOK
  <2>1. statspipe \in Seq(Event)
    BY DEF Init
  <2>2. kid \in [Kids -> {"free", "zombie"} \cup LiveKid] /\ counters \in [Event -> Nat]
    BY Zenon DEF Init
  <2>3. ireq \in [Kids -> 0 .. ChildLifetime - 1]
    BY DaemonAssumption DEF Init
  <2>4. /\ pc \in Dead \cup Starting \cup Loop \cup Terminating
        /\ gen \in 0 .. MaxStarts /\ pid_file \in 0 .. MaxStarts
        /\ dcc_nkids \in 0 .. MaxKids
        /\ backlog \in 0 .. MaxConnections /\ arrived \in 0 .. MaxConnections
    BY DaemonAssumption DEF Init, Dead
  <2> QED
    BY <2>1, <2>2, <2>3, <2>4, Zenon DEF Init, TypeOK
<1>4. Positions
  BY <1>1 DEF Init, Positions, Live, LiveKid, InJob
<1>5. Counted
  BY <1>2, DaemonAssumption DEF Init, Counted, Loop
<1> QED
  BY <1>3, <1>4, <1>5, Zenon DEF PoolInv

LEMMA SomeExist ==
  ASSUME NEW k \in Kids, kid[k] # "free" PROVE Cardinality(Existing(kid)) \in Nat \ {0}
<1>1. Existing(kid) # {}
  BY Zenon DEF Existing
<1> QED
  BY <1>1, FinitelyMany, FS_EmptySet, Zenon

LEMMA FreePidIsFree ==
  ASSUME \E k \in Kids : kid[k] = "free" PROVE FreePid \in Kids /\ kid[FreePid] = "free"
BY DEF FreePid


-----------------------------------------------------------------------------
(* What the steps have in common, whoever takes them.                      *)

\* The statistics keep their types.
LEMMA StatsTypes ==
  ASSUME TypeOK, [Next]_vars
  PROVE  statspipe' \in Seq(Event) /\ counters' \in [Event -> Nat]
<1> USE DEF TypeOK
<1>1. ASSUME UNCHANGED stats PROVE statspipe' \in Seq(Event) /\ counters' \in [Event -> Nat]
  BY <1>1 DEF stats
<1>2. ASSUME NEW e \in Event, statspipe' = Append(statspipe, e), UNCHANGED counters
      PROVE  statspipe' \in Seq(Event) /\ counters' \in [Event -> Nat]
  BY <1>2
<1>3. ASSUME NEW k \in Kids, NEW e \in Event, StatsEvent(k, e)
      PROVE  statspipe' \in Seq(Event) /\ counters' \in [Event -> Nat]
  BY <1>1, <1>2, <1>3, Zenon DEF StatsEvent
<1>4. CASE Select
  <2>1. ASSUME statspipe # <<>>, statspipe' = Tail(statspipe),
               counters' = [counters EXCEPT ![Head(statspipe)] = @ + 1]
        PROVE  statspipe' \in Seq(Event) /\ counters' \in [Event -> Nat]
    <3>1. Head(statspipe) \in Event
      BY <2>1
    <3>2. Tail(statspipe) \in Seq(Event)
      BY <2>1
    <3>3. /\ counters \in [Event -> Nat]
          /\ counters[Head(statspipe)] + 1 \in Nat
      BY <3>1
    <3>4. [counters EXCEPT ![Head(statspipe)] = @ + 1] \in [Event -> Nat]
      BY <3>1, <3>3, Zenon
    <3> QED
      BY <2>1, <3>2, <3>4, Zenon
  <2> QED
    BY <1>1, <1>4, <2>1, Zenon DEF Select
<1>5. CASE Listen
  <2>1. CASE PortTaken
    BY <1>1, <1>5, <2>1, Zenon DEF Listen, stats
  <2>2. CASE ~PortTaken
    <3>1. <<>> \in Seq(Event) /\ [e \in Event |-> 0] \in [Event -> Nat]
      OBVIOUS
    <3> QED
      BY <1>5, <2>2, <3>1, Zenon DEF Listen
  <2> QED
    BY <2>1, <2>2, Zenon
<1>6. ASSUME NEW k \in Kids, KidEvent(k)
      PROVE  statspipe' \in Seq(Event) /\ counters' \in [Event -> Nat]
  BY <1>1, <1>3, <1>6, Zenon DEF KidEvent, Event, stats
<1>7. ASSUME NEW k \in Kids, KidResult(k)
      PROVE  statspipe' \in Seq(Event) /\ counters' \in [Event -> Nat]
  BY <1>1, <1>3, <1>7, Zenon DEF KidResult, Event
<1>8. CASE UNCHANGED stats
  BY <1>1, <1>8, Zenon
<1> QED
  BY <1>4, <1>5, <1>6, <1>7, <1>8, Zenon
     DEF Next, vars, ParentStep, KidStep, StartDaemon, Detach, SavePid, CatchSignals, SetMasterPid,
         CreateKids, CountKid, ReapKids, ReapMore, Collect, ListenStats, NoforkAccept, NoforkServe,
         Terminate, TerminateRemovePid, TerminateKill, KillParent, Connect, KidAccept,
         KidAcceptFails, KidServe, KidCompiled, KidAlarm, KidSignalled, ExitParent

\* The daemon dies, in any way; pending signals may be lost or added.
LEMMA ParentGoneStep ==
  ASSUME PoolInv, NEW how \in Dead, ParentGone(how), UNCHANGED <<options, gen, dcc_nkids, http, stats>>,
         pid_file' \in 0 .. MaxStarts, launcher' \in BOOLEAN,
         pending' \subseteq {k \in Kids : Live(k)}
  PROVE  PoolInv'
<1> USE DaemonAssumption DEF PoolInv, ParentGone, DropBacklog, options, stats
<1>1. kid' = Adopted(kid) /\ kid \in [Kids -> KidState]
  BY Zenon DEF Adopted, TypeOK, KidState
<1>2. TypeOK'
  BY DEF TypeOK
<1>3. \A k \in Kids : Live(k) => Live(k)'
  BY <1>2, Zenon DEF TypeOK, Live, LiveKid, InJob
<1>4. Positions'
  BY <1>3 DEF Positions, Live, LiveKid, InJob, TypeOK, Dead, Bound
<1>5. Counted'
  <2>1. Cardinality(Existing(kid')) <= Cardinality(Existing(kid))
    BY <1>1, AdoptedCount, Zenon
  <2>2. Cardinality(Existing(kid)) \in Nat /\ Cardinality(Existing(kid')) \in Nat
    BY FinitelyMany, Zenon
  <2> QED
    BY <2>1, <2>2 DEF Counted, Dead, Loop
<1> QED
  BY <1>2, <1>4, <1>5, Zenon

\* A child dies, in any way.
LEMMA KidGoneStep ==
  ASSUME PoolInv, NEW k \in Kids, Live(k), KidGone(k),
         UNCHANGED <<options, pc, gen, dcc_nkids, http, launcher>>,
         pid_file' \in 0 .. MaxStarts,
         statspipe' \in Seq(Event), counters' \in [Event -> Nat]
  PROVE  PoolInv'
<1> USE DaemonAssumption DEF PoolInv, KidGone, DropBacklog, options
<1>1. TypeOK'
  BY DEF TypeOK
<1>2. kid[k] # "free" /\ kid \in [Kids -> KidState]
  BY Zenon DEF TypeOK, KidState, Live, LiveKid, InJob
<1>3. pc \notin {"detach", "catch", "master"}
  BY <1>2, Zenon DEF Positions, Existing
<1>4. Positions'
  BY <1>3 DEF Positions, Live, LiveKid, InJob, TypeOK, Bound
<1>5. \A j \in Kids \ {k} : kid'[j] = kid[j]
  BY <1>2, Zenon
<1>6. Counted'
  <2>1. CASE Bound
    <3>1. kid'[k] # "free"
      BY <1>2, <2>1, Zenon
    <3>2. Cardinality(Existing(kid')) = Cardinality(Existing(kid))
      <4> HIDE DEF PoolInv, KidGone, DropBacklog, options
      <4> QED
        BY <1>2, <1>5, <3>1, SameNumber, Zenon
    <3> QED
      BY <3>2, Zenon DEF Counted
  <2>2. CASE ~Bound
    <3>1. kid'[k] = "free"
      BY <1>2, <2>2, Zenon
    <3>2. Cardinality(Existing(kid')) = Cardinality(Existing(kid)) - 1
      <4> HIDE DEF PoolInv, KidGone, DropBacklog, options
      <4> QED
        BY <1>2, <1>5, <3>1, OneFewer, Zenon
    <3>3. Cardinality(Existing(kid)) \in Nat
      BY FinitelyMany, Zenon
    <3> QED
      BY <2>2, <3>2, <3>3 DEF Counted, Bound, Loop, Dead
  <2> QED
    BY <2>1, <2>2, Zenon
<1> QED
  BY <1>1, <1>4, <1>6, Zenon

\* A child goes on to the next step of its job.
LEMMA KidMovesStep ==
  ASSUME PoolInv, NEW k \in Kids, Live(k), NEW v \in LiveKid, kid' = [kid EXCEPT ![k] = v],
         UNCHANGED <<options, pc, gen, dcc_nkids, http, launcher, pending, arrived>>,
         ireq' \in [Kids -> 0 .. ChildLifetime - 1],
         armed' \subseteq armed \cup {k}, nosigpipe' \subseteq nosigpipe \cup {k},
         backlog' \in 0 .. backlog, pid_file' \in 0 .. MaxStarts,
         statspipe' \in Seq(Event), counters' \in [Event -> Nat]
  PROVE  PoolInv'
<1> USE DaemonAssumption DEF PoolInv, options
<1>1. TypeOK'
  <2>1. armed' \in SUBSET Kids /\ nosigpipe' \in SUBSET Kids
    BY Zenon DEF TypeOK
  <2>2. kid' \in [Kids -> {"free", "zombie"} \cup LiveKid]
    BY Zenon DEF TypeOK
  <2>3. backlog' \in 0 .. MaxConnections
    BY DEF TypeOK
  <2> QED
    BY <2>1, <2>2, <2>3, Zenon DEF TypeOK
<1>2. kid[k] # "free" /\ v # "free" /\ v # "zombie" /\ kid \in [Kids -> KidState] /\ v \in KidState
  BY Zenon DEF TypeOK, KidState, Live, LiveKid, InJob
<1>3. pc \notin {"detach", "catch", "master"}
  BY <1>2, Zenon DEF Positions, Existing
<1>4. Positions'
  BY <1>2, <1>3 DEF Positions, Live, LiveKid, InJob, TypeOK, Bound
<1>5. Cardinality(Existing(kid')) = Cardinality(Existing(kid))
  <2>1. kid'[k] = v /\ \A j \in Kids \ {k} : kid'[j] = kid[j]
    BY <1>2, Zenon
  <2> QED
    BY <1>2, <2>1, SameNumber, Zenon
<1>6. Counted'
  BY <1>5, Zenon DEF Counted
<1> QED
  BY <1>1, <1>4, <1>6, Zenon

\* The daemon goes on, or a connection arrives; the children are as they were.
QuietMove ==
  /\ UNCHANGED <<options, kids>>
  /\ pc' \in Dead \cup Starting \cup Loop \cup Terminating
  /\ gen' \in 0 .. MaxStarts /\ launcher' \in BOOLEAN /\ pid_file' \in 0 .. MaxStarts
  /\ dcc_nkids' \in 0 .. MaxKids /\ http' \in BOOLEAN
  /\ backlog' \in 0 .. MaxConnections /\ arrived' \in 0 .. MaxConnections /\ backlog' <= arrived'
  /\ statspipe' \in Seq(Event) /\ counters' \in [Event -> Nat]
  /\ pc' = "listen" => gen' < MaxStarts
  /\ ~Bound' => ~Bound
  /\ pc' \in {"detach", "catch", "master"} => dcc_nkids' = 0 /\ Existing(kid) = {}
  /\ pc' \in Loop =>
       dcc_nkids' + (IF pc' = "forked" THEN 1 ELSE 0) = Cardinality(Existing(kid))
  /\ pc' = "forked" => dcc_nkids' < MaxKids

LEMMA QuietStep == PoolInv /\ QuietMove => PoolInv'
<1> SUFFICES ASSUME PoolInv, QuietMove PROVE PoolInv'
  BY Zenon
<1> USE DEF PoolInv, QuietMove, options, kids
<1>1. TypeOK'
  BY Zenon DEF TypeOK
<1>2. Positions'
  BY Zenon DEF Positions, Live
<1>3. Counted'
  BY Zenon DEF Counted
<1> QED
  BY <1>1, <1>2, <1>3, Zenon

-----------------------------------------------------------------------------
(* Each step keeps the invariant.                                          *)

LEMMA ExitParentStep == PoolInv /\ ExitParent => PoolInv'
<1> SUFFICES ASSUME PoolInv, ExitParent PROVE PoolInv'
  BY Zenon
<1>1. pid_file' \in 0 .. MaxStarts /\ launcher' \in BOOLEAN
  BY DaemonAssumption DEF ExitParent, AtExit, PoolInv, TypeOK
<1>2. pending' \subseteq {k \in Kids : Live(k)} /\ "down" \in Dead
  BY Zenon DEF ExitParent, PoolInv, Positions, Dead
<1> QED
  BY <1>1, <1>2, ParentGoneStep, Zenon DEF ExitParent

LEMMA CollectStep ==
  ASSUME PoolInv, pc \in {"reap", "reap_more"}, NEW k \in Kids, Collect(k)
  PROVE  PoolInv'
<1> USE DaemonAssumption DEF PoolInv, Collect, Goto
<1>1. dcc_nkids = Cardinality(Existing(kid)) /\ dcc_nkids \in Nat \ {0}
  BY SomeExist DEF Counted, TypeOK, Loop
<1>2. TypeOK'
  <2>1. dcc_nkids' \in 0 .. MaxKids /\ pc' \in Loop
    BY <1>1 DEF TypeOK, Loop
  <2>2. kid' \in [Kids -> {"free", "zombie"} \cup LiveKid]
    BY Zenon DEF TypeOK
  <2> QED
    BY <2>1, <2>2, Zenon DEF TypeOK, options, net, stats, pid
<1>3. Positions'
  BY Zenon DEF Positions, Live, LiveKid, InJob, TypeOK, Bound, Dead, net
<1>4. kid'[k] = "free" /\ \A j \in Kids \ {k} : kid'[j] = kid[j]
  BY Zenon DEF TypeOK
<1>5. Cardinality(Existing(kid')) = Cardinality(Existing(kid)) - 1
  <2>1. kid[k] # "free"
    BY Zenon
  <2> HIDE DEF PoolInv, Collect, Goto
  <2> QED
    BY <1>4, <2>1, OneFewer, Zenon
<1>6. Counted'
  BY <1>1, <1>5 DEF Counted, Loop
<1> QED
  BY <1>2, <1>3, <1>6, Zenon

LEMMA ForkStep ==
  ASSUME PoolInv, pc = "create", KidsWanted, \E k \in Kids : kid[k] = "free",
         kid' = [kid EXCEPT ![FreePid] = "accept"], pc' = "forked",
         UNCHANGED <<options, gen, pid, dcc_nkids, http, ireq, armed, nosigpipe, pending, net, stats>>
  PROVE  PoolInv'
<1> USE DaemonAssumption DEF PoolInv
<1>1. PICK k \in Kids : kid[k] = "free" /\ kid' = [kid EXCEPT ![k] = "accept"]
  BY FreePidIsFree, Zenon
<1>2. TypeOK'
  BY <1>1, SMTT(30) DEF TypeOK, Loop, LiveKid, options, net, stats, pid
<1>3. Positions'
  BY <1>1, Zenon DEF Positions, Live, LiveKid, InJob, TypeOK, Bound, Dead, net
<1>4. kid'[k] # "free" /\ \A j \in Kids \ {k} : kid'[j] = kid[j]
  BY <1>1, Zenon DEF TypeOK
<1>5. Cardinality(Existing(kid')) = Cardinality(Existing(kid)) + 1
  <2> HIDE DEF PoolInv
  <2> QED
    BY <1>1, <1>4, OneMore, Zenon
<1>6. Counted'
  BY <1>5 DEF Counted, Loop, KidsWanted, TypeOK
<1> QED
  BY <1>2, <1>3, <1>6, Zenon

\* The parts of the daemon's steps in which it only moves on.
LEMMA ParentMoves ==
  ASSUME PoolInv, [Next]_vars,
         \/ StartDaemon \/ Listen \/ SavePid \/ CatchSignals \/ CountKid \/ Select \/ NoforkServe
         \/ TerminateRemovePid \/ Connect
  PROVE  PoolInv'
<1> SUFFICES QuietMove
  BY QuietStep, Zenon
<1>1. statspipe' \in Seq(Event) /\ counters' \in [Event -> Nat]
  BY StatsTypes, Zenon DEF PoolInv
<1> USE <1>1, DaemonAssumption
    DEF PoolInv, TypeOK, QuietMove, Goto, Dead, Starting, Loop, Terminating, Bound, options, net, pid
<1>2. CASE StartDaemon
  BY <1>2, Zenon DEF StartDaemon, Alive, Positions
<1>3. CASE Listen
  <2>1. CASE PortTaken
    BY <1>3, <2>1 DEF Listen, Positions
  <2>2. CASE ~PortTaken
    <3>1. Existing(kid) = {}
      BY <1>3, <2>2 DEF Listen, PortTaken, Existing, Positions, Live
    <3>2. gen' \in 0 .. MaxStarts
      BY <1>3, <2>2 DEF Listen, Positions
    <3>3. /\ pc' = "detach" /\ dcc_nkids' = 0 /\ http' = FALSE
          /\ UNCHANGED <<options, kids, backlog, arrived, pid_file, launcher>> /\ backlog <= arrived
      BY <1>3, <2>2, Zenon DEF Listen, Positions
    <3>4. 0 \in 0 .. MaxKids
      OBVIOUS
    <3> QED
      BY <3>1, <3>2, <3>3, <3>4, Zenon
  <2> QED
    BY <2>1, <2>2, Zenon
<1>4. CASE SavePid
  BY <1>4, Zenon DEF SavePid, Positions, Counted
<1>5. CASE CatchSignals
  BY <1>5, Zenon DEF CatchSignals, Positions
<1>6. CASE CountKid
  BY <1>6 DEF CountKid, Positions, Counted
<1>7. CASE Select
  BY <1>7, Zenon DEF Select, Positions, Counted
<1>8. CASE NoforkServe
  BY <1>8, Zenon DEF NoforkServe, Positions, Counted
<1>9. CASE TerminateRemovePid
  BY <1>9 DEF TerminateRemovePid, Positions
<1>10. CASE Connect
  BY <1>10 DEF Connect, Positions, Counted
<1> QED
  BY <1>2, <1>3, <1>4, <1>5, <1>6, <1>7, <1>8, <1>9, <1>10, Zenon

\* The steps in which the daemon moves on or dies.
LEMMA ParentStepInv ==
  ASSUME PoolInv, [Next]_vars,
         \/ Detach \/ SetMasterPid \/ CreateKids \/ ReapKids \/ ReapMore \/ ListenStats
         \/ NoforkAccept \/ Terminate \/ TerminateKill \/ KillParent
  PROVE  PoolInv'
<1> DEFINE Signalled == {k \in Kids : Live(k)}
<1>1. /\ launcher \in BOOLEAN /\ pid_file \in 0 .. MaxStarts /\ pending \subseteq Signalled
      /\ "down" \in Dead /\ "terminated" \in Dead
  BY Zenon DEF PoolInv, TypeOK, Positions, Dead
<1>2. ASSUME NEW how \in Dead, ParentGone(how), pending' \subseteq Signalled,
             UNCHANGED <<options, gen, pid, dcc_nkids, http, stats>>
      PROVE  PoolInv'
  BY <1>1, <1>2, ParentGoneStep, Zenon DEF pid
<1>13. statspipe' \in Seq(Event) /\ counters' \in [Event -> Nat]
  BY StatsTypes, Zenon DEF PoolInv
<1>3. CASE Detach
  <2>1. CASE ParentGone("down")
    BY <1>1, <1>2, <1>3, <2>1, Zenon DEF Detach, PoolInv, Goto, ParentGone
  <2>2. CASE pc' = "catch"
    <3>1. QuietMove
      BY <1>13, <1>3, <2>2, DaemonAssumption, Zenon
         DEF QuietMove, PoolInv, TypeOK, Positions, Counted, Dead, Starting, Loop, Terminating, Bound,
             options, net, pid, Detach, ParentGone, Goto
    <3> QED
      BY <3>1, QuietStep, Zenon
  <2> QED
    BY <1>3, <2>1, <2>2, Zenon DEF Detach, Goto
<1>4. CASE SetMasterPid
  <2>1. CASE ~ExitParent
    <3>1. pc' \in {"nofork_accept", "create"} /\ UNCHANGED <<options, gen, pid, dcc_nkids, http, kids, net>>
      BY <1>4, <2>1, Zenon DEF SetMasterPid, Goto
    <3>2. Existing(kid) = {} /\ dcc_nkids = 0
      BY <1>4 DEF SetMasterPid, PoolInv, Positions
    <3>3. Cardinality(Existing(kid)) = 0
      BY <3>2, FS_EmptySet, Zenon
    <3>4. QuietMove
      BY <1>13, <1>4, <3>1, <3>2, <3>3, DaemonAssumption
         DEF QuietMove, PoolInv, TypeOK, Positions, Counted, Dead, Starting, Loop, Terminating, Bound,
             options, net, pid, SetMasterPid
    <3> QED
      BY <3>4, QuietStep, Zenon
  <2> QED
    BY <2>1, ExitParentStep, Zenon
<1>5. CASE CreateKids
  <2>1. CASE KidsWanted /\ ~ExitParent
    BY <1>5, <2>1, ForkStep, Zenon DEF CreateKids, Goto
  <2>2. CASE ~KidsWanted
    <3>1. /\ pc' \in {"reap", "select", "listen_stats"} /\ pc = "create"
          /\ UNCHANGED <<options, gen, pid, dcc_nkids, http, kids, net>>
      BY <1>5, <2>2 DEF CreateKids, Goto
    <3>4. QuietMove
      BY <1>13, <3>1, DaemonAssumption, Zenon
         DEF QuietMove, PoolInv, TypeOK, Positions, Counted, Dead, Starting, Loop, Terminating, Bound,
             options, net, pid
    <3> QED
      BY <3>4, QuietStep, Zenon
  <2> QED
    BY <1>5, <2>1, <2>2, ExitParentStep DEF CreateKids
<1>6. CASE ReapKids
  BY <1>6, CollectStep DEF ReapKids
<1>7. CASE ReapMore
  <2>1. CASE \E k \in Kids : Collect(k)
    BY <1>7, <2>1, CollectStep DEF ReapMore
  <2>2. CASE ~\E k \in Kids : Collect(k)
    <3>1. /\ pc' = "create" /\ pc = "reap_more"
          /\ UNCHANGED <<options, gen, pid, dcc_nkids, http, kids, net>>
      BY <1>7, <2>2, Zenon DEF ReapMore, Goto
    <3>4. QuietMove
      BY <1>13, <3>1, DaemonAssumption
         DEF QuietMove, PoolInv, TypeOK, Positions, Counted, Dead, Starting, Loop, Terminating, Bound,
             options, net, pid
    <3> QED
      BY <3>4, QuietStep, Zenon
  <2> QED
    BY <2>1, <2>2, Zenon
<1>8. CASE ListenStats
  <2>1. CASE ~ExitParent
    <3>1. /\ pc' = "select" /\ pc = "listen_stats" /\ http' = TRUE
          /\ UNCHANGED <<options, gen, pid, dcc_nkids, kids, net>>
      BY <1>8, <2>1 DEF ListenStats, Goto
    <3>4. QuietMove
      BY <1>13, <3>1, DaemonAssumption
         DEF QuietMove, PoolInv, TypeOK, Positions, Counted, Dead, Starting, Loop, Terminating, Bound,
             options, net, pid
    <3> QED
      BY <3>4, QuietStep, Zenon
  <2> QED
    BY <2>1, ExitParentStep, Zenon
<1>9. CASE NoforkAccept
  <2>1. CASE ~ExitParent
    <3>1. /\ pc' = "nofork_serve" /\ pc = "nofork_accept" /\ backlog > 0 /\ backlog' = backlog - 1
          /\ UNCHANGED <<options, gen, pid, dcc_nkids, http, kids, arrived>>
      BY <1>9, <2>1, Zenon DEF NoforkAccept, Goto
    <3>4. QuietMove
      BY <1>13, <3>1, DaemonAssumption
         DEF QuietMove, PoolInv, TypeOK, Positions, Counted, Dead, Starting, Loop, Terminating, Bound,
             options, net, pid
    <3> QED
      BY <3>4, QuietStep, Zenon
  <2> QED
    BY <2>1, ExitParentStep, Zenon
<1>10. CASE Terminate
  <2>1. CASE pc \in Starting
    BY <1>1, <1>2, <1>10, <2>1, Zenon DEF Terminate
  <2>2. CASE pc \in Loop
    <3>1. /\ pc' = "term_pid" /\ pc \notin Starting
          /\ UNCHANGED <<options, gen, pid, dcc_nkids, http, kids, net>>
      BY <1>10, <2>2, Zenon DEF Terminate, Goto, Starting, Loop
    <3>4. QuietMove
      BY <1>13, <2>2, <3>1, DaemonAssumption, Zenon
         DEF QuietMove, PoolInv, TypeOK, Positions, Counted, Dead, Starting, Loop, Terminating, Bound,
             options, net, pid
    <3> QED
      BY <3>4, QuietStep, Zenon
  <2> QED
    BY <1>10, <2>1, <2>2 DEF Terminate
<1>11. CASE TerminateKill
  BY <1>1, <1>2, <1>11 DEF TerminateKill
<1>12. CASE KillParent
  BY <1>1, <1>2, <1>12, Zenon DEF KillParent
<1> QED
  BY <1>3, <1>4, <1>5, <1>6, <1>7, <1>8, <1>9, <1>10, <1>11, <1>12, Zenon

\* The steps of a child: what they leave alone, and where the child is then.
KidMove(k) ==
  \/ KidAccept(k) \/ KidAcceptFails(k) \/ KidStep(k) \/ KidAlarm(k) \/ KidSignalled(k)

KidGoesOn(k) ==
  /\ \E v \in LiveKid : kid' = [kid EXCEPT ![k] = v]
  /\ UNCHANGED <<pending, arrived>>
  /\ armed' \subseteq armed \cup {k} /\ nosigpipe' \subseteq nosigpipe \cup {k}
  /\ UNCHANGED backlog \/ (backlog > 0 /\ backlog' = backlog - 1)
  /\ UNCHANGED ireq \/ (ireq' = [ireq EXCEPT ![k] = @ + 1] /\ ireq[k] + 1 # ChildLifetime)

LEMMA KidFrame ==
  ASSUME NEW k, KidMove(k)
  PROVE  KidUnchanged /\ (UNCHANGED pid_file \/ AtExit)
<1>1. CASE KidAccept(k) \/ KidAcceptFails(k)
  BY <1>1, Zenon DEF KidAccept, KidAcceptFails
<1>2. CASE KidAlarm(k) \/ KidSignalled(k)
  BY <1>2, Zenon DEF KidAlarm, KidSignalled
<1>3. CASE KidEvent(k) \/ KidCompiled(k)
  BY <1>3, Zenon DEF KidEvent, KidCompiled
<1>4. CASE KidServe(k) \/ KidResult(k)
  BY <1>4, Zenon DEF KidServe, KidResult, NextRequest
<1> QED
  BY <1>1, <1>2, <1>3, <1>4, Zenon DEF KidMove, KidStep

LEMMA KidGoes ==
  ASSUME NEW k, KidMove(k), ~KidGone(k)
  PROVE  KidGoesOn(k)
<1>1. KidAccept(k) => KidGoesOn(k)
  BY Zenon DEF KidAccept, KidGoesOn, LiveKid, InJob
<1>2. KidEvent(k) => KidGoesOn(k)
  BY Zenon DEF KidEvent, KidGoesOn, LiveKid, InJob, net
<1>3. ASSUME NextRequest(k) PROVE KidGoesOn(k)
  BY <1>3, Zenon DEF NextRequest, KidGoesOn, LiveKid, InJob, net
<1>4. KidServe(k) => KidGoesOn(k)
  BY <1>3, Zenon DEF KidServe, KidGoesOn, LiveKid, InJob, net
<1>5. KidCompiled(k) => KidGoesOn(k)
  BY DEF KidCompiled, KidGoesOn, LiveKid, InJob, net
<1>6. KidResult(k) => KidGoesOn(k)
  BY <1>3, Zenon DEF KidResult
<1> QED
  BY <1>1, <1>2, <1>4, <1>5, <1>6, Zenon DEF KidMove, KidStep, KidAcceptFails, KidAlarm, KidSignalled

LEMMA KidStepInv ==
  ASSUME PoolInv, [Next]_vars, NEW k \in Kids, KidMove(k)
  PROVE  PoolInv'
<1>1. Live(k)
  BY DEF KidMove, PoolInv, Positions, KidAccept, KidAcceptFails, KidStep, KidEvent, KidServe, KidCompiled,
         KidResult, KidAlarm, KidSignalled, Live, LiveKid, InJob
<1>2. /\ UNCHANGED <<options, pc, gen, dcc_nkids, http, launcher>>
      /\ statspipe' \in Seq(Event) /\ counters' \in [Event -> Nat]
  BY KidFrame, StatsTypes DEF PoolInv, KidUnchanged
<1>3. pid_file' \in 0 .. MaxStarts
  <2>1. pid_file' = pid_file \/ pid_file' = 0
    BY KidFrame, Zenon DEF AtExit
  <2> QED
    BY <2>1, DaemonAssumption DEF PoolInv, TypeOK
<1>4. CASE KidGone(k)
  BY <1>1, <1>2, <1>3, <1>4, KidGoneStep
<1>5. ASSUME ~KidGone(k)
      PROVE  PoolInv'
  <2>1. KidGoesOn(k)
    BY <1>5, KidGoes, Zenon
  <2>2. backlog' \in 0 .. backlog
    BY <2>1 DEF PoolInv, TypeOK, KidGoesOn
  <2>3. ireq' \in [Kids -> 0 .. ChildLifetime - 1]
    <3>1. CASE UNCHANGED ireq
      BY <3>1, Zenon DEF PoolInv, TypeOK
    <3>2. CASE ireq' = [ireq EXCEPT ![k] = @ + 1] /\ ireq[k] + 1 # ChildLifetime
      BY <3>2, DaemonAssumption DEF PoolInv, TypeOK
    <3> QED
      BY <2>1, <3>1, <3>2, Zenon DEF KidGoesOn
  <2> QED
    BY <1>1, <1>2, <1>3, <2>1, <2>2, <2>3, KidMovesStep, Zenon DEF KidGoesOn
<1> QED
  BY <1>4, <1>5, Zenon

LEMMA PoolStep == PoolInv /\ [Next]_vars => PoolInv'
<1> SUFFICES ASSUME PoolInv, [Next]_vars PROVE PoolInv'
  BY Zenon
<1>1. CASE UNCHANGED vars
  BY <1>1
     DEF vars, options, kids, net, stats, pid, PoolInv, TypeOK, Positions, Counted, Bound, Live
<1>2. CASE Next
  BY <1>2, ParentMoves, ParentStepInv, KidStepInv, Zenon DEF Next, ParentStep, KidMove
<1> QED
  BY <1>1, <1>2, Zenon

-----------------------------------------------------------------------------
(* The statistics: the messages of a kind among the first n in the pipe.   *)

Count(s, E, n) == Cardinality({i \in 1 .. n : s[i] \in E})

LEMMA CountType ==
  ASSUME NEW s, NEW E, NEW n \in Nat
  PROVE  IsFiniteSet({i \in 1 .. n : s[i] \in E}) /\ Count(s, E, n) \in Nat
<1>1. IsFiniteSet(1 .. n)
  BY FS_Interval
<1>2. {i \in 1 .. n : s[i] \in E} \in SUBSET (1 .. n)
  BY Zenon
<1>3. IsFiniteSet({i \in 1 .. n : s[i] \in E})
  BY <1>1, <1>2, FS_Subset
<1> QED
  BY <1>3, FS_CardinalityType, Zenon DEF Count

LEMMA CountNone == ASSUME NEW s, NEW E PROVE Count(s, E, 0) = 0
<1>1. {i \in 1 .. 0 : s[i] \in E} = {}
  OBVIOUS
<1> QED
  BY <1>1, FS_EmptySet, Zenon DEF Count

\* What is counted depends on the first n messages only.
LEMMA CountSame ==
  ASSUME NEW s, NEW t, NEW E, NEW n \in Nat, \A i \in 1 .. n : t[i] = s[i]
  PROVE  Count(t, E, n) = Count(s, E, n)
<1>1. {i \in 1 .. n : t[i] \in E} = {i \in 1 .. n : s[i] \in E}
  BY Zenon
<1> QED
  BY <1>1, Zenon DEF Count

LEMMA CountLast ==
  ASSUME NEW s, NEW E, NEW n \in Nat
  PROVE  /\ s[n + 1] \in E => Count(s, E, n + 1) = Count(s, E, n) + 1
         /\ s[n + 1] \notin E => Count(s, E, n + 1) = Count(s, E, n)
<1> DEFINE A == {i \in 1 .. n : s[i] \in E}
           B == {i \in 1 .. n + 1 : s[i] \in E}
<1>1. IsFiniteSet(A) /\ Cardinality(A) \in Nat /\ n + 1 \notin A
  BY CountType DEF Count
<1>2. CASE s[n + 1] \in E
  <2>1. B = A \cup {n + 1}
    BY <1>2
  <2>2. Cardinality(B) = Cardinality(A \cup {n + 1})
    BY <2>1, Zenon
  <2>3. Cardinality(A \cup {n + 1}) = Cardinality(A) + 1
    BY <1>1, FS_AddElement, Zenon
  <2> QED
    BY <1>2, <2>2, <2>3, Zenon DEF Count
<1>3. CASE s[n + 1] \notin E
  <2>1. B = A
    BY <1>3
  <2>2. Cardinality(B) = Cardinality(A)
    BY <2>1, Zenon
  <2> QED
    BY <1>3, <2>2, Zenon DEF Count
<1> QED
  BY <1>2, <1>3

\* Taking the first message away shifts the others.
LEMMA CountTail ==
  ASSUME NEW s \in Seq(Event), s # <<>>, NEW E, NEW n \in 0 .. Len(s) - 1
  PROVE  /\ s[1] \in E => Count(s, E, n + 1) = Count(Tail(s), E, n) + 1
         /\ s[1] \notin E => Count(s, E, n + 1) = Count(Tail(s), E, n)
<1> DEFINE A == {i \in 1 .. n : Tail(s)[i] \in E}
           B == {i \in 2 .. n + 1 : s[i] \in E}
           C == {i \in 1 .. n + 1 : s[i] \in E}
           f == [i \in A |-> i + 1]
<1>1. \A i \in 1 .. n : Tail(s)[i] = s[i + 1]
  OBVIOUS
<1>2. f \in Bijection(A, B)
  <2>1. \A i \in A : f[i] \in B
    BY <1>1
  <2>2. \A i, j \in A : f[i] = f[j] => i = j
    OBVIOUS
  <2>3. \A b \in B : \E i \in A : f[i] = b
    <3> SUFFICES ASSUME NEW b \in B PROVE b - 1 \in A /\ f[b - 1] = b
      BY Zenon
    <3> QED
      BY <1>1
  <2>4. f \in [A -> B]
    BY <2>1, Zenon
  <2> HIDE DEF A, B, f
  <2> QED
    BY <2>2, <2>3, <2>4 DEF Bijection, Injection, Surjection, IsInjective
<1>3. IsFiniteSet(A) /\ Cardinality(A) \in Nat
  <2>1. n \in Nat
    OBVIOUS
  <2> QED
    BY <2>1, CountType, Zenon DEF Count
<1>4. IsFiniteSet(B) /\ Cardinality(B) = Cardinality(A)
  BY <1>2, <1>3, FS_Bijection, ZenonT(60) DEF ExistsBijection
<1>5. CASE s[1] \in E
  <2>1. C = B \cup {1} /\ 1 \notin B
    BY <1>5
  <2>2. Cardinality(C) = Cardinality(B \cup {1})
    BY <2>1, Zenon
  <2>3. Cardinality(B \cup {1}) = Cardinality(B) + 1
    BY <1>4, <2>1, FS_AddElement, Zenon
  <2> QED
    BY <1>4, <1>5, <2>2, <2>3, Zenon DEF Count
<1>6. CASE s[1] \notin E
  <2>1. C = B
    BY <1>6
  <2>2. Cardinality(C) = Cardinality(A)
    BY <1>4, <2>1, Zenon
  <2> QED
    BY <1>6, <2>2, Zenon DEF Count
<1> QED
  BY <1>5, <1>6, Zenon

-----------------------------------------------------------------------------
(* The statistics: the inductive invariant.                                *)

Accept == {"tcp_accept"}

\* The connections and the outcomes reported up to the n-th message of pipe s,
\* when counters c hold what was read before.
Accepts(c, s, n) == c["tcp_accept"] + Count(s, Accept, n)
Outcomes(c, s, n) == c["compile_ok"] + c["other"] + Count(s, Outcome, n)

\* At every point of the pipe no more outcomes than connections were reported, and
\* at its end so many fewer as children still owe one.
InOrder(c, s) == \A n \in 0 .. Len(s) : Outcomes(c, s, n) <= Accepts(c, s, n)
Owing(c, s, owed) == Outcomes(c, s, Len(s)) + owed <= Accepts(c, s, Len(s))

Reported ==
  /\ InOrder(counters, statspipe)
  /\ mode = "stats" /\ Bound => Owing(counters, statspipe, Cardinality(Reporting(kid)))

LEMMA ReportTypes ==
  ASSUME NEW c \in [Event -> Nat], NEW s, NEW n \in Nat
  PROVE  Accepts(c, s, n) \in Nat /\ Outcomes(c, s, n) \in Nat
<1>1. Count(s, Accept, n) \in Nat /\ Count(s, Outcome, n) \in Nat
  BY CountType, Zenon
<1>2. c["tcp_accept"] \in Nat /\ c["compile_ok"] \in Nat /\ c["other"] \in Nat
  BY DEF Event, Outcome
<1> QED
  BY <1>1, <1>2 DEF Accepts, Outcomes

Counts(c, h, d) == \A e \in Event : d[e] = IF e = h THEN c[e] + 1 ELSE c[e]

\* Reading a message moves it from the pipe to the counters.
LEMMA ReadMoves ==
  ASSUME NEW c \in [Event -> Nat], NEW s \in Seq(Event), s # <<>>,
         NEW d, Counts(c, Head(s), d), NEW n \in 0 .. Len(s) - 1
  PROVE  /\ Accepts(d, Tail(s), n) = Accepts(c, s, n + 1)
         /\ Outcomes(d, Tail(s), n) = Outcomes(c, s, n + 1)
<1>1. s[1] = Head(s) /\ Head(s) \in Event /\ n \in Nat
  OBVIOUS
<1>2. ASSUME NEW E
      PROVE  /\ s[1] \in E => Count(s, E, n + 1) = Count(Tail(s), E, n) + 1
             /\ s[1] \notin E => Count(s, E, n + 1) = Count(Tail(s), E, n)
  BY CountTail, Zenon
<1>3. Count(Tail(s), Accept, n) \in Nat /\ Count(Tail(s), Outcome, n) \in Nat
  BY <1>1, CountType, Zenon
<1>4. c["tcp_accept"] \in Nat /\ c["compile_ok"] \in Nat /\ c["other"] \in Nat
  BY DEF Event, Outcome
<1> DEFINE a == Count(Tail(s), Accept, n)
           o == Count(Tail(s), Outcome, n)
<1>5. CASE s[1] = "tcp_accept"
  <2>1. /\ d["tcp_accept"] = c["tcp_accept"] + 1 /\ d["compile_ok"] = c["compile_ok"]
        /\ d["other"] = c["other"] /\ s[1] \in Accept /\ s[1] \notin Outcome
    BY <1>1, <1>5 DEF Event, Outcome, Accept, Counts
  <2>2. Count(s, Accept, n + 1) = a + 1 /\ Count(s, Outcome, n + 1) = o
    BY <1>2, <2>1, Zenon
  <2>3. /\ Accepts(d, Tail(s), n) = d["tcp_accept"] + a
        /\ Outcomes(d, Tail(s), n) = d["compile_ok"] + d["other"] + o
        /\ Accepts(c, s, n + 1) = c["tcp_accept"] + Count(s, Accept, n + 1)
        /\ Outcomes(c, s, n + 1) = c["compile_ok"] + c["other"] + Count(s, Outcome, n + 1)
    BY Zenon DEF Accepts, Outcomes
  <2>4. a \in Nat /\ o \in Nat
    BY <1>3, Zenon
  <2> DEFINE ca == c["tcp_accept"]
             cc == c["compile_ok"]
             co == c["other"]
  <2>5. ca \in Nat /\ cc \in Nat /\ co \in Nat
    BY <1>4, Zenon
  <2>6. Accepts(d, Tail(s), n) = (ca + 1) + a /\ Outcomes(d, Tail(s), n) = cc + co + o
    BY <2>1, <2>3
  <2>7. Accepts(c, s, n + 1) = ca + (a + 1) /\ Outcomes(c, s, n + 1) = cc + co + o
    BY <2>2, <2>3
  <2> HIDE DEF a, o, ca, cc, co
  <2> QED
    BY <2>4, <2>5, <2>6, <2>7
<1>6. CASE s[1] = "compile_ok"
  <2>1. /\ d["tcp_accept"] = c["tcp_accept"] /\ d["compile_ok"] = c["compile_ok"] + 1
        /\ d["other"] = c["other"] /\ s[1] \notin Accept /\ s[1] \in Outcome
    BY <1>1, <1>6 DEF Event, Outcome, Accept, Counts
  <2>2. Count(s, Accept, n + 1) = a /\ Count(s, Outcome, n + 1) = o + 1
    BY <1>2, <2>1
  <2>3. /\ Accepts(d, Tail(s), n) = d["tcp_accept"] + a
        /\ Outcomes(d, Tail(s), n) = d["compile_ok"] + d["other"] + o
        /\ Accepts(c, s, n + 1) = c["tcp_accept"] + Count(s, Accept, n + 1)
        /\ Outcomes(c, s, n + 1) = c["compile_ok"] + c["other"] + Count(s, Outcome, n + 1)
    BY Zenon DEF Accepts, Outcomes
  <2>4. a \in Nat /\ o \in Nat
    BY <1>3, Zenon
  <2> DEFINE ca == c["tcp_accept"]
             cc == c["compile_ok"]
             co == c["other"]
  <2>5. ca \in Nat /\ cc \in Nat /\ co \in Nat
    BY <1>4, Zenon
  <2>6. Accepts(d, Tail(s), n) = ca + a /\ Outcomes(d, Tail(s), n) = (cc + 1) + co + o
    BY <2>1, <2>3
  <2>7. Accepts(c, s, n + 1) = ca + a /\ Outcomes(c, s, n + 1) = cc + co + (o + 1)
    BY <2>2, <2>3
  <2> HIDE DEF a, o, ca, cc, co
  <2> QED
    BY <2>4, <2>5, <2>6, <2>7
<1>7. CASE s[1] = "other"
  <2>1. /\ d["tcp_accept"] = c["tcp_accept"] /\ d["compile_ok"] = c["compile_ok"]
        /\ d["other"] = c["other"] + 1 /\ s[1] \notin Accept /\ s[1] \in Outcome
    BY <1>1, <1>7 DEF Event, Outcome, Accept, Counts
  <2>2. Count(s, Accept, n + 1) = a /\ Count(s, Outcome, n + 1) = o + 1
    BY <1>2, <2>1
  <2>3. /\ Accepts(d, Tail(s), n) = d["tcp_accept"] + a
        /\ Outcomes(d, Tail(s), n) = d["compile_ok"] + d["other"] + o
        /\ Accepts(c, s, n + 1) = c["tcp_accept"] + Count(s, Accept, n + 1)
        /\ Outcomes(c, s, n + 1) = c["compile_ok"] + c["other"] + Count(s, Outcome, n + 1)
    BY Zenon DEF Accepts, Outcomes
  <2>4. a \in Nat /\ o \in Nat
    BY <1>3, Zenon
  <2> DEFINE ca == c["tcp_accept"]
             cc == c["compile_ok"]
             co == c["other"]
  <2>5. ca \in Nat /\ cc \in Nat /\ co \in Nat
    BY <1>4, Zenon
  <2>6. Accepts(d, Tail(s), n) = ca + a /\ Outcomes(d, Tail(s), n) = cc + (co + 1) + o
    BY <2>1, <2>3
  <2>7. Accepts(c, s, n + 1) = ca + a /\ Outcomes(c, s, n + 1) = cc + co + (o + 1)
    BY <2>2, <2>3, Zenon
  <2> HIDE DEF a, o, ca, cc, co
  <2> QED
    BY <2>4, <2>5, <2>6, <2>7
<1> QED
  BY <1>1, <1>5, <1>6, <1>7, Zenon DEF Event, Outcome

LEMMA ReadKeeps ==
  ASSUME NEW c \in [Event -> Nat], NEW s \in Seq(Event), s # <<>>,
         NEW d, Counts(c, Head(s), d), InOrder(c, s), NEW owed
  PROVE  InOrder(d, Tail(s)) /\ (Owing(c, s, owed) => Owing(d, Tail(s), owed))
<1>1. Len(s) \in Nat \ {0} /\ Len(Tail(s)) = Len(s) - 1
  OBVIOUS
<1>2. InOrder(d, Tail(s))
  <2> SUFFICES ASSUME NEW n \in 0 .. Len(s) - 1
               PROVE  Outcomes(d, Tail(s), n) <= Accepts(d, Tail(s), n)
    BY <1>1, Zenon DEF InOrder
  <2>1. n + 1 \in 0 .. Len(s)
    BY <1>1
  <2>2. Outcomes(c, s, n + 1) <= Accepts(c, s, n + 1)
    BY <2>1 DEF InOrder
  <2> QED
    BY <2>2, ReadMoves, Zenon
<1>3. ASSUME Owing(c, s, owed) PROVE Owing(d, Tail(s), owed)
  <2> DEFINE n == Len(s) - 1
  <2>1. n \in 0 .. Len(s) - 1 /\ n + 1 = Len(s)
    BY <1>1
  <2>2. Accepts(d, Tail(s), n) = Accepts(c, s, n + 1) /\ Outcomes(d, Tail(s), n) = Outcomes(c, s, n + 1)
    BY <2>1, ReadMoves, SMTT(30)
  <2> HIDE DEF n
  <2>3. Accepts(d, Tail(s), n) = Accepts(c, s, Len(s)) /\ Outcomes(d, Tail(s), n) = Outcomes(c, s, Len(s))
    BY <2>1, <2>2, Zenon
  <2> QED
    BY <1>1, <1>3, <2>3, Zenon DEF n, Owing
<1> QED
  BY <1>2, <1>3

Appended(s, e, t) ==
  /\ Len(t) = Len(s) + 1 /\ t[Len(s) + 1] = e
  /\ \A i \in 1 .. Len(s) : t[i] = s[i]

\* Writing a message keeps what was reported up to each earlier one.
LEMMA WriteKeeps ==
  ASSUME NEW c \in [Event -> Nat], NEW s \in Seq(Event), NEW e \in Event,
         NEW t \in Seq(Event), Appended(s, e, t), NEW n \in 0 .. Len(s)
  PROVE  Accepts(c, t, n) = Accepts(c, s, n) /\ Outcomes(c, t, n) = Outcomes(c, s, n)
<1>1. n \in Nat /\ \A i \in 1 .. n : t[i] = s[i]
  BY DEF Appended
<1>2. Count(t, Accept, n) = Count(s, Accept, n) /\ Count(t, Outcome, n) = Count(s, Outcome, n)
  BY <1>1, CountSame
<1> QED
  BY <1>2, Zenon DEF Accepts, Outcomes

LEMMA WriteAdds ==
  ASSUME NEW c \in [Event -> Nat], NEW s \in Seq(Event), NEW e \in Event, NEW t \in Seq(Event), Appended(s, e, t)
  PROVE  /\ e = "tcp_accept" => /\ Accepts(c, t, Len(s) + 1) = Accepts(c, s, Len(s)) + 1
                                /\ Outcomes(c, t, Len(s) + 1) = Outcomes(c, s, Len(s))
         /\ e \in Outcome => /\ Accepts(c, t, Len(s) + 1) = Accepts(c, s, Len(s))
                             /\ Outcomes(c, t, Len(s) + 1) = Outcomes(c, s, Len(s)) + 1
<1> DEFINE m == Len(s)
           a == Count(t, Accept, m)
           o == Count(t, Outcome, m)
<1>1. m \in Nat /\ m \in 0 .. Len(s) /\ t[m + 1] = e
  BY DEF Appended
<1>2. ASSUME NEW E
      PROVE  /\ t[m + 1] \in E => Count(t, E, m + 1) = Count(t, E, m) + 1
             /\ t[m + 1] \notin E => Count(t, E, m + 1) = Count(t, E, m)
  BY <1>1, CountLast
<1>3. Accepts(c, t, m) = Accepts(c, s, m) /\ Outcomes(c, t, m) = Outcomes(c, s, m)
  BY <1>1, WriteKeeps, Zenon
<1>4. a \in Nat /\ o \in Nat
  BY <1>1, CountType, Zenon
<1>5. c["tcp_accept"] \in Nat /\ c["compile_ok"] \in Nat /\ c["other"] \in Nat
  BY Zenon DEF Event, Outcome
<1>6. /\ Accepts(c, s, m) = c["tcp_accept"] + a /\ Outcomes(c, s, m) = c["compile_ok"] + c["other"] + o
      /\ Accepts(c, t, m + 1) = c["tcp_accept"] + Count(t, Accept, m + 1)
      /\ Outcomes(c, t, m + 1) = c["compile_ok"] + c["other"] + Count(t, Outcome, m + 1)
  BY <1>3, Zenon DEF Accepts, Outcomes
<1>7. ASSUME e = "tcp_accept"
      PROVE  Count(t, Accept, m + 1) = a + 1 /\ Count(t, Outcome, m + 1) = o
  <2>1. e \in Accept /\ e \notin Outcome
    BY <1>7 DEF Accept, Outcome
  <2> QED
    BY <1>1, <1>2, <2>1, Zenon
<1>8. ASSUME e \in Outcome
      PROVE  Count(t, Accept, m + 1) = a /\ Count(t, Outcome, m + 1) = o + 1
  <2>1. e \notin Accept
    BY <1>8 DEF Accept, Outcome
  <2> QED
    BY <1>1, <1>2, <1>8, <2>1, Zenon
<1> HIDE DEF m, a, o
<1>9. ASSUME e = "tcp_accept"
      PROVE  Accepts(c, t, m + 1) = Accepts(c, s, m) + 1 /\ Outcomes(c, t, m + 1) = Outcomes(c, s, m)
  BY <1>4, <1>5, <1>6, <1>7, <1>9
<1>10. ASSUME e \in Outcome
       PROVE  Accepts(c, t, m + 1) = Accepts(c, s, m) /\ Outcomes(c, t, m + 1) = Outcomes(c, s, m) + 1
  <2>1. Accepts(c, t, m + 1) = Accepts(c, s, m)
    BY <1>6, <1>8, <1>10, Zenon
  <2>2. Outcomes(c, t, m + 1) = Outcomes(c, s, m) + 1
    <3>1. Count(t, Outcome, m + 1) = o + 1
      BY <1>8, <1>10, Zenon
    <3>2. \A x, y, z \in Nat : x + y + (z + 1) = x + y + z + 1
      OBVIOUS
    <3>3. c["compile_ok"] + c["other"] + (o + 1) = c["compile_ok"] + c["other"] + o + 1
      BY <1>4, <1>5, <3>2, ZenonT(60)
    <3> QED
      BY <1>6, <3>1, <3>3, Zenon
  <2> QED
    BY <2>1, <2>2, Zenon
<1> QED
  BY <1>9, <1>10, Zenon DEF m

\* A child reports its connection and owes an outcome, or reports the outcome.
LEMMA WriteInOrder ==
  ASSUME NEW c \in [Event -> Nat], NEW s \in Seq(Event), NEW e \in Event, NEW t \in Seq(Event), Appended(s, e, t),
         NEW owed \in Nat, NEW owes \in Nat, InOrder(c, s), Owing(c, s, owed),
         \/ e = "tcp_accept" /\ owes = owed + 1
         \/ e \in Outcome /\ owes = owed - 1
  PROVE  InOrder(c, t) /\ Owing(c, t, owes)
<1>1. Len(s) \in Nat /\ Len(t) = Len(s) + 1
  BY DEF Appended
<1>2. Accepts(c, s, Len(s)) \in Nat /\ Outcomes(c, s, Len(s)) \in Nat
  BY <1>1, ReportTypes, Zenon
<1>3. Outcomes(c, t, Len(s) + 1) + owes <= Accepts(c, t, Len(s) + 1)
  <2>1. Outcomes(c, s, Len(s)) + owed <= Accepts(c, s, Len(s))
    BY Zenon DEF Owing
  <2>2. CASE e = "tcp_accept" /\ owes = owed + 1
    <3>1. /\ Accepts(c, t, Len(s) + 1) = Accepts(c, s, Len(s)) + 1
          /\ Outcomes(c, t, Len(s) + 1) = Outcomes(c, s, Len(s))
      BY <2>2, WriteAdds, Zenon
    <3> QED
      BY <1>2, <2>1, <2>2, <3>1
  <2>3. CASE e \in Outcome /\ owes = owed - 1
    <3>1. /\ Accepts(c, t, Len(s) + 1) = Accepts(c, s, Len(s))
          /\ Outcomes(c, t, Len(s) + 1) = Outcomes(c, s, Len(s)) + 1
      BY <2>3, WriteAdds, Zenon
    <3> QED
      BY <1>2, <2>1, <2>3, <3>1
  <2> QED
    BY <2>2, <2>3
<1>4. InOrder(c, t)
  <2> SUFFICES ASSUME NEW n \in 0 .. Len(s) + 1 PROVE Outcomes(c, t, n) <= Accepts(c, t, n)
    BY <1>1 DEF InOrder
  <2>1. CASE n = Len(s) + 1
    <3>1. Outcomes(c, t, n) \in Nat /\ Accepts(c, t, n) \in Nat
      BY <1>1, ReportTypes
    <3>2. Outcomes(c, t, n) + owes <= Accepts(c, t, n)
      BY <1>3, <2>1, Zenon
    <3> QED
      BY <3>1, <3>2
  <2>2. CASE n # Len(s) + 1
    <3>1. n \in 0 .. Len(s)
      BY <1>1, <2>2
    <3>2. Accepts(c, t, n) = Accepts(c, s, n) /\ Outcomes(c, t, n) = Outcomes(c, s, n)
      BY <3>1, WriteKeeps, Zenon
    <3>3. Outcomes(c, s, n) <= Accepts(c, s, n)
      BY <3>1, Zenon DEF InOrder
    <3> QED
      BY <3>2, <3>3
  <2> QED
    BY <2>1, <2>2
<1>5. Owing(c, t, owes)
  BY <1>1, <1>3, Zenon DEF Owing
<1> QED
  BY <1>4, <1>5, Zenon
\* Nothing is written or read, and no child starts to owe an outcome.
LEMMA NothingReported ==
  ASSUME PoolInv, Reported, UNCHANGED <<stats, mode>>,
         mode = "stats" /\ Bound' =>
           Bound /\ \A k \in Kids : kid'[k] \in Between => kid[k] \in Between
  PROVE  Reported'
<1>1. InOrder(counters', statspipe') /\ statspipe' = statspipe /\ counters' = counters
  BY Zenon DEF Reported, stats
<1>2. ASSUME mode' = "stats", Bound'
      PROVE  Owing(counters', statspipe', Cardinality(Reporting(kid')))
  <2>1. Reporting(kid') \in SUBSET Reporting(kid) /\ mode = "stats" /\ Bound
    BY <1>2 DEF Reporting
  <2>2. Cardinality(Reporting(kid')) <= Cardinality(Reporting(kid))
    BY <2>1, FinitelyMany, FS_Subset, Zenon
  <2>3. Owing(counters, statspipe, Cardinality(Reporting(kid)))
    BY <2>1 DEF Reported
  <2>4. /\ Cardinality(Reporting(kid)) \in Nat /\ Cardinality(Reporting(kid')) \in Nat
        /\ Outcomes(counters, statspipe, Len(statspipe)) \in Nat
        /\ Accepts(counters, statspipe, Len(statspipe)) \in Nat
    <3>1. Len(statspipe) \in Nat /\ counters \in [Event -> Nat]
      BY DEF PoolInv, TypeOK
    <3> QED
      BY <3>1, FinitelyMany, ReportTypes, Zenon
  <2>5. Owing(counters, statspipe, Cardinality(Reporting(kid')))
    BY <2>2, <2>3, <2>4 DEF Owing
  <2> QED
    BY <1>1, <2>5, Zenon
<1> QED
  BY <1>1, <1>2, Zenon DEF Reported

LEMMA EventWritten ==
  ASSUME PoolInv, Reported, UNCHANGED <<mode, pc>>, NEW k \in Kids, NEW e \in Event, StatsEvent(k, e),
         \A j \in Kids \ {k} : kid'[j] = kid[j],
         \/ e = "tcp_accept" /\ kid[k] \notin Between /\ kid'[k] \in Between
         \/ e \in Outcome /\ kid[k] \in Between /\ kid'[k] \notin Between
  PROVE  Reported'
<1> DEFINE owed == Cardinality(Reporting(kid))
           owes == Cardinality(Reporting(kid'))
<1>1. \/ e = "tcp_accept" /\ owes = owed + 1
      \/ e \in Outcome /\ owes = owed - 1
  BY ReportingUpdate
<1>2. owed \in Nat /\ owes \in Nat
  BY FinitelyMany, Zenon
<1>3. counters \in [Event -> Nat] /\ statspipe \in Seq(Event) /\ Bound' = Bound
  BY Zenon DEF PoolInv, TypeOK, Bound
<1>4. CASE mode = "stats" /\ Bound
  <2>1. statspipe' = Append(statspipe, e) /\ counters' = counters
    BY <1>4 DEF StatsEvent
  <2>2. Appended(statspipe, e, statspipe') /\ statspipe' \in Seq(Event)
    BY <1>3, <2>1 DEF Appended
  <2>3. InOrder(counters, statspipe) /\ Owing(counters, statspipe, owed)
    BY <1>4, Zenon DEF Reported
  <2> HIDE DEF owed, owes
  <2>4. InOrder(counters, statspipe') /\ Owing(counters, statspipe', owes)
    BY <1>1, <1>2, <1>3, <2>2, <2>3, WriteInOrder, Zenon
  <2> QED
    BY <2>1, <2>4, Zenon DEF Reported, owes
<1>5. CASE ~(mode = "stats" /\ Bound)
  BY <1>3, <1>5, NothingReported, Zenon DEF StatsEvent
<1> QED
  BY <1>4, <1>5, Zenon

\* The steps that touch neither pipe nor counters.
LEMMA QuietReports ==
  ASSUME PoolInv, Reported, [Next]_vars, UNCHANGED stats,
         ~Listen, \A k \in Kids : ~KidResult(k)
  PROVE  Reported'
<1>1. mode' = mode
  BY Zenon DEF Next, vars, options, ParentStep, StartDaemon, SavePid, Terminate, KillParent, Connect,
         KidAccept, KidAcceptFails, KidStep, KidEvent, KidServe, KidCompiled, KidResult, KidAlarm,
         KidSignalled, KidUnchanged, Detach, CatchSignals, SetMasterPid, CreateKids, CountKid,
         ReapKids, ReapMore, Collect, ListenStats, Select, NoforkAccept, NoforkServe,
         TerminateRemovePid, TerminateKill, ExitParent
<1> SUFFICES ASSUME mode = "stats", Bound'
             PROVE  Bound /\ \A k \in Kids : kid'[k] \in Between => kid[k] \in Between
  BY <1>1, NothingReported, Zenon
<1>2. kid \in [Kids -> KidState] /\ "free" \notin Between /\ "zombie" \notin Between
      /\ "accept" \notin Between /\ "event" \notin Between
  BY Zenon DEF PoolInv, TypeOK, KidState, Between
<1>3. ASSUME NEW how \in Dead, ParentGone(how) PROVE FALSE
  BY <1>3 DEF ParentGone, Bound, Dead
<1>4. ASSUME UNCHANGED <<kid, pc>> PROVE Bound /\ \A k \in Kids : kid'[k] \in Between => kid[k] \in Between
  BY <1>4, Zenon DEF Bound
<1>5. ASSUME NEW k \in Kids, KidGone(k), UNCHANGED pc
      PROVE  Bound /\ \A j \in Kids : kid'[j] \in Between => kid[j] \in Between
  BY <1>2, <1>5 DEF KidGone, Bound
<1>6. ASSUME NEW k \in Kids, NEW v \in KidState, kid' = [kid EXCEPT ![k] = v], UNCHANGED pc,
             v \in Between => kid[k] \in Between
      PROVE  Bound /\ \A j \in Kids : kid'[j] \in Between => kid[j] \in Between
  BY <1>2, <1>6, Zenon DEF Bound
<1>7. ASSUME NEW k \in Kids, KidMove(k)
      PROVE  Bound /\ \A j \in Kids : kid'[j] \in Between => kid[j] \in Between
  <2>1. UNCHANGED pc
    BY <1>7, KidFrame DEF KidUnchanged
  <2>2. CASE KidGone(k)
    BY <1>5, <2>1, <2>2
  <2>3. CASE KidAccept(k)
    BY <1>2, <1>6, <2>1, <2>3, Zenon DEF KidAccept, KidState, LiveKid, InJob
  <2>4. CASE KidServe(k) /\ ~KidGone(k)
    BY <1>2, <1>6, <2>1, <2>4 DEF KidServe, NextRequest, KidState, LiveKid, InJob, Between
  <2>5. CASE KidCompiled(k)
    BY <1>6, <2>1, <2>5, Zenon DEF KidCompiled, KidState, LiveKid, InJob, Between
  <2>6. CASE KidEvent(k) /\ ~KidGone(k)
    <3>1. StatsEvent(k, "tcp_accept")
      BY <2>6 DEF KidEvent
    <3>2. Bound
      BY <2>1, Zenon DEF Bound
    <3>3. statspipe' = Append(statspipe, "tcp_accept") /\ statspipe' = statspipe
      BY <3>1, <3>2 DEF StatsEvent, stats
    <3>4. Len(statspipe') = Len(statspipe) + 1 /\ Len(statspipe) \in Nat
      BY <3>3 DEF PoolInv, TypeOK, Event
    <3> QED
      BY <3>3, <3>4
  <2> QED
    BY <1>7, <2>2, <2>3, <2>4, <2>5, <2>6, Zenon DEF KidMove, KidAcceptFails, KidStep, KidAlarm, KidSignalled
<1>8. ASSUME ~\E how \in Dead : ParentGone(how),
             StartDaemon \/ ParentStep \/ SavePid \/ Terminate \/ KillParent \/ Connect
      PROVE  Bound /\ \A j \in Kids : kid'[j] \in Between => kid[j] \in Between
  <2>1. Bound
    <3>1. ~ParentGone("down") /\ ~ParentGone("terminated") /\ ~ExitParent
      BY <1>8, Zenon DEF Dead, ExitParent
    <3>2. CASE StartDaemon \/ SavePid \/ Terminate \/ KillParent \/ Connect
      BY <3>1, <3>2, Zenon DEF Bound, Dead, StartDaemon, SavePid, Terminate, KillParent, Connect, Goto,
                         Starting, Loop
    <3>3. CASE ParentStep
      BY <3>1, <3>3, Zenon
         DEF Bound, Dead, ParentStep, Detach, CatchSignals, SetMasterPid, CreateKids, CountKid,
             ReapKids, ReapMore, ListenStats, Select, NoforkAccept, NoforkServe,
             TerminateRemovePid, TerminateKill, Goto
    <3> QED
      BY <1>8, <3>2, <3>3
  <2>2. \/ UNCHANGED kid
        \/ \E k \in Kids : kid' = [kid EXCEPT ![k] = "free"]
        \/ \E k \in Kids : kid' = [kid EXCEPT ![k] = "accept"]
    BY <1>8, FreePidIsFree, Zenon
       DEF Dead, StartDaemon, ParentStep, SavePid, Terminate, KillParent, Connect,
           Detach, CatchSignals, SetMasterPid, CreateKids, CountKid, ReapKids, ReapMore, Collect,
           ListenStats, Select, NoforkAccept, NoforkServe, TerminateRemovePid, TerminateKill,
           ExitParent, kids
  <2> QED
    BY <1>2, <2>1, <2>2, Zenon
<1> QED
  BY <1>3, <1>4, <1>7, <1>8 DEF Next, KidMove, vars, kids

LEMMA ReportedInit == Init => Reported
<1> SUFFICES ASSUME Init PROVE Reported
  BY Zenon
<1>1. statspipe = <<>> /\ counters = [e \in Event |-> 0] /\ ~Bound
  BY Zenon DEF Init, Bound, Dead
<1>2. Outcomes(counters, statspipe, 0) = 0 /\ Accepts(counters, statspipe, 0) = 0
  BY <1>1, CountNone DEF Outcomes, Accepts, Event, Outcome
<1>3. 0 .. Len(statspipe) = {0}
  BY <1>1
<1> QED
  BY <1>1, <1>2, <1>3 DEF Reported, InOrder

LEMMA ReportedStep == PoolInv /\ Reported /\ [Next]_vars => Reported'
<1> SUFFICES ASSUME PoolInv, Reported, [Next]_vars PROVE Reported'
  OBVIOUS
<1>1. CASE Listen
  <2>1. CASE PortTaken
    BY <1>1, <2>1, NothingReported, Zenon DEF Listen, Bound, Dead, Goto, options
  <2>2. CASE ~PortTaken
    <3>1. statspipe' = <<>> /\ counters' = [e \in Event |-> 0] /\ kid' = kid
      BY <1>1, <2>2 DEF Listen, kids
    <3>2. Outcomes(counters', statspipe', 0) = 0 /\ Accepts(counters', statspipe', 0) = 0
      BY <3>1, CountNone DEF Outcomes, Accepts, Event, Outcome
    <3>3. Reporting(kid') = {}
      BY <1>1, <2>2, <3>1, Zenon DEF PortTaken, Live, LiveKid, InJob, Reporting, Between
    <3>4. Cardinality(Reporting(kid')) = 0
      BY <3>3, FS_EmptySet, Zenon
    <3>5. 0 .. Len(statspipe') = {0} /\ Len(statspipe') = 0
      BY <3>1
    <3> QED
      BY <3>2, <3>4, <3>5 DEF Reported, InOrder, Owing
  <2> QED
    BY <2>1, <2>2
<1>2. CASE Select
  <2>1. CASE statspipe # <<>> /\ statspipe' = Tail(statspipe)
                /\ counters' = [counters EXCEPT ![Head(statspipe)] = @ + 1]
    <3>1. statspipe \in Seq(Event) /\ counters \in [Event -> Nat]
      BY Zenon DEF PoolInv, TypeOK
    <3>2. Counts(counters, Head(statspipe), counters')
      BY <2>1, <3>1 DEF Counts
    <3>3. mode' = mode /\ kid' = kid /\ Bound
      BY <1>2, Zenon DEF Select, options, kids, Bound, Dead
    <3>4. mode = "stats" => Owing(counters, statspipe, Cardinality(Reporting(kid)))
      BY <3>3, Zenon DEF Reported
    <3>5. InOrder(counters, statspipe)
      BY DEF Reported
    <3>6. /\ InOrder(counters', Tail(statspipe))
          /\ Owing(counters, statspipe, Cardinality(Reporting(kid)))
               => Owing(counters', Tail(statspipe), Cardinality(Reporting(kid)))
      BY <2>1, <3>1, <3>2, <3>5, ReadKeeps, Zenon
    <3> QED
      BY <2>1, <3>3, <3>4, <3>6, Zenon DEF Reported
  <2>2. CASE UNCHANGED stats
    BY <1>2, <2>2, QuietReports, Zenon DEF Select, Listen, KidResult, KidUnchanged, Goto
  <2> QED
    BY <1>2, <2>1, <2>2, Zenon DEF Select
<1>3. ASSUME NEW k \in Kids, KidEvent(k) PROVE Reported'
  <2>1. CASE KidGone(k) /\ UNCHANGED stats
    BY <1>3, <2>1, NothingReported, Zenon DEF KidEvent, KidUnchanged, KidGone, Bound, options, Between,
       PoolInv, TypeOK
  <2>2. CASE StatsEvent(k, "tcp_accept") /\ kid' = [kid EXCEPT ![k] = "serving"]
    <3>1. /\ kid[k] \notin Between /\ kid'[k] \in Between /\ \A j \in Kids \ {k} : kid'[j] = kid[j]
          /\ "tcp_accept" \in Event
      BY <1>3, <2>2 DEF KidEvent, PoolInv, TypeOK, Between, Event
    <3>2. UNCHANGED <<mode, pc>>
      BY <1>3 DEF KidEvent, KidUnchanged, options
    <3> QED
      BY <2>2, <3>1, <3>2, EventWritten, Zenon
  <2> QED
    BY <1>3, <2>1, <2>2 DEF KidEvent
<1>4. ASSUME NEW k \in Kids, KidResult(k) PROVE Reported'
  <2>1. PICK e \in Outcome : StatsEvent(k, e)
    BY <1>4 DEF KidResult
  <2>2. kid[k] \in Between /\ kid'[k] \notin Between /\ \A j \in Kids \ {k} : kid'[j] = kid[j]
    BY <1>4 DEF KidResult, NextRequest, KidGone, PoolInv, TypeOK, Between
  <2>3. UNCHANGED <<mode, pc>> /\ e \in Event
    BY <1>4, Zenon DEF KidResult, KidUnchanged, options, Event
  <2> QED
    BY <2>1, <2>2, <2>3, EventWritten, Zenon
<1>5. CASE UNCHANGED stats /\ ~Listen /\ \A k \in Kids : ~KidResult(k)
  BY <1>5, QuietReports
<1> QED
  BY <1>1, <1>2, <1>3, <1>4, <1>5, Zenon
     DEF Next, vars, ParentStep, KidStep, StartDaemon, Detach, SavePid, CatchSignals, SetMasterPid,
         CreateKids, CountKid, ReapKids, ReapMore, Collect, ListenStats, NoforkAccept, NoforkServe,
         Terminate, TerminateRemovePid, TerminateKill, KillParent, Connect, KidAccept,
         KidAcceptFails, KidServe, KidCompiled, KidAlarm, KidSignalled, ExitParent

-----------------------------------------------------------------------------
(* Theorems.                                                               *)

\* No more outcomes than connections are counted: the pipe's first point.
LEMMA ReportedImplies == TypeOK /\ Reported => OutcomesWithinAccepts
<1> SUFFICES ASSUME TypeOK, Reported PROVE OutcomesWithinAccepts
  BY Zenon
<1>1. 0 \in 0 .. Len(statspipe)
  BY DEF TypeOK
<1>2. Outcomes(counters, statspipe, 0) <= Accepts(counters, statspipe, 0)
  BY <1>1, Zenon DEF Reported, InOrder
<1>3. counters["tcp_accept"] \in Nat /\ counters["compile_ok"] \in Nat /\ counters["other"] \in Nat
  BY Zenon DEF TypeOK, Event, Outcome
<1> QED
  BY <1>2, <1>3, CountNone DEF OutcomesWithinAccepts, Outcomes, Accepts

\* No more children live than exist.
LEMMA CountedImplies == PoolInv => KidsCounted /\ JobsWithinLimit
<1> SUFFICES ASSUME PoolInv PROVE KidsCounted /\ JobsWithinLimit
  BY Zenon
<1>1. KidsCounted
  BY Zenon DEF PoolInv, Counted, KidsCounted, Existing
<1>2. {k \in Kids : Live(k)} \in SUBSET Existing(kid)
  BY Zenon DEF Live, LiveKid, InJob, Existing
<1>3. /\ Cardinality({k \in Kids : Live(k)}) <= Cardinality(Existing(kid))
      /\ IsFiniteSet({k \in Kids : Live(k)})
  BY <1>2, FinitelyMany, FS_Subset
<1>4. Cardinality({k \in Kids : Live(k)}) \in Nat /\ Cardinality(Existing(kid)) \in Nat
  BY <1>3, FinitelyMany, FS_CardinalityType
<1> QED
  BY <1>1, <1>3, <1>4, DaemonAssumption DEF PoolInv, Counted, JobsWithinLimit

(***************************************************************************)
(* The pool of preforked children is sound whatever the number of jobs,    *)
(* the lifetime of a child and the capacity of the pipe: dcc_nkids counts  *)
(* the children, crashes and restarts of the daemon never let more of them *)
(* serve than --jobs allows, and the statistics never show more outcomes   *)
(* than connections (prefork.c, dparent.c, stats.c).                       *)
(***************************************************************************)
THEOREM PoolSound == Spec => []PoolIsSound
<1>1. Init => PoolInv /\ Reported
  BY PoolInit, ReportedInit
<1>2. PoolInv /\ Reported /\ [Next]_vars => (PoolInv /\ Reported)'
  BY PoolStep, ReportedStep, Zenon
<1>3. PoolInv /\ Reported => PoolIsSound
  BY ReportedImplies, CountedImplies, Zenon DEF PoolIsSound, PoolInv
<1> QED
  BY <1>1, <1>2, <1>3, PTL DEF Spec

\* The pid file is right from the moment the launcher has written it; a start
\* that is under way has no launcher yet.
PidInv ==
  /\ launcher => pc \notin {"listen", "detach"}
  /\ detach /\ pc \in {"catch", "master"} \cup Loop /\ ~launcher => pid_file = gen

(***************************************************************************)
(* A detached daemon in its main loop has its pid in the pid file, for     *)
(* every interleaving of the launcher, the daemon, its children and the    *)
(* signals that end them (dparent.c:dcc_detach(), dcc_save_pid(),          *)
(* dcc_remove_pid()).                                                      *)
(***************************************************************************)
THEOREM PidFileRight == Spec => []PidFileWhileServing
<1> USE DEF Dead, Starting, Loop, Goto
<1>1. Init => PidInv
  BY DEF Init, PidInv
<1>2. PidInv /\ [Next]_vars => PidInv'
  <2> SUFFICES ASSUME PidInv, [Next]_vars PROVE PidInv'
    BY Zenon
  <2> USE DEF PidInv, AtExit, options, pid
  <2>1. ASSUME NEW how \in Dead, ParentGone(how) PROVE PidInv'
    BY <2>1 DEF ParentGone
  <2>2. CASE StartDaemon \/ Listen \/ Detach
    BY <2>1, <2>2 DEF StartDaemon, Alive, Listen, Detach, ExitParent
  <2>8. CASE SavePid \/ CatchSignals \/ SetMasterPid
    BY <2>1, <2>8 DEF SavePid, CatchSignals, SetMasterPid, ExitParent
  <2>3. CASE CreateKids \/ CountKid \/ ReapKids \/ ReapMore
    BY <2>1, <2>3 DEF CreateKids, CountKid, ReapKids, ReapMore, Collect, ExitParent
  <2>4. CASE ListenStats \/ Select \/ NoforkAccept \/ NoforkServe \/ Connect
    BY <2>1, <2>4 DEF ListenStats, Select, NoforkAccept, NoforkServe, Connect, ExitParent
  <2>5. CASE Terminate \/ TerminateRemovePid \/ TerminateKill \/ KillParent
    BY <2>1, <2>5, Zenon DEF Terminate, TerminateRemovePid, TerminateKill, KillParent
  <2>6. ASSUME NEW k \in Kids, KidMove(k) PROVE PidInv'
    BY <2>6, KidFrame DEF KidUnchanged
  <2>7. CASE UNCHANGED vars
    BY <2>7, Zenon DEF vars
  <2> QED
    BY <2>2, <2>3, <2>4, <2>5, <2>6, <2>7, <2>8, Zenon DEF Next, ParentStep, KidMove
<1>3. PidInv => PidFileWhileServing
  BY Zenon DEF PidInv, PidFileWhileServing
<1> QED
  BY <1>1, <1>2, <1>3, PTL DEF Spec
=============================================================================
