-------------------------- MODULE DiscoveryProofs --------------------------
(***************************************************************************)
(* Proofs about how servers are found: a server stays announced while it   *)
(* and Avahi run (Register), and the list of hosts a client's daemon keeps *)
(* is whole and current (Zeroconf), for any number of servers and daemons. *)
(***************************************************************************)
EXTENDS Register, Zeroconf, FiniteSetTheorems, TLAPS

(***************************************************************************)
(* Register                                                                *)
(***************************************************************************)
(* What the announcement's invariant rests on: the shapes of the state. *)
AnnouncementInv ==
  /\ client \in Nat
  /\ group \in [of : Nat, records : {"none", "empty", "committed"}]
  /\ group.records = "none" => group = NoGroup
  /\ RunningIsAnnounced

LEMMA AnnouncementStep == AnnouncementInv /\ [RegisterNext]_registerVars => AnnouncementInv'
<1> SUFFICES ASSUME AnnouncementInv, [RegisterNext]_registerVars PROVE AnnouncementInv'
  BY Zenon
<1> USE DEF AnnouncementInv, RunningIsAnnounced, NoGroup, Quit
<1>1. CASE ClientRunning
  BY <1>1 DEF ClientRunning, RegisterStuff
<1>2. CASE ClientRegistering
  BY <1>2, Zenon DEF ClientRegistering
<1>3. CASE ClientDisconnected
  BY <1>3 DEF ClientDisconnected
<1>4. CASE ClientFailed \/ PublishFailed
  BY <1>4, Zenon DEF ClientFailed, PublishFailed
<1>5. CASE PublishCollision
  BY <1>5, Zenon DEF PublishCollision
<1>6. CASE Unregister
  BY <1>6, Zenon DEF Unregister
<1>7. CASE UNCHANGED registerVars
  BY <1>7, Zenon DEF registerVars
<1> QED
  BY <1>1, <1>2, <1>3, <1>4, <1>5, <1>6, <1>7, Zenon DEF RegisterNext

(* zeroconf-reg.c: as long as the thread runs and Avahi does, the service is
   announced, through the connection that is open, after any number of
   collisions and restarts of Avahi. *)
THEOREM AnnouncedWhileRunning == RegisterSpec => []RunningIsAnnounced
<1>1. RegisterInit => AnnouncementInv
  BY DEF RegisterInit, AnnouncementInv, RunningIsAnnounced, NoGroup
<1>2. AnnouncementInv => RunningIsAnnounced
  BY Zenon DEF AnnouncementInv
<1> QED
  BY <1>1, <1>2, AnnouncementStep, PTL DEF RegisterSpec

(***************************************************************************)
(* Zeroconf                                                                *)
(***************************************************************************)
(* The places are numbered without gaps: for each number up to how many there are,
   one place has that many places up to itself. *)
LEMMA PlaceOfRank ==
  ASSUME NEW n \in Nat, NEW places \in SUBSET (1 .. n),
         NEW k \in 1 .. Cardinality(places)
  PROVE  \E i \in places : Cardinality({j \in places : j <= i}) = k
<1> DEFINE below(i) == {j \in places : j <= i}
           c == Cardinality(places)
           rank == [i \in places |-> Cardinality(below(i))]
<1>1. IsFiniteSet(places) /\ c \in Nat
  <2>1. IsFiniteSet(1 .. n)
    BY FS_Interval
  <2> QED
    BY <2>1, FS_Subset, FS_CardinalityType, Zenon
<1>2. ASSUME NEW i \in places PROVE IsFiniteSet(below(i)) /\ rank[i] \in 1 .. c
  <2>1. below(i) \in SUBSET places
    BY Zenon
  <2>2. IsFiniteSet(below(i)) /\ Cardinality(below(i)) <= c
    BY <1>1, <2>1, FS_Subset, Zenon
  <2>3. Cardinality(below(i)) \in Nat
    BY <2>2, FS_CardinalityType, Zenon
  <2>4. below(i) # {}
    OBVIOUS
  <2>5. Cardinality(below(i)) # 0
    BY <2>2, <2>4, FS_EmptySet, Zenon
  <2>6. rank[i] = Cardinality(below(i))
    BY Zenon
  <2> HIDE DEF rank, c, below
  <2> QED
    BY <1>1, <2>2, <2>3, <2>5, <2>6
<1>3. ASSUME NEW i \in places, NEW j \in places, i # j PROVE rank[i] # rank[j]
  <2>1. ASSUME NEW a \in places, NEW b \in places, a < b PROVE Cardinality(below(a)) # Cardinality(below(b))
    <3>0. \A x \in places : x \in Nat
      OBVIOUS
    <3>1. below(a) \in SUBSET below(b)
      <4>1. ASSUME NEW x \in below(a) PROVE x \in below(b)
        <5>1. x \in places /\ x <= a
          BY Zenon
        <5>2. x \in Nat /\ a \in Nat /\ b \in Nat
          BY <3>0, <5>1, Zenon
        <5>3. x <= b
          BY <2>1, <5>1, <5>2
        <5> QED
          BY <5>1, <5>3, Zenon
      <4> QED
        BY <4>1, Zenon
    <3>2. b \in below(b) /\ b \notin below(a)
      BY <2>1
    <3>3. below(a) # below(b)
      BY <3>2, Zenon
    <3> HIDE DEF below
    <3> QED
      BY <1>2, <3>1, <3>3, FS_Subset, Zenon
  <2>2. i < j \/ j < i
    BY <1>3
  <2>3. rank[i] = Cardinality(below(i)) /\ rank[j] = Cardinality(below(j))
    BY Zenon
  <2> HIDE DEF rank, below
  <2> QED
    BY <2>1, <2>2, <2>3, Zenon
<1>4. SUFFICES ASSUME \A i \in places : rank[i] # k PROVE FALSE
  BY Zenon
<1> DEFINE others == (1 .. c) \ {k}
<1>5. rank \in [places -> others]
  BY <1>2, <1>4, Zenon
<1>6. IsFiniteSet(others) /\ Cardinality(others) < c
  <2>1. IsFiniteSet(1 .. c) /\ Cardinality(1 .. c) = c
    BY <1>1, FS_Interval
  <2>2. IsFiniteSet(others) /\ Cardinality(others) = Cardinality(1 .. c) - 1
    BY <2>1, FS_RemoveElement, Zenon
  <2> QED
    BY <1>1, <2>1, <2>2
<1>7. \E i, j \in places : i # j /\ rank[i] = rank[j]
  <2> HIDE DEF rank, others, c
  <2>1. Cardinality(places) = c
    BY Zenon DEF c
  <2> QED
    BY <1>1, <1>5, <1>6, <2>1, FS_PigeonHole, Zenon
<1> HIDE DEF rank
<1> QED
  BY <1>3, <1>7, Zenon

(* Only() takes every entry from a place of its own. *)
LEMMA OnlyPicks ==
  ASSUME NEW n \in Nat, NEW places \in SUBSET (1 .. n)
  PROVE  /\ Cardinality(places) \in Nat
         /\ \A k \in 1 .. Cardinality(places) : Nth(places, k) \in places
         /\ \A k, m \in 1 .. Cardinality(places) : k # m => Nth(places, k) # Nth(places, m)
<1> DEFINE c == Cardinality(places)
           rank(i) == Cardinality({j \in places : j <= i})
<1>1. IsFiniteSet(places) /\ c \in Nat
  <2>1. IsFiniteSet(1 .. n)
    BY FS_Interval
  <2> QED
    BY <2>1, FS_Subset, FS_CardinalityType, Zenon
<1>2. ASSUME NEW k \in 1 .. c PROVE Nth(places, k) \in places /\ rank(Nth(places, k)) = k
  <2>1. \E i \in places : rank(i) = k
    BY PlaceOfRank, Zenon
  <2>2. Nth(places, k) = CHOOSE i \in places : rank(i) = k
    BY Zenon DEF Nth
  <2> HIDE DEF rank
  <2> QED
    BY <2>1, <2>2, Zenon
<1> HIDE DEF rank
<1> QED
  BY <1>1, <1>2, Zenon

Entry == [ad : Announcements, resolving : BOOLEAN, freed : BOOLEAN]
ListedOnce(l) == \A i, j \in DOMAIN l : i # j => l[i].ad # l[j].ad
ServicesOnce(l) == \A i, j \in DOMAIN l : i # j => l[i].ad[1] # l[j].ad[1]
From(l, S) == \A i \in DOMAIN l : l[i].ad \in S

(* The lock file tells who serves; a daemon lists each announcement once, and only
   what it has been told; and while it writes, each service once. *)
ZcInv ==
  /\ asker \in [Askers -> {"start", "fork", "open", "failed", "lock", "read", "done"}]
  /\ browser \in [Askers -> {"none", "lock", "gone"} \cup Serving]
  /\ zhosts \in [Askers -> Seq(Entry)]
  /\ told \in [Askers -> SUBSET Announcements]
  /\ announced \in SUBSET Announcements
  /\ \A c \in Askers :
       /\ asker[c] = "read" => c \in readers /\ \A d \in Askers : ~Writing(d)
       /\ asker[c] = "fork" <=> lock = <<"client", c>>
       /\ browser[c] \in Serving <=> lock = <<"daemon", c>>
       /\ From(zhosts[c], told[c]) /\ ListedOnce(zhosts[c])
       /\ Writing(c) => ServicesOnce(zhosts[c])
  /\ ListIsCurrent

LEMMA OnlyKeeps ==
  ASSUME NEW l \in Seq(Entry), ListedOnce(l), NEW places \in SUBSET DOMAIN l,
         NEW S, \A i \in places : l[i].ad \in S
  PROVE  /\ Only(l, places) \in Seq(Entry)
         /\ ListedOnce(Only(l, places)) /\ From(Only(l, places), S)
         /\ (\A i, j \in places : i # j => l[i].ad[1] # l[j].ad[1]) => ServicesOnce(Only(l, places))
<1> DEFINE o == Only(l, places)
           c == Cardinality(places)
           f(k) == Nth(places, k)
<1>1. Len(l) \in Nat /\ DOMAIN l = 1 .. Len(l) /\ \A i \in DOMAIN l : l[i] \in Entry
  OBVIOUS
<1>2. /\ c \in Nat /\ \A k \in 1 .. c : f(k) \in places
      /\ \A k, m \in 1 .. c : k # m => f(k) # f(m)
  BY <1>1, OnlyPicks, Zenon
<1>3. o = [k \in 1 .. c |-> l[f(k)]]
  BY Zenon DEF Only
<1> HIDE DEF f, o, c
<1>4. o \in Seq(Entry)
  <2>1. \A k \in 1 .. c : l[f(k)] \in Entry
    BY <1>1, <1>2, Zenon
  <2>2. o \in [1 .. c -> Entry]
    BY <1>3, <2>1, Zenon
  <2> QED
    BY <1>2, <2>2
<1>5. DOMAIN o = 1 .. c /\ \A k \in 1 .. c : o[k] = l[f(k)]
  BY <1>3, Zenon
<1>6. ListedOnce(o) /\ From(o, S)
  BY <1>2, <1>5, SMTT(30) DEF ListedOnce, From
<1>7. (\A i, j \in places : i # j => l[i].ad[1] # l[j].ad[1]) => ServicesOnce(o)
  BY <1>2, <1>5 DEF ServicesOnce
<1> QED
  BY <1>4, <1>6, <1>7, Zenon DEF o

(* remove_duplicate_services() leaves one entry of each service. *)
LEMMA DeduplicatedIsRight ==
  ASSUME NEW l \in Seq(Entry), ListedOnce(l), NEW S, From(l, S)
  PROVE  /\ Deduplicated(l) \in Seq(Entry) /\ From(Deduplicated(l), S)
         /\ ListedOnce(Deduplicated(l)) /\ ServicesOnce(Deduplicated(l))
<1> DEFINE places == {i \in DOMAIN l : \A j \in 1 .. i - 1 : l[j].ad[1] # l[i].ad[1]}
<1>1. places \in SUBSET DOMAIN l /\ \A i \in places : l[i].ad \in S
  BY Zenon DEF From
<1>2. ASSUME NEW i \in places, NEW j \in places, i # j PROVE l[i].ad[1] # l[j].ad[1]
  <2>1. i \in Nat \ {0} /\ j \in Nat \ {0}
    OBVIOUS
  <2>2. i \in 1 .. j - 1 \/ j \in 1 .. i - 1
    BY <1>2, <2>1
  <2> QED
    BY <2>2, Zenon
<1>3. Deduplicated(l) = Only(l, places)
  BY Zenon DEF Deduplicated
<1> HIDE DEF places
<1> QED
  BY <1>1, <1>2, <1>3, OnlyKeeps, Zenon

(* remove_service() takes an announcement out of the list. *)
LEMMA WithoutIsRight ==
  ASSUME NEW l \in Seq(Entry), ListedOnce(l), NEW S, From(l, S), NEW a
  PROVE  /\ Without(l, a) \in Seq(Entry) /\ From(Without(l, a), S \ {a})
         /\ ListedOnce(Without(l, a))
<1> DEFINE places == {i \in DOMAIN l : l[i].ad = a => \E j \in 1 .. i - 1 : l[j].ad = a}
<1>1. places \in SUBSET DOMAIN l
  BY Zenon
<1>2. ASSUME NEW i \in places PROVE l[i].ad \in S \ {a}
  <2>1. l[i].ad \in S /\ i \in 1 .. Len(l) /\ Len(l) \in Nat /\ DOMAIN l = 1 .. Len(l)
    BY DEF From
  <2>2. ASSUME NEW j \in 1 .. i - 1 PROVE l[j].ad # l[i].ad
    <3>1. j \in DOMAIN l /\ j # i
      BY <2>1
    <3> QED
      BY <2>1, <3>1, Zenon DEF ListedOnce
  <2> QED
    BY <2>1, <2>2, Zenon
<1>3. Without(l, a) = Only(l, places)
  BY Zenon DEF Without
<1> HIDE DEF places
<1> QED
  BY <1>1, <1>2, <1>3, OnlyKeeps, Zenon

(* A mark on an entry changes nothing of this. *)
LEMMA MarkedKeeps ==
  ASSUME NEW l \in Seq(Entry), ListedOnce(l), NEW S, From(l, S),
         NEW i \in DOMAIN l, NEW e \in Entry, e.ad = l[i].ad
  PROVE  /\ [l EXCEPT ![i] = e] \in Seq(Entry) /\ From([l EXCEPT ![i] = e], S)
         /\ ListedOnce([l EXCEPT ![i] = e])
<1> DEFINE m == [l EXCEPT ![i] = e]
<1>1. m \in Seq(Entry) /\ DOMAIN m = DOMAIN l
  OBVIOUS
<1>2. \A j \in DOMAIN l : m[j].ad = l[j].ad
  BY Zenon
<1> HIDE DEF m
<1>3. From(m, S) /\ ListedOnce(m)
  BY <1>1, <1>2, Zenon DEF From, ListedOnce
<1> QED
  BY <1>1, <1>3, Zenon DEF m

LEMMA EmptyList == <<>> \in Seq(Entry) /\ ListedOnce(<<>>) /\ \A S : From(<<>>, S)
BY DEF ListedOnce, From

(* write_hosts(), of the list a callback has made, with what the daemon then knows *)
LEMMA WriteHostsKeeps ==
  ASSUME ZcInv, NEW d \in Askers, browser[d] \in {"clear", "browse"},
         NEW T \in SUBSET Announcements, told' = [told EXCEPT ![d] = T],
         NEW l \in Seq(Entry), ListedOnce(l), From(l, T), From(zhosts[d], told[d]),
         WriteHosts(d, l), UNCHANGED <<announced, asker, readers>>
  PROVE  ZcInv'
<1>1. PICK b \in {"gone", "write"}, m \in Seq(Entry) :
        /\ browser' = [browser EXCEPT ![d] = b] /\ zhosts' = [zhosts EXCEPT ![d] = m]
        /\ lock' = IF b = "gone" THEN <<"nobody">> ELSE lock
        /\ b = "write" => readers = {} /\ ServicesOnce(m)
        /\ ListedOnce(m) /\ From(m, T)
  <2>1. CASE Crash(d)
    BY <2>1, EmptyList, Zenon DEF Crash, Nobody
  <2>2. CASE ~Crash(d)
    BY <2>2, DeduplicatedIsRight, Zenon DEF WriteHosts
  <2> QED
    BY <2>1, <2>2, Zenon
<1>2. \A c \in Askers \ {d} : browser[c] \notin Serving
  BY DEF ZcInv, Serving
<1>3. /\ browser' \in [Askers -> {"none", "lock", "gone"} \cup Serving]
      /\ zhosts' \in [Askers -> Seq(Entry)] /\ told' \in [Askers -> SUBSET Announcements]
  BY <1>1, Zenon DEF ZcInv, Serving
<1>4. ASSUME NEW c \in Askers
      PROVE  /\ asker'[c] = "read" => c \in readers' /\ \A e \in Askers : ~Writing(e)'
             /\ asker'[c] = "fork" <=> lock' = <<"client", c>>
             /\ browser'[c] \in Serving <=> lock' = <<"daemon", c>>
  <2>1. asker'[c] = "read" => c \in readers' /\ \A e \in Askers : ~Writing(e)'
    BY <1>1, Zenon DEF ZcInv, Writing
  <2>2. (asker'[c] = "fork" <=> lock' = <<"client", c>>)
    BY <1>1 DEF ZcInv, Serving
  <2>3. (browser'[c] \in Serving <=> lock' = <<"daemon", c>>)
    BY <1>1, <1>2, Zenon DEF ZcInv, Serving
  <2> QED
    BY <2>1, <2>2, <2>3, Zenon
<1>5. ASSUME NEW c \in Askers
      PROVE  /\ From(zhosts'[c], told'[c]) /\ ListedOnce(zhosts'[c])
             /\ Writing(c)' => ServicesOnce(zhosts'[c])
  <2>1. CASE c = d
    BY <1>1, <2>1, Zenon DEF ZcInv, Writing
  <2>2. CASE c # d
    BY <1>1, <2>2, Zenon DEF ZcInv, Writing
  <2> QED
    BY <2>1, <2>2, Zenon
<1>6. ListIsCurrent'
  BY <1>1, <1>2, Zenon DEF ListIsCurrent, Serving, ZcInv
<1> QED
  BY <1>3, <1>4, <1>5, <1>6, Zenon DEF ZcInv
LEMMA ZcStep == ZcInv /\ [ZcNext]_zcVars => ZcInv'
<1> SUFFICES ASSUME ZcInv, [ZcNext]_zcVars PROVE ZcInv'
  BY Zenon
<1>t. ASSUME NEW c \in Askers PROVE From(zhosts[c], told[c]) /\ zhosts[c] \in Seq(Entry) /\ ListedOnce(zhosts[c])
  BY Zenon DEF ZcInv
<1>1. CASE NetworkChanges
  BY <1>1 DEF NetworkChanges, ZcInv, ListIsCurrent, Writing
<1>2. ASSUME NEW c \in Askers, TryLock(c) PROVE ZcInv'
  <2>1. CASE lock = Nobody
    BY <1>2, <2>1, SMTT(30) DEF TryLock, ZcInv, ListIsCurrent, Writing, Nobody, Serving
  <2>2. CASE lock # Nobody
    <3>1. /\ asker[c] = "start" /\ asker' = [asker EXCEPT ![c] = "open"]
          /\ UNCHANGED <<announced, changes, browser, told, zhosts, lock, listing, readers, broken>>
      BY <1>2, <2>2, Zenon DEF TryLock
    <3>2. \A e \in Askers : /\ (asker'[e] = "read" <=> asker[e] = "read")
                            /\ (asker'[e] = "fork" <=> asker[e] = "fork")
      BY <3>1, Zenon DEF ZcInv
    <3>3. asker' \in [Askers -> {"start", "fork", "open", "failed", "lock", "read", "done"}]
      BY <3>1, Zenon DEF ZcInv
    <3>4. ListIsCurrent'
      BY <3>1, Zenon DEF ListIsCurrent, ZcInv
    <3> QED
      BY <3>1, <3>2, <3>3, <3>4, Zenon DEF ZcInv, Writing
  <2> QED
    BY <2>1, <2>2, Zenon
<1>3. ASSUME NEW c \in Askers, ForkDaemon(c) PROVE ZcInv'
  BY <1>3 DEF ForkDaemon, ZcInv, ListIsCurrent, Writing, Nobody, Serving
<1>4. ASSUME NEW c \in Askers, OpenListing(c) PROVE ZcInv'
  BY <1>4 DEF OpenListing, ZcInv, ListIsCurrent, Writing
<1>5. ASSUME NEW c \in Askers, ReadLock(c) PROVE ZcInv'
  BY <1>5 DEF ReadLock, ZcInv, ListIsCurrent, Writing
<1>6. ASSUME NEW c \in Askers, ReadListing(c) PROVE ZcInv'
  BY <1>6 DEF ReadListing, ZcInv, ListIsCurrent, Writing
<1>7. ASSUME NEW d \in Askers, DaemonLock(d) PROVE ZcInv'
  <2>1. CASE lock = Nobody
    <3>1. /\ browser[d] = "lock" /\ browser' = [browser EXCEPT ![d] = "clear"]
          /\ lock' = <<"daemon", d>> /\ lock = <<"nobody">>
          /\ UNCHANGED <<announced, changes, asker, told, zhosts, listing, readers, broken>>
      BY <1>7, <2>1, Zenon DEF DaemonLock, Nobody
    <3>2. \A c \in Askers : asker[c] # "fork" /\ browser[c] \notin Serving
      BY <3>1, Zenon DEF ZcInv
    <3>3. \A c \in Askers : /\ asker'[c] = "fork" <=> lock' = <<"client", c>>
                            /\ browser'[c] \in Serving <=> lock' = <<"daemon", c>>
      BY <3>1, <3>2, Zenon DEF ZcInv, Serving
    <3>4. \A c \in Askers : (Writing(c) <=> Writing(c)') /\ (browser'[c] = "browse" => browser[c] = "browse")
      BY <3>1, Zenon DEF Writing, ZcInv
    <3>5. browser' \in [Askers -> {"none", "lock", "gone"} \cup Serving]
      BY <3>1, Zenon DEF ZcInv, Serving
    <3> QED
      BY <3>1, <3>3, <3>4, <3>5, Zenon DEF ZcInv, ListIsCurrent
  <2>2. CASE lock # Nobody
    <3>1. /\ browser[d] = "lock" /\ browser' = [browser EXCEPT ![d] = "gone"]
          /\ UNCHANGED <<announced, changes, asker, told, zhosts, lock, listing, readers, broken>>
      BY <1>7, <2>2, Zenon DEF DaemonLock
    <3>2. browser' \in [Askers -> {"none", "lock", "gone"} \cup Serving]
      BY <3>1, Zenon DEF ZcInv, Serving
    <3>3. \A c \in Askers : /\ browser'[c] \in Serving <=> browser[c] \in Serving
                            /\ Writing(c) <=> Writing(c)'
                            /\ browser'[c] = "browse" => browser[c] = "browse"
      BY <3>1, Zenon DEF Writing, ZcInv, Serving
    <3> QED
      BY <3>1, <3>2, <3>3 DEF ZcInv, ListIsCurrent
  <2> QED
    BY <2>1, <2>2, Zenon
<1>8. ASSUME NEW d \in Askers, ClearListing(d) PROVE ZcInv'
  <2>1. told' = [told EXCEPT ![d] = told[d]] /\ told[d] \in SUBSET Announcements
    BY <1>8, Zenon DEF ClearListing, ZcInv
  <2>2. /\ browser[d] \in {"clear", "browse"} /\ WriteHosts(d, <<>>)
        /\ UNCHANGED <<announced, asker, readers>>
    BY <1>8, Zenon DEF ClearListing
  <2> QED
    BY <1>t, <2>1, <2>2, EmptyList, WriteHostsKeeps, Zenon
<1>9. ASSUME NEW d \in Askers, FillListing(d) PROVE ZcInv'
  <2> DEFINE l == zhosts[d]
             k == Known(l)
  <2>1. k \in Seq(Entry) /\ ServicesOnce(k) /\ From(k, told[d])
    <3>1. ServicesOnce(l)
      BY <1>9, Zenon DEF FillListing, ZcInv
    <3>2. DOMAIN l \in SUBSET DOMAIN l /\ {i \in DOMAIN l : ~l[i].resolving} \in SUBSET DOMAIN l
      BY Zenon
    <3>3. \A i \in {x \in DOMAIN l : ~l[x].resolving} : l[i].ad \in told[d]
      BY <1>t, Zenon DEF From
    <3>4. \A i, j \in {x \in DOMAIN l : ~l[x].resolving} : i # j => l[i].ad[1] # l[j].ad[1]
      BY <3>1, Zenon DEF ServicesOnce
    <3> QED
      BY <1>t, <3>2, <3>3, <3>4, OnlyKeeps, Zenon DEF Known
  <2>2. /\ listing' = [i \in DOMAIN k |-> k[i].ad] /\ browser[d] = "write"
        /\ browser' = [browser EXCEPT ![d] = "browse"]
        /\ UNCHANGED <<announced, changes, asker, told, zhosts, lock, readers, broken>>
    BY <1>9, Zenon DEF FillListing, Writing
  <2> HIDE DEF k, l
  <2>3. DOMAIN listing' = DOMAIN k /\ \A i \in DOMAIN k : listing'[i] = k[i].ad
    BY <2>2, Zenon
  <2>4. \A c \in Askers \ {d} : browser[c] \notin Serving
    BY <2>2 DEF ZcInv, Serving
  <2>5. ListIsCurrent'
    <3>1. \A i \in DOMAIN listing' : listing'[i] \in told[d]
      BY <2>1, <2>3, Zenon DEF From
    <3>2. \A i, j \in DOMAIN listing' : i # j => listing'[i][1] # listing'[j][1]
      BY <2>1, <2>3 DEF ServicesOnce
    <3> QED
      BY <2>2, <2>4, <3>1, <3>2, Zenon DEF ListIsCurrent, ZcInv, Serving
  <2> QED
    BY <2>2, <2>5, Zenon DEF ZcInv, Writing, Serving
<1>10. ASSUME NEW d \in Askers, ServiceNew(d) PROVE ZcInv'
  <2>a. PICK a \in announced \ told[d] :
          /\ told' = [told EXCEPT ![d] = @ \cup {a}]
          /\ \/ zhosts' = [zhosts EXCEPT ![d] = <<[ad |-> a, resolving |-> TRUE, freed |-> FALSE]>> \o @]
             \/ UNCHANGED zhosts
    BY <1>10, Zenon DEF ServiceNew
  <2>1. PICK m \in {zhosts[d], <<[ad |-> a, resolving |-> TRUE, freed |-> FALSE]>> \o zhosts[d]} :
          zhosts' = [zhosts EXCEPT ![d] = m]
    BY <2>a, Zenon DEF ZcInv
  <2>2. m \in Seq(Entry) /\ From(m, told[d] \cup {a}) /\ ListedOnce(m)
    <3>1. a \in Announcements
      BY Zenon DEF ZcInv
    <3>2. CASE m = zhosts[d]
      BY <1>t, <3>2, Zenon DEF From
    <3>3. CASE m # zhosts[d]
      <4> DEFINE e == [ad |-> a, resolving |-> TRUE, freed |-> FALSE]
      <4>1. e \in Entry /\ e.ad = a
        BY <3>1, Zenon DEF Entry
      <4>2. m = <<e>> \o zhosts[d]
        BY <2>1, <3>3, Zenon
      <4> HIDE DEF e
      <4>3. zhosts[d] \in Seq(Entry) /\ Len(zhosts[d]) \in Nat
        BY <1>t
      <4>4. /\ m \in Seq(Entry) /\ Len(m) = Len(zhosts[d]) + 1 /\ m[1] = e
            /\ \A i \in 2 .. Len(m) : i - 1 \in DOMAIN zhosts[d] /\ m[i] = zhosts[d][i - 1]
        BY <4>1, <4>2, <4>3
      <4>5. From(zhosts[d], told[d]) /\ ListedOnce(zhosts[d]) /\ a \notin told[d]
        BY <1>t, Zenon
      <4>6. \A i \in DOMAIN m : i = 1 \/ i \in 2 .. Len(m)
        BY <4>4
      <4>7. From(m, told[d] \cup {a})
        BY <4>1, <4>4, <4>5, <4>6, Zenon DEF From
      <4>8. ListedOnce(m)
        <5>1. \A i \in 2 .. Len(m) : m[i].ad # m[1].ad
          BY <4>1, <4>4, <4>5, Zenon DEF From
        <5>2. \A i, j \in 2 .. Len(m) : i # j => i - 1 # j - 1
          BY <4>3, <4>4
        <5>3. \A i, j \in 2 .. Len(m) : i # j => m[i].ad # m[j].ad
          <6> TAKE i, j \in 2 .. Len(m)
          <6>1. /\ i - 1 \in DOMAIN zhosts[d] /\ m[i] = zhosts[d][i - 1]
                /\ j - 1 \in DOMAIN zhosts[d] /\ m[j] = zhosts[d][j - 1]
            BY <4>4, Zenon
          <6> QED
            BY <4>5, <5>2, <6>1, Zenon DEF ListedOnce
        <5> QED
          BY <4>6, <5>1, <5>3, Zenon DEF ListedOnce
      <4> QED
        BY <4>4, <4>7, <4>8, Zenon
    <3> QED
      BY <3>2, <3>3, Zenon
  <2>3. /\ browser[d] = "browse"
        /\ UNCHANGED <<announced, changes, asker, browser, lock, listing, readers, broken>>
    BY <1>10, Zenon DEF ServiceNew
  <2>4. ListIsCurrent'
    BY <2>a, <2>1, <2>3 DEF ListIsCurrent, ZcInv
  <2>5. \A c \in Askers : From(zhosts'[c], told'[c]) /\ ListedOnce(zhosts'[c]) /\ (Writing(c) => ServicesOnce(zhosts'[c]))
    BY <2>a, <2>1, <2>2, <2>3, Zenon DEF ZcInv, Writing
  <2>6. zhosts' \in [Askers -> Seq(Entry)] /\ told' \in [Askers -> SUBSET Announcements]
    BY <2>a, <2>1, <2>2, Zenon DEF ZcInv
  <2> QED
    BY <2>3, <2>4, <2>5, <2>6, Zenon DEF ZcInv, Writing
<1>11. ASSUME NEW d \in Askers, ServiceRemoved(d) PROVE ZcInv'
  <2>1. PICK a \in told[d] \ announced :
          told' = [told EXCEPT ![d] = @ \ {a}] /\ WriteHosts(d, Without(zhosts[d], a))
    BY <1>11, Zenon DEF ServiceRemoved
  <2>2. told' = [told EXCEPT ![d] = told[d] \ {a}] /\ told[d] \ {a} \in SUBSET Announcements
    BY <2>1, Zenon DEF ZcInv
  <2>3. /\ Without(zhosts[d], a) \in Seq(Entry) /\ ListedOnce(Without(zhosts[d], a))
        /\ From(Without(zhosts[d], a), told[d] \ {a})
    BY <1>t, WithoutIsRight, Zenon
  <2>4. browser[d] \in {"clear", "browse"} /\ UNCHANGED <<announced, asker, readers>>
    BY <1>11, Zenon DEF ServiceRemoved
  <2> QED
    BY <1>t, <2>1, <2>2, <2>3, <2>4, WriteHostsKeeps, Zenon
<1>12. ASSUME NEW d \in Askers, ResolveFound(d) PROVE ZcInv'
  <2>1. PICK i \in DOMAIN zhosts[d] : WriteHosts(d, [zhosts[d] EXCEPT ![i].resolving = FALSE])
    BY <1>12, Zenon DEF ResolveFound
  <2> DEFINE e == [zhosts[d][i] EXCEPT !.resolving = FALSE]
             m == [zhosts[d] EXCEPT ![i] = e]
  <2>2. m \in Seq(Entry) /\ ListedOnce(m) /\ From(m, told[d])
    <3>1. zhosts[d][i] \in Entry
      BY <1>t
    <3>2. e \in Entry /\ e.ad = zhosts[d][i].ad
      BY <3>1, Zenon DEF Entry
    <3> HIDE DEF e
    <3> QED
      BY <1>t, <3>2, MarkedKeeps, Zenon
  <2>3. told' = [told EXCEPT ![d] = told[d]] /\ told[d] \in SUBSET Announcements
    BY <1>12, Zenon DEF ResolveFound, ZcInv
  <2>4. browser[d] \in {"clear", "browse"} /\ UNCHANGED <<announced, asker, readers>>
    BY <1>12, Zenon DEF ResolveFound
  <2> HIDE DEF m
  <2>5. WriteHosts(d, m)
    BY <2>1, Zenon DEF m
  <2> QED
    BY <1>t, <2>2, <2>3, <2>4, <2>5, WriteHostsKeeps, Zenon
<1>13. ASSUME NEW d \in Askers, ResolveFailed(d) PROVE ZcInv'
  <2>1. PICK i \in DOMAIN zhosts[d] : zhosts' = [zhosts EXCEPT ![d][i].freed = TRUE]
    BY <1>13, Zenon DEF ResolveFailed
  <2> DEFINE e == [zhosts[d][i] EXCEPT !.freed = TRUE]
             m == [zhosts[d] EXCEPT ![i] = e]
  <2>2. m \in Seq(Entry) /\ ListedOnce(m) /\ From(m, told[d])
    <3>1. zhosts[d][i] \in Entry
      BY <1>t
    <3>2. e \in Entry /\ e.ad = zhosts[d][i].ad
      BY <3>1, Zenon DEF Entry
    <3> HIDE DEF e
    <3> QED
      BY <1>t, <3>2, MarkedKeeps, Zenon
  <2>3. zhosts' = [zhosts EXCEPT ![d] = m]
    BY <2>1, Zenon
  <2> HIDE DEF m
  <2>4. /\ browser[d] = "browse"
        /\ UNCHANGED <<announced, asker, browser, told, lock, listing, readers>>
    BY <1>13, Zenon DEF ResolveFailed
  <2> QED
    BY <2>2, <2>3, <2>4 DEF ZcInv, Writing, ListIsCurrent
<1>14. ASSUME NEW d \in Askers, DaemonEnds(d) PROVE ZcInv'
  <2>1. \A c \in Askers \ {d} : browser[c] \notin Serving
    BY <1>14 DEF ZcInv, Serving, DaemonEnds
  <2> QED
    BY <1>14, <2>1, EmptyList DEF DaemonEnds, ZcInv, Serving, Nobody, Writing, ListIsCurrent
<1>15. CASE UNCHANGED zcVars
  BY <1>15 DEF zcVars, ZcInv, Writing, ListIsCurrent
<1> QED
  BY <1>1, <1>2, <1>3, <1>4, <1>5, <1>6, <1>7, <1>8, <1>9, <1>10, <1>11, <1>12, <1>13, <1>14, <1>15
     DEF ZcNext

(* zeroconf.c: of the daemons that clients start at once one keeps the file; no
   client reads it half written; and it names every service once at most, and
   none that the daemon knows to be gone. *)
THEOREM HostFileIsKept == ZcSpec => []ListIsKept
<1>1. ZcInit => ZcInv
  BY EmptyList DEF ZcInit, ZcInv, Serving, Nobody, Writing, ListIsCurrent
<1>2. ZcInv => ListIsKept
  <2> SUFFICES ASSUME ZcInv PROVE ListIsKept
    BY Zenon
  <2>1. OneBrowser
    <3> DEFINE S == {d \in Askers : browser[d] \in Serving}
    <3>1. CASE S = {}
      <4>1. Cardinality(S) = 0
        BY <3>1, FS_EmptySet, Zenon
      <4> QED
        BY <4>1 DEF OneBrowser
    <3>2. CASE S # {}
      <4>a. PICK d \in S : TRUE
        BY <3>2, Zenon
      <4>b. ASSUME NEW e \in S PROVE e = d
        <5>1. lock = <<"daemon", d>> /\ lock = <<"daemon", e>>
          BY Zenon DEF ZcInv
        <5>2. <<"daemon", d>>[2] = <<"daemon", e>>[2]
          BY <5>1, Zenon
        <5> QED
          BY <5>2, Zenon
      <4>1. S = {d}
        BY <4>b, Zenon
      <4>2. Cardinality(S) = 1
        BY <4>1, FS_Singleton, Zenon
      <4> QED
        BY <4>2 DEF OneBrowser
    <3> QED
      BY <3>1, <3>2, Zenon
  <2>2. ListIsWhole /\ ListIsCurrent
    BY Zenon DEF ZcInv, ListIsWhole
  <2> QED
    BY <2>1, <2>2, Zenon DEF ListIsKept
<1> QED
  BY <1>1, <1>2, ZcStep, PTL DEF ZcSpec
=============================================================================
