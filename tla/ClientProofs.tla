---------------------------- MODULE ClientProofs ----------------------------
(***************************************************************************)
(* Proofs about what a client shares with other processes beside the       *)
(* locks: its connection (Connect), the discrepancy counter (Discrepancy)  *)
(* and the backoff timefiles (Backoff).  Each invariant is checked by TLC  *)
(* on the run services or client; here it is proved for any number of      *)
(* addresses and clients, and any period and limit.                        *)
(***************************************************************************)
EXTENDS Connect, Discrepancy, Backoff, FiniteSetTheorems, TLAPS

(***************************************************************************)
(* Connect                                                                 *)
(***************************************************************************)
(* Over TCP: only sockets of addresses tried so far are open; one whose address
   accepts is being connected, or is the connection. *)
TcpInv ==
  /\ doing \notin {"pair", "pair2", "fork", "parent", "collect"}
  /\ ssh = "none" /\ to = from
  /\ to # NoNet => doing \in {"use", "out", "returned"}
  /\ doing \in {"connect", "select", "use"} => Socket(addr) \in fds
  /\ doing = "use" => to = Socket(addr)
  /\ \A i \in 1 .. Addresses : Socket(i) \in fds =>
       /\ i <= addr
       /\ \/ peer[i] # "accepts"
          \/ i = addr /\ doing \in {"connect", "select"}
          \/ i = addr /\ to = Socket(i) /\ doing \in {"use", "out"}
  /\ doing \in {"start", "resolve", "socket"} => Socket(addr) \notin fds
  /\ fds \subseteq Sockets

(* Over ssh: which ends of the pipes are open, and whether there is a child. *)
SshInv ==
  /\ doing \notin {"resolve", "socket", "connect", "select"}
  /\ doing \in {"start", "pair"} => fds = {}
  /\ doing = "pair2" => fds = {ToChild(0), ToChild(1)}
  /\ doing \in {"fork", "parent"} => fds = Pipes
  /\ doing \in {"use", "out", "collect", "returned"} /\ (doing = "use" \/ to # NoNet) =>
       /\ to = ToChild(1) /\ from = FromChild(0)
       /\ fds = IF doing \in {"use", "out"} THEN {to, from} ELSE {}
  /\ to = NoNet => doing # "use" /\ ret # "ok"
  /\ doing \in {"start", "pair", "pair2", "fork", "parent"} => to = NoNet
  /\ fds \subseteq Pipes
  /\ doing \in {"start", "pair", "pair2", "fork"} => ssh = "none"
  /\ doing \in {"parent", "use"} => ssh \in {"forked", "ssh", "client", "zombie"}
  /\ doing = "collect" => ssh # "none"

LinkInv ==
  /\ LinkTypeOK
  /\ ret # "none" <=> doing \in {"out", "collect", "returned"}
  /\ over = "tcp" => TcpInv
  /\ over = "ssh" => SshInv
  /\ ssh = "collected" => doing = "returned"
  /\ doing = "returned" => ssh \in {"none", "unforked", "collected"}
  /\ ret = "ok" \/ (doing = "returned" /\ ssh = "unforked") => cpp \in {"none", "collected"}

(* Descriptors of different kinds or addresses differ. *)
LEMMA NetNames ==
  /\ \A i, j \in 1 .. Addresses : Socket(i) = Socket(j) => i = j
  /\ NoNet \notin Sockets /\ NoNet \notin Pipes /\ Sockets \cap Pipes = {}
  /\ \A i \in 1 .. Addresses : Socket(i) \in Sockets /\ Socket(i) # NoNet
  /\ \A s \in Sockets : \E i \in 1 .. Addresses : s = Socket(i)
BY DEF Socket, Sockets, Pipes, NoNet, ToChild, FromChild

LEMMA LinkInvIsEnough == LinkInv => ConnectionIsRight
<1> SUFFICES ASSUME LinkInv PROVE ConnectionIsRight
  BY Zenon
<1> USE ConnectAssumption, NetNames
<1>1. CASE over = "tcp"
  <2>1. TcpInv
    BY <1>1, Zenon DEF LinkInv
  <2>2. doing = "use" => {to, from} \subseteq fds /\ to = from
    BY <2>1 DEF TcpInv
  <2>3. doing = "use" => \A i \in 1 .. addr - 1 : peer[i] = "accepts" => Socket(i) \notin fds
    BY <2>1 DEF TcpInv, LinkInv, LinkTypeOK
  <2>4. doing = "returned" => fds \subseteq Abandoned
    BY <2>1 DEF TcpInv, LinkInv, LinkTypeOK, Abandoned
  <2> QED
    BY <1>1, <2>2, <2>3, <2>4, Zenon DEF ConnectionIsRight, LinkInv
<1>2. CASE over = "ssh"
  <2>1. SshInv
    BY <1>2, Zenon DEF LinkInv
  <2>2. doing = "use" => {to, from} \subseteq fds /\ to # from
    BY <2>1 DEF SshInv, ToChild, FromChild
  <2>3. doing = "returned" => fds \subseteq IF ret = "failed" /\ to = NoNet THEN Pipes ELSE {}
    BY <2>1, Zenon DEF SshInv, LinkInv, LinkTypeOK
  <2> QED
    BY <1>2, <2>2, <2>3, Zenon DEF ConnectionIsRight, LinkInv
<1> QED
  BY <1>1, <1>2, Zenon DEF LinkInv, LinkTypeOK

LEMMA LinkStep == LinkInv /\ [LinkNext]_linkVars => LinkInv'
<1> SUFFICES ASSUME LinkInv, [LinkNext]_linkVars PROVE LinkInv'
  BY Zenon
<1> USE ConnectAssumption, NetNames
<1>a. LinkTypeOK
  BY Zenon DEF LinkInv
<1>b. addr \in 1 .. Addresses /\ addr < Addresses => addr + 1 \in 1 .. Addresses
  BY <1>a DEF LinkTypeOK
<1>1. CASE RemoteConnect
  <2>1. LinkTypeOK'
    BY <1>a, <1>b, <1>1 DEF RemoteConnect, LinkTypeOK, netFds, children, Stages, ChildStates, Pipes, Sockets, Socket
  <2>2. over = "tcp" => TcpInv'
    BY <1>a, <1>1, Zenon DEF RemoteConnect, LinkInv, TcpInv, LinkTypeOK, netFds, children
  <2>3. over = "ssh" => SshInv'
    BY <1>a, <1>1, Zenon DEF RemoteConnect, LinkInv, SshInv, LinkTypeOK, netFds, children
  <2> QED
    BY <1>a, <1>1, <2>1, <2>2, <2>3, Zenon DEF RemoteConnect, LinkInv, LinkTypeOK, netFds, children
<1>2. CASE Resolve
  <2>1. LinkTypeOK'
    BY <1>a, <1>b, <1>2 DEF Resolve, May, Fails, LinkTypeOK, netFds, children, Stages, ChildStates, Pipes, Sockets, Socket
  <2>2. over = "tcp" /\ TcpInv
    BY <1>a, <1>2, Zenon DEF Resolve, LinkInv, SshInv, LinkTypeOK
  <2>3. TcpInv'
    BY <1>a, <1>b, <1>2, <2>2, Zenon DEF Resolve, May, Fails, TcpInv, LinkTypeOK, netFds, children
  <2> QED
    BY <1>a, <1>2, <2>1, <2>2, <2>3, Zenon DEF Resolve, May, Fails, LinkInv, LinkTypeOK, netFds, children
<1>3. CASE OpenSocket
  <2>1. LinkTypeOK'
    BY <1>a, <1>b, <1>3 DEF OpenSocket, May, Fails, NextAddress, LinkTypeOK, netFds, children, Stages, ChildStates, Pipes, Sockets, Socket
  <2>2. over = "tcp" /\ TcpInv
    BY <1>a, <1>3, Zenon DEF OpenSocket, LinkInv, SshInv, LinkTypeOK
  <2>3. TcpInv'
    BY <1>a, <1>b, <1>3, <2>2 DEF OpenSocket, May, Fails, NextAddress, TcpInv, LinkTypeOK, netFds, children
  <2> QED
    BY <1>a, <1>3, <2>1, <2>2, <2>3, Zenon DEF OpenSocket, May, Fails, NextAddress, LinkInv, LinkTypeOK, netFds, children
<1>4. CASE StartConnect
  <2>1. LinkTypeOK'
    BY <1>a, <1>b, <1>4 DEF StartConnect, NextAddress, Fails, LinkTypeOK, netFds, children, Stages, ChildStates, Pipes, Sockets, Socket
  <2>2. over = "tcp" /\ TcpInv
    BY <1>a, <1>4, Zenon DEF StartConnect, LinkInv, SshInv, LinkTypeOK
  <2>3. TcpInv'
    BY <1>a, <1>b, <1>4, <2>2 DEF StartConnect, NextAddress, Fails, TcpInv, LinkTypeOK, netFds, children
  <2> QED
    BY <1>a, <1>4, <2>1, <2>2, <2>3, Zenon DEF StartConnect, NextAddress, Fails, LinkInv, LinkTypeOK, netFds, children
<1>5. CASE AwaitConnect
  <2>1. LinkTypeOK'
    BY <1>a, <1>b, <1>5 DEF AwaitConnect, NextAddress, Fails, LinkTypeOK, netFds, children, Stages, ChildStates, Pipes, Sockets, Socket
  <2>2. over = "tcp" /\ TcpInv
    BY <1>a, <1>5, Zenon DEF AwaitConnect, LinkInv, SshInv, LinkTypeOK
  <2>3. TcpInv'
    <3>1. CASE doing' = "use"
      <4>1. /\ to' = Socket(addr) /\ from' = Socket(addr) /\ doing = "select" /\ to = NoNet
            /\ UNCHANGED <<addr, over, peer, fds, ssh>>
        BY <1>5, <2>2, <3>1, Zenon DEF AwaitConnect, NextAddress, Fails, TcpInv, children
      <4>2. Socket(addr) \in fds
        BY <2>2, <4>1, Zenon DEF TcpInv
      <4>3. \A i \in 1 .. Addresses : Socket(i) \in fds =>
              i <= addr /\ (peer[i] # "accepts" \/ i = addr)
        BY <2>2, <4>1, Zenon DEF TcpInv
      <4> QED
        BY <2>2, <3>1, <4>1, <4>2, <4>3, Zenon DEF TcpInv
    <3>2. CASE doing' # "use"
      <4>1. peer[addr] # "accepts" /\ NextAddress /\ UNCHANGED <<to, from, over, peer, fds, ssh>>
        BY <1>5, <3>2, Zenon DEF AwaitConnect, children
      <4> QED
        BY <1>a, <1>b, <1>5, <2>2, <4>1 DEF AwaitConnect, NextAddress, Fails, TcpInv, LinkTypeOK
    <3> QED
      BY <3>1, <3>2, Zenon
  <2> QED
    BY <1>a, <1>5, <2>1, <2>2, <2>3, Zenon DEF AwaitConnect, NextAddress, Fails, LinkInv, LinkTypeOK, netFds, children
<1>6. CASE MakePair
  <2>1. LinkTypeOK'
    BY <1>a, <1>b, <1>6 DEF MakePair, May, Fails, LinkTypeOK, netFds, children, Stages, ChildStates, Pipes, Sockets, Socket
  <2>2. over = "ssh" /\ SshInv
    BY <1>a, <1>6, Zenon DEF MakePair, LinkInv, TcpInv, LinkTypeOK
  <2>3. SshInv'
    BY <1>a, <1>6, <2>2, Zenon DEF MakePair, May, Fails, SshInv, LinkTypeOK, netFds, children, Pipes, ToChild, FromChild, NoNet
  <2> QED
    BY <1>a, <1>6, <2>1, <2>2, <2>3, Zenon DEF MakePair, May, Fails, LinkInv, LinkTypeOK, netFds, children
<1>7. CASE MakeSecondPair
  <2>1. LinkTypeOK'
    BY <1>a, <1>b, <1>7 DEF MakeSecondPair, May, Fails, LinkTypeOK, netFds, children, Stages, ChildStates, Pipes, Sockets, Socket
  <2>2. over = "ssh" /\ SshInv
    BY <1>a, <1>7, Zenon DEF MakeSecondPair, LinkInv, TcpInv, LinkTypeOK
  <2>3. SshInv'
    BY <1>a, <1>7, <2>2, Zenon DEF MakeSecondPair, May, Fails, SshInv, LinkTypeOK, netFds, children, Pipes, ToChild, FromChild, NoNet
  <2> QED
    BY <1>a, <1>7, <2>1, <2>2, <2>3, Zenon DEF MakeSecondPair, May, Fails, LinkInv, LinkTypeOK, netFds, children
<1>8. CASE Fork
  <2>1. LinkTypeOK'
    BY <1>a, <1>b, <1>8 DEF Fork, May, Fails, LinkTypeOK, netFds, children, Stages, ChildStates, Pipes, Sockets, Socket
  <2>2. over = "ssh" /\ SshInv
    BY <1>a, <1>8, Zenon DEF Fork, LinkInv, TcpInv, LinkTypeOK
  <2>3. SshInv'
    BY <1>a, <1>8, <2>2, Zenon DEF Fork, May, Fails, SshInv, LinkTypeOK, netFds, children, Pipes, ToChild, FromChild, NoNet
  <2> QED
    BY <1>a, <1>8, <2>1, <2>2, <2>3, Zenon DEF Fork, May, Fails, LinkInv, LinkTypeOK, netFds, children
<1>9. CASE ParentEnds
  <2>1. LinkTypeOK'
    BY <1>a, <1>b, <1>9 DEF ParentEnds, May, Fails, LinkTypeOK, netFds, children, Stages, ChildStates, Pipes, Sockets, Socket
  <2>2. over = "ssh" /\ SshInv
    BY <1>a, <1>9, Zenon DEF ParentEnds, LinkInv, TcpInv, LinkTypeOK
  <2>3. SshInv'
    <3>1. CASE doing' = "use"
      <4>1. from' = FromChild(0) /\ to' = ToChild(1) /\ fds' = {FromChild(0), ToChild(1)}
        BY <1>9, <2>2, <3>1 DEF ParentEnds, Fails, SshInv, Pipes, ToChild, FromChild
      <4>2. fds' \subseteq Pipes /\ to' # NoNet
        BY <4>1, NetNames, Zenon DEF Pipes, ToChild, NoNet
      <4> QED
        BY <1>9, <2>2, <3>1, <4>1, <4>2, Zenon DEF ParentEnds, SshInv, children
    <3>2. CASE doing' # "use"
      <4>1. Fails /\ fds' \subseteq Pipes /\ UNCHANGED <<to, ssh>> /\ to = NoNet /\ doing = "parent"
        BY <1>9, <2>2, <3>2, Zenon DEF ParentEnds, SshInv, children
      <4> QED
        BY <2>2, <4>1, Zenon DEF Fails, SshInv
    <3> QED
      BY <3>1, <3>2, Zenon
  <2> QED
    BY <1>a, <1>9, <2>1, <2>2, <2>3, Zenon DEF ParentEnds, May, Fails, LinkInv, LinkTypeOK, netFds, children
<1>10. CASE Exchange
  <2>1. LinkTypeOK'
    BY <1>a, <1>b, <1>10 DEF Exchange, May, Collected, LinkTypeOK, netFds, children, Stages, ChildStates, Pipes, Sockets, Socket
  <2>2. over = "tcp" => TcpInv'
    BY <1>a, <1>10, Zenon DEF Exchange, May, Collected, LinkInv, TcpInv, LinkTypeOK, netFds, children
  <2>3. over = "ssh" => SshInv'
    BY <1>a, <1>10, Zenon DEF Exchange, May, Collected, LinkInv, SshInv, LinkTypeOK, netFds, children
  <2> QED
    BY <1>a, <1>10, <2>1, <2>2, <2>3, Zenon DEF Exchange, May, Collected, LinkInv, LinkTypeOK, netFds, children
<1>11. CASE CloseNet
  <2>1. LinkTypeOK'
    BY <1>a, <1>b, <1>11 DEF CloseNet, LinkTypeOK, netFds, children, Stages, ChildStates, Pipes, Sockets, Socket
  <2>2. over = "tcp" => TcpInv'
    BY <1>a, <1>11, Zenon DEF CloseNet, LinkInv, TcpInv, LinkTypeOK, netFds, children
  <2>3. over = "ssh" => SshInv'
    BY <1>a, <1>11, Zenon DEF CloseNet, LinkInv, SshInv, LinkTypeOK, netFds, children
  <2> QED
    BY <1>a, <1>11, <2>1, <2>2, <2>3, Zenon DEF CloseNet, LinkInv, LinkTypeOK, netFds, children
<1>12. CASE CollectSsh
  <2>1. LinkTypeOK'
    BY <1>a, <1>b, <1>12 DEF CollectSsh, Collected, LinkTypeOK, netFds, children, Stages, ChildStates, Pipes, Sockets, Socket
  <2>2. over = "ssh" /\ SshInv
    BY <1>a, <1>12, Zenon DEF CollectSsh, LinkInv, TcpInv, LinkTypeOK
  <2>3. SshInv'
    BY <1>a, <1>12, <2>2, Zenon DEF CollectSsh, Collected, SshInv, LinkTypeOK, netFds, children, Pipes, ToChild, FromChild, NoNet
  <2> QED
    BY <1>a, <1>12, <2>1, <2>2, <2>3, Zenon DEF CollectSsh, Collected, LinkInv, LinkTypeOK, netFds, children
<1>13. CASE ChildExec
  <2>1. LinkTypeOK'
    BY <1>a, <1>b, <1>13 DEF ChildExec, May, LinkTypeOK, netFds, children, Stages, ChildStates, Pipes, Sockets, Socket
  <2>2. over = "ssh" /\ SshInv
    BY <1>a, <1>13, Zenon DEF ChildExec, LinkInv, TcpInv, LinkTypeOK
  <2>3. SshInv'
    BY <1>a, <1>13, <2>2, Zenon DEF ChildExec, May, SshInv, LinkTypeOK, netFds, children, Pipes, ToChild, FromChild, NoNet
  <2> QED
    BY <1>a, <1>13, <2>1, <2>2, <2>3, Zenon DEF ChildExec, May, LinkInv, LinkTypeOK, netFds, children
<1>14. CASE ChildEnds
  <2>1. LinkTypeOK'
    BY <1>a, <1>b, <1>14 DEF ChildEnds, May, LinkTypeOK, netFds, children, Stages, ChildStates, Pipes, Sockets, Socket
  <2>2. over = "ssh" /\ SshInv
    BY <1>a, <1>14, Zenon DEF ChildEnds, LinkInv, TcpInv, LinkTypeOK
  <2>3. SshInv'
    BY <1>a, <1>14, <2>2, Zenon DEF ChildEnds, May, SshInv, LinkTypeOK, netFds, children, Pipes, ToChild, FromChild, NoNet
  <2> QED
    BY <1>a, <1>14, <2>1, <2>2, <2>3, Zenon DEF ChildEnds, May, LinkInv, LinkTypeOK, netFds, children
<1>15. CASE CppEnds
  <2>1. LinkTypeOK'
    BY <1>a, <1>b, <1>15 DEF CppEnds, LinkTypeOK, netFds, children, Stages, ChildStates, Pipes, Sockets, Socket
  <2>2. over = "tcp" => TcpInv'
    BY <1>a, <1>15, Zenon DEF CppEnds, LinkInv, TcpInv, LinkTypeOK, netFds, children
  <2>3. over = "ssh" => SshInv'
    BY <1>a, <1>15, Zenon DEF CppEnds, LinkInv, SshInv, LinkTypeOK, netFds, children
  <2> QED
    BY <1>a, <1>15, <2>1, <2>2, <2>3, Zenon DEF CppEnds, LinkInv, LinkTypeOK, netFds, children
<1>16. CASE UNCHANGED linkVars
  BY <1>16 DEF linkVars, netFds, children, LinkInv, LinkTypeOK, TcpInv, SshInv
<1> QED
  BY <1>1, <1>2, <1>3, <1>4, <1>5, <1>6, <1>7, <1>8, <1>9, <1>10, <1>11, <1>12, <1>13, <1>14, <1>15, <1>16, Zenon DEF LinkNext, ConnectStep

(* remote.c, clinet.c, ssh.c: whatever fails, the connection in use is that of the
   first address to be had, and nothing of it is left open afterwards but what the
   failure itself leaves; the child is gone, and the preprocessor waited for. *)
THEOREM ConnectionRight == LinkSpec => []ConnectionIsRight
<1>1. LinkInit => LinkInv
  BY ConnectAssumption, NetNames DEF LinkInit, LinkInv, LinkTypeOK, TcpInv, SshInv, Stages, ChildStates
<1> QED
  BY <1>1, LinkStep, LinkInvIsEnough, PTL DEF LinkSpec

(***************************************************************************)
(* Discrepancy                                                             *)
(***************************************************************************)
(* The file is as long as the set of clients that wrote to it is large.  A client
   between its open and its close has not written yet, and keeps the file from
   being absent: so no byte is counted twice, and the length 0 that stands for
   INT_MAX is only read when nobody has noted anything. *)
DiscrepancyInv ==
  /\ at \in [Builds -> {"adjust", "compile", "open", "tell", "close", "end"}]
  /\ cpp_on \in [Builds -> {"server", "client"}]
  /\ before \in [Builds -> Nat]
  /\ noted \in SUBSET Builds /\ IsFiniteSet(noted)
  /\ size = NoCounter => noted = {}
  /\ size # NoCounter => size = Cardinality(noted)
  /\ \A c \in Builds :
       /\ at[c] \in {"tell", "close"} => size # NoCounter
       /\ c \in noted => at[c] = "end"
  /\ PumpEndsAtLimit

LEMMA DiscrepancyStep == DiscrepancyInv /\ [DiscrepancyNext]_discrepancyVars => DiscrepancyInv'
<1> SUFFICES ASSUME DiscrepancyInv, [DiscrepancyNext]_discrepancyVars PROVE DiscrepancyInv'
  BY Zenon
<1>n. Cardinality(noted) \in Nat
  BY FS_CardinalityType, Zenon DEF DiscrepancyInv
<1>e. Cardinality({}) = 0
  BY FS_EmptySet, Zenon
<1> USE DEF DiscrepancyInv, PumpEndsAtLimit, NoCounter, Goto
<1>1. ASSUME NEW c \in Builds, Adjust(c) PROVE DiscrepancyInv'
  <2>1. /\ at[c] = "adjust" /\ at' = [at EXCEPT ![c] = "compile"]
        /\ before' = [before EXCEPT ![c] = Cardinality(noted)]
        /\ UNCHANGED <<size, position, noted, warned>>
    BY <1>1, Zenon DEF Adjust
  <2>2. PICK w \in {"server", "client"} :
          /\ cpp_on' = [cpp_on EXCEPT ![c] = w]
          /\ w = "server" => NumberOfDiscrepancies < MaxDiscrepancy
    <3>1. NumberOfDiscrepancies \in Int
      BY <1>n DEF NumberOfDiscrepancies, INT_MAX
    <3>2. PICK unsuitable \in BOOLEAN :
            cpp_on' = [cpp_on EXCEPT ![c] =
              IF NumberOfDiscrepancies >= MaxDiscrepancy \/ unsuitable THEN "client" ELSE @]
      BY <1>1, Zenon DEF Adjust
    <3>3. CASE NumberOfDiscrepancies >= MaxDiscrepancy \/ unsuitable
      BY <3>2, <3>3, Zenon
    <3>4. CASE ~(NumberOfDiscrepancies >= MaxDiscrepancy \/ unsuitable)
      <4>1. NumberOfDiscrepancies < MaxDiscrepancy
        BY <3>1, <3>4, DiscrepancyAssumption
      <4> QED
        BY <3>2, <3>4, <4>1, Zenon
    <3> QED
      BY <3>3, <3>4
  <2>3. w = "server" => Cardinality(noted) < MaxDiscrepancy
    <3>1. CASE size = NoCounter
      BY <1>e, <3>1, DiscrepancyAssumption
    <3>2. CASE size # NoCounter /\ size > 0
      BY <2>2, <3>2 DEF NumberOfDiscrepancies
    <3>3. CASE size # NoCounter /\ ~(size > 0)
      BY <1>n, <3>3, DiscrepancyAssumption
    <3> QED
      BY <3>1, <3>2, <3>3
  <2>4. PumpEndsAtLimit'
    BY <2>1, <2>2, <2>3
  <2>5. before' \in [Builds -> Nat] /\ cpp_on' \in [Builds -> {"server", "client"}]
    BY <1>n, <2>1, <2>2
  <2> QED
    BY <2>1, <2>4, <2>5, Zenon
<1>2. ASSUME NEW c \in Builds, Compile(c) PROVE DiscrepancyInv'
  BY <1>2 DEF Compile
<1>3. ASSUME NEW c \in Builds, OpenCounter(c) PROVE DiscrepancyInv'
  BY <1>3, <1>e DEF OpenCounter
<1>4. ASSUME NEW c \in Builds, TellPosition(c) PROVE DiscrepancyInv'
  BY <1>4 DEF TellPosition
<1>5. ASSUME NEW c \in Builds, CloseCounter(c) PROVE DiscrepancyInv'
  <2>1. /\ IsFiniteSet(noted \cup {c})
        /\ Cardinality(noted \cup {c}) = Cardinality(noted) + 1
    <3>1. c \notin noted
      BY <1>5 DEF CloseCounter
    <3> QED
      BY <3>1, FS_AddElement
  <2>2. IsFiniteSet(noted)' /\ (size' # NoCounter => size' = Cardinality(noted'))
    <3>1. CASE UNCHANGED <<size, noted>>
      BY <3>1
    <3>2. CASE size' = size + 1 /\ noted' = noted \cup {c}
      <4>1. size = Cardinality(noted)
        BY <1>5 DEF CloseCounter
      <4> QED
        BY <2>1, <3>2, <4>1
    <3> QED
      BY <1>5, <3>1, <3>2 DEF CloseCounter
  <2>3. size' # NoCounter
    BY <1>5, <1>n DEF CloseCounter
  <2> QED
    BY <1>5, <2>2, <2>3 DEF CloseCounter
<1>6. CASE UNCHANGED discrepancyVars
  BY <1>6 DEF discrepancyVars
<1> QED
  BY <1>1, <1>2, <1>3, <1>4, <1>5, <1>6, Zenon DEF DiscrepancyNext

(* compile.c: however many clients note a discrepancy at once, without a lock,
   none is lost, and none that starts at the limit or beyond it preprocesses on
   the server. *)
THEOREM PumpModeEnds == DiscrepancySpec => []DiscrepanciesEndPump
<1>1. DiscrepancyInit => DiscrepancyInv
  BY FS_EmptySet DEF DiscrepancyInit, DiscrepancyInv, PumpEndsAtLimit, NoCounter
<1>2. DiscrepancyInv => DiscrepanciesEndPump
  BY DEF DiscrepancyInv, DiscrepanciesEndPump, NoNoteLost
<1> QED
  BY <1>1, <1>2, DiscrepancyStep, PTL DEF DiscrepancySpec

(***************************************************************************)
(* Backoff                                                                 *)
(***************************************************************************)
(* A timefile is dated no later than the clock would have shown, had it never been
   set back, when its server was last marked; and the clock shows a time after
   the one that stands for no file. *)
BackoffInv ==
  /\ real \in Nat /\ clock \in Int /\ SetBack \in 0 .. MaxSetBack
  /\ mtime \in [Servers -> Int] /\ lastMark \in [Servers -> Int]
  /\ opened \in [Users -> Servers \cup {Nowhere}]
  /\ \A h \in Servers : mtime[h] # NoTimefile =>
       lastMark[h] \in 0 .. real /\ mtime[h] \in 0 .. lastMark[h] + StartOfTime

LEMMA BackoffStep == BackoffInv /\ [BackoffNext]_backoffVars => BackoffInv'
<1> SUFFICES ASSUME BackoffInv, [BackoffNext]_backoffVars PROVE BackoffInv'
  OBVIOUS
<1> USE BackoffAssumption DEF BackoffInv, SetBack, StartOfTime, NoTimefile
<1>1. CASE TimePasses
  BY <1>1 DEF TimePasses
<1>2. CASE ClockSetBack
  BY <1>2 DEF ClockSetBack
<1>3. ASSUME NEW u \in Users, StartWalk(u) PROVE BackoffInv'
  BY <1>3 DEF StartWalk
<1>4. ASSUME NEW u \in Users, WriteTimefile(u) PROVE BackoffInv'
  BY <1>4 DEF WriteTimefile
<1>5. ASSUME NEW u \in Users, NEW h \in Servers, LookAt(u, h) PROVE BackoffInv'
  BY <1>5 DEF LookAt
<1>6. ASSUME NEW u \in Users, NEW h \in Servers, OpenTimefile(u, h) PROVE BackoffInv'
  BY <1>6 DEF OpenTimefile
<1>7. ASSUME NEW u \in Users, NEW h \in Servers, RemoveTimefile(u, h) PROVE BackoffInv'
  BY <1>7 DEF RemoveTimefile
<1>8. CASE UNCHANGED backoffVars
  BY <1>8 DEF backoffVars
<1> QED
  BY <1>1, <1>2, <1>3, <1>4, <1>5, <1>6, <1>7, <1>8 DEF BackoffNext

(* backoff.c: a server is left out for less than the period after somebody marked
   it, plus what the clock was set back meanwhile; never for good. *)
THEOREM BackoffEnds == BackoffSpec => []BackoffIsBounded
<1>1. BackoffInit => BackoffInv
  BY BackoffAssumption DEF BackoffInit, BackoffInv, SetBack, StartOfTime, NoTimefile
<1>2. BackoffInv => BackoffIsBounded
  BY BackoffAssumption
     DEF BackoffInv, BackoffIsBounded, StillInBackoff, SetBack, StartOfTime, NoTimefile
<1> QED
  BY <1>1, <1>2, BackoffStep, PTL DEF BackoffSpec
=============================================================================
