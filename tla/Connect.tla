------------------------------ MODULE Connect -------------------------------
(***************************************************************************)
(* How a client gets a connection to a server and what is left of it when  *)
(* dcc_compile_remote() is through (remote.c): over TCP, to the first      *)
(* address of the host that answers (clinet.c), or over a pair of pipes to *)
(* an ssh that it starts (ssh.c).  A child that cannot execute ssh returns *)
(* from dcc_run_piped_cmd() like its parent, as a second client; and after *)
(* a failed fork() the process to wait for is -1, any child: then it is    *)
(* the preprocessor that is waited for.                                    *)
(***************************************************************************)
EXTENDS Integers

CONSTANTS
  Addresses,      \* the number of addresses getaddrinfo() finds
  AddressKinds,   \* what an address may do: subset of {"accepts", "refuses", "silent", "busy"}
  ConnectTries,   \* connect() is tried again so often when it says EAGAIN, 3 in the code
  LinkFaults      \* subset of {"resolve", "socket", "pair", "fork", "close", "exec", "ssh", "use"}

ASSUME ConnectAssumption ==
  /\ Addresses \in Nat \ {0}
  /\ ConnectTries \in Nat
  /\ AddressKinds \subseteq {"accepts", "refuses", "silent", "busy"}

VARIABLES
  over,           \* host->mode: "tcp" or "ssh"
  peer,           \* address -> what it does
  doing,          \* where the client is
  addr, tries,    \* the address it tries, and connect() calls left
  fds,            \* its open descriptors
  to, from,       \* to_net_fd, from_net_fd
  ssh,            \* the child, in one of ChildStates; "unforked" when ssh_pid is -1
  cpp,            \* the preprocessor that runs meanwhile: "none", "runs", "zombie", "collected"
  ret             \* the result of dcc_compile_remote()

netFds == <<fds, to, from>>
children == <<ssh, cpp>>
linkVars == <<over, peer, doing, addr, tries, netFds, children, ret>>

\* Sockets are numbered by their address; the pipe ends have names.
NoNet == <<"none", 0>>
Socket(i) == <<"socket", i>>
ToChild(end) == <<"to", end>>
FromChild(end) == <<"from", end>>
Pipes == {ToChild(0), ToChild(1), FromChild(0), FromChild(1)}
Sockets == {Socket(i) : i \in 1 .. Addresses}
Stages == {"start", "resolve", "socket", "connect", "select", "pair", "pair2", "fork", "parent",
           "use", "out", "collect", "returned"}
ChildStates == {"none", "unforked", "forked", "ssh", "client", "zombie", "collected"}

LinkTypeOK ==
  /\ over \in {"tcp", "ssh"}
  /\ peer \in [1 .. Addresses -> AddressKinds]
  /\ doing \in Stages
  /\ addr \in 1 .. Addresses /\ tries \in 0 .. ConnectTries
  /\ fds \in SUBSET (Sockets \cup Pipes)
  /\ to \in Sockets \cup Pipes \cup {NoNet} /\ from \in Sockets \cup Pipes \cup {NoNet}
  /\ ssh \in ChildStates /\ cpp \in {"none", "runs", "zombie", "collected"}
  /\ ret \in {"none", "ok", "failed"}

LinkInit ==
  /\ over \in {"tcp", "ssh"} /\ peer \in [1 .. Addresses -> AddressKinds]
  /\ doing = "start" /\ addr = 1 /\ tries = ConnectTries
  /\ fds = {} /\ to = NoNet /\ from = NoNet
  /\ ssh = "none" /\ cpp \in {"none", "runs"} /\ ret = "none"

May(f) == f \in LinkFaults
Fails == doing' = "out" /\ ret' = "failed"

-----------------------------------------------------------------------------
(* dcc_remote_connect() over TCP.                                          *)

RemoteConnect ==
  /\ doing = "start"
  /\ doing' = IF over = "tcp" THEN "resolve" ELSE "pair"
  /\ UNCHANGED <<over, peer, addr, tries, netFds, children, ret>>

\* dcc_connect_by_name().
Resolve ==
  /\ doing = "resolve"
  /\ \/ doing' = "socket" /\ UNCHANGED ret
     \/ May("resolve") /\ Fails
  /\ UNCHANGED <<over, peer, addr, tries, netFds, children>>

\* dcc_connect_by_addr() has failed, with its socket open if there is one: the
\* next address, if there is one.
NextAddress ==
  /\ tries' = ConnectTries
  /\ IF addr < Addresses
     THEN doing' = "socket" /\ addr' = addr + 1 /\ UNCHANGED ret
     ELSE Fails /\ UNCHANGED addr

OpenSocket ==
  /\ doing = "socket"
  /\ \/ /\ fds' = fds \cup {Socket(addr)}
        /\ doing' = "connect" /\ UNCHANGED <<addr, tries, ret>>
     \/ May("socket") /\ NextAddress /\ UNCHANGED fds
  /\ UNCHANGED <<over, peer, to, from, children>>

\* The connection comes about while the client waits for it.  A busy address
\* (EAGAIN) may have become free at the next try.
StartConnect ==
  /\ doing = "connect"
  /\ \/ doing' = "select" /\ UNCHANGED <<addr, tries, ret>>
     \/ /\ peer[addr] = "busy" /\ tries > 0
        /\ tries' = tries - 1 /\ UNCHANGED <<doing, addr, ret>>
     \/ peer[addr] = "busy" /\ tries = 0 /\ NextAddress
     \/ peer[addr] = "refuses" /\ NextAddress
  /\ UNCHANGED <<over, peer, netFds, children>>

\* dcc_select_for_write() and SO_ERROR: connected, refused after all, or nothing
\* for dcc_connect_timeout.
AwaitConnect ==
  /\ doing = "select"
  /\ \/ /\ peer[addr] \in {"accepts", "busy"}
        /\ to' = Socket(addr) /\ from' = Socket(addr)
        /\ doing' = "use" /\ UNCHANGED <<addr, tries, ret>>
     \/ peer[addr] # "accepts" /\ NextAddress /\ UNCHANGED <<to, from>>
  /\ UNCHANGED <<over, peer, fds, children>>

-----------------------------------------------------------------------------
(* dcc_ssh_connect(), dcc_run_piped_cmd().                                 *)

MakePair ==
  /\ doing = "pair"
  /\ \/ fds' = fds \cup {ToChild(0), ToChild(1)} /\ doing' = "pair2" /\ UNCHANGED ret
     \/ May("pair") /\ Fails /\ UNCHANGED fds
  /\ UNCHANGED <<over, peer, addr, tries, to, from, children>>

MakeSecondPair ==
  /\ doing = "pair2"
  /\ \/ fds' = fds \cup {FromChild(0), FromChild(1)} /\ doing' = "fork" /\ UNCHANGED ret
     \/ May("pair") /\ Fails /\ fds' = fds \ {ToChild(0), ToChild(1)}
  /\ UNCHANGED <<over, peer, addr, tries, to, from, children>>

Fork ==
  /\ doing = "fork"
  /\ \/ ssh' = "forked" /\ doing' = "parent" /\ UNCHANGED <<fds, ret>>
     \/ ssh' = "unforked" /\ May("fork") /\ Fails /\ fds' = fds \ Pipes
  /\ UNCHANGED <<over, peer, addr, tries, to, from, cpp>>

\* The parent closes the child's ends.  When that fails it goes on without the
\* descriptors, and its own ends stay open.
ParentEnds ==
  /\ doing = "parent"
  /\ \/ /\ fds' = fds \ {FromChild(1), ToChild(0)}
        /\ from' = FromChild(0) /\ to' = ToChild(1)
        /\ doing' = "use" /\ UNCHANGED ret
     \/ /\ May("close") /\ Fails
        /\ fds' \in {fds \ {FromChild(1)}, fds \ {FromChild(1), ToChild(0)}}
        /\ UNCHANGED <<to, from>>
  /\ UNCHANGED <<over, peer, addr, tries, children>>

\* The child executes ssh, or cannot and becomes a client.
ChildExec ==
  /\ ssh = "forked"
  /\ \/ ssh' = "ssh"
     \/ May("exec") /\ ssh' = "client"
  /\ UNCHANGED <<over, peer, doing, addr, tries, netFds, cpp, ret>>

\* ssh ends when its input does, or by itself.  The other client compiles the file
\* here, as any client does without a server, and exits.
ChildEnds ==
  /\ \/ ssh = "ssh" /\ (ToChild(1) \notin fds \/ May("ssh"))
     \/ ssh = "client"
  /\ ssh' = "zombie"
  /\ UNCHANGED <<over, peer, doing, addr, tries, netFds, cpp, ret>>

CppEnds ==
  /\ cpp = "runs" /\ cpp' = "zombie"
  /\ UNCHANGED <<over, peer, doing, addr, tries, netFds, ssh, ret>>

-----------------------------------------------------------------------------
(* The rest of dcc_compile_remote().                                       *)

Collected(child) == IF child = "zombie" THEN "collected" ELSE child

\* The request and the results; they fail when there is no ssh at the other end.
\* dcc_wait_for_cpp() comes before what is to be compiled is sent.
Exchange ==
  /\ doing = "use"
  /\ doing' = "out"
  /\ \/ (over = "tcp" \/ ssh = "ssh") /\ cpp # "runs" /\ cpp' = Collected(cpp) /\ ret' = "ok"
     \/ /\ May("use") \/ ssh \in {"zombie", "client"}
        /\ cpp' \in {cpp, Collected(cpp)} /\ ret' = "failed"
  /\ UNCHANGED <<over, peer, addr, tries, netFds, ssh>>

\* A mutant of CloseNet: only a child that served is waited for.
CloseNetAfterSuccess ==
  /\ doing = "out"
  /\ fds' = fds \ {to, from}
  /\ doing' = IF ssh # "none" /\ ret = "ok" THEN "collect" ELSE "returned"
  /\ UNCHANGED <<over, peer, addr, tries, to, from, children, ret>>

\* out: the descriptors are closed, once if they are the same.
CloseNet ==
  /\ doing = "out"
  /\ fds' = fds \ {to, from}
  /\ doing' = IF ssh # "none" THEN "collect" ELSE "returned"
  /\ UNCHANGED <<over, peer, addr, tries, to, from, children, ret>>

\* dcc_collect_child() waits for as long as it takes, for ssh or for any child.
CollectSsh ==
  /\ doing = "collect" /\ doing' = "returned"
  /\ \/ ssh = "zombie" /\ ssh' = "collected" /\ UNCHANGED cpp
     \/ ssh = "unforked" /\ cpp # "runs" /\ cpp' = Collected(cpp) /\ UNCHANGED ssh
  /\ UNCHANGED <<over, peer, addr, tries, netFds, ret>>

ConnectStep ==
  \/ RemoteConnect \/ Resolve \/ OpenSocket \/ StartConnect \/ AwaitConnect
  \/ MakePair \/ MakeSecondPair \/ Fork \/ ParentEnds \/ Exchange \/ CloseNet \/ CollectSsh
LinkNext == ConnectStep \/ ChildExec \/ ChildEnds \/ CppEnds
LinkSpec == LinkInit /\ [][LinkNext]_linkVars

-----------------------------------------------------------------------------
\* The sockets that dcc_connect_by_addr() leaves open when it fails.
Abandoned == {Socket(i) : i \in {j \in 1 .. Addresses : peer[j] # "accepts"}}

(***************************************************************************)
(* The descriptors of a connection in use are open, and belong to the first*)
(* address that can be had.  Once dcc_compile_remote() has returned, they  *)
(* are closed - only sockets of addresses that failed, and the pipes after *)
(* a failure to close one, are left - and its child is gone: a child that  *)
(* could not execute ssh never compiles at the same time as its parent.    *)
(* The preprocessor has been waited for, unless the compilation failed     *)
(* before that.                                                            *)
(***************************************************************************)
ConnectionIsRight ==
  /\ doing = "use" => {to, from} \subseteq fds /\ (over = "tcp" <=> to = from)
  /\ doing = "use" /\ over = "tcp" =>
       \A i \in 1 .. addr - 1 : peer[i] = "accepts" => Socket(i) \notin fds
  /\ doing = "returned" =>
       /\ ssh \in {"none", "unforked", "collected"}
       /\ ret = "ok" \/ ssh = "unforked" => cpp \in {"none", "collected"}
       /\ fds \subseteq IF over = "tcp" THEN Abandoned
                        ELSE IF ret = "failed" /\ to = NoNet THEN Pipes ELSE {}
=============================================================================
