----------------------------- MODULE MCServices -----------------------------
(***************************************************************************)
(* Between client and server, for model checking: connecting, sending and  *)
(* receiving, the GSS-API negotiation, the registration of a server with   *)
(* zeroconf, and the host scanner lsdistcc.  They share no state; a        *)
(* behaviour is one of one part.                                           *)
(***************************************************************************)
EXTENDS Connect, Transfer, Lsdistcc, Register, Auth

VARIABLE part
mcVars == <<part, linkVars, transferVars, lsVars, registerVars, authVars>>

(* a request with included files: their number, and each with its name.  The first
   file is long enough to take in all of the second, and to be compressed so well
   that the first buffer for it is too small *)
Item(t, k, n, p) == [token |-> t, kind |-> k, size |-> n, packed |-> p]
Included(n, p) == <<Item("NAME", "string", 1, 0), Item("FILE", "file", n, p)>>
MCScripts ==
  {<<Item("NFIL", "int", 3, 0)>> \o Included(8, 1) \o Included(3, 1) \o Included(1, 2),
   <<Item("NFIL", "int", 2, 0)>> \o Included(17, 1) \o Included(0, 0)}

(* lsdistcc: how a host behaves - what the network does with a connection,
   its address, the tokens it sends, and whether it ends the connection *)
Behaves(n, a, r, e) == [net |-> n, address |-> a, reply |-> r, ends |-> e]
Good == Behaves("listens", "net1", <<"DONE", "STAT0">>, TRUE)
Failing == Behaves("listens", "net1", <<"DONE", "STAT1">>, TRUE)
Hangs == Behaves("listens", "net1", <<"DONE">>, FALSE)
Refuses == Behaves("refuses", "net1", <<>>, FALSE)
Unreachable == Behaves("unreachable", "net2", <<>>, FALSE)
Silent == Behaves("silent", "net1", <<>>, FALSE)
Unknown == Behaves("silent", NoAddress, <<>>, FALSE)
MCNets == {<<Good, Silent>>, <<Hangs, Refuses>>, <<Unknown, Good>>, <<Failing, Unreachable>>}

(* GSS-API: lists of names, in order *)
MCLists == {<<1>>, <<1, 3>>, <<1, 2, 3>>}

-----------------------------------------------------------------------------
MCInit ==
  /\ part \in {"connect", "transfer", "ls", "register", "auth"}
  /\ LinkInit /\ (part # "connect" => over = "ssh" /\ cpp = "none" /\ \A i \in 1 .. Addresses : peer[i] = "accepts")
  /\ TransferInit /\ (part # "transfer" => compr = "none" /\ Len(script) = 5)
  /\ RegisterInit
  /\ IF part = "ls" THEN LsInit
     ELSE NothingScanned /\ phase = "done" /\ behaves = <<Good, Silent>> /\ opt_compile
  /\ AuthInit /\ (part # "auth" => list = <<1>> /\ mode = "none" /\ ~serverAuth
                                         /\ \A c \in AuthClients : who[c] = 0)

InConnect == part = "connect" /\ LinkNext
             /\ UNCHANGED <<part, transferVars, lsVars, registerVars, authVars>>
InTransfer(step) == part = "transfer" /\ step
                    /\ UNCHANGED <<part, linkVars, lsVars, registerVars, authVars>>
InLs(step) == part = "ls" /\ step
              /\ UNCHANGED <<part, linkVars, transferVars, registerVars, authVars>>
InRegister == part = "register" /\ RegisterNext
              /\ UNCHANGED <<part, linkVars, transferVars, lsVars, authVars>>
InAuth(step) == part = "auth" /\ step
                /\ UNCHANGED <<part, linkVars, transferVars, lsVars, registerVars>>

MCNext ==
  \/ InConnect \/ InTransfer(TransferNext) \/ InLs(LsNext) \/ InRegister
  \/ InAuth(AuthNext)

(* Both sides of a transfer and of a negotiation go on; lsdistcc goes on polling,
   its resolver answers and its deadlines pass (poll() has a time limit).  A
   behaviour is one of one part, so that a disjunction of steps of different
   parts is fair when each is.  Nothing is assumed of the network or of what is
   announced on it. *)
MCSpec ==
  /\ MCInit /\ [][MCNext]_mcVars
  /\ WF_mcVars(InTransfer(SenderStep) \/ InAuth(ServerStep) \/ InLs(PollPass \/ NextGroup))
  /\ WF_mcVars(\/ InTransfer(ReceiverStep) \/ InAuth(\E c \in AuthClients : ClientStep(c))
               \/ InLs(SlaveAnswers))
  /\ WF_mcVars(InLs(\E i \in Hosts : DeadlinePasses(i)))

-----------------------------------------------------------------------------
(* Whatever waits for another program goes on in the end.  Both sides of a
   transfer come to an end, also when one waits for what the other believes to
   have sent (io.c); a scan ends without the alarm, because a host that does not
   answer, or hangs in the middle of a reply, is given up (lsdistcc.c); and
   whichever of the two sides authenticates, the client gives up or sends its
   request, and the child is free again (auth_distcc.c, auth_distccd.c). *)
Busy(c) == (part = "transfer" /\ ~TransferOver) \/ phase = "poll" \/ Negotiates(c)
ServicesEnd == \A c \in AuthClients : []<>~Busy(c)
=============================================================================
