-------------------------------- MODULE Auth --------------------------------
(***************************************************************************)
(* Authentication before a job (auth_distcc.c, auth_distccd.c,             *)
(* auth_common.c).  One child of the daemon serves the clients one after   *)
(* the other with a global security context; a client waits a second for   *)
(* the handshake and for the notification.  Names of principals are        *)
(* numbers, whose order is that of strcmp().  GSS-API itself is a counter  *)
(* of the rounds a context has been through (Rounds of them, one for       *)
(* Kerberos).  Allocations of a few bytes do not fail.                     *)
(***************************************************************************)
EXTENDS Integers, Sequences

CONSTANTS
  Principals,     \* names
  Lists,          \* sorted sequences of names: the contents of the list file
  Rounds,         \* of the mechanism
  MaxClient       \* bound: clients 1 .. MaxClient, served in any order

(* the list has been sorted by dcc_gssapi_obtain_list() *)
ASSUME AuthAssumption ==
  /\ Principals \subseteq Nat \ {0} /\ Rounds \in Nat \ {0} /\ MaxClient \in Nat
  /\ Lists \subseteq Seq(Principals)
  /\ \A l \in Lists : \A i, j \in DOMAIN l : i <= j => l[i] <= l[j]

VARIABLES
  list, mode,     \* list and opt_blacklist_enabled / opt_whitelist_enabled: "black", "white", "none"
  serverAuth,     \* dcc_auth_enabled
  who,            \* client -> principal, or 0 for one that does not authenticate
  cl,             \* client -> where it is
  sv,             \* where the child is
  current,        \* the client of the open connection
  context,        \* distccd_ctx_handle: NoContext or <<client, rounds>>
  bottom, top,    \* of the search in the list, counted from one
  toServer, toClient,   \* client -> the two streams of its connection
  ran             \* clients whose job was run
search == <<bottom, top>>
authVars == <<list, mode, serverAuth, who, cl, sv, current, context, search, toServer, toClient, ran>>

AuthClients == 1 .. MaxClient
NoContext == <<0, 0>>
Ended == {"failed", "refused", "sent"}
Settings == <<list, mode, serverAuth, who>>

(***************************************************************************)
(* The client                                                              *)
(***************************************************************************)
Alive(c) == cl[c] \notin Ended \cup {"idle"}
Moves(c, to) == cl' = [cl EXCEPT ![c] = to]
Sends(c, m) == toServer' = [toServer EXCEPT ![c] = Append(@, m)]
Receives(c) == toClient' = [toClient EXCEPT ![c] = Tail(@)]
Arrived(c, state) == Alive(c) /\ cl[c] = state /\ toClient[c] # <<>>

(* The request of a client without authentication, or the handshake byte,
   unless the name of the server cannot be found out. *)
ClientStarts(c) ==
  /\ Alive(c) /\ cl[c] = "connected"
  /\ \/ who[c] = 0 /\ Sends(c, <<"DIST">>) /\ Moves(c, "sent")
     \/ who[c] # 0 /\ Sends(c, <<"H">>) /\ Moves(c, "handshake")
     \/ who[c] # 0 /\ UNCHANGED toServer /\ Moves(c, "failed")
  /\ UNCHANGED <<Settings, sv, current, context, search, toClient, ran>>
(* gss_init_sec_context() makes the first token, or fails *)
ClientHandshake(c) ==
  /\ Arrived(c, "handshake") /\ Receives(c)
  /\ \/ Head(toClient[c]) = <<"H">> /\ Sends(c, <<"token", c, 1>>) /\ Moves(c, "token")
     \/ UNCHANGED toServer /\ Moves(c, "failed")
  /\ UNCHANGED <<Settings, sv, current, context, search, ran>>
(* dcc_gssapi_establish_secure_context(): the loop over the tokens; at its end,
   or in it, the client may find the server or its services not good enough *)
ClientToken(c) ==
  /\ Arrived(c, "token") /\ Receives(c)
  /\ LET round == Head(toClient[c])[3] IN
     \/ round < Rounds /\ Sends(c, <<"token", c, round + 1>>) /\ UNCHANGED cl
     \/ round = Rounds /\ UNCHANGED toServer /\ Moves(c, "notify")
     \/ UNCHANGED toServer /\ Moves(c, "failed")
  /\ UNCHANGED <<Settings, sv, current, context, search, ran>>
(* dcc_gssapi_recv_notification(), then the request *)
ClientNotified(c) ==
  /\ Arrived(c, "notify") /\ Receives(c)
  /\ IF Head(toClient[c]) = <<"y">> THEN Sends(c, <<"DIST">>) /\ Moves(c, "sent")
     ELSE UNCHANGED toServer /\ Moves(c, "refused")
  /\ UNCHANGED <<Settings, sv, current, context, search, ran>>
\* A mutant of ClientTimeout: the handshake is waited for without a limit.
ClientTimeout_NotifyOnly(c) ==
  /\ Alive(c) /\ cl[c] = "notify" /\ toClient[c] = <<>>
  /\ Moves(c, "failed")
  /\ UNCHANGED <<Settings, sv, current, context, search, toServer, toClient, ran>>
(* select() ran out, before the handshake and before the notification only *)
ClientTimeout(c) ==
  /\ Alive(c) /\ cl[c] \in {"handshake", "notify"} /\ toClient[c] = <<>>
  /\ Moves(c, "failed")
  /\ UNCHANGED <<Settings, sv, current, context, search, toServer, toClient, ran>>
(* the child closed the connection *)
ClientEof(c) ==
  /\ Alive(c) /\ current # c /\ toClient[c] = <<>>
  /\ Moves(c, "failed")
  /\ UNCHANGED <<Settings, sv, current, context, search, toServer, toClient, ran>>
(* the client is killed *)
ClientGone(c) ==
  /\ Alive(c)
  /\ Moves(c, "failed")
  /\ UNCHANGED <<Settings, sv, current, context, search, toServer, toClient, ran>>

(***************************************************************************)
(* The child                                                               *)
(***************************************************************************)
AtEof == toServer[current] = <<>> /\ cl[current] \in Ended
Incoming == toServer[current]
Taken == toServer' = [toServer EXCEPT ![current] = Tail(@)]
Answers(ms) == toClient' = [toClient EXCEPT ![current] = @ \o ms]
Hangup == sv' = "accept" /\ current' = 0
Accept ==
  /\ sv = "accept"
  /\ \E c \in AuthClients : cl[c] = "idle" /\ current' = c /\ cl' = [cl EXCEPT ![c] = "connected"]
  /\ sv' = IF serverAuth THEN "handshake" ELSE "job"
  /\ UNCHANGED <<Settings, context, search, toServer, toClient, ran>>
(* the peer closed: every read of the child fails *)
ServerEof ==
  /\ sv \in {"handshake", "token", "job"} /\ AtEof /\ Hangup
  /\ UNCHANGED <<Settings, cl, context, search, toServer, toClient, ran>>
(* dcc_gssapi_recv_handshake() *)
ServerHandshake ==
  /\ sv = "handshake" /\ Incoming # <<>>
  /\ Taken
  /\ IF Head(Incoming) = <<"H">> THEN Answers(<<<<"H">>>>) /\ sv' = "token" /\ UNCHANGED <<cl, current>>
     ELSE Hangup /\ UNCHANGED <<toClient, cl>>
  /\ UNCHANGED <<Settings, context, search, ran>>
(* gss_accept_sec_context(): the token has to be the next of the context *)
GssAccept(token) ==
  IF context = NoContext THEN token[3] = 1 ELSE token[2] = context[1] /\ token[3] = context[2] + 1
(* A write fails only once the client has closed its end, and then it may. *)
HasClosed == cl[current] \in Ended
(* dcc_gssapi_accept_secure_context(): one turn of its loop.  When it fails, the
   context stays as it is. *)
ServerToken ==
  LET token == Head(Incoming) IN
  /\ sv = "token" /\ Incoming # <<>>
  /\ Taken
  /\ \/ ~GssAccept(token) /\ Hangup /\ UNCHANGED <<context, toClient>>
     \/ /\ GssAccept(token) /\ context' = <<token[2], token[3]>>
        /\ \/ HasClosed /\ Hangup /\ UNCHANGED toClient
           \/ Answers(<<token>>) /\ sv' = (IF token[3] < Rounds THEN "token" ELSE "check") /\ UNCHANGED current
  /\ UNCHANGED <<Settings, cl, search, ran>>
(* dcc_gssapi_notify_client(), and the end of dcc_gssapi_check_client(): the
   context is deleted in any case *)
Notify(granted) ==
  /\ context' = NoContext
  /\ \/ granted /\ Answers(<<<<"y">>>>) /\ sv' = "job" /\ UNCHANGED current
     \/ granted /\ HasClosed /\ Hangup /\ UNCHANGED toClient
     \/ ~granted /\ Answers(<<<<"n">>>>) /\ Hangup
(* dcc_gssapi_check_client() after the negotiation: the security services have
   to match, then a list may have to be searched *)
ServerCheck ==
  /\ sv = "check"
  /\ \/ context' = NoContext /\ Hangup /\ UNCHANGED <<search, toClient>>
     \/ mode = "none" /\ Notify(TRUE) /\ UNCHANGED search
     \/ /\ mode # "none" /\ sv' = "search" /\ bottom' = 1 /\ top' = Len(list)
        /\ UNCHANGED <<current, context, toClient>>
  /\ UNCHANGED <<Settings, cl, toServer, ran>>
(* dcc_gssapi_bin_search() *)
Middle == (bottom + top) \div 2
\* A mutant of RangeLeft: the last name of the range is not looked at.
RangeLeft_Short == bottom < top
RangeLeft == bottom <= top
Found == RangeLeft /\ list[Middle] = who[current]
ServerSearch ==
  /\ sv = "search" /\ RangeLeft /\ ~Found
  /\ \/ who[current] < list[Middle] /\ top' = Middle - 1 /\ UNCHANGED bottom
     \/ who[current] > list[Middle] /\ bottom' = Middle + 1 /\ UNCHANGED top
  /\ UNCHANGED <<Settings, cl, sv, current, context, toServer, toClient, ran>>
(* dcc_gssapi_check_list() *)
ServerDecides ==
  /\ sv = "search" /\ (~RangeLeft \/ Found)
  /\ Notify(Found <=> mode = "white")
  /\ bottom' = 0 /\ top' = 0
  /\ UNCHANGED <<Settings, cl, toServer, ran>>
(* dcc_run_job(): the request; a lone handshake byte is not yet a token *)
ServerJob ==
  /\ sv = "job" /\ Incoming # <<>> /\ Head(Incoming) = <<"DIST">>
  /\ Taken /\ ran' = ran \cup {current} /\ Hangup
  /\ UNCHANGED <<Settings, cl, context, search, toClient>>
ServerShort ==
  /\ sv = "job" /\ Incoming # <<>> /\ Head(Incoming) # <<"DIST">> /\ cl[current] \in Ended
  /\ Hangup
  /\ UNCHANGED <<Settings, cl, context, search, toServer, toClient, ran>>

AuthInit ==
  /\ list \in Lists /\ mode \in {"none", "black", "white"} /\ serverAuth \in BOOLEAN
  /\ who \in [AuthClients -> Principals \cup {0}]
  /\ cl = [c \in AuthClients |-> "idle"] /\ sv = "accept" /\ current = 0 /\ context = NoContext
  /\ bottom = 0 /\ top = 0
  /\ toServer = [c \in AuthClients |-> <<>>] /\ toClient = [c \in AuthClients |-> <<>>] /\ ran = {}
ClientStep(c) ==
  ClientStarts(c) \/ ClientHandshake(c) \/ ClientToken(c) \/ ClientNotified(c) \/ ClientTimeout(c)
  \/ ClientEof(c)
ServerStep ==
  \/ Accept \/ ServerEof \/ ServerHandshake \/ ServerToken \/ ServerCheck \/ ServerSearch
  \/ ServerDecides \/ ServerJob \/ ServerShort
AuthNext == ServerStep \/ \E c \in AuthClients : ClientStep(c) \/ ClientGone(c)
AuthSpec == AuthInit /\ [][AuthNext]_authVars

(***************************************************************************)
(* Properties                                                              *)
(***************************************************************************)
(* The child is left with a context of an earlier connection only when that client
   went away before its answer could be sent; whoever stays, and is refused at
   whatever point, leaves nothing behind.
   (dcc_gssapi_check_client(), dcc_service_job()) *)
ContextIsFresh == sv \in {"accept", "handshake"} /\ context # NoContext => cl[context[1]] \in Ended

(* With authentication, only jobs of principals that the list admits are run;
   the search finds every name of the sorted list.
   (dcc_gssapi_bin_search(), dcc_gssapi_check_list()) *)
RanIsAdmitted ==
  serverAuth => \A c \in ran :
    /\ who[c] # 0
    /\ mode = "black" => \A i \in DOMAIN list : list[i] # who[c]
    /\ mode = "white" => \E i \in DOMAIN list : list[i] = who[c]

(* a client that has not given up nor sent its request, or keeps the child busy *)
Negotiates(c) == Alive(c) \/ current = c

(* Each client is judged by its own negotiation, and only those that the list
   admits are served.  (auth_distccd.c) *)
OnlyAdmittedRun == ContextIsFresh /\ RanIsAdmitted
=============================================================================
