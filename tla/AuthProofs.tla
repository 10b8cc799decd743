----------------------------- MODULE AuthProofs -----------------------------
(***************************************************************************)
(* Proofs about the authentication of clients (Auth).  The invariant is    *)
(* checked by TLC on the run services; here it is proved for any number of *)
(* clients and rounds, and any list.                                       *)
(***************************************************************************)
EXTENDS Auth, TLAPS

(***************************************************************************)
(* Auth                                                                    *)
(***************************************************************************)
GssToken(c, k) == <<"token", c, k>>
Requests == {<<"H">>, <<"DIST">>} \cup {GssToken(c, k) : c \in AuthClients, k \in Nat}
Replies == {<<"H">>, <<"y">>, <<"n">>} \cup {GssToken(c, k) : c \in AuthClients, k \in Nat}
AuthTypeOK ==
  /\ list \in Lists /\ mode \in {"none", "black", "white"} /\ serverAuth \in BOOLEAN
  /\ who \in [AuthClients -> Principals \cup {0}]
  /\ cl \in [AuthClients -> {"idle", "connected", "handshake", "token", "notify"} \cup Ended]
  /\ sv \in {"accept", "handshake", "token", "check", "search", "job"}
  /\ IF sv = "accept" THEN current = 0 ELSE current \in AuthClients
  /\ context = NoContext \/ context \in AuthClients \X Nat
  /\ toServer \in [AuthClients -> Seq(Requests)] /\ toClient \in [AuthClients -> Seq(Replies)]
  /\ ran \in SUBSET AuthClients

(* Whom the list lets in. *)
Admitted(c) ==
  /\ who[c] # 0
  /\ mode = "black" => \A i \in DOMAIN list : list[i] # who[c]
  /\ mode = "white" => \E i \in DOMAIN list : list[i] = who[c]

(* The search has the name between bottom and top, if anywhere. *)
SearchInv ==
  sv = "search" =>
    /\ mode # "none"
    /\ bottom \in 1 .. Len(list) + 1 /\ top \in 0 .. Len(list)
    /\ \A i \in DOMAIN list : i < bottom => list[i] < who[current]
    /\ \A i \in DOMAIN list : top < i => who[current] < list[i]

(* A client that does not authenticate sends nothing that looks as if it did; one
   that got past the handshake does authenticate, and one that got to its job has
   been let in. *)
AdmissionInv ==
  /\ \A c \in AuthClients : who[c] = 0 =>
       /\ cl[c] \in {"idle", "connected"} \cup Ended
       /\ \A i \in DOMAIN toServer[c] : toServer[c][i] = <<"DIST">>
  /\ serverAuth =>
       /\ sv \in {"token", "check", "search"} => who[current] # 0
       /\ sv = "job" => Admitted(current)
       /\ \A c \in ran : Admitted(c)
  /\ ~serverAuth => sv \in {"accept", "job"}

(* Client and child take turns, from the handshake to the last token.  (What a client
   that has gone away left behind does not matter.) *)
Turns(c) ==
  /\ cl[c] = "idle" => toServer[c] = <<>> /\ toClient[c] = <<>> /\ current # c
  /\ ~serverAuth => toClient[c] = <<>>
  /\ cl[c] = "connected" => toClient[c] = <<>>
  /\ cl[c] = "handshake" => toClient[c] \in {<<>>, <<<<"H">>>>}
  /\ cl[c] \in {"connected", "handshake"} /\ current = c => sv \in {"handshake", "token"} \/ ~serverAuth
  /\ cl[c] = "token" =>
       \/ toClient[c] = <<>> /\ (current = c => sv = "token")
       \/ \E k \in 1 .. Rounds :
            /\ toClient[c] # <<>> /\ Head(toClient[c]) = GssToken(c, k)
            /\ k < Rounds => Len(toClient[c]) = 1 /\ (current = c => sv = "token")
  /\ current = c /\ sv = "handshake" =>
       /\ toServer[c] \in {<<>>, <<<<"H">>>>, <<<<"DIST">>>>}
       /\ cl[c] \notin Ended =>
            /\ toClient[c] = <<>>
            /\ \/ cl[c] = "connected" /\ toServer[c] = <<>>
               \/ cl[c] = "handshake" /\ toServer[c] = <<<<"H">>>>
  /\ current = c /\ sv = "token" =>
       /\ toServer[c] = <<>> \/ \E k \in 1 .. Rounds : toServer[c] = <<GssToken(c, k)>>
       /\ cl[c] \notin Ended =>
            \/ /\ cl[c] = "handshake" /\ context[1] # c
               /\ toServer[c] = <<>> /\ toClient[c] = <<<<"H">>>>
            \/ \E k \in 1 .. Rounds :
                 /\ cl[c] = "token" /\ (context[1] = c => context[2] + 1 = k)
                 /\ toServer[c] = <<GssToken(c, k)>> /\ toClient[c] = <<>>
            \/ /\ cl[c] = "token" /\ context[1] = c /\ context[2] \in 1 .. Rounds - 1
               /\ toServer[c] = <<>> /\ toClient[c] = <<GssToken(c, context[2])>>

(* A context belongs to the client that is served, or to one that went away. *)
ContextInv ==
  context # NoContext =>
    cl[context[1]] \in Ended \/ (context[1] = current /\ sv \in {"token", "check", "search"})

AuthInv ==
  /\ AuthTypeOK /\ SearchInv /\ AdmissionInv /\ ContextInv
  /\ \A c \in AuthClients : Turns(c)

LEMMA AuthInvIsEnough == AuthInv => OnlyAdmittedRun
<1> SUFFICES ASSUME AuthInv PROVE OnlyAdmittedRun
  BY Zenon
<1>1. ContextIsFresh
  BY Zenon DEF AuthInv, ContextInv, ContextIsFresh
<1>2. RanIsAdmitted
  BY Zenon DEF AuthInv, AdmissionInv, Admitted, RanIsAdmitted
<1> QED
  BY <1>1, <1>2, Zenon DEF OnlyAdmittedRun

LEMMA PrincipalsAreNumbers ==
  /\ \A p \in Principals : p \in Nat /\ p # 0
  /\ \A p \in Principals \cup {0} : p \in Nat
BY AuthAssumption

(* One step of the search: the middle is inside the list, and the half that is given
   up does not hold the name. *)
LEMMA SearchNarrows ==
  ASSUME AuthTypeOK, SearchInv, sv = "search", bottom <= top
  PROVE  /\ Middle \in DOMAIN list /\ Middle \in bottom .. top
         /\ who[current] < list[Middle] => \A i \in DOMAIN list : Middle - 1 < i => who[current] < list[i]
         /\ list[Middle] < who[current] => \A i \in DOMAIN list : i < Middle + 1 => list[i] < who[current]
<1>1. list \in Seq(Principals) /\ list \in Lists
  BY AuthAssumption, Zenon DEF AuthTypeOK
<1>2. Middle \in bottom .. top
  BY DEF SearchInv, Middle
<1>3. Middle \in DOMAIN list
  BY <1>1, <1>2 DEF SearchInv
<1>4. \A i, j \in DOMAIN list : i <= j => list[i] <= list[j]
  BY <1>1, AuthAssumption, Zenon
<1>5. \A i \in DOMAIN list : list[i] \in Nat /\ i \in Nat
  <2>1. \A i \in DOMAIN list : list[i] \in Principals /\ i \in 1 .. Len(list)
    BY <1>1
  <2> QED
    BY <1>1, <2>1, PrincipalsAreNumbers
<1>6. who[current] \in Nat
  BY PrincipalsAreNumbers, Zenon DEF AuthTypeOK
<1>7. Middle \in Int
  BY <1>1, <1>3
<1> HIDE DEF Middle
<1>8. who[current] < list[Middle] => \A i \in DOMAIN list : Middle - 1 < i => who[current] < list[i]
  BY <1>3, <1>4, <1>5, <1>6, <1>7
<1>9. list[Middle] < who[current] => \A i \in DOMAIN list : i < Middle + 1 => list[i] < who[current]
  BY <1>3, <1>4, <1>5, <1>6, <1>7
<1> QED
  BY <1>2, <1>3, <1>8, <1>9, Zenon

(* The search decides rightly. *)
LEMMA SearchIsRight ==
  ASSUME AuthTypeOK, SearchInv, sv = "search", ~RangeLeft \/ Found
  PROVE  Found <=> \E i \in DOMAIN list : list[i] = who[current]
<1>1. CASE RangeLeft
  BY <1>1, SearchNarrows, Zenon DEF Found, RangeLeft
<1>2. CASE ~RangeLeft
  <2>1. ASSUME NEW i \in DOMAIN list PROVE list[i] # who[current]
    <3>1. list[i] \in Nat /\ i \in Nat
      <4>1. list \in Seq(Principals)
        BY AuthAssumption, Zenon DEF AuthTypeOK
      <4>2. list[i] \in Principals /\ i \in 1 .. Len(list)
        BY <4>1
      <4> QED
        BY <4>1, <4>2, PrincipalsAreNumbers
    <3>4. who[current] \in Nat
      BY PrincipalsAreNumbers, Zenon DEF AuthTypeOK
    <3>2. bottom \in Int /\ top \in Int /\ top < bottom
      BY <1>2 DEF SearchInv, RangeLeft
    <3>3. i < bottom \/ top < i
      BY <3>1, <3>2
    <3> QED
      BY <3>1, <3>3, <3>4 DEF SearchInv
  <2> QED
    BY <1>2, <2>1, Zenon DEF Found
<1> QED
  BY <1>1, <1>2, Zenon

-----------------------------------------------------------------------------
(* A client that a step does not touch keeps its place in the conversation, when
   the child is not busy with it, or does not move either. *)
LEMMA BystanderTurns ==
  ASSUME NEW c \in AuthClients, Turns(c),
         cl'[c] = cl[c], toServer'[c] = toServer[c], toClient'[c] = toClient[c],
         serverAuth' = serverAuth,
         \/ current' # c
         \/ current' = current /\ sv' = sv /\ context' = context
  PROVE  Turns(c)'
<1>1. CASE current' # c
  BY <1>1, Zenon DEF Turns
<1>2. CASE current' = current /\ sv' = sv /\ context' = context
  BY <1>2, Zenon DEF Turns
<1> QED
  BY <1>1, <1>2, Zenon

(* What every step of a client leaves alone. *)
ServerStays == UNCHANGED <<Settings, sv, current, context, search, ran>>
LEMMA ClientStepKeeps ==
  ASSUME AuthInv, NEW c \in AuthClients, Alive(c), ServerStays,
         NEW s \in {"connected", "handshake", "token", "notify"} \cup Ended, Moves(c, s),
         toServer' \in [AuthClients -> Seq(Requests)], toClient' \in [AuthClients -> Seq(Replies)],
         \A d \in AuthClients \ {c} : toServer'[d] = toServer[d] /\ toClient'[d] = toClient[d],
         who[c] = 0 => s \in Ended /\ \A i \in DOMAIN toServer'[c] : toServer'[c][i] = <<"DIST">>,
         Turns(c)'
  PROVE  AuthInv'
<1>1. cl' \in [AuthClients -> {"idle", "connected", "handshake", "token", "notify"} \cup Ended]
  BY Zenon DEF AuthInv, AuthTypeOK, Moves
<1>2. cl'[c] = s /\ \A d \in AuthClients \ {c} : cl'[d] = cl[d]
  BY Zenon DEF AuthInv, AuthTypeOK, Moves
<1>3. AuthTypeOK'
  BY <1>1, Zenon DEF AuthInv, AuthTypeOK, ServerStays, Settings
<1>4. SearchInv'
  BY Zenon DEF AuthInv, SearchInv, ServerStays, Settings, search
<1>5. AdmissionInv'
  <2>1. ASSUME NEW d \in AuthClients, who'[d] = 0
        PROVE  /\ cl'[d] \in {"idle", "connected"} \cup Ended
               /\ \A i \in DOMAIN toServer'[d] : toServer'[d][i] = <<"DIST">>
    <3>1. who[d] = 0
      BY <2>1, Zenon DEF ServerStays, Settings
    <3>2. CASE d = c
      BY <1>2, <3>1, <3>2, Zenon
    <3>3. CASE d # c
      <4>1. cl'[d] = cl[d] /\ toServer'[d] = toServer[d]
        BY <1>2, <3>3, Zenon
      <4> QED
        BY <3>1, <4>1 DEF AuthInv, AdmissionInv
    <3> QED
      BY <3>2, <3>3, Zenon
  <2>2. UNCHANGED <<serverAuth, sv, current, ran>> /\ \A d : Admitted(d)' <=> Admitted(d)
    BY Zenon DEF ServerStays, Settings, Admitted
  <2> QED
    BY <2>1, <2>2 DEF AuthInv, AdmissionInv, ServerStays, Settings
<1>6. ContextInv'
  <2>1. \A d \in AuthClients : cl[d] \in Ended => cl'[d] \in Ended
    BY <1>2, Zenon DEF Alive
  <2>2. context # NoContext => context[1] \in AuthClients
    BY Zenon DEF AuthInv, AuthTypeOK
  <2> QED
    BY <2>1, <2>2, Zenon DEF AuthInv, ContextInv, ServerStays
<1>7. \A d \in AuthClients : Turns(d)'
  <2>1. ASSUME NEW d \in AuthClients, d # c PROVE Turns(d)'
    <3>1. Turns(d) /\ cl'[d] = cl[d] /\ toServer'[d] = toServer[d] /\ toClient'[d] = toClient[d]
      BY <1>2, <2>1, Zenon DEF AuthInv
    <3> QED
      BY <3>1, BystanderTurns, Zenon DEF ServerStays, Settings
  <2> QED
    BY <2>1, Zenon
<1> QED
  BY <1>3, <1>4, <1>5, <1>6, <1>7, Zenon DEF AuthInv

(* The two streams of a connection. *)
LEMMA StreamTypes ==
  ASSUME AuthTypeOK, NEW c \in AuthClients
  PROVE  /\ \A m \in Requests : Sends(c, m) =>
              /\ toServer' \in [AuthClients -> Seq(Requests)]
              /\ toServer'[c] = Append(toServer[c], m)
              /\ \A d \in AuthClients \ {c} : toServer'[d] = toServer[d]
         /\ toClient[c] # <<>> /\ Receives(c) =>
              /\ toClient' \in [AuthClients -> Seq(Replies)]
              /\ toClient'[c] = Tail(toClient[c])
              /\ \A d \in AuthClients \ {c} : toClient'[d] = toClient[d]
<1>1. ASSUME NEW m \in Requests, Sends(c, m)
      PROVE  /\ toServer' \in [AuthClients -> Seq(Requests)]
             /\ toServer'[c] = Append(toServer[c], m)
             /\ \A d \in AuthClients \ {c} : toServer'[d] = toServer[d]
  BY <1>1 DEF AuthTypeOK, Sends
<1>2. ASSUME toClient[c] # <<>>, Receives(c)
      PROVE  /\ toClient' \in [AuthClients -> Seq(Replies)]
             /\ toClient'[c] = Tail(toClient[c])
             /\ \A d \in AuthClients \ {c} : toClient'[d] = toClient[d]
  BY <1>2 DEF AuthTypeOK, Receives
<1> QED
  BY <1>1, <1>2, Zenon

LEMMA OneMessage ==
  ASSUME NEW m
  PROVE  /\ Append(<<>>, m) = <<m>> /\ <<>> \o <<m>> = <<m>> /\ <<m>> # <<>>
         /\ Head(<<m>>) = m /\ Tail(<<m>>) = <<>> /\ Len(<<m>>) = 1
OBVIOUS

LEMMA MessageTypes ==
  /\ <<"H">> \in Requests /\ <<"DIST">> \in Requests
  /\ <<"H">> \in Replies /\ <<"y">> \in Replies /\ <<"n">> \in Replies
  /\ \A c \in AuthClients, k \in Nat : GssToken(c, k) \in Requests /\ GssToken(c, k) \in Replies
  /\ \A c \in AuthClients, k \in Nat : GssToken(c, k)[2] = c /\ GssToken(c, k)[3] = k
  /\ \A c \in AuthClients, k \in Nat : GssToken(c, k) # <<"H">> /\ GssToken(c, k) # <<"DIST">>
  /\ <<"H">> # <<"DIST">> /\ <<"y">> # <<"n">>
<1>1. /\ <<"H">> \in Requests /\ <<"DIST">> \in Requests
      /\ <<"H">> \in Replies /\ <<"y">> \in Replies /\ <<"n">> \in Replies
  BY DEF Requests, Replies
<1>2. \A c \in AuthClients, k \in Nat : GssToken(c, k) \in Requests /\ GssToken(c, k) \in Replies
  BY DEF Requests, Replies
<1>3. \A c \in AuthClients, k \in Nat : GssToken(c, k)[2] = c /\ GssToken(c, k)[3] = k
  BY Zenon DEF GssToken
<1>4. \A c \in AuthClients, k \in Nat : GssToken(c, k) # <<"H">> /\ GssToken(c, k) # <<"DIST">>
  BY Zenon DEF GssToken
<1> QED
  BY <1>1, <1>2, <1>3, <1>4, Zenon

LEMMA NothingLeft == ASSUME NEW S, NEW s \in Seq(S), Len(s) = 0 PROVE s = <<>>
OBVIOUS

LEMMA LastMessage == \A s \in Seq(Replies) : Len(s) = 1 => Tail(s) = <<>>
<1> SUFFICES ASSUME NEW s \in Seq(Replies), Len(s) = 1 PROVE Tail(s) = <<>>
  BY Zenon
<1>1. Tail(s) \in Seq(Replies) /\ Len(Tail(s)) = 0
  BY SMTT(30)
<1> QED
  BY <1>1, NothingLeft, Zenon

LEMMA ClientStartsKeeps ==
  ASSUME AuthInv, NEW c \in AuthClients, ClientStarts(c)
  PROVE  AuthInv'
<1>1. AuthTypeOK /\ Turns(c) /\ Alive(c) /\ cl[c] = "connected" /\ ServerStays /\ toClient' = toClient
  BY Zenon DEF ClientStarts, AuthInv, ServerStays
<1>2. toClient' \in [AuthClients -> Seq(Replies)]
  BY <1>1, Zenon DEF AuthTypeOK
<1>3. toClient[c] = <<>>
  BY <1>1, Zenon DEF Turns
<1>4. current = c /\ sv = "handshake" => toServer[c] = <<>>
  BY <1>1, Zenon DEF Turns, Ended
<1>5. current = c => sv # "token"
  BY <1>1, Zenon DEF Turns, Ended
<1>6. CASE who[c] = 0 /\ Sends(c, <<"DIST">>) /\ Moves(c, "sent")
  <2>1. /\ toServer' \in [AuthClients -> Seq(Requests)]
        /\ toServer'[c] = Append(toServer[c], <<"DIST">>)
        /\ \A d \in AuthClients \ {c} : toServer'[d] = toServer[d]
    BY <1>1, <1>6, StreamTypes, MessageTypes, Zenon
  <2>2. cl'[c] = "sent"
    BY <1>1, <1>6, Zenon DEF Moves, AuthTypeOK
  <2>3. toServer[c] \in Seq(Requests) /\ \A i \in DOMAIN toServer[c] : toServer[c][i] = <<"DIST">>
    BY <1>1, <1>6, Zenon DEF AuthInv, AdmissionInv, AuthTypeOK
  <2>4. \A i \in DOMAIN toServer'[c] : toServer'[c][i] = <<"DIST">>
    BY <2>1, <2>3
  <2>8. current = c /\ sv = "handshake" => toServer'[c] = <<<<"DIST">>>>
    BY <1>4, <2>1, OneMessage, Zenon
  <2>5. Turns(c)'
    BY <1>1, <1>5, <2>2, <2>8, Zenon DEF Turns, Ended, ServerStays, Settings
  <2>6. \A d \in AuthClients \ {c} : toServer'[d] = toServer[d] /\ toClient'[d] = toClient[d]
    BY <1>1, <2>1, Zenon
  <2>7. "sent" \in Ended
    BY Zenon DEF Ended
  <2> QED
    BY <1>1, <1>2, <1>6, <2>1, <2>4, <2>5, <2>6, <2>7, ClientStepKeeps, Zenon
<1>7. CASE who[c] # 0 /\ Sends(c, <<"H">>) /\ Moves(c, "handshake")
  <2>1. /\ toServer' \in [AuthClients -> Seq(Requests)]
        /\ toServer'[c] = Append(toServer[c], <<"H">>)
        /\ \A d \in AuthClients \ {c} : toServer'[d] = toServer[d]
    BY <1>1, <1>7, StreamTypes, MessageTypes, Zenon
  <2>2. cl'[c] = "handshake"
    BY <1>1, <1>7, Zenon DEF Moves, AuthTypeOK
  <2>8. current = c /\ sv = "handshake" => toServer'[c] = <<<<"H">>>>
    BY <1>4, <2>1, OneMessage, Zenon
  <2>3. Turns(c)'
    BY <1>1, <1>3, <1>5, <2>2, <2>8, Zenon DEF Turns, Ended, ServerStays, Settings
  <2>4. \A d \in AuthClients \ {c} : toServer'[d] = toServer[d] /\ toClient'[d] = toClient[d]
    BY <1>1, <2>1, Zenon
  <2> QED
    BY <1>1, <1>2, <1>7, <2>1, <2>3, <2>4, ClientStepKeeps, Zenon
<1>8. CASE who[c] # 0 /\ UNCHANGED toServer /\ Moves(c, "failed")
  <2>1. cl'[c] = "failed"
    BY <1>1, <1>8, Zenon DEF Moves, AuthTypeOK
  <2>2. Turns(c)'
    BY <1>1, <1>5, <1>8, <2>1, Zenon DEF Turns, Ended, ServerStays, Settings
  <2> QED
    BY <1>1, <1>2, <1>8, <2>2, ClientStepKeeps, Zenon DEF Ended, AuthTypeOK
<1> QED
  BY <1>6, <1>7, <1>8, Zenon DEF ClientStarts

(* A client that gives up, whatever it has taken from its stream. *)
LEMMA GivingUpKeeps ==
  ASSUME AuthInv, NEW c \in AuthClients, Alive(c), ServerStays, NEW s \in Ended, Moves(c, s),
         toServer' = toServer, toClient' \in [AuthClients -> Seq(Replies)],
         \A d \in AuthClients \ {c} : toClient'[d] = toClient[d],
         toClient[c] = <<>> => toClient'[c] = <<>>
  PROVE  AuthInv'
<1>1. AuthTypeOK /\ Turns(c) /\ cl[c] # "idle"
  BY Zenon DEF AuthInv, Alive
<1>2. cl'[c] = s /\ toServer'[c] = toServer[c]
  BY <1>1, Zenon DEF Moves, AuthTypeOK
<1>3. Turns(c)'
  BY <1>1, <1>2, Zenon DEF Turns, Ended, ServerStays, Settings
<1>4. toServer' \in [AuthClients -> Seq(Requests)]
  BY <1>1, Zenon DEF AuthTypeOK
<1>5. who[c] = 0 => \A i \in DOMAIN toServer'[c] : toServer'[c][i] = <<"DIST">>
  BY Zenon DEF AuthInv, AdmissionInv
<1>6. \A d \in AuthClients \ {c} : toServer'[d] = toServer[d] /\ toClient'[d] = toClient[d]
  BY Zenon
<1> QED
  BY <1>3, <1>4, <1>5, <1>6, ClientStepKeeps, Zenon

LEMMA ClientLeavesKeeps ==
  ASSUME AuthInv, NEW c \in AuthClients, ClientTimeout(c) \/ ClientEof(c) \/ ClientGone(c)
  PROVE  AuthInv'
<1>1. Alive(c) /\ ServerStays /\ Moves(c, "failed") /\ toServer' = toServer /\ toClient' = toClient
  BY Zenon DEF ClientTimeout, ClientEof, ClientGone, ServerStays
<1>2. "failed" \in Ended /\ toClient' \in [AuthClients -> Seq(Replies)]
  BY <1>1, Zenon DEF Ended, AuthInv, AuthTypeOK
<1> QED
  BY <1>1, <1>2, GivingUpKeeps, Zenon

LEMMA ClientHandshakeKeeps ==
  ASSUME AuthInv, NEW c \in AuthClients, ClientHandshake(c)
  PROVE  AuthInv'
<1>1. /\ AuthTypeOK /\ AdmissionInv /\ Turns(c) /\ ServerStays
      /\ Alive(c) /\ cl[c] = "handshake" /\ toClient[c] # <<>> /\ Receives(c)
  BY Zenon DEF ClientHandshake, AuthInv, ServerStays, Arrived
<1>2. /\ toClient' \in [AuthClients -> Seq(Replies)]
      /\ toClient'[c] = Tail(toClient[c])
      /\ \A d \in AuthClients \ {c} : toClient'[d] = toClient[d]
  BY <1>1, StreamTypes, Zenon
<1>3. CASE Sends(c, GssToken(c, 1)) /\ Moves(c, "token")
  <2>1. /\ toServer' \in [AuthClients -> Seq(Requests)]
        /\ toServer'[c] = Append(toServer[c], GssToken(c, 1))
        /\ \A d \in AuthClients \ {c} : toServer'[d] = toServer[d]
    BY <1>1, <1>3, StreamTypes, MessageTypes, Zenon
  <2>2. cl'[c] = "token"
    BY <1>1, <1>3, Zenon DEF Moves, AuthTypeOK
  <2>3. toClient[c] = <<<<"H">>>>
    BY <1>1, Zenon DEF Turns
  <2>4. toClient'[c] = <<>>
    BY <1>2, <2>3, OneMessage, Zenon
  <2>5. current = c => sv = "token"
    BY <1>1, <2>3, OneMessage, Zenon DEF Turns, AdmissionInv, AuthTypeOK, Ended
  <2>6. current = c => context[1] # c /\ toServer[c] = <<>>
    BY <1>1, <2>5, Zenon DEF Turns, Ended
  <2>7. current = c => toServer'[c] = <<GssToken(c, 1)>>
    BY <2>1, <2>6, OneMessage, Zenon
  <2>8. 1 \in 1 .. Rounds
    BY AuthAssumption
  <2>9. Turns(c)'
    BY <1>1, <2>2, <2>4, <2>5, <2>6, <2>7, <2>8, Zenon DEF Turns, ServerStays, Settings
  <2>10. who[c] # 0
    BY <1>1, Zenon DEF AdmissionInv, Ended
  <2>11. \A d \in AuthClients \ {c} : toServer'[d] = toServer[d] /\ toClient'[d] = toClient[d]
    BY <1>2, <2>1, Zenon
  <2> QED
    BY <1>1, <1>2, <1>3, <2>1, <2>9, <2>10, <2>11, ClientStepKeeps, Zenon
<1>4. CASE UNCHANGED toServer /\ Moves(c, "failed")
  <2>1. "failed" \in Ended
    BY Zenon DEF Ended
  <2> QED
    BY <1>1, <1>2, <1>4, <2>1, GivingUpKeeps, Zenon
<1> QED
  BY <1>3, <1>4, Zenon DEF ClientHandshake, GssToken

LEMMA ClientTokenKeeps ==
  ASSUME AuthInv, NEW c \in AuthClients, ClientToken(c)
  PROVE  AuthInv'
<1>1. /\ AuthTypeOK /\ AdmissionInv /\ Turns(c) /\ ServerStays
      /\ Alive(c) /\ cl[c] = "token" /\ toClient[c] # <<>> /\ Receives(c)
  BY Zenon DEF ClientToken, AuthInv, ServerStays, Arrived
<1>2. /\ toClient' \in [AuthClients -> Seq(Replies)]
      /\ toClient'[c] = Tail(toClient[c])
      /\ \A d \in AuthClients \ {c} : toClient'[d] = toClient[d]
  BY <1>1, StreamTypes, Zenon
<1>3. PICK k \in 1 .. Rounds :
        /\ Head(toClient[c]) = GssToken(c, k)
        /\ k < Rounds => Len(toClient[c]) = 1 /\ (current = c => sv = "token")
  BY <1>1, Zenon DEF Turns
<1>4. Head(toClient[c])[3] = k /\ k \in Nat /\ Rounds \in Nat
  BY <1>3, MessageTypes, AuthAssumption
<1>5. who[c] # 0
  BY <1>1, Zenon DEF AdmissionInv, Ended
<1>6. CASE k < Rounds /\ Sends(c, GssToken(c, k + 1)) /\ UNCHANGED cl
  <2>1. /\ toServer' \in [AuthClients -> Seq(Requests)]
        /\ toServer'[c] = Append(toServer[c], GssToken(c, k + 1))
        /\ \A d \in AuthClients \ {c} : toServer'[d] = toServer[d]
    BY <1>1, <1>4, <1>6, StreamTypes, MessageTypes
  <2>2. cl'[c] = "token" /\ Moves(c, "token")
    BY <1>1, <1>6, Zenon DEF Moves, AuthTypeOK
  <2>3. toClient'[c] = <<>> /\ (current = c => sv = "token")
    BY <1>1, <1>2, <1>3, <1>6, LastMessage, Zenon DEF AuthTypeOK
  <2>4. current = c => toServer[c] = <<>> /\ context[1] = c /\ toClient[c] = <<GssToken(c, context[2])>> /\ context[2] \in Nat
    BY <1>1, <2>3, OneMessage, AuthAssumption DEF Turns, Ended
  <2>5. current = c => context[2] = k
    <3> SUFFICES ASSUME current = c PROVE context[2] = k
      BY Zenon
    <3>1. Head(toClient[c]) = GssToken(c, context[2])
      BY <2>4, OneMessage, Zenon
    <3> QED
      BY <1>3, <1>4, <2>4, <3>1, MessageTypes
  <2>6. current = c => toServer'[c] = <<GssToken(c, k + 1)>>
    BY <2>1, <2>4, OneMessage, Zenon
  <2>7. k + 1 \in 1 .. Rounds
    BY <1>4, <1>6
  <2>8. Turns(c)'
    BY <1>1, <2>2, <2>3, <2>4, <2>5, <2>6, <2>7, Zenon DEF Turns, ServerStays, Settings
  <2>9. \A d \in AuthClients \ {c} : toServer'[d] = toServer[d] /\ toClient'[d] = toClient[d]
    BY <1>2, <2>1, Zenon
  <2> QED
    BY <1>1, <1>2, <1>5, <2>1, <2>2, <2>8, <2>9, ClientStepKeeps, Zenon
<1>7. CASE k = Rounds /\ UNCHANGED toServer /\ Moves(c, "notify")
  <2>1. cl'[c] = "notify" /\ toServer' \in [AuthClients -> Seq(Requests)]
    BY <1>1, <1>7, Zenon DEF Moves, AuthTypeOK
  <2>2. ~(current = c /\ sv = "token")
    <3> SUFFICES ASSUME current = c, sv = "token" PROVE FALSE
      BY Zenon
    <3>1. context[2] \in 1 .. Rounds - 1 /\ toClient[c] = <<GssToken(c, context[2])>>
      BY <1>1, OneMessage, Zenon DEF Turns, Ended
    <3>2. Head(toClient[c]) = GssToken(c, context[2])
      BY <3>1, OneMessage, Zenon
    <3> QED
      BY <1>3, <1>4, <1>7, <3>1, <3>2, MessageTypes
  <2>3. ~(current = c /\ sv = "handshake")
    BY <1>1, Zenon DEF Turns, Ended
  <2>4. Turns(c)'
    BY <1>1, <2>1, <2>2, <2>3, Zenon DEF Turns, ServerStays, Settings
  <2>5. \A d \in AuthClients \ {c} : toServer'[d] = toServer[d] /\ toClient'[d] = toClient[d]
    BY <1>2, <1>7, Zenon
  <2> QED
    BY <1>1, <1>2, <1>5, <1>7, <2>1, <2>4, <2>5, ClientStepKeeps, Zenon
<1>8. CASE UNCHANGED toServer /\ Moves(c, "failed")
  <2>1. "failed" \in Ended
    BY Zenon DEF Ended
  <2> QED
    BY <1>1, <1>2, <1>8, <2>1, GivingUpKeeps, Zenon
<1> QED
  BY <1>4, <1>6, <1>7, <1>8, Zenon DEF ClientToken, GssToken

LEMMA ClientNotifiedKeeps ==
  ASSUME AuthInv, NEW c \in AuthClients, ClientNotified(c)
  PROVE  AuthInv'
<1>1. /\ AuthTypeOK /\ AdmissionInv /\ Turns(c) /\ ServerStays
      /\ Alive(c) /\ cl[c] = "notify" /\ toClient[c] # <<>> /\ Receives(c)
  BY Zenon DEF ClientNotified, AuthInv, ServerStays, Arrived
<1>2. /\ toClient' \in [AuthClients -> Seq(Replies)]
      /\ toClient'[c] = Tail(toClient[c])
      /\ \A d \in AuthClients \ {c} : toClient'[d] = toClient[d]
  BY <1>1, StreamTypes, Zenon
<1>3. who[c] # 0 /\ "sent" \in Ended /\ "refused" \in Ended
  BY <1>1, Zenon DEF AdmissionInv, Ended
<1>4. ~(current = c /\ sv \in {"handshake", "token"})
  BY <1>1, Zenon DEF Turns, Ended
<1>5. CASE Sends(c, <<"DIST">>) /\ Moves(c, "sent")
  <2>1. /\ toServer' \in [AuthClients -> Seq(Requests)]
        /\ \A d \in AuthClients \ {c} : toServer'[d] = toServer[d]
    BY <1>1, <1>5, StreamTypes, MessageTypes, Zenon
  <2>2. cl'[c] = "sent"
    BY <1>1, <1>5, Zenon DEF Moves, AuthTypeOK
  <2>3. Turns(c)'
    BY <1>1, <1>4, <2>2, Zenon DEF Turns, ServerStays, Settings
  <2>4. \A d \in AuthClients \ {c} : toServer'[d] = toServer[d] /\ toClient'[d] = toClient[d]
    BY <1>2, <2>1, Zenon
  <2> QED
    BY <1>1, <1>2, <1>3, <1>5, <2>1, <2>3, <2>4, ClientStepKeeps, Zenon
<1>6. CASE UNCHANGED toServer /\ Moves(c, "refused")
  BY <1>1, <1>2, <1>3, <1>6, GivingUpKeeps, Zenon
<1> QED
  BY <1>5, <1>6, Zenon DEF ClientNotified

(***************************************************************************)
(* The steps of the child                                                  *)
(***************************************************************************)
(* What has to be shown for a step of the child that serves c. *)
LEMMA ServerStepKeeps ==
  ASSUME AuthInv, NEW c \in AuthClients, c = current, UNCHANGED <<Settings, cl>>,
         toServer' \in [AuthClients -> Seq(Requests)], toClient' \in [AuthClients -> Seq(Replies)],
         \A d \in AuthClients \ {c} : toServer'[d] = toServer[d] /\ toClient'[d] = toClient[d],
         toServer'[c] = toServer[c] \/ (toServer[c] # <<>> /\ toServer'[c] = Tail(toServer[c])),
         \/ sv' = "accept" /\ current' = 0
         \/ sv' \in {"token", "check", "search", "job"} /\ current' = c,
         context' = NoContext \/ context' \in AuthClients \X Nat,
         ran' \in SUBSET AuthClients,
         serverAuth => /\ sv' \in {"token", "check", "search"} => who[c] # 0
                       /\ sv' = "job" => Admitted(c)
                       /\ \A d \in ran' : Admitted(d),
         ~serverAuth => sv' \in {"accept", "job"},
         SearchInv', ContextInv', Turns(c)'
  PROVE  AuthInv'
<1>1. AuthTypeOK'
  BY Zenon DEF AuthInv, AuthTypeOK, Settings
<1>2. ASSUME NEW d \in AuthClients, who[d] = 0
      PROVE  /\ cl[d] \in {"idle", "connected"} \cup Ended
             /\ \A i \in DOMAIN toServer'[d] : toServer'[d][i] = <<"DIST">>
  <2>1. /\ cl[d] \in {"idle", "connected"} \cup Ended
        /\ \A i \in DOMAIN toServer[d] : toServer[d][i] = <<"DIST">>
    BY <1>2, Zenon DEF AuthInv, AdmissionInv
  <2>2. CASE toServer'[d] = toServer[d]
    BY <2>1, <2>2, Zenon
  <2>3. CASE toServer[d] # <<>> /\ toServer'[d] = Tail(toServer[d])
    BY <2>1, <2>3 DEF AuthInv, AuthTypeOK
  <2> QED
    BY <2>1, <2>2, <2>3, Zenon
<1>3. \A d \in AuthClients : Admitted(d) => Admitted(d)'
  BY Zenon DEF Admitted, Settings
<1>4. AdmissionInv'
  BY <1>2, <1>3, Zenon DEF AdmissionInv, Settings
<1>5. \A d \in AuthClients : Turns(d)'
  <2>1. ASSUME NEW d \in AuthClients, d # c PROVE Turns(d)'
    <3>1. Turns(d) /\ cl'[d] = cl[d] /\ toServer'[d] = toServer[d] /\ toClient'[d] = toClient[d]
      BY <2>1, Zenon DEF AuthInv
    <3>2. current' # d
      BY <2>1 DEF AuthClients
    <3> QED
      BY <3>1, <3>2, BystanderTurns, Zenon DEF Settings
  <2> QED
    BY <2>1, Zenon
<1> QED
  BY <1>1, <1>4, <1>5, Zenon DEF AuthInv

(* The streams of the client that is served. *)
LEMMA ServedStreams ==
  ASSUME AuthTypeOK, current \in AuthClients
  PROVE  /\ toServer[current] # <<>> /\ Taken =>
              /\ toServer' \in [AuthClients -> Seq(Requests)]
              /\ toServer'[current] = Tail(toServer[current])
              /\ \A d \in AuthClients \ {current} : toServer'[d] = toServer[d]
         /\ \A m \in Replies : Answers(<<m>>) =>
              /\ toClient' \in [AuthClients -> Seq(Replies)]
              /\ toClient'[current] = toClient[current] \o <<m>>
              /\ \A d \in AuthClients \ {current} : toClient'[d] = toClient[d]
<1>1. ASSUME toServer[current] # <<>>, Taken
      PROVE  /\ toServer' \in [AuthClients -> Seq(Requests)]
             /\ toServer'[current] = Tail(toServer[current])
             /\ \A d \in AuthClients \ {current} : toServer'[d] = toServer[d]
  BY <1>1 DEF AuthTypeOK, Taken
<1>2. ASSUME NEW m \in Replies, Answers(<<m>>)
      PROVE  /\ toClient' \in [AuthClients -> Seq(Replies)]
             /\ toClient'[current] = toClient[current] \o <<m>>
             /\ \A d \in AuthClients \ {current} : toClient'[d] = toClient[d]
  BY <1>2 DEF AuthTypeOK, Answers
<1> QED
  BY <1>1, <1>2, Zenon

(* A child that hangs up without having said anything. *)
LEMMA HangupKeeps ==
  ASSUME AuthInv, sv # "accept", Hangup, UNCHANGED <<Settings, cl, toClient>>,
         \/ UNCHANGED toServer
         \/ toServer[current] # <<>> /\ Taken,
         context' = NoContext \/ context' \in AuthClients \X Nat,
         context' # NoContext => cl[context'[1]] \in Ended,
         ran' \in SUBSET AuthClients, serverAuth => \A d \in ran' : Admitted(d)
  PROVE  AuthInv'
<1>1. AuthTypeOK /\ current \in AuthClients /\ Turns(current)
  BY Zenon DEF AuthInv, AuthTypeOK
<1>2. sv' = "accept" /\ current' = 0
  BY Zenon DEF Hangup
<1>3. /\ toServer' \in [AuthClients -> Seq(Requests)]
      /\ \A d \in AuthClients \ {current} : toServer'[d] = toServer[d]
      /\ toServer'[current] = toServer[current]
           \/ (toServer[current] # <<>> /\ toServer'[current] = Tail(toServer[current]))
  <2>1. CASE UNCHANGED toServer
    BY <1>1, <2>1, Zenon DEF AuthTypeOK
  <2>2. CASE toServer[current] # <<>> /\ Taken
    BY <1>1, <2>2, ServedStreams, Zenon
  <2> QED
    BY <2>1, <2>2, Zenon
<1>4. toClient' \in [AuthClients -> Seq(Replies)]
  BY <1>1, Zenon DEF AuthTypeOK
<1>5. SearchInv'
  BY <1>2, Zenon DEF SearchInv
<1>6. ContextInv'
  BY <1>2, Zenon DEF ContextInv
<1>7. PICK c \in AuthClients : c = current /\ Turns(c) /\ cl[c] # "idle"
  BY <1>1, Zenon DEF Turns
<1>8. 0 # c
  BY <1>7 DEF AuthClients
<1>9. cl'[c] = cl[c] /\ toClient'[c] = toClient[c] /\ serverAuth' = serverAuth
  BY Zenon DEF Settings
<1>10. Turns(c)'
  BY <1>2, <1>7, <1>8, <1>9, Zenon DEF Turns
<1>11. \A d \in AuthClients \ {c} : toServer'[d] = toServer[d] /\ toClient'[d] = toClient[d]
  BY <1>3, <1>7, Zenon
<1> QED
  BY <1>2, <1>3, <1>4, <1>5, <1>6, <1>7, <1>10, <1>11, ServerStepKeeps, Zenon

LEMMA ServerEofKeeps == ASSUME AuthInv, ServerEof PROVE AuthInv'
<1>1. sv # "accept" /\ Hangup /\ UNCHANGED <<Settings, cl, context, toServer, toClient, ran>>
  BY Zenon DEF ServerEof
<1>2. cl[current] \in Ended
  BY Zenon DEF ServerEof, AtEof
<1>3. context # NoContext => cl[context[1]] \in Ended
  BY <1>2, Zenon DEF AuthInv, ContextInv
<1>4. /\ context = NoContext \/ context \in AuthClients \X Nat
      /\ ran \in SUBSET AuthClients /\ (serverAuth => \A d \in ran : Admitted(d))
  BY Zenon DEF AuthInv, AuthTypeOK, AdmissionInv
<1> QED
  BY <1>1, <1>3, <1>4, HangupKeeps, Zenon

LEMMA ServerHandshakeKeeps == ASSUME AuthInv, ServerHandshake PROVE AuthInv'
<1>1. /\ sv = "handshake" /\ toServer[current] # <<>> /\ Taken
      /\ UNCHANGED <<Settings, cl, context, search, ran>>
  BY Zenon DEF ServerHandshake, Incoming
<1>2. /\ context = NoContext \/ context \in AuthClients \X Nat
      /\ ran \in SUBSET AuthClients /\ (serverAuth => \A d \in ran : Admitted(d))
  BY Zenon DEF AuthInv, AuthTypeOK, AdmissionInv
<1>3. context # NoContext => cl[context[1]] \in Ended
  BY <1>1, Zenon DEF AuthInv, ContextInv
<1>4. CASE Hangup /\ UNCHANGED toClient
  BY <1>1, <1>2, <1>3, <1>4, HangupKeeps, Zenon
<1>5. CASE Head(Incoming) = <<"H">> /\ Answers(<<<<"H">>>>) /\ sv' = "token" /\ UNCHANGED current
  <2>1. AuthTypeOK /\ current \in AuthClients /\ Turns(current)
    BY <1>1, Zenon DEF AuthInv, AuthTypeOK
  <2>2. toServer[current] = <<<<"H">>>>
    BY <1>1, <1>5, <2>1, OneMessage, Zenon DEF Turns, Incoming
  <2>3. /\ toServer' \in [AuthClients -> Seq(Requests)] /\ toServer'[current] = Tail(toServer[current])
        /\ \A d \in AuthClients \ {current} : toServer'[d] = toServer[d]
    BY <1>1, <2>1, ServedStreams, Zenon
  <2>4. /\ toClient' \in [AuthClients -> Seq(Replies)] /\ toClient'[current] = toClient[current] \o <<<<"H">>>>
        /\ \A d \in AuthClients \ {current} : toClient'[d] = toClient[d]
    BY <1>5, <2>1, ServedStreams, MessageTypes, Zenon
  <2>5. toServer'[current] = <<>>
    BY <2>2, <2>3, OneMessage, Zenon
  <2>6. who[current] # 0 /\ serverAuth
    <3>1. toServer[current][1] = <<"H">> /\ 1 \in DOMAIN toServer[current]
      BY <2>2
    <3> QED
      BY <1>1, <2>1, <3>1, MessageTypes, Zenon DEF AuthInv, AdmissionInv
  <2>7. cl[current] \notin Ended => cl[current] = "handshake" /\ toClient'[current] = <<<<"H">>>>
    BY <1>1, <2>1, <2>2, <2>4, OneMessage, Zenon DEF Turns
  <2>8. cl[current] \notin Ended => context[1] # current
    BY <1>3, <2>1 DEF NoContext, AuthClients
  <2>9. SearchInv' /\ ContextInv'
    BY <1>1, <1>3, <1>5, Zenon DEF SearchInv, ContextInv
  <2>10. PICK c \in AuthClients :
         /\ c = current /\ current' = c /\ sv' = "token" /\ context' = context
         /\ cl'[c] = cl[c] /\ serverAuth' = serverAuth /\ cl[c] # "idle"
    BY <1>1, <1>5, <2>1, Zenon DEF Turns, Settings
  <2>11. Turns(c)'
    BY <2>5, <2>6, <2>7, <2>8, <2>10, Zenon DEF Turns, Ended
  <2>12. \A d \in AuthClients \ {c} : toServer'[d] = toServer[d] /\ toClient'[d] = toClient[d]
    BY <2>3, <2>4, <2>10, Zenon
  <2> QED
    BY <1>1, <1>2, <2>3, <2>4, <2>6, <2>9, <2>10, <2>11, <2>12, ServerStepKeeps, Zenon
<1> QED
  BY <1>4, <1>5, Zenon DEF ServerHandshake

LEMMA ServerTokenKeeps == ASSUME AuthInv, ServerToken PROVE AuthInv'
<1>1. /\ sv = "token" /\ toServer[current] # <<>> /\ Taken
      /\ UNCHANGED <<Settings, cl, search, ran>>
  BY Zenon DEF ServerToken, Incoming
<1>2. PICK c \in AuthClients : c = current /\ Turns(c) /\ cl[c] # "idle"
  BY <1>1, Zenon DEF AuthInv, AuthTypeOK, Turns
<1>3. PICK k \in 1 .. Rounds : toServer[c] = <<GssToken(c, k)>>
  BY <1>1, <1>2, Zenon DEF Turns
<1>4. /\ Head(Incoming) = GssToken(c, k) /\ k \in Nat /\ Rounds \in Nat
      /\ GssToken(c, k)[2] = c /\ GssToken(c, k)[3] = k
  BY <1>2, <1>3, OneMessage, MessageTypes, AuthAssumption DEF Incoming
<1>5. AuthTypeOK /\ serverAuth /\ who[c] # 0
  BY <1>1, <1>2, Zenon DEF AuthInv, AdmissionInv
<1>6. /\ ran \in SUBSET AuthClients /\ \A d \in ran : Admitted(d)
      /\ context = NoContext \/ context \in AuthClients \X Nat
  BY <1>5, Zenon DEF AuthInv, AuthTypeOK, AdmissionInv
<1>7. CASE ~GssAccept(GssToken(c, k)) /\ Hangup /\ UNCHANGED <<context, toClient>>
  <2>1. context # NoContext => cl[context[1]] \in Ended
    <3> SUFFICES ASSUME context # NoContext, cl[context[1]] \notin Ended PROVE FALSE
      BY Zenon
    <3>1. context[1] = c /\ cl[c] \notin Ended
      BY <1>2, Zenon DEF AuthInv, ContextInv
    <3>2. PICK j \in 1 .. Rounds : context[2] + 1 = j /\ toServer[c] = <<GssToken(c, j)>>
      BY <1>1, <1>2, <1>3, <3>1, OneMessage, Zenon DEF Turns
    <3>3. GssToken(c, j) = GssToken(c, k) /\ j \in Nat
      BY <1>3, <1>4, <3>2
    <3>4. j = k
      BY <1>4, <3>3, MessageTypes
    <3> QED
      BY <1>4, <1>7, <3>1, <3>2, <3>4, Zenon DEF GssAccept
  <2> QED
    BY <1>1, <1>6, <1>7, <2>1, HangupKeeps, Zenon
<1>8. CASE context' = <<c, k>> /\ HasClosed /\ Hangup /\ UNCHANGED toClient
  <2>1. context' \in AuthClients \X Nat /\ cl[context'[1]] \in Ended
    BY <1>2, <1>4, <1>8, Zenon DEF HasClosed
  <2> QED
    BY <1>1, <1>6, <1>8, <2>1, HangupKeeps, Zenon
<1>9. CASE /\ context' = <<c, k>> /\ Answers(<<GssToken(c, k)>>) /\ UNCHANGED current
           /\ sv' = IF k < Rounds THEN "token" ELSE "check"
  <2>1. /\ toServer' \in [AuthClients -> Seq(Requests)] /\ toServer'[c] = Tail(toServer[c])
        /\ \A d \in AuthClients \ {c} : toServer'[d] = toServer[d]
    BY <1>1, <1>2, <1>5, ServedStreams, Zenon
  <2>2. /\ toClient' \in [AuthClients -> Seq(Replies)] /\ toClient'[c] = toClient[c] \o <<GssToken(c, k)>>
        /\ \A d \in AuthClients \ {c} : toClient'[d] = toClient[d]
    BY <1>2, <1>4, <1>5, <1>9, ServedStreams, MessageTypes, Zenon
  <2>3. toServer'[c] = <<>>
    BY <1>3, <2>1, OneMessage, Zenon
  <2>4. cl[c] \notin Ended => cl[c] = "token" /\ toClient'[c] = <<GssToken(c, k)>>
    BY <1>1, <1>2, <1>3, <2>2, OneMessage, Zenon DEF Turns
  <2>5. /\ context' \in AuthClients \X Nat /\ context'[1] = c /\ context'[2] = k
        /\ k < Rounds => k \in 1 .. Rounds - 1
    BY <1>4, <1>9
  <2>6. SearchInv' /\ ContextInv'
    BY <1>2, <1>9, <2>5, Zenon DEF SearchInv, ContextInv
  <2>7. /\ cl[c] \notin Ended => Head(toClient'[c]) = GssToken(c, k) /\ Len(toClient'[c]) = 1
        /\ cl[c] \notin Ended => toClient'[c] # <<>>
    BY <2>4, OneMessage, Zenon
  <2>8. /\ cl'[c] = cl[c] /\ serverAuth' = serverAuth /\ serverAuth /\ current' = c
        /\ cl[c] \in Ended => cl[c] \notin {"idle", "connected", "handshake", "token"}
        /\ k < Rounds <=> sv' = "token"
        /\ sv' \in {"token", "check"}
    BY <1>1, <1>2, <1>5, <1>9, Zenon DEF Settings, Ended
  <2>9. Turns(c)'
    BY <1>2, <2>3, <2>4, <2>5, <2>7, <2>8, Zenon DEF Turns
  <2>10. \A d \in AuthClients \ {c} : toServer'[d] = toServer[d] /\ toClient'[d] = toClient[d]
    BY <2>1, <2>2, Zenon
  <2> QED
    BY <1>1, <1>2, <1>5, <1>6, <2>1, <2>2, <2>5, <2>6, <2>8, <2>9, <2>10, ServerStepKeeps, Zenon
<1> QED
  BY <1>4, <1>7, <1>8, <1>9, Zenon DEF ServerToken

(* The answer to a client that has been judged. *)
LEMMA NotifyKeeps ==
  ASSUME AuthInv, sv \in {"check", "search"}, NEW granted \in BOOLEAN, granted => Admitted(current),
         Notify(granted), UNCHANGED <<Settings, cl, toServer, ran>>
  PROVE  AuthInv'
<1>1. PICK c \in AuthClients : c = current /\ Turns(c) /\ cl[c] # "idle"
  BY Zenon DEF AuthInv, AuthTypeOK, Turns
<1>2. AuthTypeOK /\ serverAuth /\ context' = NoContext
  BY Zenon DEF AuthInv, AdmissionInv, Notify
<1>3. ran \in SUBSET AuthClients /\ \A d \in ran : Admitted(d)
  BY <1>2, Zenon DEF AuthInv, AuthTypeOK, AdmissionInv
<1>4. CASE Hangup /\ UNCHANGED toClient
  BY <1>2, <1>3, <1>4, HangupKeeps, Zenon
<1>5. ASSUME NEW m \in Replies, Answers(<<m>>),
             \/ granted /\ sv' = "job" /\ UNCHANGED current
             \/ Hangup
      PROVE  AuthInv'
  <2>1. /\ toClient' \in [AuthClients -> Seq(Replies)] /\ toClient'[c] = toClient[c] \o <<m>>
        /\ \A d \in AuthClients \ {c} : toClient'[d] = toClient[d]
    BY <1>1, <1>2, <1>5, ServedStreams, Zenon
  <2>2. toServer' \in [AuthClients -> Seq(Requests)] /\ toServer'[c] = toServer[c]
    BY <1>2, Zenon DEF AuthTypeOK
  <2>3. \A d \in AuthClients \ {c} : toServer'[d] = toServer[d] /\ toClient'[d] = toClient[d]
    BY <2>1, Zenon
  <2>4. SearchInv' /\ ContextInv'
    BY <1>2, <1>5, Zenon DEF SearchInv, ContextInv, Hangup
  <2>5. cl[c] \notin {"idle", "connected", "handshake"}
    BY <1>1, <1>2, Zenon DEF Turns
  <2>6. cl[c] = "token" => /\ toClient[c] # <<>> /\ Head(toClient[c]) = GssToken(c, Rounds)
    BY <1>1, AuthAssumption DEF Turns
  <2>7. cl[c] = "token" => toClient'[c] # <<>> /\ Head(toClient'[c]) = GssToken(c, Rounds)
    <3>1. toClient[c] \in Seq(Replies) /\ <<m>> \in Seq(Replies)
      BY <1>2, <1>5 DEF AuthTypeOK
    <3>2. toClient[c] # <<>> => toClient[c] \o <<m>> # <<>> /\ Head(toClient[c] \o <<m>>) = Head(toClient[c])
      BY <3>1
    <3> QED
      BY <2>1, <2>6, <3>2, Zenon
  <2>8. Rounds \in 1 .. Rounds /\ ~(Rounds < Rounds)
    BY AuthAssumption
  <2>9. sv' \in {"accept", "job"} /\ cl'[c] = cl[c] /\ serverAuth' = serverAuth
    BY <1>5, Zenon DEF Hangup, Settings
  <2>10. Turns(c)'
    BY <1>2, <2>5, <2>7, <2>8, <2>9, Zenon DEF Turns
  <2>11. /\ \/ sv' = "accept" /\ current' = 0
            \/ sv' \in {"token", "check", "search", "job"} /\ current' = c
         /\ sv' = "job" => Admitted(c)
    BY <1>1, <1>5, Zenon DEF Hangup
  <2> QED
    BY <1>1, <1>2, <1>3, <2>1, <2>2, <2>3, <2>4, <2>9, <2>10, <2>11, ServerStepKeeps, Zenon
<1> QED
  BY <1>4, <1>5, MessageTypes, Zenon DEF Notify

LEMMA ServerCheckKeeps == ASSUME AuthInv, ServerCheck PROVE AuthInv'
<1>1. sv = "check" /\ UNCHANGED <<Settings, cl, toServer, ran>>
  BY Zenon DEF ServerCheck
<1>2. PICK c \in AuthClients : c = current /\ Turns(c) /\ cl[c] # "idle"
  BY <1>1, Zenon DEF AuthInv, AuthTypeOK, Turns
<1>3. AuthTypeOK /\ serverAuth /\ who[c] # 0
  BY <1>1, <1>2, Zenon DEF AuthInv, AdmissionInv
<1>4. ran \in SUBSET AuthClients /\ \A d \in ran : Admitted(d)
  BY <1>3, Zenon DEF AuthInv, AuthTypeOK, AdmissionInv
<1>5. CASE context' = NoContext /\ Hangup /\ UNCHANGED <<search, toClient>>
  BY <1>1, <1>4, <1>5, HangupKeeps, Zenon
<1>6. CASE mode = "none" /\ Notify(TRUE)
  <2>1. Admitted(current)
    BY <1>2, <1>3, <1>6, Zenon DEF Admitted
  <2> QED
    BY <1>1, <1>6, <2>1, NotifyKeeps, Zenon
<1>7. CASE /\ mode # "none" /\ sv' = "search" /\ bottom' = 1 /\ top' = Len(list)
           /\ UNCHANGED <<current, context, toClient>>
  <2>1. list \in Seq(Principals)
    BY <1>3, AuthAssumption, Zenon DEF AuthTypeOK
  <2>2. Len(list) \in Nat /\ \A i \in DOMAIN list : i \in 1 .. Len(list)
    BY <2>1
  <2>3. SearchInv'
    BY <1>1, <1>7, <2>1, <2>2 DEF SearchInv, Settings
  <2>4. ContextInv'
    BY <1>1, <1>7, Zenon DEF AuthInv, ContextInv
  <2>5. Turns(c)'
    <3>1. cl'[c] = cl[c] /\ toServer'[c] = toServer[c] /\ toClient'[c] = toClient[c] /\ current' = c
      BY <1>1, <1>2, <1>7, Zenon
    <3>2. serverAuth' = serverAuth
      BY <1>1, Zenon DEF Settings
    <3>3. cl[c] \notin {"connected", "handshake"}
      BY <1>1, <1>2, <1>3, Zenon DEF Turns
    <3> QED
      BY <1>1, <1>2, <1>3, <1>7, <3>1, <3>2, <3>3, Zenon DEF Turns
  <2>6. toServer' \in [AuthClients -> Seq(Requests)] /\ toClient' \in [AuthClients -> Seq(Replies)]
    BY <1>1, <1>3, <1>7, Zenon DEF AuthTypeOK
  <2>7. context' = NoContext \/ context' \in AuthClients \X Nat
    BY <1>3, <1>7, Zenon DEF AuthTypeOK
  <2>8. \A d \in AuthClients \ {c} : toServer'[d] = toServer[d] /\ toClient'[d] = toClient[d]
    BY <1>1, <1>7, Zenon
  <2> QED
    BY <1>1, <1>2, <1>3, <1>4, <1>7, <2>3, <2>4, <2>5, <2>6, <2>7, <2>8, ServerStepKeeps, Zenon
<1> QED
  BY <1>5, <1>6, <1>7, Zenon DEF ServerCheck

LEMMA ServerSearchKeeps == ASSUME AuthInv, ServerSearch PROVE AuthInv'
<1>1. /\ sv = "search" /\ bottom <= top /\ AuthTypeOK /\ SearchInv
      /\ UNCHANGED <<Settings, cl, sv, current, context, toServer, toClient, ran>>
  BY Zenon DEF ServerSearch, RangeLeft, AuthInv
<1>2. /\ Middle \in DOMAIN list /\ Middle \in bottom .. top
      /\ who[current] < list[Middle] => \A i \in DOMAIN list : Middle - 1 < i => who[current] < list[i]
      /\ list[Middle] < who[current] => \A i \in DOMAIN list : i < Middle + 1 => list[i] < who[current]
  BY <1>1, SearchNarrows, Zenon
<1>3. list \in Seq(Principals)
  BY <1>1, AuthAssumption, Zenon DEF AuthTypeOK
<1>4. Middle \in 1 .. Len(list) /\ Len(list) \in Nat
  BY <1>2, <1>3
<1>5. bottom \in 1 .. Len(list) + 1 /\ top \in 0 .. Len(list) /\ mode # "none"
  BY <1>1, Zenon DEF SearchInv
<1>6. list[Middle] \in Nat /\ who[current] \in Nat
  BY <1>1, <1>2, <1>3, PrincipalsAreNumbers DEF AuthTypeOK
<1>7. /\ bottom' \in 1 .. Len(list) + 1 /\ top' \in 0 .. Len(list)
      /\ \A i \in DOMAIN list : i < bottom' => list[i] < who[current]
      /\ \A i \in DOMAIN list : top' < i => who[current] < list[i]
  <2>1. CASE who[current] < list[Middle] /\ top' = Middle - 1 /\ UNCHANGED bottom
    <3>1. top' \in 0 .. Len(list)
      BY <1>4, <2>1
    <3> QED
      BY <1>1, <1>2, <1>5, <2>1, <3>1, Zenon DEF SearchInv
  <2>2. CASE who[current] > list[Middle] /\ bottom' = Middle + 1 /\ UNCHANGED top
    <3>1. bottom' \in 1 .. Len(list) + 1
      BY <1>4, <2>2
    <3>2. list[Middle] < who[current]
      BY <1>6, <2>2, Zenon
    <3> QED
      BY <1>1, <1>2, <1>5, <2>2, <3>1, <3>2, Zenon DEF SearchInv
  <2> QED
    BY <2>1, <2>2, Zenon DEF ServerSearch
<1>8. SearchInv'
  BY <1>1, <1>5, <1>7, Zenon DEF SearchInv, Settings
<1>9. AuthTypeOK'
  BY <1>1, Zenon DEF AuthTypeOK, Settings
<1>10. AdmissionInv' /\ ContextInv'
  BY <1>1, Zenon DEF AuthInv, AdmissionInv, ContextInv, Settings, Admitted
<1>11. \A d \in AuthClients : Turns(d)'
  BY <1>1, BystanderTurns, Zenon DEF AuthInv, Settings
<1> QED
  BY <1>8, <1>9, <1>10, <1>11, Zenon DEF AuthInv

LEMMA ServerDecidesKeeps == ASSUME AuthInv, ServerDecides PROVE AuthInv'
<1>1. /\ sv = "search" /\ (~RangeLeft \/ Found) /\ Notify(Found <=> mode = "white")
      /\ UNCHANGED <<Settings, cl, toServer, ran>>
  BY Zenon DEF ServerDecides
<1>2. AuthTypeOK /\ SearchInv /\ serverAuth /\ who[current] # 0 /\ mode # "none"
  BY <1>1, Zenon DEF AuthInv, AdmissionInv, SearchInv
<1>3. Found <=> \E i \in DOMAIN list : list[i] = who[current]
  BY <1>1, <1>2, SearchIsRight, Zenon
<1>4. (Found <=> mode = "white") => Admitted(current)
  BY <1>2, <1>3, Zenon DEF Admitted, AuthTypeOK
<1> QED
  BY <1>1, <1>4, NotifyKeeps, Zenon

LEMMA ServerJobKeeps == ASSUME AuthInv, ServerJob \/ ServerShort PROVE AuthInv'
<1>1. /\ sv = "job" /\ toServer[current] # <<>> /\ Hangup
      /\ UNCHANGED toServer \/ Taken
      /\ ran' \in {ran, ran \cup {current}}
      /\ UNCHANGED <<Settings, cl, context, toClient>>
  BY Zenon DEF ServerJob, ServerShort, Incoming
<1>2. current \in AuthClients /\ AuthTypeOK
  BY <1>1, Zenon DEF AuthInv, AuthTypeOK
<1>3. ran' \in SUBSET AuthClients /\ (serverAuth => \A d \in ran' : Admitted(d))
  BY <1>1, <1>2, Zenon DEF AuthInv, AuthTypeOK, AdmissionInv
<1>4. context # NoContext => cl[context[1]] \in Ended
  BY <1>1, Zenon DEF AuthInv, ContextInv
<1>5. context = NoContext \/ context \in AuthClients \X Nat
  BY <1>2, Zenon DEF AuthTypeOK
<1> QED
  BY <1>1, <1>3, <1>4, <1>5, HangupKeeps, Zenon

LEMMA AcceptKeeps == ASSUME AuthInv, Accept PROVE AuthInv'
<1>1. /\ sv = "accept" /\ sv' = IF serverAuth THEN "handshake" ELSE "job"
      /\ UNCHANGED <<Settings, context, search, toServer, toClient, ran>>
  BY Zenon DEF Accept
<1>2. PICK c \in AuthClients : cl[c] = "idle" /\ current' = c /\ cl' = [cl EXCEPT ![c] = "connected"]
  BY Zenon DEF Accept
<1>3. AuthTypeOK /\ Turns(c)
  BY Zenon DEF AuthInv
<1>4. cl'[c] = "connected" /\ \A d \in AuthClients \ {c} : cl'[d] = cl[d]
  BY <1>2, <1>3, Zenon DEF AuthTypeOK
<1>5. cl' \in [AuthClients -> {"idle", "connected", "handshake", "token", "notify"} \cup Ended]
  BY <1>2, <1>3, Zenon DEF AuthTypeOK
<1>6. AuthTypeOK'
  BY <1>1, <1>2, <1>3, <1>5, Zenon DEF AuthTypeOK, Settings
<1>7. SearchInv'
  BY <1>1, <1>3, Zenon DEF SearchInv, AuthTypeOK
<1>8. toServer[c] = <<>> /\ toClient[c] = <<>>
  BY <1>2, <1>3, Zenon DEF Turns
<1>9. AdmissionInv'
  BY <1>1, <1>3, <1>4, Zenon DEF AuthInv, AdmissionInv, Settings, Admitted, AuthTypeOK
<1>10. ContextInv'
  <2>1. context # NoContext => context[1] \in AuthClients /\ cl[context[1]] \in Ended
    BY <1>1, <1>3, Zenon DEF AuthInv, ContextInv, AuthTypeOK
  <2>2. cl[c] \notin Ended
    BY <1>2, Zenon DEF Ended
  <2> QED
    BY <1>1, <1>4, <2>1, <2>2, Zenon DEF ContextInv
<1>11. Turns(c)'
  BY <1>1, <1>2, <1>3, <1>4, <1>8, Zenon DEF Turns, Settings, AuthTypeOK
<1>12. \A d \in AuthClients : Turns(d)'
  <2>1. ASSUME NEW d \in AuthClients, d # c PROVE Turns(d)'
    <3>1. Turns(d) /\ cl'[d] = cl[d] /\ toServer'[d] = toServer[d] /\ toClient'[d] = toClient[d] /\ current' # d
      BY <1>1, <1>2, <1>4, <2>1, Zenon DEF AuthInv
    <3> QED
      BY <1>1, <3>1, BystanderTurns, Zenon DEF Settings
  <2> QED
    BY <1>11, <2>1, Zenon
<1> QED
  BY <1>6, <1>7, <1>9, <1>10, <1>12, Zenon DEF AuthInv

LEMMA AuthStep == AuthInv /\ [AuthNext]_authVars => AuthInv'
<1> SUFFICES ASSUME AuthInv, [AuthNext]_authVars PROVE AuthInv'
  BY Zenon
<1>1. CASE ServerStep
  BY <1>1, AcceptKeeps, ServerEofKeeps, ServerHandshakeKeeps, ServerTokenKeeps, ServerCheckKeeps,
     ServerSearchKeeps, ServerDecidesKeeps, ServerJobKeeps, Zenon DEF ServerStep
<1>2. CASE \E c \in AuthClients : ClientStep(c) \/ ClientGone(c)
  BY <1>2, ClientStartsKeeps, ClientHandshakeKeeps, ClientTokenKeeps, ClientNotifiedKeeps,
     ClientLeavesKeeps, Zenon DEF ClientStep
<1>3. CASE UNCHANGED authVars
  <2>1. /\ UNCHANGED <<list, mode, serverAuth, who, cl, sv, current, context, bottom, top>>
        /\ UNCHANGED <<toServer, toClient, ran>>
    BY <1>3, Zenon DEF authVars, search
  <2>2. AuthTypeOK' /\ SearchInv' /\ AdmissionInv' /\ ContextInv'
    BY <2>1 DEF AuthInv, AuthTypeOK, SearchInv, AdmissionInv, Admitted, ContextInv
  <2>3. \A d \in AuthClients : Turns(d)'
    BY <2>1, BystanderTurns, Zenon DEF AuthInv
  <2> QED
    BY <2>2, <2>3, Zenon DEF AuthInv
<1> QED
  BY <1>1, <1>2, <1>3, Zenon DEF AuthNext

(* auth_distcc.c, auth_distccd.c: with authentication, only jobs of principals that
   the list admits are run, whatever the list, the clients and the times at which they
   go away; and only a client that went away leaves its security context behind. *)
THEOREM AdmittedOnly == AuthSpec => []OnlyAdmittedRun
<1>1. AuthInit => AuthInv
  <2> SUFFICES ASSUME AuthInit PROVE AuthInv
    BY Zenon
  <2>1. <<>> \in Seq(Requests) /\ <<>> \in Seq(Replies)
    OBVIOUS
  <2>2. AuthTypeOK /\ SearchInv /\ ContextInv
    BY <2>1, Zenon DEF AuthInit, AuthTypeOK, SearchInv, ContextInv
  <2>3. AdmissionInv
    BY DEF AuthInit, AdmissionInv
  <2>4. \A c \in AuthClients : Turns(c)
    BY DEF AuthInit, Turns, AuthClients
  <2> QED
    BY <2>2, <2>3, <2>4, Zenon DEF AuthInv
<1> QED
  BY <1>1, AuthStep, AuthInvIsEnough, PTL DEF AuthSpec
=============================================================================
