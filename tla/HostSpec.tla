------------------------------ MODULE HostSpec ------------------------------
(***************************************************************************)
(* The host list (hosts.c, hostfile.c): where it is read from and what its *)
(* words mean.  A word of the list is a sequence of lexemes; a name is the *)
(* sequence of lexemes it was cut from.  The characters a lexeme is made   *)
(* of matter only where the parser looks at them: Val is atoi().           *)
(*                                                                         *)
(* hostlist grows as a user writes it; typed is one word of any lexemes.   *)
(***************************************************************************)
EXTENDS Integers, Sequences, SequencesExt, FiniteSets

CONSTANTS
  Lexemes,        \* what a user may type in a word
  MaxTyped,       \* bound: lexemes of a typed word
  Descriptions,   \* hosts and keywords a user may list, as records
  MaxListed,      \* bound: words of a list
  ZeroconfHosts   \* words of the list that zeroconf keeps

VARIABLES hostlist, typed, source
hostVars == <<hostlist, typed, source>>

NULL == <<>>
Val == [l \in {"4", "0", "-3", "9", "8", "3"} |->
         CASE l = "4" -> 4 [] l = "0" -> 0 [] l = "-3" -> -3 [] l = "9" -> 9 [] l = "8" -> 8 [] OTHER -> 3]
Atoi(l) == IF l \in DOMAIN Val THEN Val[l] ELSE 0
Digits == {"4", "0", "9", "8", "3"}

(***************************************************************************)
(* A parser state: the rest of the word, the host so far, the result.      *)
(***************************************************************************)
Peek(p) == IF p.rest = <<>> THEN "end" ELSE Head(p.rest)
Skip(p, n) == [p EXCEPT !.rest = SubSeq(@, n + 1, Len(@))]
Bad(p) == [p EXCEPT !.ret = "EXIT_BAD_HOSTSPEC"]
(* dcc_dup_part(): NULL when nothing precedes the delimiter *)
UpTo(s, delimiters) ==
  LET stops == {i \in 1 .. Len(s) : s[i] \in delimiters} IN
  IF stops = {} THEN s ELSE SubSeq(s, 1, (CHOOSE i \in stops : \A j \in stops : i <= j) - 1)
(* The next of a chain of calls that ends at the first error. *)
Then(p, F(_)) == IF p.ret = "ok" THEN F(p) ELSE p

(* dcc_parse_multiplier(): the cursor stays at a sign. *)
ParseMultiplier(p) ==
  IF Peek(p) \notin {"/", "="} THEN p
  ELSE LET q == Skip(p, 1)  val == Atoi(Peek(q)) IN
       IF val = 0 THEN Bad(q)
       ELSE [(IF Peek(q) \in Digits THEN Skip(q, 1) ELSE q) EXCEPT !.host.n_slots = val]

(* dcc_get_protover_from_features(): -1 is an error *)
ProtoverFromFeatures(compr, cpp_where) ==
  CASE compr = "NONE" /\ cpp_where = "CLIENT" -> 1
    [] compr = "LZO1X" /\ cpp_where = "CLIENT" -> 2
    [] compr = "LZO1X" /\ cpp_where = "SERVER" -> 3
    [] OTHER -> -1
(* dcc_get_features_from_protover() *)
FeaturesFromProtover(protover) ==
  [compr |-> IF protover > 1 THEN "LZO1X" ELSE "NONE",
   cpp_where |-> IF protover > 2 THEN "SERVER" ELSE "CLIENT",
   ret |-> IF protover = 0 \/ protover > 3 THEN 1 ELSE 0]

(* One option of dcc_parse_options() *)
TakeOption(p) ==
  LET q == Skip(p, 2)  name == IF Len(p.rest) < 2 THEN "end" ELSE p.rest[2] IN
  CASE name = "lzo" -> [q EXCEPT !.host.compr = "LZO1X"]
    [] name = "down" -> [q EXCEPT !.host.is_up = FALSE]
    [] name = "cpp" -> [q EXCEPT !.host.cpp_where = "SERVER"]
    [] name = "auth" -> [q EXCEPT !.host.authenticate = TRUE]
    [] OTHER -> Bad(p)
(* the protocol version stays the default one *)
ParseOptions_KeepProtover(p) ==
  LET start == [p EXCEPT !.host.compr = "NONE", !.host.cpp_where = "CLIENT",
                         !.host.authenticate = FALSE]
  IN FoldLeft(LAMBDA q, i : IF q.ret = "ok" /\ Peek(q) = "," THEN TakeOption(q) ELSE q,
              start, [i \in 1 .. Len(p.rest) |-> i])
(* dcc_parse_options() *)
ParseOptions(p) ==
  LET start == [p EXCEPT !.host.compr = "NONE", !.host.cpp_where = "CLIENT",
                         !.host.authenticate = FALSE]
      SetProtover(q) ==
        LET protover == ProtoverFromFeatures(q.host.compr, q.host.cpp_where) IN
        IF protover = -1 THEN Bad(q) ELSE [q EXCEPT !.host.protover = protover]
  IN Then(FoldLeft(LAMBDA q, i : IF q.ret = "ok" /\ Peek(q) = "," THEN TakeOption(q) ELSE q,
                   start, [i \in 1 .. Len(p.rest) |-> i]), SetProtover)

(* dcc_parse_ssh_host(), dcc_parse_hosts() calls it for a word with an @ *)
ParseSshHost(p) ==
  LET user == UpTo(p.rest, {"@"})
      name == UpTo(SubSeq(p.rest, Len(user) + 2, Len(p.rest)), {"/", ":", ","})
      named == [Skip(p, Len(user) + 1 + Len(name)) EXCEPT !.host.user = user, !.host.hostname = name]
      Command(q) ==
        IF Peek(q) # ":" THEN q
        ELSE LET command == UpTo(Tail(q.rest), {","}) IN
             [Skip(q, 1 + Len(command)) EXCEPT !.host.ssh_command = command]
      Mode(q) == [q EXCEPT !.host.mode = "SSH"]
  IN IF name = NULL THEN Bad(p)
     ELSE Then(Then(Then(ParseMultiplier(named), Command), ParseOptions), Mode)

(* strtol() of the port: what follows it must end the number. *)
ParsePort(p) ==
  LET q == IF Len(p.rest) > 1 /\ p.rest[2] \in DOMAIN Val THEN Skip(p, 2) ELSE Skip(p, 1)
      port == IF q = Skip(p, 2) /\ Len(p.rest) > 1 THEN Atoi(p.rest[2]) ELSE 0
  IN IF Peek(p) # ":" THEN [p EXCEPT !.host.port = 3632]
     ELSE IF Peek(q) \notin {"end", "/", ","} THEN Bad(p)
     ELSE [q EXCEPT !.host.port = port]
(* dcc_parse_tcp_host(): the bracket of an IPv6 address stays in the name. *)
ParseTcpHost(p) ==
  LET v6 == Peek(p) = "["
      name == UpTo(p.rest, IF v6 THEN {"/", "]", ","} ELSE {"/", ":", ","})
      closed == Len(p.rest) > Len(name) /\ p.rest[Len(name) + 1] = "]"
      named == [Skip(p, Len(name) + (IF v6 THEN 1 ELSE 0)) EXCEPT !.host.hostname = name]
      Mode(q) == [q EXCEPT !.host.mode = "TCP"]
  IN IF name = NULL \/ (v6 /\ ~closed) THEN Bad(p)
     ELSE Then(Then(Then(Then(ParseMultiplier(named), ParsePort), ParseMultiplier), ParseOptions), Mode)

(* dcc_parse_localhost(): what follows the multiplier is not looked at. *)
ParseLocalhost(p) ==
  ParseMultiplier([Skip(p, 1) EXCEPT !.host.mode = "LOCAL", !.host.hostname = <<"localhost">>,
                                     !.host.n_slots = 2])

NewHost ==
  [mode |-> "none", user |-> NULL, hostname |-> NULL, ssh_command |-> NULL, port |-> 0,
   n_slots |-> 4, is_up |-> TRUE, protover |-> 1, compr |-> "NONE", cpp_where |-> "CLIENT",
   authenticate |-> FALSE]
ParseHost(word) ==
  LET p == [rest |-> word, host |-> NewHost, ret |-> "ok"] IN
  IF word[1] = "localhost" /\ (Len(word) = 1 \/ word[2] = "/") THEN ParseLocalhost(p)
  ELSE IF "@" \in ToSet(word) THEN ParseSshHost(p)
  ELSE ParseTcpHost(p)

(***************************************************************************)
(* dcc_parse_hosts(): l is the list so far.  A host that is refused has    *)
(* been linked already, and is not counted.  local and local_cpp: the      *)
(* limits --localslots and --localslots_cpp set, 0 for the default.        *)
(***************************************************************************)
EmptyList == [hosts |-> <<>>, nhosts |-> 0, local |-> 0, local_cpp |-> 0,
              randomize |-> FALSE, ret |-> "ok"]
Link(l, p) ==
  [l EXCEPT !.hosts = Append(SubSeq(l.hosts, 1, l.nhosts), p.host),
            !.ret = IF p.ret = "ok" THEN @ ELSE p.ret,
            !.nhosts = IF p.ret = "ok" THEN @ + 1 ELSE @]
AddHost(l, word) == Link(l, ParseHost(word))
(* The limit a --localslots word sets; 0: the multiplier is refused. *)
SlotsOf(word, default) ==
  LET p == ParseMultiplier([rest |-> Tail(word), host |-> [n_slots |-> default], ret |-> "ok"]) IN
  IF p.ret = "ok" THEN p.host.n_slots ELSE 0
ParseWord(l, word) ==
  CASE l.ret # "ok" -> l
    [] word[1] = "--randomize" -> [l EXCEPT !.randomize = TRUE]
    [] word[1] = "--localslots_cpp" /\ SlotsOf(word, 1) # 0 ->
         [l EXCEPT !.local_cpp = IF Len(word) > 1 THEN SlotsOf(word, 1) ELSE @]
    \* the word begins with --localslots too, and _cpp is no multiplier
    [] word[1] = "--localslots_cpp" -> l
    [] word[1] = "--localslots" /\ SlotsOf(word, 1) # 0 ->
         [l EXCEPT !.local = IF Len(word) > 1 THEN SlotsOf(word, 1) ELSE @]
    [] OTHER -> FoldLeft(AddHost, l, IF word = <<"+zeroconf">> THEN ZeroconfHosts ELSE <<word>>)

(* dcc_randomize_host_list(): the list sorted by a random number each; the
   lists it may return. *)
Randomized(hosts) ==
  {[i \in DOMAIN hosts |-> hosts[order[i]]] :
     order \in {f \in [DOMAIN hosts -> DOMAIN hosts] : Cardinality(ToSet(f)) = Len(hosts)}}
Outcomes(l) ==
  IF l.ret # "ok" THEN {l}
  ELSE IF l.nhosts = 0 THEN {[l EXCEPT !.ret = "EXIT_BAD_HOSTSPEC"]}
  ELSE IF l.randomize THEN {[l EXCEPT !.hosts = hosts] : hosts \in Randomized(l.hosts)}
  ELSE {l}
ParseHosts(words) == Outcomes(FoldLeft(ParseWord, EmptyList, words))

(* dcc_get_hostlist(): the first source that is there, dcc_parse_hosts_file()
   for the files; its errors are final. *)
GetHostlist(sources) ==
  LET there == {i \in 1 .. 3 : sources[i] # "absent"} IN
  IF there = {} THEN {[EmptyList EXCEPT !.ret = "EXIT_BAD_HOSTSPEC"]}
  ELSE ParseHosts(IF (CHOOSE i \in there : \A j \in there : i <= j) = source
                    THEN [i \in DOMAIN hostlist |-> hostlist[i].word] ELSE <<<<"h1">>>>)

(***************************************************************************)
(* A user writes a list into one of the three places, and a word.          *)
(***************************************************************************)
HostInit == hostlist = <<>> /\ typed = <<>> /\ source \in 1 .. 3
ListHost ==
  /\ Len(hostlist) < MaxListed /\ typed = <<>>
  /\ \E d \in Descriptions : hostlist' = Append(hostlist, d)
  /\ UNCHANGED <<typed, source>>
TypeLexeme ==
  /\ Len(typed) < MaxTyped /\ hostlist = <<>> /\ source = 1
  /\ \E l \in Lexemes : typed' = Append(typed, l)
  /\ UNCHANGED <<hostlist, source>>
HostNext == ListHost \/ TypeLexeme

(***************************************************************************)
(* Properties.  A description holds the word and the fields it stands for  *)
(* by the grammar of the manual.                                           *)
(***************************************************************************)
SourcesWith(i) == [j \in 1 .. 3 |-> IF j < i THEN "absent" ELSE "present"]
Listed(kind) == SelectSeq(hostlist, LAMBDA d : d.is = kind)

(* The list means what its words say, in the order they are written
   (--randomize: each host as often), in the first place that has one: every host
   has its own limit, port, command and options and nothing of its neighbours', a
   word the grammar refuses refuses the list, and --localslots, which makes no
   host, sets the last limit given. *)
HostListAsWritten ==
  LET hosts == FoldLeft(LAMBDA s, d :
                 CASE d.is = "host" -> Append(s, d.means)
                   [] d.is = "zeroconf" -> s \o [i \in DOMAIN ZeroconfHosts |-> ParseHost(ZeroconfHosts[i]).host]
                   [] OTHER -> s, <<>>, hostlist)
      slots == Listed("localslots")
      Times(h, s) == Cardinality({i \in DOMAIN s : s[i] = h})
      Means(l, s) ==
        IF Listed("bad") # <<>> \/ s = <<>>
          THEN l.ret = "EXIT_BAD_HOSTSPEC"
          ELSE /\ l.ret = "ok" /\ l.nhosts = Len(s)
               /\ IF Listed("randomize") = <<>> THEN l.hosts = s
                  ELSE \A h \in ToSet(s) : Times(h, l.hosts) = Times(h, s)
               /\ slots # <<>> => l.local = Last(slots).means
  IN \A l \in GetHostlist(SourcesWith(source)) : Means(l, hosts)

(* A host that any word yields can be used: it has a name, its limit is not
   zero, and its protocol version says what its options said, so that the server
   and the client take the same features from it. *)
TypedHostIsUsable ==
  LET Usable(host) ==
        /\ host.hostname # NULL /\ host.n_slots # 0
        /\ FeaturesFromProtover(host.protover)
             = [compr |-> host.compr, cpp_where |-> host.cpp_where, ret |-> 0]
      UsableIfParsed(p) == p.ret = "ok" => Usable(p.host)
  IN typed # <<>> => UsableIfParsed(ParseHost(typed))

(* A list of hosts means what the manual says, and whatever else is typed for
   a host is refused or gives one that can be used.  (dcc_parse_hosts()) *)
HostsAsSpecified == HostListAsWritten /\ TypedHostIsUsable
=============================================================================
