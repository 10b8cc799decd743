------------------------------ MODULE Lsdistcc ------------------------------
(***************************************************************************)
(* lsdistcc: a scan for servers (lsdistcc.c).  One process polls the       *)
(* connections to all hosts it looks at and a pipe to slave processes that *)
(* look names up (rslave.c).  Each host goes through the states of         *)
(* status_e; lookups are sent again when no answer comes in time.          *)
(*                                                                         *)
(* Time is abstract: a deadline that is set passes sooner or later.  A     *)
(* packet header arrives whole or in two halves.  What a host does is the *)
(* choice of a net, which only the network and the slaves look at.         *)
(***************************************************************************)
EXTENDS Integers, Sequences, SequencesExt, FiniteSets, FiniteSetsExt

CONSTANTS
  Hosts,          \* bound: 1 .. n, n at most MAXHOSTS
  Nets,           \* what the hosts do: functions from Hosts to [net, address, reply, ends]
  MAXTRIES,
  Overlap,        \* opt_overlap
  DnsGap,         \* opt_dnsgap
  MatchBits,      \* opt_match: addresses have to agree with the first one
  GroupSize,      \* maxfds - 1: hosts looked at together
  Compilers       \* opt_compiler and opt_comptimeout_ms: whether a test compilation is asked for

VARIABLES
  behaves,        \* a member of Nets
  opt_compile,    \* a member of Compilers
  states,         \* host -> record, the array states[]
  counts,         \* [with, got, bad, done, ok, first]: nwithtries[], ngotaddr, nbaddns, ndone, nok, firstipaddr
  range,          \* <<start_state, end_state, orig_end_state>>
  fd2state,
  requests, answers,    \* pipeToSlaves and what the slaves work on; pipeFromSlaves
  link,           \* host -> how far the connection is: [net, came]
  printed,        \* what goes to standard output
  phase
lsVars == <<behaves, opt_compile, states, counts, range, fd2state, requests, answers, link, printed, phase>>

NoAddress == "0.0.0.0"
NoFd == 0
n_hosts == Cardinality(Hosts)
Fds == 1 .. n_hosts
Ordered == [i \in 1 .. n_hosts |-> i]
Reading == {"READ_DONEPKT", "READ_STATPKT", "READ_REST"}

(***************************************************************************)
(* The work of one pass is a chain of steps on a record of the state.      *)
(***************************************************************************)
HostWas(s, i) == s.states[i]
HostIs(s, i, h) == [s EXCEPT !.states[i] = h]
FreeFd(s) == Min({f \in Fds : \A i \in Hosts : HostWas(s, i).fd # f})

(* server_handle_event(), STATE_CLOSE: up hosts are printed, down ones are not
   (opt_bang_down is off); either way the host is done. *)
CloseHost(s, i) ==
  [s EXCEPT !.states[i].status = "DONE", !.states[i].fd = NoFd,
            !.counts.done = @ + 1, !.counts.ok = @ + 1,
            !.printed = IF HostWas(s, i).up THEN Append(@, i) ELSE @,
            !.link[i].net = "closed"]

(* STATE_CONNECT *)
ConnectHost(s, i) ==
  IF behaves[i].net = "unreachable" THEN CloseHost(s, i)
  ELSE LET f == FreeFd(s) IN
       [s EXCEPT !.states[i] = [@ EXCEPT !.status = "CONNECTING", !.fd = f, !.due = FALSE],
                 !.fd2state[f] = i, !.link[i].net = "pending"]

(* STATE_CONNECTING: no error pending counts as connected.  The request goes
   out at once or not at all. *)
ConnectingHost(s, i) ==
  IF s.link[i].net = "refused" THEN CloseHost(s, i)
  ELSE IF ~opt_compile THEN CloseHost([s EXCEPT !.states[i].up = TRUE], i)
  ELSE IF s.link[i].net # "up" THEN CloseHost(s, i)
  ELSE [s EXCEPT !.states[i] = [@ EXCEPT !.status = "READ_DONEPKT", !.hdr = 0, !.due = FALSE]]

(* server_read_packet_header() and STATE_READ_REST.  taken counts the halves
   of headers read so far. *)
ReadHost(s, i) ==
  LET h == HostWas(s, i)
      reply == behaves[i].reply
      there == s.link[i].came - h.taken
      rest == h.status = "READ_REST"
      n == IF rest THEN there ELSE Min({there, 2 - h.hdr})
      packet == reply[(h.taken + n) \div 2]
      expected == IF h.status = "READ_DONEPKT" THEN "DONE" ELSE "STAT0"
  IN IF n = 0 THEN IF s.link[i].net = "eof"
                   THEN CloseHost([s EXCEPT !.states[i].up = rest], i) ELSE s
     ELSE IF rest THEN [s EXCEPT !.states[i].taken = @ + n]
     ELSE IF h.hdr + n < 2 THEN [s EXCEPT !.states[i].taken = @ + n, !.states[i].hdr = @ + n]
     ELSE IF packet # expected THEN CloseHost(s, i)
     ELSE [s EXCEPT !.states[i] =
             [@ EXCEPT !.taken = h.taken + n, !.hdr = 0,
                       !.status = IF expected = "DONE" THEN "READ_STATPKT" ELSE "READ_REST"]]

HandleEvent(s, i) ==
  CASE HostWas(s, i).status = "CONNECT"    -> ConnectHost(s, i)
    [] HostWas(s, i).status = "CONNECTING" -> ConnectingHost(s, i)
    [] HostWas(s, i).status \in Reading    -> ReadHost(s, i)
    [] OTHER -> s

(***************************************************************************)
(* one_poll_loop()                                                         *)
(***************************************************************************)
InRange(s) == s.range[1] .. s.range[2]
Polled(s) == {i \in InRange(s) : HostWas(s, i).status \in Reading \cup {"CONNECTING"}}
(* revents of the descriptor of host i *)
Ready(s, i) ==
  IF HostWas(s, i).status = "CONNECTING" THEN s.link[i].net \in {"up", "refused", "eof"}
  ELSE s.link[i].came > HostWas(s, i).taken \/ s.link[i].net = "eof"

Overdue(s, i) == HostWas(s, i).due
ToResend(s) ==
  {i \in InRange(s) : HostWas(s, i).status = "LOOKUP" /\ HostWas(s, i).tries \in 1 .. MAXTRIES - 1 /\ Overdue(s, i)}
(* The loop ends at the first lookup that is sent again, and looks at no
   deadline of a later host. *)
Expired(s) == {i \in Polled(s) : Overdue(s, i) /\ \A j \in ToResend(s) : i < j}
Fresh(s) == {i \in InRange(s) : HostWas(s, i).status = "LOOKUP" /\ HostWas(s, i).tries = 0}
(* interest in POLLOUT of the pipe to the slaves *)
WantsLookup(s) ==
  /\ s.counts.with[1] <= Overlap
  /\ FoldLeft(LAMBDA n, k : n + s.counts.with[k], s.counts.got, [k \in 1 .. MAXTRIES - 1 |-> k]) < s.range[2]

OneMoreTry(s, i) ==
  LET n == HostWas(s, i).tries IN
  [s EXCEPT !.counts.with[n] = @ - 1, !.counts.with[n + 1] = @ + 1,
            !.states[i].tries = n + 1, !.states[i].due = FALSE,
            !.requests = Append(@, i)]
CloseExpired(s) == FoldLeft(CloseHost, s, SelectSeq(Ordered, LAMBDA i : i \in Expired(s)))
(* The lookup to send is chosen before the closing, which does not change it,
   but the interest was noted before poll(). *)
SendLookup(s, wanted) ==
  IF ToResend(s) # {} THEN OneMoreTry(CloseExpired(s), Min(ToResend(s)))
  ELSE IF wanted /\ s.counts.with[1] <= Overlap /\ Fresh(s) # {} THEN OneMoreTry(CloseExpired(s), Min(Fresh(s)))
  ELSE CloseExpired(s)

Matching(s, addr) == MatchBits = 0 \/ s.counts.got = 1 \/ addr = s.counts.first
NoteFirst(s, addr) ==
  IF MatchBits > 0 /\ s.counts.got = 1 THEN [s EXCEPT !.counts.first = addr] ELSE s
(* no more lookups are started once too many names were not found *)
StopSearch(s) ==
  IF s.counts.bad > DnsGap
  THEN [s EXCEPT !.range[2] = Max({i \in InRange(s) : HostWas(s, i).tries > 0})]
  ELSE s
(* the number of lookups in flight is not kept *)
TakeAnswer_Uncounted(s, i, addr) ==
  LET found == addr # NoAddress
      got == NoteFirst([s EXCEPT !.counts.got = @ + 1], addr)
  IN IF HostWas(s, i).status # "LOOKUP" THEN s
     ELSE IF found /\ Matching(got, addr)
     THEN ConnectHost(got, i)
     ELSE StopSearch([got EXCEPT !.states[i].status = "DONE", !.counts.done = @ + 1, !.counts.bad = @ + 1])
(* An answer: only the first for a host counts.  An address that was not found
   is all zero, and may still become the first address. *)
TakeAnswer(s, i, addr) ==
  LET found == addr # NoAddress
      got == NoteFirst([s EXCEPT !.counts.with[HostWas(s, i).tries] = @ - 1, !.counts.got = @ + 1], addr)
  IN IF HostWas(s, i).status # "LOOKUP" THEN s
     ELSE IF found /\ Matching(got, addr)
     THEN ConnectHost(got, i)
     ELSE StopSearch([got EXCEPT !.states[i].status = "DONE", !.counts.done = @ + 1, !.counts.bad = @ + 1])

(* The events of poll() are given to the hosts that now hold the descriptors *)
Grind(s, fds) == FoldLeft(LAMBDA t, f : HandleEvent(t, t.fd2state[f]), s, fds)

Now == [states |-> states, counts |-> counts, range |-> range, fd2state |-> fd2state,
        requests |-> requests, answers |-> answers, link |-> link, printed |-> printed]
Becomes(s) ==
  /\ states' = s.states /\ counts' = s.counts /\ range' = s.range /\ fd2state' = s.fd2state
  /\ requests' = s.requests /\ answers' = s.answers /\ link' = s.link /\ printed' = s.printed

ReadyFds(s) ==
  LET ready == SelectSeq(Ordered, LAMBDA i : i \in Polled(s) /\ Ready(s, i))
  IN [k \in DOMAIN ready |-> HostWas(s, ready[k]).fd]
PollPass ==
  /\ phase = "poll"
  /\ counts.done < range[2]
  /\ UNCHANGED <<behaves, opt_compile>>
  /\ \E fds \in {ReadyFds(Now)}, sent \in {SendLookup(Now, WantsLookup(Now))} :
       IF answers = <<>>
       THEN (\E s \in {Grind(sent, fds)} : Becomes(s)) /\ UNCHANGED phase
       ELSE \E read \in {[sent EXCEPT !.answers = Tail(@)]}, a \in {Head(answers)} :
              IF a[1] \notin InRange(sent) THEN Becomes(read) /\ phase' = "abort"
              ELSE /\ \E t \in {TakeAnswer(read, a[1], a[2])} : \E s \in {Grind(t, fds)} : Becomes(s)
                   /\ UNCHANGED phase

(* detect_distcc_servers(): the next group of hosts, or the end *)
Group(from) == <<from, Min({from + GroupSize - 1, n_hosts}), Min({from + GroupSize - 1, n_hosts})>>
NextGroup ==
  /\ phase = "poll"
  /\ counts.done >= range[2]
  /\ IF range[2] < range[3] \/ range[2] = n_hosts
     THEN phase' = "done" /\ UNCHANGED range
     ELSE range' = Group(range[2] + 1) /\ UNCHANGED phase
  /\ UNCHANGED <<behaves, opt_compile, states, counts, fd2state, requests, answers, link, printed>>
(* timeout_handler() *)
BigTimeout ==
  /\ phase = "poll"
  /\ phase' = "timeout"
  /\ UNCHANGED <<behaves, opt_compile, states, counts, range, fd2state, requests, answers, link, printed>>
(* main(): the exit status *)
ExitStatus == CASE phase = "timeout" -> 0 [] phase = "done" -> IF counts.ok > 0 THEN 0 ELSE 1 [] OTHER -> 134

(***************************************************************************)
(* The slaves (be_a_dnsslave()), the clock and the network                 *)
(***************************************************************************)
Waits(i) == states[i].status \in Reading \cup {"CONNECTING"} \/ (states[i].status = "LOOKUP" /\ states[i].tries > 0)
SlaveAnswers ==
  /\ phase = "poll"
  /\ \E k \in DOMAIN requests :
       /\ requests' = RemoveAt(requests, k)
       /\ answers' = Append(answers, <<requests[k], behaves[requests[k]].address>>)
  /\ UNCHANGED <<behaves, opt_compile, states, counts, range, fd2state, link, printed, phase>>
DeadlinePasses(i) ==
  /\ phase = "poll"
  /\ Waits(i) /\ ~states[i].due
  /\ states' = [states EXCEPT ![i].due = TRUE]
  /\ UNCHANGED <<behaves, opt_compile, counts, range, fd2state, requests, answers, link, printed, phase>>
(* the host accepts or refuses the connection, sends a half of a header, ends
   its stream; a silent one does none of it *)
Network(i) ==
  /\ phase = "poll"
  /\ \/ /\ link[i].net = "pending" /\ behaves[i].net # "silent"
        /\ link' = [link EXCEPT ![i].net = IF behaves[i].net = "listens" THEN "up" ELSE "refused"]
     \/ /\ link[i].net = "up" /\ states[i].status \in Reading
        /\ link[i].came < 2 * Len(behaves[i].reply)
        /\ \E k \in 1 .. 2 : link' = [link EXCEPT ![i].came = Min({@ + k, 2 * Len(behaves[i].reply)})]
     \/ /\ link[i].net = "up" /\ states[i].status \in Reading
        /\ link[i].came = 2 * Len(behaves[i].reply) /\ behaves[i].ends
        /\ link' = [link EXCEPT ![i].net = "eof"]
  /\ UNCHANGED <<behaves, opt_compile, states, counts, range, fd2state, requests, answers, printed, phase>>

NothingScanned ==
  /\ behaves \in Nets
  /\ opt_compile \in Compilers
  /\ states = [i \in Hosts |-> [status |-> "LOOKUP", tries |-> 0, fd |-> NoFd, up |-> FALSE,
                                due |-> FALSE, hdr |-> 0, taken |-> 0]]
  /\ counts = [with |-> [k \in 0 .. MAXTRIES |-> IF k = 0 THEN n_hosts ELSE 0],
               got |-> 0, bad |-> 0, done |-> 0, ok |-> 0, first |-> NoAddress]
  /\ range = Group(1)
  /\ fd2state = [f \in Fds |-> 1]
  /\ requests = <<>> /\ answers = <<>> /\ printed = <<>>
  /\ link = [i \in Hosts |-> [net |-> "none", came |-> 0]]
LsInit == NothingScanned /\ phase = "poll"
LsNext ==
  \/ PollPass \/ NextGroup \/ BigTimeout \/ SlaveAnswers
  \/ \E i \in Hosts : DeadlinePasses(i) \/ Network(i)

(***************************************************************************)
(* Properties                                                              *)
(***************************************************************************)
(* The counters that limit the lookups in flight and decide when to stop agree
   with the states of the hosts, whatever answers come twice, late or in
   another order than the requests.  (one_poll_loop()) *)
CountsMatchStates ==
  phase = "poll" =>
  /\ \A k \in 0 .. MAXTRIES :
       counts.with[k] = Cardinality({i \in Hosts : states[i].status = "LOOKUP" /\ states[i].tries = k})
  /\ counts.done = Cardinality({i \in Hosts : states[i].status = "DONE"})

(* When a test compilation is asked for, a name is printed only of a host that
   sent the whole good reply and ended it, whatever events its descriptor
   inherited from another host.  (server_read_packet_header()) *)
PrintedCompiled ==
  opt_compile => \A k \in DOMAIN printed :
                   behaves[printed[k]].ends /\ behaves[printed[k]].reply = <<"DONE", "STAT0">>

(* Every host is counted once, through retries, late answers and descriptors
   that are used again, and with -c only hosts that compiled are printed.
   (one_poll_loop(), server_handle_event()) *)
ScanIsRight == CountsMatchStates /\ PrintedCompiled
=============================================================================
