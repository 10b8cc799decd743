------------------------------- MODULE Stats -------------------------------
(***************************************************************************)
(* The statistics of the daemon (stats.c): reports of finished jobs go     *)
(* through a pipe to the parent, which keeps the recent ones in a list,    *)
(* the compilations of a quarter of an hour in a ring of slots, and        *)
(* averages of the children in use.  The clock is in seconds; a minute has *)
(* Minute of them, and the ring Slots slots of SlotSecs (60, 300 and 3 in  *)
(* the code).                                                              *)
(***************************************************************************)
EXTENDS Integers, Sequences, SequencesExt, FiniteSets

CONSTANTS
  Minute, Slots, SlotSecs,
  Spans,          \* the windows of the totals, in slots (20, 100 and 299)
  RingSize,       \* samples of the longer average (5 and 15)
  Reported,       \* kinds of report: STATS_* that a child sends
  Durations,      \* how long a job took
  MaxDelay,       \* how long a report waits in the pipe
  MaxSteps,       \* the clock moves on by up to this many seconds
  MaxClock,       \* bound: the clock
  MaxReports      \* bound: reports

VARIABLES
  clock,
  pipe,           \* dcc_statspipe
  sent,           \* how many reports were sent
  sd,             \* the list at sd_root, newest first
  series,         \* compile_timeseries
  prev_slot, last, total,          \* statics of dcc_stats_update_running_total()
  kids_avg, samples, pos, last_avg,  \* dcc_stats_calc_kid_avg()
  answer,         \* the totals by span, in the turn of a request
  events,         \* every compilation that was counted, by slot number
  jobs,           \* every report of a good compilation
  lapsed,         \* a call came exactly one turn of the ring after the last
  crashed
statsVars == <<clock, pipe, sent, sd, series, prev_slot, last, total,
               kids_avg, samples, pos, last_avg, answer, events, jobs, lapsed, crashed>>
totals == <<series, prev_slot, last, total, events, lapsed>>
averages == <<kids_avg, samples, pos, last_avg>>

Slot(t) == (t \div SlotSecs) % Slots
Taxing == {"COMPILE_OK", "COMPILE_ERROR", "COMPILE_TIMEOUT", "CLI_DISCONN"}

(***************************************************************************)
(* dcc_stats_update_compile_times(): the new report in front, then what is *)
(* older than two minutes goes.  The head is taken off through a pointer   *)
(* that is not set.                                                        *)
(***************************************************************************)
Old(r) == r.stop < clock - 2 * Minute
UpdateCompileTimes(r) ==
  IF r.type # "COMPILE_OK" THEN UNCHANGED <<sd, jobs, crashed>>
  ELSE /\ sd' = SelectSeq(<<r>> \o sd, LAMBDA x : ~Old(x))
       /\ crashed' = (crashed \/ Old(r))
       /\ jobs' = Append(jobs, r)

(***************************************************************************)
(* dcc_stats_update_running_total(): slot i holds the total at its end     *)
(***************************************************************************)
(* the slot that ends now is left as it was *)
Filled_AfterPrev(cur) ==
  {i \in 0 .. Slots - 1 : (i - prev_slot) % Slots < (cur - prev_slot) % Slots /\ i # prev_slot}
(* the interval [prev_slot, cur) *)
Filled(cur) == {i \in 0 .. Slots - 1 : (i - prev_slot) % Slots < (cur - prev_slot) % Slots}
UpdateRunningTotal(increment) ==
  LET cur == Slot(clock)  stale == last + Slots * SlotSecs < clock IN
  /\ series' = [i \in 0 .. Slots - 1 |-> IF stale \/ i \in Filled(cur) THEN total ELSE series[i]]
  /\ prev_slot' = cur
  /\ total' = total + increment
  /\ last' = clock
  /\ events' = IF increment = 0 THEN events ELSE Append(events, clock \div SlotSecs)
  /\ lapsed' = (lapsed \/ (~stale /\ clock \div SlotSecs = (last \div SlotSecs) + Slots))

(***************************************************************************)
(* dcc_stats_calc_kid_avg()                                                *)
(***************************************************************************)
Running(list, t) == Cardinality({i \in DOMAIN list : list[i].start <= t /\ list[i].stop >= t})
Average(list) ==
  FoldLeft(LAMBDA n, t : n + Running(list, clock - t), 0, [i \in 1 .. Minute |-> Minute + i - 1]) \div Minute
CalcKidAvg ==
  IF clock - Minute < last_avg THEN UNCHANGED averages
  ELSE LET ring == [samples EXCEPT ![pos] = Average(sd)] IN
       /\ samples' = ring
       /\ pos' = IF pos + 1 >= RingSize THEN 0 ELSE pos + 1
       /\ kids_avg' = <<Average(sd), FoldLeft(LAMBDA n, i : n + ring[i], 0, [i \in 1 .. RingSize |-> i - 1]) \div RingSize>>
       /\ last_avg' = clock

(***************************************************************************)
(* The parent and its children                                             *)
(***************************************************************************)
Elapse ==
  /\ \E d \in 1 .. MaxSteps :
       /\ clock + d <= MaxClock
       /\ pipe # <<>> => clock + d - Head(pipe).stop <= MaxDelay
       /\ clock' = clock + d
  /\ answer' = <<>>
  /\ UNCHANGED <<pipe, sent, sd, totals, averages, jobs, crashed>>
(* dcc_stats_event(), dcc_stats_compile_ok() *)
SendReport ==
  /\ sent < MaxReports
  /\ \E type \in Reported, d \in Durations :
       pipe' = Append(pipe, [type |-> type, start |-> clock - d, stop |-> clock])
  /\ sent' = sent + 1
  /\ answer' = <<>>
  /\ UNCHANGED <<clock, sd, totals, averages, jobs, crashed>>
(* A turn of dcc_stats_server(): the average, then a report is processed
   (dcc_stats_process()). *)
ProcessReport ==
  /\ ~crashed /\ pipe # <<>>
  /\ CalcKidAvg
  /\ LET r == Head(pipe) IN
     /\ UpdateCompileTimes(r)
     /\ IF r.type \in Taxing THEN UpdateRunningTotal(1) ELSE UNCHANGED totals
  /\ pipe' = Tail(pipe) /\ answer' = <<>>
  /\ UNCHANGED <<clock, sent>>
(* dcc_stats_get_compile_totals(), of the updated ring *)
CompileTotals(ring, cur) ==
  [n \in Spans |-> ring[(cur + Slots - 1) % Slots] - ring[(cur + Slots - n) % Slots]]
(* A turn with a request, dcc_service_stats_request(): the statistics are brought
   up to date, and sent if the access list admits the client. *)
AnswerRequest ==
  /\ ~crashed
  /\ CalcKidAvg
  /\ UpdateRunningTotal(0)
  /\ answer' \in {CompileTotals(series', Slot(clock)), <<>>}
  /\ UNCHANGED <<clock, pipe, sent, sd, jobs, crashed>>
(* A turn after the timeout of select() *)
IdleTurn ==
  /\ ~crashed
  /\ CalcKidAvg
  /\ answer' = <<>>
  /\ UNCHANGED <<clock, pipe, sent, sd, totals, jobs, crashed>>

StatsInit ==
  /\ clock = Slots * SlotSecs + 1
  /\ pipe = <<>> /\ sent = 0 /\ sd = <<>>
  /\ series = [i \in 0 .. Slots - 1 |-> 0] /\ prev_slot = 0 /\ last = 0 /\ total = 0
  /\ kids_avg = <<0, 0>> /\ samples = [i \in 0 .. RingSize - 1 |-> 0] /\ pos = 0 /\ last_avg = 0
  /\ answer = <<>> /\ events = <<>> /\ jobs = <<>> /\ lapsed = FALSE /\ crashed = FALSE
StatsNext == Elapse \/ SendReport \/ ProcessReport \/ AnswerRequest \/ IdleTurn

(***************************************************************************)
(* Properties                                                              *)
(***************************************************************************)
(* As long as no report waits in the pipe for more than two minutes, the head
   of the list is never dropped, which the loop that drops old reports would
   do through a null pointer.  (dcc_stats_update_compile_times()) *)
ListSurvives == ~crashed

(* The averages are those of all jobs ever reported: what was dropped from the
   list is too old to count, and the list keeps its order.
   (dcc_stats_update_compile_times(), dcc_stats_calc_kid_avg()) *)
DroppedReportsAreOld ==
  [][averages' # averages => kids_avg'[1] = Average(jobs)]_statsVars

InWindow(cur, n) == Cardinality({i \in DOMAIN events : events[i] \in cur - n + 1 .. cur - 1})
(* A request reports the compilations of the last n slots before the current
   one, however the calls fell on the slots, unless some call came exactly one
   turn of the ring after the one before it.
   (dcc_stats_update_running_total(), dcc_stats_get_compile_totals()) *)
TotalsAreRecent ==
  [][answer' # <<>> /\ ~lapsed'
       => \A n \in Spans : answer'[n] = InWindow(clock \div SlotSecs, n)]_statsVars

(* The statistics are those of recent jobs, at all times and through every gap
   between two reports.  (stats.c) *)
StatisticsAreRecent == []ListSurvives /\ DroppedReportsAreOld /\ TotalsAreRecent
=============================================================================
