----------------------------- MODULE Discrepancy -----------------------------
(***************************************************************************)
(* The discrepancy counter of a pump-mode build (compile.c): a file beside *)
(* the include server's socket whose length is the number of compilations  *)
(* that failed on a server and did otherwise locally.  Every client reads  *)
(* the length once, before it decides where to preprocess, and appends a   *)
(* byte after a discrepancy; nothing is locked.  The byte stays in the     *)
(* stream's buffer until fclose().                                         *)
(***************************************************************************)
EXTENDS Integers, FiniteSets

CONSTANTS
  Builds,         \* the client processes of one build
  MaxDiscrepancy  \* DISTCC_MAX_DISCREPANCY

ASSUME DiscrepancyAssumption == MaxDiscrepancy \in Nat \ {0}

INT_MAX == 2147483647
NoCounter == -1

VARIABLES
  at,        \* the statement a client is about to execute
  size,      \* length of the file, NoCounter when there is none
  position,  \* offset of a client's stream when it was opened
  cpp_on,    \* where a client preprocesses: "server" or "client"
  noted,     \* history: clients whose byte has reached the file
  before,    \* history: how many had when a client read the length
  warned     \* clients that printed "now using plain distcc"

discrepancyVars == <<at, size, position, cpp_on, noted, before, warned>>

DiscrepancyInit ==
  /\ at = [c \in Builds |-> "adjust"]
  /\ size = NoCounter
  /\ position = [c \in Builds |-> 0]
  /\ cpp_on = [c \in Builds |-> "server"]
  /\ noted = {}
  /\ before = [c \in Builds |-> 0]
  /\ warned = {}

Goto(c, l) == at' = [at EXCEPT ![c] = l]

(* dcc_read_number_discrepancies() *)
NumberOfDiscrepancies ==
  IF size = NoCounter THEN 0 ELSE IF size > 0 THEN size ELSE INT_MAX

(* dcc_perhaps_adjust_cpp_where_and_protover(): also for a preprocessed input
   or when CPATH or its friends are set. *)
Adjust(c) ==
  /\ at[c] = "adjust" /\ Goto(c, "compile")
  /\ before' = [before EXCEPT ![c] = Cardinality(noted)]
  /\ \E unsuitable \in BOOLEAN :
       cpp_on' = [cpp_on EXCEPT ![c] =
         IF NumberOfDiscrepancies >= MaxDiscrepancy \/ unsuitable THEN "client" ELSE @]
  /\ UNCHANGED <<size, position, noted, warned>>

(* The remote and the local compilation agree, or
   dcc_please_send_email_after_investigation() is called, which fails before
   it counts when the dependencies cannot be examined. *)
Compile(c) ==
  /\ at[c] = "compile"
  /\ \E next \in {"open", "end"} : Goto(c, next)
  /\ UNCHANGED <<size, position, cpp_on, noted, before, warned>>

(* dcc_note_discrepancy(): fopen("a") creates the file; it may fail. *)
OpenCounter(c) ==
  /\ at[c] = "open"
  /\ \/ /\ Goto(c, "tell")
        /\ size' = IF size = NoCounter THEN 0 ELSE size
        /\ position' = [position EXCEPT ![c] = size']
     \/ Goto(c, "end") /\ UNCHANGED <<size, position>>
  /\ UNCHANGED <<cpp_on, noted, before, warned>>

(* fputc() into the buffer; ftell() is the offset the stream was opened at or
   the present end of the file, plus the byte in the buffer. *)
TellPosition(c) ==
  /\ at[c] = "tell" /\ Goto(c, "close")
  /\ \E offset \in {position[c], size} :
       warned' = IF offset + 1 = MaxDiscrepancy THEN warned \cup {c} ELSE warned
  /\ UNCHANGED <<size, position, cpp_on, noted, before>>

(* fopen("w") *)
CloseCounter_Truncates(c) ==
  /\ at[c] = "close" /\ Goto(c, "end")
  /\ \/ size' = position[c] + 1 /\ noted' = noted \cup {c}
     \/ UNCHANGED <<size, noted>>
  /\ UNCHANGED <<position, cpp_on, before, warned>>
(* fclose() appends the byte; its result is not examined. *)
CloseCounter(c) ==
  /\ at[c] = "close" /\ Goto(c, "end")
  /\ \/ size' = size + 1 /\ noted' = noted \cup {c}
     \/ UNCHANGED <<size, noted>>
  /\ UNCHANGED <<position, cpp_on, before, warned>>

DiscrepancyNext ==
  \E c \in Builds :
    Adjust(c) \/ Compile(c) \/ OpenCounter(c) \/ TellPosition(c) \/ CloseCounter(c)
DiscrepancySpec == DiscrepancyInit /\ [][DiscrepancyNext]_discrepancyVars

(* Discrepancies that clients note at the same time are all counted: the
   length of the file is the number of clients whose byte was written. *)
NoNoteLost == size = IF size = NoCounter THEN NoCounter ELSE Cardinality(noted)

(* Pump mode ends at the limit: a client that preprocesses on the server made
   that choice when fewer than DISTCC_MAX_DISCREPANCY had been noted, however
   many others were on their way to note one. *)
PumpEndsAtLimit ==
  \A c \in Builds :
    at[c] # "adjust" /\ cpp_on[c] = "server" => before[c] < MaxDiscrepancy

(* Every discrepancy counts, and enough of them end pump mode for the clients
   that come after.  (dcc_note_discrepancy(),
   dcc_perhaps_adjust_cpp_where_and_protover()) *)
DiscrepanciesEndPump == NoNoteLost /\ PumpEndsAtLimit
=============================================================================
