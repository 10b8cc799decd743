------------------------------ MODULE Transfer ------------------------------
(***************************************************************************)
(* What one side of a connection sends and what the other makes of it:     *)
(* tokens, strings and files (rpc.c, bulk.c), written and read piecewise   *)
(* (io.c), copied with sendfile() or through a buffer (sendfile.c, pump.c) *)
(* and perhaps compressed (compress.c).                                    *)
(*                                                                         *)
(* The wire carries cells.  A token is two of them, its name and its       *)
(* value; a body is one cell for each unit of data.  A cell of a body is   *)
(* never taken for a token: the contents of files do not imitate the       *)
(* protocol.                                                               *)
(***************************************************************************)
EXTENDS Integers, Sequences

CONSTANTS
  Scripts,         \* what is sent: sequences of [token, kind, size, packed]
  Compressions,    \* subset of {"none", "lzo"}
  WireCapacity,    \* cells the two kernels hold
  PumpBuffer,      \* cells in the buffer of dcc_pump_readwrite()
  TransferFaults,  \* subset of {"open", "shrink", "sendfile", "memory", "timeout", "reset", "disk"}
  MaxFaults        \* bound: how many of them in a behaviour

VARIABLES
  script, compr,   \* what both sides have agreed on
  sAt, sDo,        \* the sender: the item it sends, and what it does with it
  out,             \* cells that wait in dcc_writex() or in the buffer of dcc_pump_readwrite()
  off, left,       \* position in the file that is sent, and how much of it is to be sent
  disk,            \* the size that file has by now
  wire, up,        \* cells under way; the connection has not been reset
  rAt, rDo,        \* the receiver: the item it expects, and what it does with it
  need, in,        \* cells it has to read, and those it has read
  got,             \* what it has received, item by item
  output,          \* the file it writes, or NoFile
  faults           \* how many faults there have been

sending == <<sAt, sDo, out, off, left, disk>>
receiving == <<rAt, rDo, need, in, got, output>>
agreed == <<script, compr>>
transferVars == <<agreed, sending, wire, up, receiving, faults>>

NoFile == <<<<"no file", 0, 0>>>>
Cells(what, i, n) == [j \in 1 .. n |-> <<what, i, j>>]
Token(i, value) == <<<<"name", i, 0>>, <<"value", i, value>>>>
Body(i) == Cells("byte", i, script[i].size)
Packed(i) == Cells("packed", i, script[i].packed)
Current == script[sAt]
Expected == script[rAt]

TransferInit ==
  /\ script \in Scripts /\ compr \in Compressions
  /\ sAt = 1 /\ sDo = "item" /\ out = <<>> /\ off = 0 /\ left = 0 /\ disk = 0
  /\ wire = <<>> /\ up = TRUE
  /\ rAt = 1 /\ rDo = "token" /\ need = 2 /\ in = <<>> /\ got = <<>> /\ output = NoFile
  /\ faults = 0

Fault(f) == f \in TransferFaults /\ faults < MaxFaults /\ faults' = faults + 1
Hears == up /\ rDo \notin {"done", "failed"}
Room == WireCapacity - Len(wire)

-----------------------------------------------------------------------------
(* The sender.                                                             *)

SendDo(l) == sDo' = l /\ UNCHANGED <<sAt, out, off, left, disk>>
NextItem == sAt' = sAt + 1 /\ sDo' = "item" /\ out' = <<>> /\ off' = 0 /\ left' = 0 /\ disk' = 0

\* dcc_x_token_int(), dcc_x_token_string(): the value, or the length and the
\* string.
XToken ==
  /\ sDo = "item" /\ sAt <= Len(script) /\ Current.kind # "file"
  /\ out' = Token(sAt, Current.size) \o (IF Current.kind = "string" THEN Body(sAt) ELSE <<>>)
  /\ sDo' = "write"
  /\ UNCHANGED <<agreed, sAt, off, left, disk, wire, up, receiving, faults>>

\* dcc_x_file(): a file that cannot be opened ends the transfer.  A compressed
\* body is made before its token is sent; when that fails nothing is sent, and
\* dcc_x_file() returns 0 nevertheless.
XFile ==
  /\ sDo = "item" /\ sAt <= Len(script) /\ Current.kind = "file"
  /\ \/ /\ compr = "none" \/ Current.size = 0
        /\ out' = Token(sAt, Current.size) /\ sDo' = "write"
        /\ off' = 0 /\ left' = Current.size /\ disk' = Current.size
        /\ UNCHANGED <<sAt, faults>>
     \/ /\ compr = "lzo" /\ Current.size > 0
        /\ out' = Token(sAt, Current.packed) \o Packed(sAt) /\ sDo' = "write"
        /\ UNCHANGED <<sAt, off, left, disk, faults>>
     \/ compr = "lzo" /\ Current.size > 0 /\ (Fault("memory") \/ Fault("shrink")) /\ NextItem
     \/ Fault("open") /\ SendDo("failed")
  /\ UNCHANGED <<agreed, wire, up, receiving>>

\* dcc_writex(), and the inner loop of dcc_pump_readwrite(): as many cells as
\* there is room for, or fewer.
Write ==
  /\ sDo \in {"write", "pump"} /\ Hears
  /\ \E n \in 1 .. Len(out) :
       /\ n <= Room
       /\ wire' = wire \o SubSeq(out, 1, n)
       /\ IF n < Len(out)
          THEN out' = SubSeq(out, n + 1, Len(out)) /\ UNCHANGED <<sAt, sDo, off, left, disk>>
          ELSE IF left = 0 THEN NextItem
          ELSE /\ sDo' = IF sDo = "write" THEN "sendfile" ELSE "read"
               /\ out' = <<>> /\ UNCHANGED <<sAt, off, left, disk>>
  /\ UNCHANGED <<agreed, up, receiving, faults>>

\* A mutant of MayFallBack: at any offset.
FallsBackAnywhere == TRUE

\* sendfile() does not move the file pointer: read() starts at the beginning.
MayFallBack == off = 0

\* dcc_pump_sendfile(): a part of the file; nothing, when the file has become
\* shorter; or an error of the file system.
PumpSendfile ==
  /\ sDo = "sendfile" /\ Hears
  /\ \/ \E n \in 1 .. left :
          /\ n <= Room /\ off + n <= disk
          /\ wire' = wire \o SubSeq(Body(sAt), off + 1, off + n)
          /\ IF n = left THEN NextItem
             ELSE off' = off + n /\ left' = left - n /\ UNCHANGED <<sAt, sDo, out, disk>>
          /\ UNCHANGED faults
     \/ off >= disk /\ NextItem /\ UNCHANGED <<wire, faults>>
     \/ /\ Fault("sendfile")
        /\ IF MayFallBack
           THEN sDo' = "read" /\ off' = 0 /\ UNCHANGED <<sAt, out, left, disk>>
           ELSE NextItem
        /\ UNCHANGED wire
  /\ UNCHANGED <<agreed, up, receiving>>

\* dcc_pump_readwrite(): fills its buffer, or finds the end of the file.
PumpRead ==
  /\ sDo = "read"
  /\ IF off >= disk THEN NextItem
     ELSE \E n \in 1 .. PumpBuffer :
            /\ n <= left /\ off + n <= disk
            /\ out' = SubSeq(Body(sAt), off + 1, off + n)
            /\ off' = off + n /\ left' = left - n
            /\ sDo' = "pump" /\ UNCHANGED <<sAt, disk>>
  /\ UNCHANGED <<agreed, wire, up, receiving, faults>>

\* A write to a connection that is gone fails, and so does one that has waited
\* too long in dcc_select_for_write().  dcc_x_file() forgets the error unless it
\* met it in the token of a plain file.
WriteFails ==
  /\ sDo \in {"write", "pump", "sendfile"}
  /\ \/ ~Hears /\ UNCHANGED faults
     \/ Room = 0 /\ Fault("timeout")
  /\ IF Current.kind = "file" /\ (compr = "lzo" \/ sDo # "write")
     THEN NextItem
     ELSE SendDo("failed")
  /\ UNCHANGED <<agreed, wire, up, receiving>>

\* The file that is being sent is cut short.
Shrink ==
  /\ disk > 0 /\ Fault("shrink")
  /\ disk' \in 0 .. disk - 1
  /\ UNCHANGED <<agreed, sAt, sDo, out, off, left, wire, up, receiving>>

\* The sender is through.
SendEnds ==
  /\ sDo = "item" /\ sAt > Len(script)
  /\ SendDo("sent")
  /\ UNCHANGED <<agreed, wire, up, receiving, faults>>

SenderStep ==
  XToken \/ XFile \/ Write \/ PumpSendfile \/ PumpRead \/ WriteFails \/ SendEnds

-----------------------------------------------------------------------------
(* The receiver.                                                           *)

RFailed ==
  /\ rDo' = "failed"
  /\ output' = NoFile
  /\ UNCHANGED <<rAt, need, in, got>>

Received(what) ==
  /\ got' = Append(got, what)
  /\ rAt' = rAt + 1 /\ in' = <<>> /\ need' = 2 /\ output' = NoFile
  /\ rDo' = IF rAt = Len(script) THEN "done" ELSE "token"

\* dcc_readx(), and a pass of dcc_pump_readwrite(), which writes what it reads:
\* as many cells as there are, or fewer.
Read ==
  /\ rDo \in {"token", "string", "file"} /\ up /\ Len(in) < need
  /\ \E n \in 1 .. need - Len(in) :
       /\ n <= Len(wire)
       /\ in' = in \o SubSeq(wire, 1, n)
       /\ wire' = SubSeq(wire, n + 1, Len(wire))
       /\ output' = IF rDo = "file" /\ compr = "none" THEN output \o SubSeq(wire, 1, n) ELSE output
  /\ UNCHANGED <<agreed, sending, up, rAt, rDo, need, got, faults>>

IsExpected(cell) == cell[1] = "name" /\ script[cell[2]].token = Expected.token

\* dcc_r_token_int(), dcc_r_sometoken_int(): what the value stands for.  The
\* beginning of the next token may have taken the place of the value's end; then
\* there is an error, or a wrong value.
HasValue(v) ==
  \/ in[2][1] = "value" /\ v = in[2][3]
  \/ in[2][1] = "name" /\ v \in 0 .. 2

RToken ==
  /\ rDo = "token" /\ Len(in) = need
  /\ \/ ~(IsExpected(in[1]) /\ in[2][1] = "value") /\ RFailed
     \/ /\ IsExpected(in[1])
        /\ \E v \in 0 .. 20 :
             /\ HasValue(v)
             /\ IF Expected.kind = "int" THEN Received(<<<<"value", rAt, v>>>>)
                ELSE /\ rDo' = Expected.kind /\ need' = v /\ in' = <<>>
                     /\ output' = IF Expected.kind = "file" THEN <<>> ELSE NoFile
                     /\ UNCHANGED <<rAt, got>>
  /\ UNCHANGED <<agreed, sending, wire, up, faults>>

\* dcc_r_str_alloc().
RString ==
  /\ rDo = "string" /\ Len(in) = need
  /\ Received(in)
  /\ UNCHANGED <<agreed, sending, wire, up, faults>>

\* lzo1x_decompress_safe() has found the buffer too small.
Grown(size) == 2 * size

\* The buffers dcc_r_bulk_lzo1x() tries for n cells.
BufferSizes(n) == {8 * n, Grown(8 * n), Grown(Grown(8 * n))}

\* dcc_r_file(): an empty file, a plain one, or one to decompress.  LZO finds out
\* whether what it gets was compressed, but not always.
RFile ==
  /\ rDo = "file" /\ Len(in) = need
  /\ \/ (compr = "none" \/ need = 0) /\ Received(output) /\ UNCHANGED faults
     \/ /\ compr = "lzo" /\ need > 0
        /\ \E i \in 1 .. Len(script) : in = Packed(i)
        /\ \E i \in 1 .. Len(script) :
             /\ in = Packed(i)
             /\ IF \E size \in BufferSizes(need) : size >= script[i].size
                THEN Received(Body(i))
                ELSE RFailed
        /\ UNCHANGED faults
     \/ /\ compr = "lzo" /\ need > 0
        /\ ~\E i \in 1 .. Len(script) : in = Packed(i)
        /\ RFailed \/ Received(<<<<"garbage", 0, 0>>>>)
        /\ UNCHANGED faults
     \/ Fault("disk") /\ RFailed
  /\ UNCHANGED <<agreed, sending, wire, up>>

\* read() finds the connection reset or closed, or dcc_select_for_read() has
\* waited too long; for good when the sender has nothing more to send.
ReadFails ==
  /\ rDo \in {"token", "string", "file"} /\ Len(in) < need
  /\ \/ ~up /\ UNCHANGED faults
     \/ wire = <<>> /\ sDo \in {"sent", "failed"} /\ UNCHANGED faults
     \/ wire = <<>> /\ Fault("timeout")
  /\ RFailed
  /\ UNCHANGED <<agreed, sending, wire, up>>

ReceiverStep == Read \/ RToken \/ RString \/ RFile \/ ReadFails

\* The connection is reset: what is under way is lost.
Reset ==
  /\ up /\ Fault("reset")
  /\ up' = FALSE /\ wire' = <<>>
  /\ UNCHANGED <<agreed, sending, receiving>>

TransferNext == SenderStep \/ ReceiverStep \/ Shrink \/ Reset

-----------------------------------------------------------------------------
(***************************************************************************)
(* A receiver that is through has every item as the sender had it, although*)
(* dcc_x_file() goes on after an error and later items are then read as    *)
(* the body of an earlier one; a receiver that fails has met a fault and   *)
(* leaves no part of a file; and without one it gets everything.           *)
(***************************************************************************)
TransferIsWhole ==
  /\ rDo = "done" => \A i \in 1 .. Len(script) :
       got[i] = IF script[i].kind = "int" THEN <<<<"value", i, script[i].size>>>> ELSE Body(i)
  /\ rDo = "failed" => faults > 0 /\ output = NoFile
  /\ sDo = "failed" => faults > 0

(* both sides are through, or have given up *)
TransferOver == sDo \in {"sent", "failed"} /\ rDo \in {"done", "failed"}
=============================================================================
