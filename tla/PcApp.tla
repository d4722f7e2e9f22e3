------------------------------- MODULE PcApp -------------------------------
(***************************************************************************)
(* The PC application, USBHOSTAPPDlg.cpp: one window thread that runs the  *)
(* button handlers and, over USB, one thread per request that receives the *)
(* answer.  A handler sends a request, waits, and shows what is in rev_buf;*)
(* the window takes no other click meanwhile.                              *)
(*                                                                         *)
(* Over USB the window thread spins on bulk_thread_finished, which it set  *)
(* to 1 itself before it created the receiving thread that clears it, and  *)
(* nothing makes it wait for that thread to begin: the loop that would is  *)
(* commented out.  Over TCP the handler calls recv once.                   *)
(***************************************************************************)
EXTENDS Link

CONSTANTS MaxClicks,     \* bound on the requests
          MaxConnects,   \* bound on connecting, over either link
          RecvAtLeast    \* cells a recv returns at least

ASSUME RecvAssumption == RecvAtLeast \in 1..RequestBytes

VARIABLES
  pc,        \* the application: see PcInit
  rev_buf,   \* the receive buffer, shared by the two threads
  bus        \* the USB bus as the PC's drivers see it

pcvars == <<pc, rev_buf, bus>>

Zero == [at |-> 0, of |-> [n |-> 0, op |-> "none", word |-> 0]]
Cleared == [i \in 1..RequestBytes |-> Zero]

PcInit ==
  /\ pc = [st |-> "idle",        \* idle, opening, send, spin, recv or shown
           tcp |-> FALSE,        \* sys_tcp, and the socket is connected
           handle |-> FALSE,     \* handle # NULL
           finished |-> FALSE,   \* bulk_thread_finished
           thread |-> "none",    \* bulk_rev_thread: none, created or listening
           filled |-> 0,         \* cells of the bulk transfer received
           n |-> 0, op |-> "none",    \* the click being served
           word |-> 0,           \* what it showed: the word the verdict is made of
           connects |-> 0]
  /\ rev_buf = Cleared
  /\ bus = "reset"               \* the board was just plugged in

\* The handler, or the thread it created, waits for the answer.
Waiting == pc.st \in {"send", "spin", "recv"} \/ pc.thread # "none"
\* The window takes a click.  The user is assumed slower than a thread that began
\* late and still has the answer to come.
AtRest == pc.st \in {"idle", "shown"} /\ ~Waiting

-----------------------------------------------------------------------------
(* Connecting and closing.                                                 *)

\* Button 1: open the device, reset it and claim it.
Open ==
  /\ AtRest /\ ~pc.handle /\ pc.connects < MaxConnects
  /\ image = "usb" /\ bus = "configured"
  /\ bus' = "reset"
  /\ pc' = [pc EXCEPT !.st = "opening", !.connects = @ + 1]
  /\ UNCHANGED <<rev_buf, linkvars>>

Opened ==
  /\ pc.st = "opening" /\ bus = "configured"
  /\ pc' = [pc EXCEPT !.st = "idle", !.handle = TRUE]
  /\ UNCHANGED <<rev_buf, bus, linkvars>>

\* Button 3.
Close ==
  /\ AtRest /\ pc.handle
  /\ pc' = [pc EXCEPT !.handle = FALSE]
  /\ UNCHANGED <<rev_buf, bus, linkvars>>

\* Button 9: a new socket, without closing one there may be.
Connect ==
  /\ AtRest /\ pc.connects < MaxConnects
  /\ image \in {"raw", "rtos"} /\ down = << >>
  /\ pc' = [pc EXCEPT !.tcp = TRUE, !.connects = @ + 1]
  /\ up' = << >>
  /\ UNCHANGED <<rev_buf, bus, image, down, ran, result>>

\* The window is closed and the application started anew.
Restart ==
  /\ AtRest
  /\ pc.handle \/ pc.tcp
  /\ pc' = [pc EXCEPT !.st = "idle", !.tcp = FALSE, !.handle = FALSE, !.finished = FALSE]
  /\ rev_buf' = Cleared
  /\ up' = << >>
  /\ down' = IF pc.tcp THEN Append(down, Fin) ELSE down
  /\ UNCHANGED <<bus, image, ran, result>>

-----------------------------------------------------------------------------
(* The request buttons: the command each one sends, and whether what it    *)
(* shows is made of the word at byte 12 or of the page.                    *)

OnBnClickedButton2 == [op |-> "ReadPage", verdict |-> FALSE]
OnBnClickedButton4 == [op |-> "EraseBlock", verdict |-> TRUE]
OnBnClickedButton5 == [op |-> "ReadParameter", verdict |-> FALSE]
OnBnClickedButton6 == [op |-> "TestConsistent", verdict |-> TRUE]
OnBnClickedButton7 == [op |-> "TestWriteSpeed", verdict |-> TRUE]
OnBnClickedButton8 == [op |-> "TestReadSpeed", verdict |-> TRUE]

Buttons ==
  {b \in {OnBnClickedButton2, OnBnClickedButton4, OnBnClickedButton5,
          OnBnClickedButton6, OnBnClickedButton7, OnBnClickedButton8} : b.op \in Ops}

\* The FreeRTOS image acts on the first piece of a request: the user is assumed
\* slower than the rest of it.
UserIsSlow == image = "rtos" => down = << >>

Press(b) ==
  /\ AtRest /\ pc.n < MaxClicks /\ UserIsSlow
  /\ pc.tcp \/ pc.handle
  /\ down' = down \o CellsOf([n |-> pc.n + 1, op |-> b.op])
  /\ pc' = [pc EXCEPT
              !.st = IF pc.tcp THEN "recv" ELSE "send",
              !.n = @ + 1, !.op = b.op,
              !.finished = IF pc.tcp THEN @ ELSE TRUE,
              !.thread = IF pc.tcp THEN @ ELSE "created"]
  /\ UNCHANGED <<rev_buf, bus, image, up, ran, result>>

\* libusb_bulk_transfer has sent the request; the handler goes on to its spin loop.
Sent ==
  /\ pc.st = "send" /\ down = << >>
  /\ pc' = [pc EXCEPT !.st = "spin"]
  /\ UNCHANGED <<rev_buf, bus, linkvars>>

ThreadStartsFinished ==                                 \* mutant
  /\ pc.thread = "created"
  /\ pc' = [pc EXCEPT !.thread = "listening", !.filled = 0]
  /\ rev_buf' = Cleared
  /\ UNCHANGED <<bus, linkvars>>
\* At any time after it was created: before the request is out, or after the
\* handler has found bulk_thread_finished still set and gone on without it.
ThreadStarts ==
  /\ pc.thread = "created"
  /\ pc' = [pc EXCEPT !.thread = "listening", !.finished = FALSE, !.filled = 0]
  /\ rev_buf' = Cleared
  /\ UNCHANGED <<bus, linkvars>>

\* A bulk IN packet reaches the transfer; a full one ends it, and the thread.
ThreadReceives(packet) ==
  LET filled == pc.filled + Len(packet) IN
  /\ pc.thread = "listening"
  /\ rev_buf' = [i \in 1..RequestBytes |->
                   IF i \in pc.filled + 1..filled THEN packet[i - pc.filled] ELSE rev_buf[i]]
  /\ pc' = IF filled < RequestBytes THEN [pc EXCEPT !.filled = filled]
           ELSE [pc EXCEPT !.filled = filled, !.finished = TRUE, !.thread = "none"]
  /\ UNCHANGED <<bus, linkvars>>

\* The word at byte 12: of an answer's first cell, or of whatever lies there.
WordShown(cell) == IF cell.at \in {0, 1} THEN {cell.of.word} ELSE {0, 1}

GivesVerdict == \E b \in Buttons : b.op = pc.op /\ b.verdict

Show(buffer) ==
  \E w \in IF GivesVerdict THEN WordShown(buffer[1]) ELSE {0} :
    pc' = [pc EXCEPT !.st = "shown", !.word = w]

SpinEnds ==
  /\ pc.st = "spin" /\ pc.finished
  /\ Show(rev_buf)
  /\ UNCHANGED <<rev_buf, bus, linkvars>>

\* recv returns some of what has arrived, up to a whole answer.
Recv ==
  /\ pc.st = "recv"
  /\ \E m \in RecvAtLeast..RequestBytes :
       /\ m <= Len(up)
       /\ rev_buf' = [i \in 1..RequestBytes |-> IF i <= m THEN up[i] ELSE rev_buf[i]]
       /\ up' = SubSeq(up, m + 1, Len(up))
  /\ Show(rev_buf')
  /\ UNCHANGED <<bus, image, down, ran, result>>

UserStep == Close \/ Connect \/ Restart \/ \E b \in Buttons : Press(b)
AppStep == Opened \/ Sent \/ ThreadStarts \/ SpinEnds \/ Recv
=============================================================================
