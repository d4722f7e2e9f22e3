-------------------------------- MODULE Link --------------------------------
(***************************************************************************)
(* What lies between the PC application and the board: the requests and    *)
(* answers, the two byte streams they travel in, and the one thing all     *)
(* three firmware images do with a request, carry it out on the NAND.      *)
(*                                                                         *)
(* A request and an answer are TransferPacketSize bytes each.  A cell is   *)
(* one of RequestBytes equal parts of either, and the smallest piece a     *)
(* stream is cut at; the header and the operands or the result are in the  *)
(* first.  NandController models how a request is carried out.             *)
(***************************************************************************)
EXTENDS Integers, Sequences, SequencesExt

CONSTANTS
  RequestBytes,   \* cells of a request or an answer: 8704 bytes
  Ops,            \* the kinds of request, a subset of RequestOps
  Images          \* the firmware images considered, a subset of FirmwareImages

RequestOps == {"ReadPage", "ReadParameter", "EraseBlock",
               "TestConsistent", "TestWriteSpeed", "TestReadSpeed"}
FirmwareImages == {"usb", "raw", "rtos"}

ASSUME LinkAssumption ==
  /\ RequestBytes \in Nat \ {0}
  /\ Ops \subseteq RequestOps
  /\ Images \subseteq FirmwareImages

VARIABLES
  image,     \* the firmware the board runs
  down, up,  \* bytes on their way to the board and back, over USB or TCP
  ran,       \* number of requests carried out
  result     \* the answer to the last of them

linkvars == <<image, down, up, ran, result>>

Cells(of) == [at : 1..RequestBytes, of : of]
CellsOf(x) == [i \in 1..RequestBytes |-> [at |-> i, of |-> x]]
Fin == [at |-> 0, of |-> [n |-> 0, op |-> "close"]]     \* the peer closed its socket

\* The words a result may carry at byte 12: the status of an erase, the verdict
\* or speed of a test; a page answer's is cleared.
WordsOf(op) == IF op \in {"ReadPage", "ReadParameter"} THEN {0} ELSE {0, 1}

\* rx_bufferPtr[0] == 0x7e && rx_bufferPtr[1] == 0x7f
HasHeader(buffer) == buffer[1].at = 1

\* Carry out request q, with any result.
Execute(q) ==
  /\ ran' = ran + 1
  /\ \E w \in WordsOf(q.op) : result' = [n |-> q.n, op |-> q.op, word |-> w]

LinkInit ==
  /\ image \in Images
  /\ down = << >> /\ up = << >>
  /\ ran = 0
  /\ result = [n |-> 0, op |-> "none", word |-> 0]
=============================================================================
