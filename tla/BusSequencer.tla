---------------------------- MODULE BusSequencer ----------------------------
(***************************************************************************)
(* What the controller promises to its host: one operation at a time, and  *)
(* for each accepted operation exactly the ONFI bus sequence of that       *)
(* operation, in order, with the operands that were in force when it was   *)
(* accepted.  The sequences are those the README's opcode sections and the *)
(* ONFI command set name; how the RTL produces them (seven state machines, *)
(* a multiplexer, atom generators) is left to CommandIssue, which is shown *)
(* to implement this module.                                               *)
(***************************************************************************)
EXTENDS Naturals, Sequences

CONSTANTS
  Job,         \* operation requests: records [op, target, way, col, row, len, feat]
  NoJob        \* the value of job when no operation is in progress

VARIABLES
  job,         \* the operation in progress, NoJob when there is none
  bus          \* the bus steps it has performed, in order

(***************************************************************************)
(* Bus steps.  kind is the atom that drives the pins: ACA and ACS latch    *)
(* commands and addresses (asynchronous and synchronous timing), DOA and   *)
(* DOS send data, DIS receives it, DMA is the descriptor handed to the DMA *)
(* engine.  n counts the bytes strobed, what names them.                   *)
(***************************************************************************)
Latch(kind, cle, n, what, j) ==
  [kind |-> kind, cle |-> cle, n |-> n, what |-> what, way |-> j.way]

Move(kind, n, what, j) == Latch(kind, FALSE, n, what, j)

Dma == [kind |-> "DMA", cle |-> FALSE, n |-> 0, what |-> <<"data">>, way |-> {}]

Cmd(kind, code, j)  == Latch(kind, TRUE, 1, <<code>>, j)
Byte(kind, code, j) == Latch(kind, FALSE, 1, <<code>>, j)
PageAddr(j)  == Latch("ACS", FALSE, 5, <<"page", j.col, j.row>>, j)
RowAddr(j)   == Latch("ACS", FALSE, 3, <<"row", j.row>>, j)
BlockAddr(j) == Latch("ACS", FALSE, 3, <<"block", j.row>>, j)

ConfirmProgram(j) ==
  CASE j.target = 1 -> "15h"       \* cache program
    [] j.target = 2 -> "11h"       \* multi-plane program
    [] OTHER -> "10h"

(***************************************************************************)
(* The bus sequence of each operation.                                     *)
(***************************************************************************)
Script(j) ==
  CASE j.op = "Reset"       -> <<Cmd("ACA", "FFh", j)>>
    [] j.op = "SetFeature"  -> <<Cmd("ACA", "EFh", j), Byte("ACA", "01h", j),
                                 Move("DOA", 4, <<"feature", j.feat>>, j)>>
    [] j.op = "GetFeature"  -> <<Cmd("ACS", "EEh", j), Byte("ACS", "01h", j),
                                 Move("DIS", 8, <<"data">>, j)>>
    [] j.op = "ProgramPage" -> <<Dma, Cmd("ACS", "80h", j), PageAddr(j),
                                 Move("DOS", j.len, <<"data">>, j),
                                 Cmd("ACS", ConfirmProgram(j), j)>>
    [] j.op = "ReadPage"    -> IF j.target = 1
                               THEN <<Cmd("ACS", "ECh", j), Byte("ACS", "00h", j),
                                      Dma, Move("DIS", j.len, <<"data">>, j)>>
                               ELSE <<Cmd("ACS", "00h", j), PageAddr(j), Cmd("ACS", "30h", j),
                                      Dma, Move("DIS", j.len, <<"data">>, j)>>
    [] j.op = "EraseBlock"  -> <<Cmd("ACS", "60h", j), BlockAddr(j),
                                 Cmd("ACS", IF j.target = 2 THEN "D1h" ELSE "D0h", j)>>
    [] j.op = "ReadStatus"  -> IF j.target \in {1, 3}
                               THEN <<Cmd("ACS", "78h", j), RowAddr(j), Move("DIS", 2, <<"data">>, j)>>
                               ELSE <<Cmd("ACS", "70h", j), Move("DIS", 2, <<"data">>, j)>>

Init == job = NoJob /\ bus = << >>

\* The controller is idle and takes an operation.
Accept ==
  /\ job = NoJob
  /\ job' \in Job
  /\ bus' = << >>

\* The next step of the operation's sequence is on the bus.
Perform ==
  /\ job # NoJob
  /\ Len(bus) < Len(Script(job))
  /\ bus' = Append(bus, Script(job)[Len(bus) + 1])
  /\ UNCHANGED job

\* The whole sequence is done: the controller is free again.
Complete ==
  /\ job # NoJob
  /\ bus = Script(job)
  /\ job' = NoJob
  /\ bus' = << >>

Next == Accept \/ Perform \/ Complete

Spec == Init /\ [][Next]_<<job, bus>>
=============================================================================
