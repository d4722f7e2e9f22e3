---------------------------- MODULE CommandIssue ----------------------------
(***************************************************************************)
(* The command path of the NAND flash controller, clock by clock: the      *)
(* interface adapter that accepts or refuses the host's register words     *)
(* (NandFlashController_Interface_adapter), the way/column/row/feature     *)
(* registers and the seven operation state machines of                     *)
(* NFC_Command_Issue_Top, and the multiplexer that gives one of them the   *)
(* atom command generator.                                                 *)
(*                                                                         *)
(* One step is one rising edge of iSystemClock: every register takes its   *)
(* next value from the values before the edge.  What the design does not   *)
(* decide is chosen anew at every edge: the word that leaves the clock     *)
(* crossing FIFO, the R/B inputs, and whether a running atom reaches its   *)
(* last step (the atoms' own counters are the business of their modules).  *)
(***************************************************************************)
EXTENDS Integers, Sequences, FiniteSets

CONSTANTS
  Way,       \* the chips on the bus (NumberOfWays)
  Addr,      \* the values the host gives the Address register
  Addr0,     \* the all-zero address word, the registers' reset value
  WaysOf,    \* WaysOf[a]: the ways the mask in the low bits of a selects
  Length,    \* the values the host gives the Length register
  Words,     \* the register words the host sends, a subset of Word
  MinGap     \* clocks from an operation word to the next command word

Ops == {"Reset", "SetFeature", "ProgramPage", "ReadPage", "GetFeature",
        "EraseBlock", "ReadStatus"}
Setups == {"SelectWay", "SetColumn", "SetRow", "SetFeatureWord"}
Opcodes == Ops \cup Setups \cup {"Other"}
Target == 0..3                  \* iCommand[20:16], of which bits 1:0 are read
Kinds == {"ACA", "DOA", "ACS", "DOS", "DIS"}        \* atom command bits 6,5,3,2,1

Word == [valid : BOOLEAN, opcode : Opcodes, target : Target, addr : Addr, len : Length]
NoWord == [none |-> TRUE]

ASSUME WaysAssumption ==
  /\ Addr0 \in Addr
  /\ WaysOf \in [Addr -> SUBSET Way]
  /\ WaysOf[Addr0] = {}
ASSUME LengthAssumption == Length \subseteq Nat /\ 0 \in Length
ASSUME WordsAssumption == Words \subseteq Word
(* A command word that follows an operation word by one clock is taken     *)
(* before the busy flag is up.  The driver polls the status register after *)
(* each operation, and consecutive register writes are at least two AXI    *)
(* clocks apart.                                                           *)
ASSUME GapAssumption == MinGap \in Nat /\ MinGap >= 2

VARIABLES
  adapter,   \* registers of the interface adapter
  regs,      \* rTargetWay1B, rColAddr2B, rRowAddr3B, rFeature4B
  fsm,       \* registers of the seven operation state machines
  rbp,       \* the R/B pipelines of the machines that wait for R/B
  atom,      \* the atom generators: ready, or busy with latched operands
  bus,       \* history: the bus steps of the operation in progress
  since      \* history: clocks since the last operation word, up to MinGap

vars == <<adapter, regs, fsm, rbp, atom, bus, since>>

-----------------------------------------------------------------------------
(* Readings of the current state.                                          *)

ActiveNotWaiting(o) == fsm[o].st \notin {"RESET", "READY", "WaitRBLow"}   \* mutant
Active(o) == fsm[o].st \notin {"RESET", "READY"}        \* ~rCMDReady
BusyNoErase == \E o \in Ops \ {"EraseBlock"} : Active(o)   \* mutant
Busy == \E o \in Ops : Active(o)                        \* oCI_Top_CMDReady
LastStep(k) == atom[k].last                             \* iACG_LastStep
Start(o) == adapter.valid /\ adapter.opcode = o         \* wStart

PendingOp == adapter.valid /\ adapter.opcode \in Ops

ReadParam(f) == f.target = 1                            \* ReadPage wReadParam
Enhanced(f)  == f.target \in {1, 3}                     \* wReadStatusEnhanced

-----------------------------------------------------------------------------
(* Next states of the seven machines, once they have left READY.           *)

ResetNext(f) ==
  CASE f.st = "CMDIssue" /\ LastStep("ACA") -> "WaitRBLow"
    [] f.st = "WaitRBLow" /\ ~rbp["Reset"].ready -> "WaitRBHigh"
    [] f.st = "WaitRBHigh" /\ f.last -> "READY"
    [] OTHER -> f.st

SetFeatureNext(f) ==
  CASE f.st = "CMDIssue" /\ LastStep("ACA") -> "ADDRIssue"
    [] f.st = "ADDRIssue" /\ LastStep("ACA") -> "DATAIssue"
    [] f.st = "DATAIssue" /\ LastStep("DOA") -> "WaitRBLow"
    [] f.st = "WaitRBLow" /\ ~rbp["SetFeature"].ready -> "WaitRBHigh"
    [] f.st = "WaitRBHigh" /\ f.last -> "READY"
    [] OTHER -> f.st

ProgramPageNext(f) ==
  CASE f.st = "CMDIssue" /\ LastStep("ACS") -> "ADDRIssue"
    [] f.st = "ADDRIssue" /\ LastStep("ACS") -> "DATAIssue"
    [] f.st = "DATAIssue" /\ LastStep("DOS") -> "CMD2Issue"
    [] f.st = "CMD2Issue" /\ f.last -> "READY"
    [] OTHER -> f.st

ReadPageNoFall(f) ==                                    \* mutant
  CASE f.st = "CMDIssue" /\ LastStep("ACS") -> "ADDRIssue"
    [] f.st = "ADDRIssue" /\ LastStep("ACS") ->
         IF ReadParam(f) THEN "WaitRBHigh" ELSE "CMD2Issue"
    [] f.st = "CMD2Issue" /\ LastStep("ACS") -> "WaitRBHigh"
    [] f.st = "WaitRBHigh" /\ rbp["ReadPage"].ready -> "DATAIssue"
    [] f.st = "DATAIssue" /\ f.last -> "READY"
    [] OTHER -> f.st
ReadPageNext(f) ==
  CASE f.st = "CMDIssue" /\ LastStep("ACS") -> "ADDRIssue"
    [] f.st = "ADDRIssue" /\ LastStep("ACS") ->
         IF ReadParam(f) THEN "WaitRBLow" ELSE "CMD2Issue"
    [] f.st = "CMD2Issue" /\ LastStep("ACS") -> "WaitRBLow"
    [] f.st = "WaitRBLow" /\ ~rbp["ReadPage"].ready -> "WaitRBHigh"
    [] f.st = "WaitRBHigh" /\ rbp["ReadPage"].ready -> "DATAIssue"
    [] f.st = "DATAIssue" /\ f.last -> "READY"
    [] OTHER -> f.st

GetFeatureNext(f) ==
  CASE f.st = "CMDIssue" /\ LastStep("ACS") -> "ADDRIssue"
    [] f.st = "ADDRIssue" /\ LastStep("ACS") -> "WaitRBLow"
    [] f.st = "WaitRBLow" /\ ~rbp["GetFeature"].ready -> "WaitRBHigh"
    [] f.st = "WaitRBHigh" /\ rbp["GetFeature"].ready -> "DATAIssue"
    [] f.st = "DATAIssue" /\ f.last -> "READY"
    [] OTHER -> f.st

\* WaitRBLow has no branch of its own in the erase machine: it leaves by default.
EraseBlockNext(f) ==
  CASE f.st = "CMDIssue" /\ LastStep("ACS") -> "ADDRIssue"
    [] f.st = "ADDRIssue" /\ LastStep("ACS") -> "CMD2Issue"
    [] f.st = "CMD2Issue" /\ f.last -> "WaitRBLow"
    [] f.st = "WaitRBLow" -> "READY"
    [] OTHER -> f.st

ReadStatusNext(f) ==
  CASE f.st = "CMDIssue" /\ LastStep("ACS") ->
         IF Enhanced(f) THEN "ADDRIssue" ELSE "DATAIssue"
    [] f.st = "ADDRIssue" /\ LastStep("ACS") -> "DATAIssue"
    [] f.st = "DATAIssue" /\ LastStep("DIS") -> "WaitRBLow"
    [] f.st = "WaitRBLow" /\ f.last -> "READY"
    [] OTHER -> f.st

NextState(o) ==
  LET f == fsm[o] IN
  CASE f.st = "RESET" -> "READY"
    [] f.st = "READY" -> IF Start(o) THEN "CMDLatch" ELSE "READY"
    [] f.st = "CMDLatch" -> "CMDIssue"
    [] OTHER -> CASE o = "Reset" -> ResetNext(f)
                  [] o = "SetFeature" -> SetFeatureNext(f)
                  [] o = "ProgramPage" -> ProgramPageNext(f)
                  [] o = "ReadPage" -> ReadPageNext(f)
                  [] o = "GetFeature" -> GetFeatureNext(f)
                  [] o = "EraseBlock" -> EraseBlockNext(f)
                  [] o = "ReadStatus" -> ReadStatusNext(f)

-----------------------------------------------------------------------------
(* The registers a machine loads on the edge that takes it to state s.     *)

TargetOps == {"ProgramPage", "ReadPage", "EraseBlock", "ReadStatus"}
RowOps    == TargetOps
ColOps    == {"ProgramPage", "ReadPage"}
LenOps    == ColOps
RBOps     == {"Reset", "SetFeature", "ReadPage", "GetFeature"}
StatusDelay == 12                                       \* rTimer == 4'd12

\* The erase machine's last clock runs the default branch, which clears everything.
Cleared(o, s) == s = "READY" \/ (o = "EraseBlock" /\ s = "WaitRBLow")

\* A register of machine o latched with the operation, for the machines that have it.
Latched(o, s, having, input, zero, old) ==
  CASE s = "CMDLatch" /\ o \in having -> input
    [] Cleared(o, s) -> zero
    [] OTHER -> old

LastNext(o, s) ==
  \/ s = "WaitRBHigh" /\ o \in RBOps \ {"ReadPage"} /\ rbp[o].ready
  \/ s = "DATAIssue" /\ o \in {"ReadPage", "GetFeature"} /\ LastStep("DIS")
  \/ s = "CMD2Issue" /\ o = "ProgramPage" /\ LastStep("ACS")
  \/ s = "CMD2Issue" /\ o = "EraseBlock" /\ fsm[o].st = "CMD2Issue" /\ LastStep("ACS")
  \/ s = "WaitRBLow" /\ o = "ReadStatus" /\ fsm[o].timer = StatusDelay

\* The pulse that hands a descriptor to the DMA engine.
TransNext(o, s) ==
  \/ o = "ProgramPage" /\ s = "CMDLatch"
  \/ o = "ReadPage" /\ s = "WaitRBHigh" /\ rbp[o].ready
  \/ o = "ReadPage" /\ s = "DATAIssue" /\ fsm[o].st = "WaitRBHigh"

TimerUnbounded(o, s) ==                                 \* mutant
  IF o = "ReadStatus" /\ s = "WaitRBLow" THEN fsm[o].timer + 1 ELSE 0
TimerNext(o, s) ==
  IF o = "ReadStatus" /\ s = "WaitRBLow" /\ fsm[o].timer < StatusDelay
  THEN fsm[o].timer + 1 ELSE 0

WayNext(o, s) ==
  CASE s \in {"READY", "CMDLatch"} -> regs.way
    [] o = "EraseBlock" /\ s = "WaitRBLow" -> Way       \* TargetWay <= 8'h00, active low
    [] OTHER -> fsm[o].way

MachineNext(o) ==
  LET f == fsm[o]
      s == NextState(o)
  IN [st     |-> s,
      target |-> Latched(o, s, TargetOps, adapter.target, 0, f.target),
      len    |-> Latched(o, s, LenOps, adapter.len, 0, f.len),
      col    |-> Latched(o, s, ColOps, regs.col, Addr0, f.col),
      row    |-> Latched(o, s, RowOps, regs.row, Addr0, f.row),
      way    |-> WayNext(o, s),
      last   |-> LastNext(o, s),
      trans  |-> TransNext(o, s),
      timer  |-> TimerNext(o, s)]

\* Three stages: the selected ways, their R/B inputs, and whether any of them is ready.
PipelineNext(o, rb) ==
  [sel   |-> fsm[o].way,
   ways  |-> rbp[o].sel \cap rb,
   ready |-> rbp[o].ways # {}]

-----------------------------------------------------------------------------
(* What a machine asks of the atom generators: the command bit and the     *)
(* operands NumOfData, CASelect (TRUE for a command latch cycle) and       *)
(* CAData (what its leading bytes are).                                    *)

Ask(cmd, num, cle, ca) == [cmd |-> cmd, num |-> num, cle |-> cle, ca |-> ca]
AskNothing == Ask("none", 0, TRUE, <<"00h">>)

PageAddr(f)  == <<"page", f.col, f.row>>                \* 2 column and 3 row bytes
RowAddr(f)   == <<"row", f.row>>                        \* 3 row bytes
BlockAddr(f) == <<"block", f.row>>                      \* 3 row bytes, page bits zero

ResetAsk(f) ==
  IF f.st = "CMDIssue" THEN Ask("ACA", 1, TRUE, <<"FFh">>) ELSE AskNothing

SetFeatureAsk(f) ==
  CASE f.st = "CMDIssue" -> Ask("ACA", 1, TRUE, <<"EFh">>)
    [] f.st = "ADDRIssue" -> Ask("ACA", 1, FALSE, <<"01h">>)
    [] f.st = "DATAIssue" -> Ask("DOA", 4, FALSE, <<"00h">>)
    [] OTHER -> AskNothing

ConfirmProgram(f) ==
  CASE f.target = 1 -> "15h" [] f.target = 2 -> "11h" [] OTHER -> "10h"

ProgramPageAsk(f) ==
  CASE f.st = "CMDIssue" -> Ask("ACS", 0, TRUE, <<"80h">>)
    [] f.st = "ADDRIssue" -> Ask("ACS", 4, FALSE, PageAddr(f))
    [] f.st = "DATAIssue" -> Ask("DOS", f.len, FALSE, <<"00h">>)
    [] f.st = "CMD2Issue" /\ ~f.last -> Ask("ACS", 0, TRUE, <<ConfirmProgram(f)>>)
    [] OTHER -> AskNothing

ReadPageAsk(f) ==
  CASE f.st = "CMDIssue" -> Ask("ACS", 0, TRUE, <<IF ReadParam(f) THEN "ECh" ELSE "00h">>)
    [] f.st = "ADDRIssue" /\ ReadParam(f) -> Ask("ACS", 0, FALSE, <<"00h">>)
    [] f.st = "ADDRIssue" /\ ~ReadParam(f) -> Ask("ACS", 4, FALSE, PageAddr(f))
    [] f.st = "CMD2Issue" -> Ask("ACS", 0, TRUE, <<"30h">>)
    [] f.st = "DATAIssue" /\ ~f.last -> Ask("DIS", f.len, FALSE, <<"00h">>)
    [] OTHER -> AskNothing

GetFeatureAsk(f) ==
  CASE f.st = "CMDIssue" -> Ask("ACS", 0, TRUE, <<"EEh">>)
    [] f.st = "ADDRIssue" -> Ask("ACS", 0, FALSE, <<"01h">>)
    [] f.st = "DATAIssue" /\ ~f.last -> Ask("DIS", 8, FALSE, <<"00h">>)
    [] OTHER -> AskNothing

EraseBlockAsk(f) ==
  CASE f.st = "CMDIssue" -> Ask("ACS", 0, TRUE, <<"60h">>)
    [] f.st = "ADDRIssue" -> Ask("ACS", 2, FALSE, BlockAddr(f))
    [] f.st = "CMD2Issue" /\ ~f.last ->
         Ask("ACS", 0, TRUE, <<IF f.target = 2 THEN "D1h" ELSE "D0h">>)
    [] OTHER -> AskNothing

ReadStatusAsk(f) ==
  CASE f.st = "CMDIssue" -> Ask("ACS", 0, TRUE, <<IF Enhanced(f) THEN "78h" ELSE "70h">>)
    [] f.st = "ADDRIssue" -> Ask("ACS", 2, FALSE, RowAddr(f))
    [] f.st = "DATAIssue" -> Ask("DIS", 2, FALSE, <<"00h">>)
    [] OTHER -> AskNothing

AskOf(o) ==
  CASE o = "Reset" -> ResetAsk(fsm[o])
    [] o = "SetFeature" -> SetFeatureAsk(fsm[o])
    [] o = "ProgramPage" -> ProgramPageAsk(fsm[o])
    [] o = "ReadPage" -> ReadPageAsk(fsm[o])
    [] o = "GetFeature" -> GetFeatureAsk(fsm[o])
    [] o = "EraseBlock" -> EraseBlockAsk(fsm[o])
    [] o = "ReadStatus" -> ReadStatusAsk(fsm[o])

-----------------------------------------------------------------------------
(* The multiplexer: the first active machine in priority order owns the    *)
(* atom generators; with none active the idle machine drives nothing and   *)
(* selects no way (TargetWay 8'hff).                                       *)

Owner ==
  CASE Active("Reset") -> "Reset"
    [] Active("SetFeature") -> "SetFeature"
    [] Active("ProgramPage") -> "ProgramPage"
    [] Active("ReadPage") -> "ReadPage"
    [] Active("GetFeature") -> "GetFeature"
    [] Active("EraseBlock") -> "EraseBlock"
    [] Active("ReadStatus") -> "ReadStatus"
    [] OTHER -> "Idle"

MuxAsk == IF Owner = "Idle" THEN AskNothing ELSE AskOf(Owner)
MuxWay == IF Owner = "Idle" THEN {} ELSE fsm[Owner].way

(***************************************************************************)
(* The atom generators seen through their ports: started by their command  *)
(* bit when ready, they latch the operands, run for some clocks, raise     *)
(* LastStep for one clock and are ready again.                             *)
(***************************************************************************)
AtomReady == [st |-> "READY", last |-> FALSE, num |-> 0, cle |-> FALSE,
              ca |-> <<"00h">>, way |-> {}]

AtomNext(k, finishes) ==
  LET a == atom[k] IN
  CASE a.st = "READY" /\ MuxAsk.cmd = k ->
         [st |-> "RUN", last |-> FALSE, num |-> MuxAsk.num, cle |-> MuxAsk.cle,
          ca |-> MuxAsk.ca, way |-> MuxWay]
    [] a.st = "RUN" /\ ~a.last -> [a EXCEPT !.last = finishes]
    [] OTHER -> AtomReady

StrobesPlain(k, num) == num                             \* mutant
StrobesAllPlusOne(k, num) == num + 1                    \* mutant
\* Bytes an atom strobes for its operand NumOfData.
Strobes(k, num) == IF k = "ACS" THEN num + 1 ELSE num

Transfer(k) ==
  [kind |-> k, cle |-> atom[k].cle, n |-> Strobes(k, atom[k].num), way |-> atom[k].way,
   what |-> CASE k \in {"ACA", "ACS"} -> atom[k].ca
              [] k = "DOA" -> <<"feature", regs.feat>>
              [] OTHER -> <<"data">>]

Descriptor == [kind |-> "DMA", cle |-> FALSE, n |-> 0, way |-> {}, what |-> <<"data">>]

-----------------------------------------------------------------------------
(* The adapter and the address registers.                                  *)

\* w is the word that leaves the clock crossing at this edge, NoWord if none.
AdapterNext(w) ==
  IF w = NoWord
  THEN [adapter EXCEPT !.valid = FALSE, !.busy = Busy]
  ELSE [opcode |-> w.opcode, target |-> w.target, addr |-> w.addr, len |-> w.len,
        valid |-> w.valid /\ ~Busy,
        fail  |-> w.valid /\ Busy,
        busy  |-> Busy]

RegsNext ==
  CASE Start("SelectWay") -> [regs EXCEPT !.way = WaysOf[adapter.addr]]
    [] Start("SetColumn") -> [regs EXCEPT !.col = adapter.addr]
    [] Start("SetRow") -> [regs EXCEPT !.row = adapter.addr]
    [] Start("SetFeatureWord") -> [regs EXCEPT !.feat = adapter.addr]
    [] OTHER -> regs

-----------------------------------------------------------------------------
(* History and environment.                                                *)

\* The host leaves MinGap clocks between an operation word and the next command word.
MaySend(w) == w.valid => since >= MinGap

SinceNext(w) ==
  IF w # NoWord /\ w.valid /\ w.opcode \in Ops THEN 1
  ELSE IF since < MinGap THEN since + 1 ELSE since

\* A machine is at work until its operation is over; the erase machine's last
\* clock, with its registers cleared, is after the end.
Working(o) == Active(o) /\ ~(o = "EraseBlock" /\ fsm[o].st = "WaitRBLow")

\* The bus steps that end at this edge: descriptor pulses, then atoms at their last step.
StepsNow ==
  (IF fsm["ProgramPage"].trans \/ fsm["ReadPage"].trans THEN <<Descriptor>> ELSE << >>)
  \o (IF \E k \in Kinds : LastStep(k)
      THEN <<Transfer(CHOOSE k \in Kinds : LastStep(k))>> ELSE << >>)

BusNext == IF \E o \in Ops : Working(o)' THEN bus \o StepsNow ELSE << >>

-----------------------------------------------------------------------------
Init ==
  /\ adapter = [opcode |-> "Other", target |-> 0, addr |-> Addr0, len |-> 0,
                valid |-> FALSE, fail |-> FALSE, busy |-> FALSE]
  /\ regs = [way |-> {}, col |-> Addr0, row |-> Addr0, feat |-> Addr0]
  /\ fsm = [o \in Ops |-> [st |-> "RESET", target |-> 0, len |-> 0, col |-> Addr0,
                           row |-> Addr0, way |-> Way, last |-> FALSE,
                           trans |-> FALSE, timer |-> 0]]
  \* reset is held while the pipelines, which have no reset, fill from the R/B inputs
  /\ \E rb \in SUBSET Way, ready \in BOOLEAN :
       rbp = [o \in RBOps |-> [sel |-> Way, ways |-> rb, ready |-> ready]]
  /\ atom = [k \in Kinds |-> AtomReady]
  /\ bus = << >>
  /\ since = MinGap

(***************************************************************************)
(* One rising clock edge: w is the word from the host side, rb the ways    *)
(* whose R/B input reads ready, finishing the running atoms that reach     *)
(* their last step.                                                        *)
(***************************************************************************)
Logic(w) ==
  /\ adapter' = AdapterNext(w)
  /\ regs' = RegsNext
  /\ fsm' = [o \in Ops |-> MachineNext(o)]
  /\ bus' = BusNext
  /\ since' = SinceNext(w)

Inputs(rb, finishing) ==
  /\ rbp' = [o \in RBOps |-> PipelineNext(o, rb)]
  /\ atom' = [k \in Kinds |-> AtomNext(k, k \in finishing)]

Clock(w, rb, finishing) == Logic(w) /\ Inputs(rb, finishing)

Running == {k \in Kinds : atom[k].st = "RUN" /\ ~atom[k].last}

Edge(w) == Logic(w) /\ \E rb \in SUBSET Way, finishing \in SUBSET Running : Inputs(rb, finishing)

Quiet == Edge(NoWord)
Receive(w) == MaySend(w) /\ Edge(w)

Next == Quiet \/ \E w \in Words : Receive(w)

Spec == Init /\ [][Next]_vars

-----------------------------------------------------------------------------
(* Properties.                                                             *)

Phases == {"RESET", "READY", "CMDLatch", "CMDIssue", "ADDRIssue", "DATAIssue",
           "CMD2Issue", "WaitRBLow", "WaitRBHigh"}

AdapterType == [opcode : Opcodes, target : Target, addr : Addr, len : Length,
                valid : BOOLEAN, fail : BOOLEAN, busy : BOOLEAN]
RegsType == [way : SUBSET Way, col : Addr, row : Addr, feat : Addr]
MachineType == [st : Phases, target : Target, len : Length, col : Addr, row : Addr,
                way : SUBSET Way, last : BOOLEAN, trans : BOOLEAN, timer : 0..StatusDelay]
\* Leading bytes of CAData: one code, or an address of five or three bytes.
Codes == {"00h", "01h", "10h", "11h", "15h", "30h", "60h", "70h", "78h", "80h",
          "D0h", "D1h", "ECh", "EEh", "EFh", "FFh"}
CAType == {<<c>> : c \in Codes} \cup {<<"page", c, r>> : c \in Addr, r \in Addr}
          \cup {<<"row", r>> : r \in Addr} \cup {<<"block", r>> : r \in Addr}
AtomType == [st : {"READY", "RUN"}, last : BOOLEAN, num : Nat, cle : BOOLEAN,
             ca : CAType, way : SUBSET Way]
PipelineType == [sel : SUBSET Way, ways : SUBSET Way, ready : BOOLEAN]

(* Every register holds a value of its width.                              *)
TypeOK ==
  /\ adapter \in AdapterType
  /\ regs \in RegsType
  /\ fsm \in [Ops -> MachineType]
  /\ rbp \in [RBOps -> PipelineType]
  /\ atom \in [Kinds -> AtomType]
  /\ since \in 1..MinGap

\* A machine between its start and its return to READY.
Underway(o) == fsm[o].st \notin {"RESET", "READY"}

(* At most one operation machine has left READY: the busy flag the adapter *)
(* tests, the gap between words and the machines' start conditions         *)
(* together keep two operations from sharing the multiplexer.              *)
OneOperation == \A p, q \in Ops : Underway(p) /\ Underway(q) => p = q

(* At most one atom generator runs, and it is the one the machine that     *)
(* owns the multiplexer is asking for: a command bit is never withdrawn or *)
(* changed under a running atom, so no two atoms drive the pins together.  *)
AtomFollowsOwner == \A k \in Kinds : atom[k].st = "RUN" => MuxAsk.cmd = k

(* An operation the adapter lets through finds its machine in READY and    *)
(* starts it at the next edge: no accepted operation is lost.              *)
AcceptedStarts ==
  [][PendingOp => /\ fsm[adapter.opcode].st = "READY"
                  /\ fsm'[adapter.opcode].st = "CMDLatch"]_vars

(* The way, column, row and feature registers never move while an          *)
(* operation is in progress, although only the adapter guards them: the    *)
(* feature word is sent to the chip from the live register.                *)
SetupStable == [][(\E o \in Ops : Underway(o)) => regs' = regs]_vars

(***************************************************************************)
(* The operation in progress, from the clock in which its accepted word is *)
(* in the adapter to the end of its work, with the operands then in force. *)
(* Operands an operation has no use for are zero.                          *)
(***************************************************************************)
Uses(o) ==
  CASE o \in {"ReadPage", "ProgramPage"} -> {"target", "len", "col", "row"}
    [] o \in {"EraseBlock", "ReadStatus"} -> {"target", "row"}
    [] o = "SetFeature" -> {"feat"}
    [] OTHER -> {}

PendingOperands ==
  LET o == adapter.opcode
      If(name, x, zero) == IF name \in Uses(o) THEN x ELSE zero
  IN [op |-> o, way |-> regs.way,
      target |-> If("target", adapter.target, 0), len |-> If("len", adapter.len, 0),
      col |-> If("col", regs.col, Addr0), row |-> If("row", regs.row, Addr0),
      feat |-> If("feat", regs.feat, Addr0)]

LatchedOperands(o) ==
  [op |-> o, way |-> fsm[o].way, target |-> fsm[o].target, len |-> fsm[o].len,
   col |-> fsm[o].col, row |-> fsm[o].row,
   feat |-> IF "feat" \in Uses(o) THEN regs.feat ELSE Addr0]

NoJob == [op |-> "none"]

JobNow ==
  CASE \E o \in Ops : Working(o) ->
         LatchedOperands(CHOOSE o \in Ops : Working(o))
    [] PendingOp -> PendingOperands
    [] OTHER -> NoJob

Jobs == [op : Ops, target : Target, way : SUBSET Way, col : Addr, row : Addr,
         len : Length, feat : Addr]

Sequencer == INSTANCE BusSequencer WITH Job <- Jobs, NoJob <- NoJob, job <- JobNow, bus <- bus

(* Every accepted operation performs exactly its ONFI bus sequence, with   *)
(* the operands in force at acceptance, and one at a time.                 *)
ImplementsSequencer == Sequencer!Spec
=============================================================================
