------------------------ MODULE CommandIssueRefinement ------------------------
(***************************************************************************)
(* CommandIssue implements BusSequencer, for every set of ways, addresses, *)
(* lengths and words, and every gap of at least two clocks.                *)
(***************************************************************************)
EXTENDS CommandIssueProofs, SequenceTheorems

USE WaysAssumption, LengthAssumption, WordsAssumption, GapAssumption

(***************************************************************************)
(* The invariant, in parts.                                                *)
(***************************************************************************)

\* A running atom has latched what the owner of the multiplexer asks for.
AtomsCarry ==
  \A k \in Kinds : atom[k].st = "RUN" =>
    /\ atom[k].num = MuxAsk.num /\ atom[k].cle = MuxAsk.cle
    /\ atom[k].ca = MuxAsk.ca /\ atom[k].way = MuxWay

\* Registers a machine does not have are zero.
UnusedZero ==
  \A o \in Ops :
    /\ o \notin TargetOps => fsm[o].target = 0
    /\ o \notin LenOps => fsm[o].len = 0
    /\ o \notin ColOps => fsm[o].col = Addr0
    /\ o \notin RowOps => fsm[o].row = Addr0

\* The descriptor pulse is one clock long: the program machine's while it
\* latches its operands, the read machine's when its data phase begins, before
\* the input atom runs.
Pulses ==
  /\ \A o \in Ops : fsm[o].trans =>
       \/ o = "ProgramPage" /\ fsm[o].st = "CMDLatch"
       \/ o = "ReadPage" /\ fsm[o].st = "DATAIssue" /\ ~fsm[o].last
  /\ fsm["ProgramPage"].st = "CMDLatch" => fsm["ProgramPage"].trans
  /\ fsm["ReadPage"].trans => \A k \in Kinds : atom[k].st = "READY"

\* The steps a machine has performed when it is in its phase.
Starting(f) == f.st \in {"CMDLatch", "CMDIssue"}

ResetPerformed(f) == IF Starting(f) THEN 0 ELSE 1

SetFeaturePerformed(f) ==
  CASE Starting(f) -> 0
    [] f.st = "ADDRIssue" -> 1
    [] f.st = "DATAIssue" -> 2
    [] OTHER -> 3

ProgramPagePerformed(f) ==
  CASE f.st = "CMDLatch" -> 0
    [] f.st = "CMDIssue" -> 1
    [] f.st = "ADDRIssue" -> 2
    [] f.st = "DATAIssue" -> 3
    [] OTHER -> IF f.last THEN 5 ELSE 4

ReadPagePerformed(f) ==
  CASE Starting(f) -> 0
    [] f.st = "ADDRIssue" -> 1
    [] f.st = "CMD2Issue" -> 2
    [] f.st = "DATAIssue" /\ ~f.trans /\ ~f.last -> IF ReadParam(f) THEN 3 ELSE 4
    [] f.st = "DATAIssue" /\ ~f.trans /\ f.last -> IF ReadParam(f) THEN 4 ELSE 5
    [] OTHER -> IF ReadParam(f) THEN 2 ELSE 3

GetFeaturePerformed(f) ==
  CASE Starting(f) -> 0
    [] f.st = "ADDRIssue" -> 1
    [] OTHER -> IF f.st = "DATAIssue" /\ f.last THEN 3 ELSE 2

EraseBlockPerformed(f) ==
  CASE Starting(f) -> 0
    [] f.st = "ADDRIssue" -> 1
    [] OTHER -> IF f.last THEN 3 ELSE 2

ReadStatusPerformed(f) ==
  CASE Starting(f) -> 0
    [] f.st = "ADDRIssue" -> 1
    [] f.st = "DATAIssue" -> IF Enhanced(f) THEN 2 ELSE 1
    [] OTHER -> IF Enhanced(f) THEN 3 ELSE 2

Performed(o) ==
  CASE o = "Reset" -> ResetPerformed(fsm[o])
    [] o = "SetFeature" -> SetFeaturePerformed(fsm[o])
    [] o = "ProgramPage" -> ProgramPagePerformed(fsm[o])
    [] o = "ReadPage" -> ReadPagePerformed(fsm[o])
    [] o = "GetFeature" -> GetFeaturePerformed(fsm[o])
    [] o = "EraseBlock" -> EraseBlockPerformed(fsm[o])
    [] o = "ReadStatus" -> ReadStatusPerformed(fsm[o])

\* The phases each machine has, past READY.
PhasesOf(o) ==
  {"CMDLatch", "CMDIssue"} \cup
  CASE o = "Reset" -> {"WaitRBLow", "WaitRBHigh"}
    [] o = "SetFeature" -> {"ADDRIssue", "DATAIssue", "WaitRBLow", "WaitRBHigh"}
    [] o = "ProgramPage" -> {"ADDRIssue", "DATAIssue", "CMD2Issue"}
    [] o = "ReadPage" -> {"ADDRIssue", "CMD2Issue", "WaitRBLow", "WaitRBHigh", "DATAIssue"}
    [] o = "GetFeature" -> {"ADDRIssue", "WaitRBLow", "WaitRBHigh", "DATAIssue"}
    [] o = "EraseBlock" -> {"ADDRIssue", "CMD2Issue", "WaitRBLow"}
    [] o = "ReadStatus" -> {"ADDRIssue", "DATAIssue", "WaitRBLow"}

PhasesRight ==
  /\ \A o \in Ops : Active(o) => fsm[o].st \in PhasesOf(o)
  /\ fsm["ReadPage"].st = "CMD2Issue" => ~ReadParam(fsm["ReadPage"])
  /\ fsm["ReadStatus"].st = "ADDRIssue" => Enhanced(fsm["ReadStatus"])

ScriptOf(o) == Sequencer!Script(LatchedOperands(o))

BusStep == [kind : Kinds \cup {"DMA"}, cle : BOOLEAN, n : Nat, way : SUBSET Way,
            what : CAType \cup {<<"feature", a>> : a \in Addr} \cup {<<"data">>}]

\* The history is the part of the sequence that the phase says.
BusRight ==
  /\ bus \in Seq(BusStep)
  /\ (\A o \in Ops : ~Working(o)) => bus = << >>
  /\ \A o \in Ops : Working(o) =>
       /\ Len(bus) = Performed(o) /\ Len(bus) <= Len(ScriptOf(o))
       /\ \A i \in 1..Len(bus) : bus[i] = ScriptOf(o)[i]

RefInv == AtomsCarry /\ UnusedZero /\ Pulses /\ PhasesRight /\ BusRight

(***************************************************************************)
(* The sequences, and the steps that a machine's requests become.          *)
(***************************************************************************)
StepOf(kind, cle, n, what, o) ==
  [kind |-> kind, cle |-> cle, n |-> n, what |-> what, way |-> fsm[o].way]

Code(c) == <<c>>
FeatureBytes == <<"feature", regs.feat>>
DataBytes == <<"data">>
ConfirmErase(f) == IF f.target = 2 THEN "D1h" ELSE "D0h"

(* The operands a machine has latched.                                     *)
LEMMA OperandsAre ==
  ASSUME NEW o \in Ops
  PROVE  LET j == LatchedOperands(o) IN
         /\ j.op = o /\ j.way = fsm[o].way /\ j.target = fsm[o].target /\ j.len = fsm[o].len
         /\ j.col = fsm[o].col /\ j.row = fsm[o].row
         /\ o = "SetFeature" => j.feat = regs.feat
         /\ o # "SetFeature" => j.feat = Addr0
BY DEF LatchedOperands, Uses, Ops

\* A function on 1..Len(s), which Len(s) and the entries determine.
IsSequence(s) == Len(s) \in Nat /\ s = [i \in 1..Len(s) |-> s[i]]

(* BusSequencer's sequences, with the operands a machine has latched.      *)
LEMMA ResetScript ==
  /\ Len(ScriptOf("Reset")) = 1
  /\ ScriptOf("Reset")[1] = StepOf("ACA", TRUE, 1, Code("FFh"), "Reset")
  /\ IsSequence(ScriptOf("Reset"))
<1> DEFINE a == StepOf("ACA", TRUE, 1, Code("FFh"), "Reset")
<1>1. ScriptOf("Reset") = <<a>>
  BY OperandsAre DEF ScriptOf, Sequencer!Script, Sequencer!Cmd, Sequencer!Byte, Sequencer!Move,
     Sequencer!Latch, Sequencer!Dma, StepOf, Descriptor, Code, FeatureBytes, DataBytes, Ops
<1> HIDE DEF a
<1>2. Len(ScriptOf("Reset")) = 1 /\ ScriptOf("Reset")[1] = a
  BY <1>1
<1>3. IsSequence(ScriptOf("Reset"))
  BY <1>1 DEF IsSequence
<1>4. QED
  BY <1>2, <1>3, Zenon DEF a

(* SetFeature.                                                             *)
LEMMA SetFeatureScript ==
  /\ Len(ScriptOf("SetFeature")) = 3
  /\ ScriptOf("SetFeature")[1] = StepOf("ACA", TRUE, 1, Code("EFh"), "SetFeature")
  /\ ScriptOf("SetFeature")[2] = StepOf("ACA", FALSE, 1, Code("01h"), "SetFeature")
  /\ ScriptOf("SetFeature")[3] = StepOf("DOA", FALSE, 4, FeatureBytes, "SetFeature")
  /\ IsSequence(ScriptOf("SetFeature"))
<1> DEFINE a == StepOf("ACA", TRUE, 1, Code("EFh"), "SetFeature")
           b == StepOf("ACA", FALSE, 1, Code("01h"), "SetFeature")
           c == StepOf("DOA", FALSE, 4, FeatureBytes, "SetFeature")
<1>1. ScriptOf("SetFeature") = <<a, b, c>>
  BY OperandsAre DEF ScriptOf, Sequencer!Script, Sequencer!Cmd, Sequencer!Byte, Sequencer!Move,
     Sequencer!Latch, Sequencer!Dma, StepOf, Descriptor, Code, FeatureBytes, DataBytes, Ops
<1> HIDE DEF a, b, c
<1>2. /\ Len(ScriptOf("SetFeature")) = 3
      /\ ScriptOf("SetFeature")[1] = a
      /\ ScriptOf("SetFeature")[2] = b
      /\ ScriptOf("SetFeature")[3] = c
  BY <1>1
<1>3. IsSequence(ScriptOf("SetFeature"))
  BY <1>1 DEF IsSequence
<1>4. QED
  BY <1>2, <1>3, Zenon DEF a, b, c

(* GetFeature.                                                             *)
LEMMA GetFeatureScript ==
  /\ Len(ScriptOf("GetFeature")) = 3
  /\ ScriptOf("GetFeature")[1] = StepOf("ACS", TRUE, 1, Code("EEh"), "GetFeature")
  /\ ScriptOf("GetFeature")[2] = StepOf("ACS", FALSE, 1, Code("01h"), "GetFeature")
  /\ ScriptOf("GetFeature")[3] = StepOf("DIS", FALSE, 8, DataBytes, "GetFeature")
  /\ IsSequence(ScriptOf("GetFeature"))
<1> DEFINE a == StepOf("ACS", TRUE, 1, Code("EEh"), "GetFeature")
           b == StepOf("ACS", FALSE, 1, Code("01h"), "GetFeature")
           c == StepOf("DIS", FALSE, 8, DataBytes, "GetFeature")
<1>1. ScriptOf("GetFeature") = <<a, b, c>>
  BY OperandsAre DEF ScriptOf, Sequencer!Script, Sequencer!Cmd, Sequencer!Byte, Sequencer!Move,
     Sequencer!Latch, Sequencer!Dma, StepOf, Descriptor, Code, FeatureBytes, DataBytes, Ops
<1> HIDE DEF a, b, c
<1>2. /\ Len(ScriptOf("GetFeature")) = 3
      /\ ScriptOf("GetFeature")[1] = a
      /\ ScriptOf("GetFeature")[2] = b
      /\ ScriptOf("GetFeature")[3] = c
  BY <1>1
<1>3. IsSequence(ScriptOf("GetFeature"))
  BY <1>1 DEF IsSequence
<1>4. QED
  BY <1>2, <1>3, Zenon DEF a, b, c

(* ProgramPage.                                                            *)
LEMMA ProgramPageScript ==
  /\ Len(ScriptOf("ProgramPage")) = 5
  /\ ScriptOf("ProgramPage")[1] = Descriptor
  /\ ScriptOf("ProgramPage")[2] = StepOf("ACS", TRUE, 1, Code("80h"), "ProgramPage")
  /\ ScriptOf("ProgramPage")[3] = StepOf("ACS", FALSE, 5, PageAddr(fsm["ProgramPage"]), "ProgramPage")
  /\ ScriptOf("ProgramPage")[4] = StepOf("DOS", FALSE, fsm["ProgramPage"].len, DataBytes, "ProgramPage")
  /\ ScriptOf("ProgramPage")[5] = StepOf("ACS", TRUE, 1, Code(ConfirmProgram(fsm["ProgramPage"])), "ProgramPage")
  /\ IsSequence(ScriptOf("ProgramPage"))
<1> DEFINE a == Descriptor
           b == StepOf("ACS", TRUE, 1, Code("80h"), "ProgramPage")
           c == StepOf("ACS", FALSE, 5, PageAddr(fsm["ProgramPage"]), "ProgramPage")
           d == StepOf("DOS", FALSE, fsm["ProgramPage"].len, DataBytes, "ProgramPage")
           e == StepOf("ACS", TRUE, 1, Code(ConfirmProgram(fsm["ProgramPage"])), "ProgramPage")
<1>1. ScriptOf("ProgramPage") = <<a, b, c, d, e>>
  BY OperandsAre DEF ScriptOf, Sequencer!Script, Sequencer!Cmd, Sequencer!Byte, Sequencer!Move,
     Sequencer!Latch, Sequencer!Dma, StepOf, Descriptor, Code, FeatureBytes, DataBytes, Ops,
     PageAddr, Sequencer!PageAddr, ConfirmProgram, Sequencer!ConfirmProgram
<1> HIDE DEF a, b, c, d, e
<1>2. /\ Len(ScriptOf("ProgramPage")) = 5
      /\ ScriptOf("ProgramPage")[1] = a
      /\ ScriptOf("ProgramPage")[2] = b
      /\ ScriptOf("ProgramPage")[3] = c
      /\ ScriptOf("ProgramPage")[4] = d
      /\ ScriptOf("ProgramPage")[5] = e
  BY <1>1
<1>3. IsSequence(ScriptOf("ProgramPage"))
  BY <1>1 DEF IsSequence
<1>4. QED
  BY <1>2, <1>3, Zenon DEF a, b, c, d, e

(* ReadPage of the parameter page.                                         *)
LEMMA ReadParameterScript ==
  ASSUME fsm["ReadPage"].target = 1
  PROVE  /\ Len(ScriptOf("ReadPage")) = 4
         /\ ScriptOf("ReadPage")[1] = StepOf("ACS", TRUE, 1, Code("ECh"), "ReadPage")
         /\ ScriptOf("ReadPage")[2] = StepOf("ACS", FALSE, 1, Code("00h"), "ReadPage")
         /\ ScriptOf("ReadPage")[3] = Descriptor
         /\ ScriptOf("ReadPage")[4] = StepOf("DIS", FALSE, fsm["ReadPage"].len, DataBytes, "ReadPage")
         /\ IsSequence(ScriptOf("ReadPage"))
<1> DEFINE a == StepOf("ACS", TRUE, 1, Code("ECh"), "ReadPage")
           b == StepOf("ACS", FALSE, 1, Code("00h"), "ReadPage")
           c == Descriptor
           d == StepOf("DIS", FALSE, fsm["ReadPage"].len, DataBytes, "ReadPage")
<1>1. ScriptOf("ReadPage") = <<a, b, c, d>>
  BY OperandsAre DEF ScriptOf, Sequencer!Script, Sequencer!Cmd, Sequencer!Byte, Sequencer!Move,
     Sequencer!Latch, Sequencer!Dma, StepOf, Descriptor, Code, FeatureBytes, DataBytes, Ops
<1> HIDE DEF a, b, c, d
<1>2. /\ Len(ScriptOf("ReadPage")) = 4
      /\ ScriptOf("ReadPage")[1] = a
      /\ ScriptOf("ReadPage")[2] = b
      /\ ScriptOf("ReadPage")[3] = c
      /\ ScriptOf("ReadPage")[4] = d
  BY <1>1
<1>3. IsSequence(ScriptOf("ReadPage"))
  BY <1>1 DEF IsSequence
<1>4. QED
  BY <1>2, <1>3, Zenon DEF a, b, c, d

(* ReadPage.                                                               *)
LEMMA ReadPageScript ==
  ASSUME fsm["ReadPage"].target # 1
  PROVE  /\ Len(ScriptOf("ReadPage")) = 5
         /\ ScriptOf("ReadPage")[1] = StepOf("ACS", TRUE, 1, Code("00h"), "ReadPage")
         /\ ScriptOf("ReadPage")[2] = StepOf("ACS", FALSE, 5, PageAddr(fsm["ReadPage"]), "ReadPage")
         /\ ScriptOf("ReadPage")[3] = StepOf("ACS", TRUE, 1, Code("30h"), "ReadPage")
         /\ ScriptOf("ReadPage")[4] = Descriptor
         /\ ScriptOf("ReadPage")[5] = StepOf("DIS", FALSE, fsm["ReadPage"].len, DataBytes, "ReadPage")
         /\ IsSequence(ScriptOf("ReadPage"))
<1> DEFINE a == StepOf("ACS", TRUE, 1, Code("00h"), "ReadPage")
           b == StepOf("ACS", FALSE, 5, PageAddr(fsm["ReadPage"]), "ReadPage")
           c == StepOf("ACS", TRUE, 1, Code("30h"), "ReadPage")
           d == Descriptor
           e == StepOf("DIS", FALSE, fsm["ReadPage"].len, DataBytes, "ReadPage")
<1>1. ScriptOf("ReadPage") = <<a, b, c, d, e>>
  BY OperandsAre DEF ScriptOf, Sequencer!Script, Sequencer!Cmd, Sequencer!Byte, Sequencer!Move,
     Sequencer!Latch, Sequencer!Dma, StepOf, Descriptor, Code, FeatureBytes, DataBytes, Ops,
     PageAddr, Sequencer!PageAddr
<1> HIDE DEF a, b, c, d, e
<1>2. /\ Len(ScriptOf("ReadPage")) = 5
      /\ ScriptOf("ReadPage")[1] = a
      /\ ScriptOf("ReadPage")[2] = b
      /\ ScriptOf("ReadPage")[3] = c
      /\ ScriptOf("ReadPage")[4] = d
      /\ ScriptOf("ReadPage")[5] = e
  BY <1>1
<1>3. IsSequence(ScriptOf("ReadPage"))
  BY <1>1 DEF IsSequence
<1>4. QED
  BY <1>2, <1>3, Zenon DEF a, b, c, d, e

(* EraseBlock.                                                             *)
LEMMA EraseBlockScript ==
  /\ Len(ScriptOf("EraseBlock")) = 3
  /\ ScriptOf("EraseBlock")[1] = StepOf("ACS", TRUE, 1, Code("60h"), "EraseBlock")
  /\ ScriptOf("EraseBlock")[2] = StepOf("ACS", FALSE, 3, BlockAddr(fsm["EraseBlock"]), "EraseBlock")
  /\ ScriptOf("EraseBlock")[3] = StepOf("ACS", TRUE, 1, Code(ConfirmErase(fsm["EraseBlock"])), "EraseBlock")
  /\ IsSequence(ScriptOf("EraseBlock"))
<1> DEFINE a == StepOf("ACS", TRUE, 1, Code("60h"), "EraseBlock")
           b == StepOf("ACS", FALSE, 3, BlockAddr(fsm["EraseBlock"]), "EraseBlock")
           c == StepOf("ACS", TRUE, 1, Code(ConfirmErase(fsm["EraseBlock"])), "EraseBlock")
<1>1. ScriptOf("EraseBlock") = <<a, b, c>>
  BY OperandsAre DEF ScriptOf, Sequencer!Script, Sequencer!Cmd, Sequencer!Byte, Sequencer!Move,
     Sequencer!Latch, Sequencer!Dma, StepOf, Descriptor, Code, FeatureBytes, DataBytes, Ops,
     BlockAddr, Sequencer!BlockAddr, ConfirmErase
<1> HIDE DEF a, b, c
<1>2. /\ Len(ScriptOf("EraseBlock")) = 3
      /\ ScriptOf("EraseBlock")[1] = a
      /\ ScriptOf("EraseBlock")[2] = b
      /\ ScriptOf("EraseBlock")[3] = c
  BY <1>1
<1>3. IsSequence(ScriptOf("EraseBlock"))
  BY <1>1 DEF IsSequence
<1>4. QED
  BY <1>2, <1>3, Zenon DEF a, b, c

(* ReadStatus of one unit.                                                 *)
LEMMA ReadEnhancedScript ==
  ASSUME Enhanced(fsm["ReadStatus"])
  PROVE  /\ Len(ScriptOf("ReadStatus")) = 3
         /\ ScriptOf("ReadStatus")[1] = StepOf("ACS", TRUE, 1, Code("78h"), "ReadStatus")
         /\ ScriptOf("ReadStatus")[2] = StepOf("ACS", FALSE, 3, RowAddr(fsm["ReadStatus"]), "ReadStatus")
         /\ ScriptOf("ReadStatus")[3] = StepOf("DIS", FALSE, 2, DataBytes, "ReadStatus")
         /\ IsSequence(ScriptOf("ReadStatus"))
<1> DEFINE a == StepOf("ACS", TRUE, 1, Code("78h"), "ReadStatus")
           b == StepOf("ACS", FALSE, 3, RowAddr(fsm["ReadStatus"]), "ReadStatus")
           c == StepOf("DIS", FALSE, 2, DataBytes, "ReadStatus")
<1>1. ScriptOf("ReadStatus") = <<a, b, c>>
  BY OperandsAre DEF ScriptOf, Sequencer!Script, Sequencer!Cmd, Sequencer!Byte, Sequencer!Move,
     Sequencer!Latch, Sequencer!Dma, StepOf, Descriptor, Code, FeatureBytes, DataBytes, Ops,
     RowAddr, Sequencer!RowAddr, Enhanced
<1> HIDE DEF a, b, c
<1>2. /\ Len(ScriptOf("ReadStatus")) = 3
      /\ ScriptOf("ReadStatus")[1] = a
      /\ ScriptOf("ReadStatus")[2] = b
      /\ ScriptOf("ReadStatus")[3] = c
  BY <1>1
<1>3. IsSequence(ScriptOf("ReadStatus"))
  BY <1>1 DEF IsSequence
<1>4. QED
  BY <1>2, <1>3, Zenon DEF a, b, c

(* ReadStatus.                                                             *)
LEMMA ReadStatusScript ==
  ASSUME ~Enhanced(fsm["ReadStatus"])
  PROVE  /\ Len(ScriptOf("ReadStatus")) = 2
         /\ ScriptOf("ReadStatus")[1] = StepOf("ACS", TRUE, 1, Code("70h"), "ReadStatus")
         /\ ScriptOf("ReadStatus")[2] = StepOf("DIS", FALSE, 2, DataBytes, "ReadStatus")
         /\ IsSequence(ScriptOf("ReadStatus"))
<1> DEFINE a == StepOf("ACS", TRUE, 1, Code("70h"), "ReadStatus")
           b == StepOf("DIS", FALSE, 2, DataBytes, "ReadStatus")
<1>1. ScriptOf("ReadStatus") = <<a, b>>
  BY OperandsAre DEF ScriptOf, Sequencer!Script, Sequencer!Cmd, Sequencer!Byte, Sequencer!Move,
     Sequencer!Latch, Sequencer!Dma, StepOf, Descriptor, Code, FeatureBytes, DataBytes, Ops,
     Enhanced
<1> HIDE DEF a, b
<1>2. /\ Len(ScriptOf("ReadStatus")) = 2
      /\ ScriptOf("ReadStatus")[1] = a
      /\ ScriptOf("ReadStatus")[2] = b
  BY <1>1
<1>3. IsSequence(ScriptOf("ReadStatus"))
  BY <1>1 DEF IsSequence
<1>4. QED
  BY <1>2, <1>3, Zenon DEF a, b

(* The machine at work owns the multiplexer, and an atom at its last step  *)
(* is the one it asks for.                                                 *)
LEMMA WorkerAsks ==
  ASSUME TypeOK, Exclusion, Handshake, NEW o \in Ops, Active(o)
  PROVE  /\ MuxAsk = AskOf(o) /\ MuxWay = fsm[o].way
         /\ \A k \in Kinds : LastStep(k) => AskOf(o).cmd = k /\ atom[k].st = "RUN"
<1>1. Owner = o /\ o # "Idle"
  BY OwnerIs DEF Exclusion, Ops
<1>2. MuxAsk = AskOf(o) /\ MuxWay = fsm[o].way
  BY <1>1 DEF MuxAsk, MuxWay
<1>3. ASSUME NEW k \in Kinds, LastStep(k) PROVE atom[k].st = "RUN"
  BY <1>3 DEF LastStep, Handshake, TypeOK, AtomType
<1>4. QED
  BY <1>2, <1>3 DEF Handshake, AtomFollowsOwner

(* With no machine active no atom is at its last step.                     *)
LEMMA IdleAsksNothing ==
  ASSUME TypeOK, Handshake, \A o \in Ops : ~Active(o), NEW k \in Kinds
  PROVE  ~LastStep(k) /\ atom[k].st = "READY"
<1>1. MuxAsk = AskNothing
  BY DEF MuxAsk, Owner, Ops
<1>2. MuxAsk.cmd \notin Kinds
  BY <1>1 DEF AskNothing, Ask, Kinds
<1>3. atom[k].st = "READY"
  BY <1>2 DEF Handshake, AtomFollowsOwner, TypeOK, AtomType
<1>4. QED
  BY <1>3 DEF LastStep, Handshake

(* What each request is, phase by phase.                                   *)
LEMMA AsksAre ==
  ASSUME PhasesRight, NEW o \in Ops, Active(o), AskOf(o).cmd \in Kinds
  PROVE  LET f == fsm[o] IN
         /\ f.st \in {"CMDIssue", "ADDRIssue", "DATAIssue", "CMD2Issue"}
         /\ f.st \in PhasesOf(o)
         /\ f.st = "CMD2Issue" /\ o \in {"ProgramPage", "EraseBlock"} => ~f.last
         /\ f.st = "DATAIssue" /\ o \in {"ReadPage", "GetFeature"} => ~f.last
BY DEF PhasesRight, AskOf, ResetAsk, SetFeatureAsk, ProgramPageAsk, ReadPageAsk, GetFeatureAsk,
   EraseBlockAsk, ReadStatusAsk, AskNothing, Ask, Kinds, Ops

(* The bus step a request becomes when its atom performs it.               *)
StepAsked(o) ==
  LET a == AskOf(o) IN
  StepOf(a.cmd, a.cle, Strobes(a.cmd, a.num),
         CASE a.cmd \in {"ACA", "ACS"} -> a.ca
           [] a.cmd = "DOA" -> FeatureBytes
           [] OTHER -> DataBytes, o)

(* What a request becomes, atom by atom.                                   *)
LEMMA AskedStep ==
  ASSUME NEW o, NEW n, NEW cle, NEW ca
  PROVE  /\ AskOf(o) = Ask("ACA", n, cle, ca) => StepAsked(o) = StepOf("ACA", cle, n, ca, o)
         /\ AskOf(o) = Ask("ACS", n, cle, ca) => StepAsked(o) = StepOf("ACS", cle, n + 1, ca, o)
         /\ AskOf(o) = Ask("DOA", n, cle, ca) => StepAsked(o) = StepOf("DOA", cle, n, FeatureBytes, o)
         /\ AskOf(o) = Ask("DOS", n, cle, ca) => StepAsked(o) = StepOf("DOS", cle, n, DataBytes, o)
         /\ AskOf(o) = Ask("DIS", n, cle, ca) => StepAsked(o) = StepOf("DIS", cle, n, DataBytes, o)
BY DEF StepAsked, Strobes, Ask

(* Reset: the request of a phase is the next step of the sequence.         *)
LEMMA ResetSteps ==
  ASSUME TypeOK, PhasesRight, Active("Reset"), AskOf("Reset").cmd \in Kinds, ~fsm["Reset"].trans
  PROVE  /\ Performed("Reset") + 1 \in 1..Len(ScriptOf("Reset"))
         /\ StepAsked("Reset") = ScriptOf("Reset")[Performed("Reset") + 1]
<1> DEFINE f == fsm["Reset"]
<1>1. f.st \in PhasesOf("Reset") \cap {"CMDIssue", "ADDRIssue", "DATAIssue", "CMD2Issue"}
  BY AsksAre DEF Ops
<1>2. CASE f.st = "CMDIssue"
  <2>1. AskOf("Reset") = Ask("ACA", 1, TRUE, Code("FFh"))
    BY <1>2 DEF AskOf, ResetAsk, Code
  <2>2. StepAsked("Reset") = StepOf("ACA", TRUE, 1, Code("FFh"), "Reset")
    BY <2>1, AskedStep, Zenon
  <2>3. Performed("Reset") = 0
    BY <1>2 DEF Performed, ResetPerformed, Starting
  <2>4. ScriptOf("Reset")[1] = StepOf("ACA", TRUE, 1, Code("FFh"), "Reset")
    BY ResetScript
  <2>5. Len(ScriptOf("Reset")) = 1
    BY ResetScript
  <2>6. StepAsked("Reset") = ScriptOf("Reset")[1]
    BY <2>2, <2>4, Zenon
  <2>7. QED
    BY <2>3, <2>5, <2>6
<1>3. QED
  BY <1>1, <1>2 DEF PhasesOf

(* SetFeature: the request of a phase is the next step of the sequence.    *)
LEMMA SetFeatureSteps ==
  ASSUME TypeOK, PhasesRight, Active("SetFeature"), AskOf("SetFeature").cmd \in Kinds,
         ~fsm["SetFeature"].trans
  PROVE  /\ Performed("SetFeature") + 1 \in 1..Len(ScriptOf("SetFeature"))
         /\ StepAsked("SetFeature") = ScriptOf("SetFeature")[Performed("SetFeature") + 1]
<1> DEFINE f == fsm["SetFeature"]
<1>1. f.st \in PhasesOf("SetFeature") \cap {"CMDIssue", "ADDRIssue", "DATAIssue", "CMD2Issue"}
  BY AsksAre DEF Ops
<1>2. CASE f.st = "CMDIssue"
  <2>1. AskOf("SetFeature") = Ask("ACA", 1, TRUE, Code("EFh"))
    BY <1>2 DEF AskOf, SetFeatureAsk, Code
  <2>2. StepAsked("SetFeature") = StepOf("ACA", TRUE, 1, Code("EFh"), "SetFeature")
    BY <2>1, AskedStep, Zenon
  <2>3. Performed("SetFeature") = 0
    BY <1>2 DEF Performed, SetFeaturePerformed, Starting
  <2>4. ScriptOf("SetFeature")[1] = StepOf("ACA", TRUE, 1, Code("EFh"), "SetFeature")
    BY SetFeatureScript
  <2>5. Len(ScriptOf("SetFeature")) = 3
    BY SetFeatureScript
  <2>6. StepAsked("SetFeature") = ScriptOf("SetFeature")[1]
    BY <2>2, <2>4, Zenon
  <2>7. QED
    BY <2>3, <2>5, <2>6
<1>3. CASE f.st = "ADDRIssue"
  <2>1. AskOf("SetFeature") = Ask("ACA", 1, FALSE, Code("01h"))
    BY <1>3 DEF AskOf, SetFeatureAsk, Code
  <2>2. StepAsked("SetFeature") = StepOf("ACA", FALSE, 1, Code("01h"), "SetFeature")
    BY <2>1, AskedStep, Zenon
  <2>3. Performed("SetFeature") = 1
    BY <1>3 DEF Performed, SetFeaturePerformed, Starting
  <2>4. ScriptOf("SetFeature")[2] = StepOf("ACA", FALSE, 1, Code("01h"), "SetFeature")
    BY SetFeatureScript
  <2>5. Len(ScriptOf("SetFeature")) = 3
    BY SetFeatureScript
  <2>6. StepAsked("SetFeature") = ScriptOf("SetFeature")[2]
    BY <2>2, <2>4, Zenon
  <2>7. QED
    BY <2>3, <2>5, <2>6
<1>4. CASE f.st = "DATAIssue"
  <2>1. AskOf("SetFeature") = Ask("DOA", 4, FALSE, Code("00h"))
    BY <1>4 DEF AskOf, SetFeatureAsk, Code
  <2>2. StepAsked("SetFeature") = StepOf("DOA", FALSE, 4, FeatureBytes, "SetFeature")
    BY <2>1, AskedStep, Zenon
  <2>3. Performed("SetFeature") = 2
    BY <1>4 DEF Performed, SetFeaturePerformed, Starting
  <2>4. ScriptOf("SetFeature")[3] = StepOf("DOA", FALSE, 4, FeatureBytes, "SetFeature")
    BY SetFeatureScript
  <2>5. Len(ScriptOf("SetFeature")) = 3
    BY SetFeatureScript
  <2>6. StepAsked("SetFeature") = ScriptOf("SetFeature")[3]
    BY <2>2, <2>4, Zenon
  <2>7. QED
    BY <2>3, <2>5, <2>6
<1>5. QED
  BY <1>1, <1>2, <1>3, <1>4 DEF PhasesOf

(* GetFeature: the request of a phase is the next step of the sequence.    *)
LEMMA GetFeatureSteps ==
  ASSUME TypeOK, PhasesRight, Active("GetFeature"), AskOf("GetFeature").cmd \in Kinds,
         ~fsm["GetFeature"].trans
  PROVE  /\ Performed("GetFeature") + 1 \in 1..Len(ScriptOf("GetFeature"))
         /\ StepAsked("GetFeature") = ScriptOf("GetFeature")[Performed("GetFeature") + 1]
<1> DEFINE f == fsm["GetFeature"]
<1>1. f.st \in PhasesOf("GetFeature") \cap {"CMDIssue", "ADDRIssue", "DATAIssue", "CMD2Issue"}
  BY AsksAre DEF Ops
<1>2. f.st = "DATAIssue" => ~f.last
  BY AsksAre DEF Ops, PhasesRight, ReadParam
<1>3. CASE f.st = "CMDIssue"
  <2>1. AskOf("GetFeature") = Ask("ACS", 0, TRUE, Code("EEh"))
    BY <1>2, <1>3 DEF AskOf, GetFeatureAsk, Code
  <2>2. StepAsked("GetFeature") = StepOf("ACS", TRUE, 1, Code("EEh"), "GetFeature")
    BY <2>1, AskedStep, 0 + 1 = 1, 2 + 1 = 3, 4 + 1 = 5, Zenon
  <2>3. Performed("GetFeature") = 0
    BY <1>2, <1>3 DEF Performed, GetFeaturePerformed, Starting
  <2>4. ScriptOf("GetFeature")[1] = StepOf("ACS", TRUE, 1, Code("EEh"), "GetFeature")
    BY GetFeatureScript
  <2>5. Len(ScriptOf("GetFeature")) = 3
    BY GetFeatureScript
  <2>6. StepAsked("GetFeature") = ScriptOf("GetFeature")[1]
    BY <2>2, <2>4, Zenon
  <2>7. QED
    BY <2>3, <2>5, <2>6
<1>4. CASE f.st = "ADDRIssue"
  <2>1. AskOf("GetFeature") = Ask("ACS", 0, FALSE, Code("01h"))
    BY <1>2, <1>4 DEF AskOf, GetFeatureAsk, Code
  <2>2. StepAsked("GetFeature") = StepOf("ACS", FALSE, 1, Code("01h"), "GetFeature")
    BY <2>1, AskedStep, 0 + 1 = 1, 2 + 1 = 3, 4 + 1 = 5, Zenon
  <2>3. Performed("GetFeature") = 1
    BY <1>2, <1>4 DEF Performed, GetFeaturePerformed, Starting
  <2>4. ScriptOf("GetFeature")[2] = StepOf("ACS", FALSE, 1, Code("01h"), "GetFeature")
    BY GetFeatureScript
  <2>5. Len(ScriptOf("GetFeature")) = 3
    BY GetFeatureScript
  <2>6. StepAsked("GetFeature") = ScriptOf("GetFeature")[2]
    BY <2>2, <2>4, Zenon
  <2>7. QED
    BY <2>3, <2>5, <2>6
<1>5. CASE f.st = "DATAIssue"
  <2>1. AskOf("GetFeature") = Ask("DIS", 8, FALSE, Code("00h"))
    BY <1>2, <1>5 DEF AskOf, GetFeatureAsk, Code
  <2>2. StepAsked("GetFeature") = StepOf("DIS", FALSE, 8, DataBytes, "GetFeature")
    BY <2>1, AskedStep, Zenon
  <2>3. Performed("GetFeature") = 2
    BY <1>2, <1>5 DEF Performed, GetFeaturePerformed, Starting
  <2>4. ScriptOf("GetFeature")[3] = StepOf("DIS", FALSE, 8, DataBytes, "GetFeature")
    BY GetFeatureScript
  <2>5. Len(ScriptOf("GetFeature")) = 3
    BY GetFeatureScript
  <2>6. StepAsked("GetFeature") = ScriptOf("GetFeature")[3]
    BY <2>2, <2>4, Zenon
  <2>7. QED
    BY <2>3, <2>5, <2>6
<1>6. QED
  BY <1>1, <1>2, <1>3, <1>4, <1>5 DEF PhasesOf

(* ProgramPage: the request of a phase is the next step of the sequence.   *)
LEMMA ProgramPageSteps ==
  ASSUME TypeOK, PhasesRight, Active("ProgramPage"), AskOf("ProgramPage").cmd \in Kinds,
         ~fsm["ProgramPage"].trans
  PROVE  /\ Performed("ProgramPage") + 1 \in 1..Len(ScriptOf("ProgramPage"))
         /\ StepAsked("ProgramPage") = ScriptOf("ProgramPage")[Performed("ProgramPage") + 1]
<1> DEFINE f == fsm["ProgramPage"]
<1>1. f.st \in PhasesOf("ProgramPage") \cap {"CMDIssue", "ADDRIssue", "DATAIssue", "CMD2Issue"}
  BY AsksAre DEF Ops
<1>2. f.st = "CMD2Issue" => ~f.last
  BY AsksAre DEF Ops, PhasesRight, ReadParam
<1>3. CASE f.st = "CMDIssue"
  <2>1. AskOf("ProgramPage") = Ask("ACS", 0, TRUE, Code("80h"))
    BY <1>2, <1>3 DEF AskOf, ProgramPageAsk, Code
  <2>2. StepAsked("ProgramPage") = StepOf("ACS", TRUE, 1, Code("80h"), "ProgramPage")
    BY <2>1, AskedStep, 0 + 1 = 1, 2 + 1 = 3, 4 + 1 = 5, Zenon
  <2>3. Performed("ProgramPage") = 1
    BY <1>2, <1>3 DEF Performed, ProgramPagePerformed, Starting
  <2>4. ScriptOf("ProgramPage")[2] = StepOf("ACS", TRUE, 1, Code("80h"), "ProgramPage")
    BY ProgramPageScript
  <2>5. Len(ScriptOf("ProgramPage")) = 5
    BY ProgramPageScript
  <2>6. StepAsked("ProgramPage") = ScriptOf("ProgramPage")[2]
    BY <2>2, <2>4, Zenon
  <2>7. QED
    BY <2>3, <2>5, <2>6
<1>4. CASE f.st = "ADDRIssue"
  <2>1. AskOf("ProgramPage") = Ask("ACS", 4, FALSE, PageAddr(f))
    BY <1>2, <1>4 DEF AskOf, ProgramPageAsk, Code
  <2>2. StepAsked("ProgramPage") = StepOf("ACS", FALSE, 5, PageAddr(f), "ProgramPage")
    BY <2>1, AskedStep, 0 + 1 = 1, 2 + 1 = 3, 4 + 1 = 5, Zenon
  <2>3. Performed("ProgramPage") = 2
    BY <1>2, <1>4 DEF Performed, ProgramPagePerformed, Starting
  <2>4. ScriptOf("ProgramPage")[3] = StepOf("ACS", FALSE, 5, PageAddr(f), "ProgramPage")
    BY ProgramPageScript
  <2>5. Len(ScriptOf("ProgramPage")) = 5
    BY ProgramPageScript
  <2>6. StepAsked("ProgramPage") = ScriptOf("ProgramPage")[3]
    BY <2>2, <2>4, Zenon
  <2>7. QED
    BY <2>3, <2>5, <2>6
<1>5. CASE f.st = "DATAIssue"
  <2>1. AskOf("ProgramPage") = Ask("DOS", f.len, FALSE, Code("00h"))
    BY <1>2, <1>5 DEF AskOf, ProgramPageAsk, Code
  <2>2. StepAsked("ProgramPage") = StepOf("DOS", FALSE, f.len, DataBytes, "ProgramPage")
    BY <2>1, AskedStep, Zenon
  <2>3. Performed("ProgramPage") = 3
    BY <1>2, <1>5 DEF Performed, ProgramPagePerformed, Starting
  <2>4. ScriptOf("ProgramPage")[4] = StepOf("DOS", FALSE, f.len, DataBytes, "ProgramPage")
    BY ProgramPageScript
  <2>5. Len(ScriptOf("ProgramPage")) = 5
    BY ProgramPageScript
  <2>6. StepAsked("ProgramPage") = ScriptOf("ProgramPage")[4]
    BY <2>2, <2>4, Zenon
  <2>7. QED
    BY <2>3, <2>5, <2>6
<1>6. CASE f.st = "CMD2Issue"
  <2>1. AskOf("ProgramPage") = Ask("ACS", 0, TRUE, Code(ConfirmProgram(f)))
    BY <1>2, <1>6 DEF AskOf, ProgramPageAsk, Code
  <2>2. StepAsked("ProgramPage") = StepOf("ACS", TRUE, 1, Code(ConfirmProgram(f)), "ProgramPage")
    BY <2>1, AskedStep, 0 + 1 = 1, 2 + 1 = 3, 4 + 1 = 5, Zenon
  <2>3. Performed("ProgramPage") = 4
    BY <1>2, <1>6 DEF Performed, ProgramPagePerformed, Starting
  <2>4. ScriptOf("ProgramPage")[5] = StepOf("ACS", TRUE, 1, Code(ConfirmProgram(f)), "ProgramPage")
    BY ProgramPageScript
  <2>5. Len(ScriptOf("ProgramPage")) = 5
    BY ProgramPageScript
  <2>6. StepAsked("ProgramPage") = ScriptOf("ProgramPage")[5]
    BY <2>2, <2>4, Zenon
  <2>7. QED
    BY <2>3, <2>5, <2>6
<1>7. QED
  BY <1>1, <1>2, <1>3, <1>4, <1>5, <1>6 DEF PhasesOf

(* ReadPage: the request of a phase is the next step of the sequence.      *)
LEMMA ReadPageSteps ==
  ASSUME TypeOK, PhasesRight, Active("ReadPage"), AskOf("ReadPage").cmd \in Kinds,
         ~fsm["ReadPage"].trans
  PROVE  /\ Performed("ReadPage") + 1 \in 1..Len(ScriptOf("ReadPage"))
         /\ StepAsked("ReadPage") = ScriptOf("ReadPage")[Performed("ReadPage") + 1]
<1> DEFINE f == fsm["ReadPage"]
<1>1. f.st \in PhasesOf("ReadPage") \cap {"CMDIssue", "ADDRIssue", "DATAIssue", "CMD2Issue"}
  BY AsksAre DEF Ops
<1>2. (f.st = "DATAIssue" => ~f.last) /\ (f.st = "CMD2Issue" => f.target # 1)
  BY AsksAre DEF Ops, PhasesRight, ReadParam
<1>3. CASE f.st = "CMDIssue" /\ f.target = 1
  <2>1. AskOf("ReadPage") = Ask("ACS", 0, TRUE, Code("ECh"))
    BY <1>2, <1>3 DEF AskOf, ReadPageAsk, Code, ReadParam
  <2>2. StepAsked("ReadPage") = StepOf("ACS", TRUE, 1, Code("ECh"), "ReadPage")
    BY <2>1, AskedStep, 0 + 1 = 1, 2 + 1 = 3, 4 + 1 = 5, Zenon
  <2>3. Performed("ReadPage") = 0
    BY <1>2, <1>3 DEF Performed, ReadPagePerformed, Starting, ReadParam
  <2>4. ScriptOf("ReadPage")[1] = StepOf("ACS", TRUE, 1, Code("ECh"), "ReadPage")
    BY <1>3, ReadParameterScript
  <2>5. Len(ScriptOf("ReadPage")) = 4
    BY <1>3, ReadParameterScript
  <2>6. StepAsked("ReadPage") = ScriptOf("ReadPage")[1]
    BY <2>2, <2>4, Zenon
  <2>7. QED
    BY <2>3, <2>5, <2>6
<1>4. CASE f.st = "ADDRIssue" /\ f.target = 1
  <2>1. AskOf("ReadPage") = Ask("ACS", 0, FALSE, Code("00h"))
    BY <1>2, <1>4 DEF AskOf, ReadPageAsk, Code, ReadParam
  <2>2. StepAsked("ReadPage") = StepOf("ACS", FALSE, 1, Code("00h"), "ReadPage")
    BY <2>1, AskedStep, 0 + 1 = 1, 2 + 1 = 3, 4 + 1 = 5, Zenon
  <2>3. Performed("ReadPage") = 1
    BY <1>2, <1>4 DEF Performed, ReadPagePerformed, Starting, ReadParam
  <2>4. ScriptOf("ReadPage")[2] = StepOf("ACS", FALSE, 1, Code("00h"), "ReadPage")
    BY <1>4, ReadParameterScript
  <2>5. Len(ScriptOf("ReadPage")) = 4
    BY <1>4, ReadParameterScript
  <2>6. StepAsked("ReadPage") = ScriptOf("ReadPage")[2]
    BY <2>2, <2>4, Zenon
  <2>7. QED
    BY <2>3, <2>5, <2>6
<1>5. CASE f.st = "DATAIssue" /\ f.target = 1
  <2>1. AskOf("ReadPage") = Ask("DIS", f.len, FALSE, Code("00h"))
    BY <1>2, <1>5 DEF AskOf, ReadPageAsk, Code, ReadParam
  <2>2. StepAsked("ReadPage") = StepOf("DIS", FALSE, f.len, DataBytes, "ReadPage")
    BY <2>1, AskedStep, Zenon
  <2>3. Performed("ReadPage") = 3
    BY <1>2, <1>5 DEF Performed, ReadPagePerformed, Starting, ReadParam
  <2>4. ScriptOf("ReadPage")[4] = StepOf("DIS", FALSE, f.len, DataBytes, "ReadPage")
    BY <1>5, ReadParameterScript
  <2>5. Len(ScriptOf("ReadPage")) = 4
    BY <1>5, ReadParameterScript
  <2>6. StepAsked("ReadPage") = ScriptOf("ReadPage")[4]
    BY <2>2, <2>4, Zenon
  <2>7. QED
    BY <2>3, <2>5, <2>6
<1>6. CASE f.st = "CMDIssue" /\ f.target # 1
  <2>1. AskOf("ReadPage") = Ask("ACS", 0, TRUE, Code("00h"))
    BY <1>2, <1>6 DEF AskOf, ReadPageAsk, Code, ReadParam
  <2>2. StepAsked("ReadPage") = StepOf("ACS", TRUE, 1, Code("00h"), "ReadPage")
    BY <2>1, AskedStep, 0 + 1 = 1, 2 + 1 = 3, 4 + 1 = 5, Zenon
  <2>3. Performed("ReadPage") = 0
    BY <1>2, <1>6 DEF Performed, ReadPagePerformed, Starting, ReadParam
  <2>4. ScriptOf("ReadPage")[1] = StepOf("ACS", TRUE, 1, Code("00h"), "ReadPage")
    BY <1>6, ReadPageScript
  <2>5. Len(ScriptOf("ReadPage")) = 5
    BY <1>6, ReadPageScript
  <2>6. StepAsked("ReadPage") = ScriptOf("ReadPage")[1]
    BY <2>2, <2>4, Zenon
  <2>7. QED
    BY <2>3, <2>5, <2>6
<1>7. CASE f.st = "ADDRIssue" /\ f.target # 1
  <2>1. AskOf("ReadPage") = Ask("ACS", 4, FALSE, PageAddr(f))
    BY <1>2, <1>7 DEF AskOf, ReadPageAsk, Code, ReadParam
  <2>2. StepAsked("ReadPage") = StepOf("ACS", FALSE, 5, PageAddr(f), "ReadPage")
    BY <2>1, AskedStep, 0 + 1 = 1, 2 + 1 = 3, 4 + 1 = 5, Zenon
  <2>3. Performed("ReadPage") = 1
    BY <1>2, <1>7 DEF Performed, ReadPagePerformed, Starting, ReadParam
  <2>4. ScriptOf("ReadPage")[2] = StepOf("ACS", FALSE, 5, PageAddr(f), "ReadPage")
    BY <1>7, ReadPageScript
  <2>5. Len(ScriptOf("ReadPage")) = 5
    BY <1>7, ReadPageScript
  <2>6. StepAsked("ReadPage") = ScriptOf("ReadPage")[2]
    BY <2>2, <2>4, Zenon
  <2>7. QED
    BY <2>3, <2>5, <2>6
<1>8. CASE f.st = "CMD2Issue" /\ f.target # 1
  <2>1. AskOf("ReadPage") = Ask("ACS", 0, TRUE, Code("30h"))
    BY <1>2, <1>8 DEF AskOf, ReadPageAsk, Code, ReadParam
  <2>2. StepAsked("ReadPage") = StepOf("ACS", TRUE, 1, Code("30h"), "ReadPage")
    BY <2>1, AskedStep, 0 + 1 = 1, 2 + 1 = 3, 4 + 1 = 5, Zenon
  <2>3. Performed("ReadPage") = 2
    BY <1>2, <1>8 DEF Performed, ReadPagePerformed, Starting, ReadParam
  <2>4. ScriptOf("ReadPage")[3] = StepOf("ACS", TRUE, 1, Code("30h"), "ReadPage")
    BY <1>8, ReadPageScript
  <2>5. Len(ScriptOf("ReadPage")) = 5
    BY <1>8, ReadPageScript
  <2>6. StepAsked("ReadPage") = ScriptOf("ReadPage")[3]
    BY <2>2, <2>4, Zenon
  <2>7. QED
    BY <2>3, <2>5, <2>6
<1>9. CASE f.st = "DATAIssue" /\ f.target # 1
  <2>1. AskOf("ReadPage") = Ask("DIS", f.len, FALSE, Code("00h"))
    BY <1>2, <1>9 DEF AskOf, ReadPageAsk, Code, ReadParam
  <2>2. StepAsked("ReadPage") = StepOf("DIS", FALSE, f.len, DataBytes, "ReadPage")
    BY <2>1, AskedStep, Zenon
  <2>3. Performed("ReadPage") = 4
    BY <1>2, <1>9 DEF Performed, ReadPagePerformed, Starting, ReadParam
  <2>4. ScriptOf("ReadPage")[5] = StepOf("DIS", FALSE, f.len, DataBytes, "ReadPage")
    BY <1>9, ReadPageScript
  <2>5. Len(ScriptOf("ReadPage")) = 5
    BY <1>9, ReadPageScript
  <2>6. StepAsked("ReadPage") = ScriptOf("ReadPage")[5]
    BY <2>2, <2>4, Zenon
  <2>7. QED
    BY <2>3, <2>5, <2>6
<1>10. QED
  BY <1>1, <1>2, <1>3, <1>4, <1>5, <1>6, <1>7, <1>8, <1>9 DEF PhasesOf

(* EraseBlock: the request of a phase is the next step of the sequence.    *)
LEMMA EraseBlockSteps ==
  ASSUME TypeOK, PhasesRight, Active("EraseBlock"), AskOf("EraseBlock").cmd \in Kinds,
         ~fsm["EraseBlock"].trans
  PROVE  /\ Performed("EraseBlock") + 1 \in 1..Len(ScriptOf("EraseBlock"))
         /\ StepAsked("EraseBlock") = ScriptOf("EraseBlock")[Performed("EraseBlock") + 1]
<1> DEFINE f == fsm["EraseBlock"]
<1>1. f.st \in PhasesOf("EraseBlock") \cap {"CMDIssue", "ADDRIssue", "DATAIssue", "CMD2Issue"}
  BY AsksAre DEF Ops
<1>2. f.st = "CMD2Issue" => ~f.last
  BY AsksAre DEF Ops, PhasesRight, ReadParam
<1>3. CASE f.st = "CMDIssue"
  <2>1. AskOf("EraseBlock") = Ask("ACS", 0, TRUE, Code("60h"))
    BY <1>2, <1>3 DEF AskOf, EraseBlockAsk, Code, ConfirmErase
  <2>2. StepAsked("EraseBlock") = StepOf("ACS", TRUE, 1, Code("60h"), "EraseBlock")
    BY <2>1, AskedStep, 0 + 1 = 1, 2 + 1 = 3, 4 + 1 = 5, Zenon
  <2>3. Performed("EraseBlock") = 0
    BY <1>2, <1>3 DEF Performed, EraseBlockPerformed, Starting
  <2>4. ScriptOf("EraseBlock")[1] = StepOf("ACS", TRUE, 1, Code("60h"), "EraseBlock")
    BY EraseBlockScript
  <2>5. Len(ScriptOf("EraseBlock")) = 3
    BY EraseBlockScript
  <2>6. StepAsked("EraseBlock") = ScriptOf("EraseBlock")[1]
    BY <2>2, <2>4, Zenon
  <2>7. QED
    BY <2>3, <2>5, <2>6
<1>4. CASE f.st = "ADDRIssue"
  <2>1. AskOf("EraseBlock") = Ask("ACS", 2, FALSE, BlockAddr(f))
    BY <1>2, <1>4 DEF AskOf, EraseBlockAsk, Code, ConfirmErase
  <2>2. StepAsked("EraseBlock") = StepOf("ACS", FALSE, 3, BlockAddr(f), "EraseBlock")
    BY <2>1, AskedStep, 0 + 1 = 1, 2 + 1 = 3, 4 + 1 = 5, Zenon
  <2>3. Performed("EraseBlock") = 1
    BY <1>2, <1>4 DEF Performed, EraseBlockPerformed, Starting
  <2>4. ScriptOf("EraseBlock")[2] = StepOf("ACS", FALSE, 3, BlockAddr(f), "EraseBlock")
    BY EraseBlockScript
  <2>5. Len(ScriptOf("EraseBlock")) = 3
    BY EraseBlockScript
  <2>6. StepAsked("EraseBlock") = ScriptOf("EraseBlock")[2]
    BY <2>2, <2>4, Zenon
  <2>7. QED
    BY <2>3, <2>5, <2>6
<1>5. CASE f.st = "CMD2Issue"
  <2>1. AskOf("EraseBlock") = Ask("ACS", 0, TRUE, Code(ConfirmErase(f)))
    BY <1>2, <1>5 DEF AskOf, EraseBlockAsk, Code, ConfirmErase
  <2>2. StepAsked("EraseBlock") = StepOf("ACS", TRUE, 1, Code(ConfirmErase(f)), "EraseBlock")
    BY <2>1, AskedStep, 0 + 1 = 1, 2 + 1 = 3, 4 + 1 = 5, Zenon
  <2>3. Performed("EraseBlock") = 2
    BY <1>2, <1>5 DEF Performed, EraseBlockPerformed, Starting
  <2>4. ScriptOf("EraseBlock")[3] = StepOf("ACS", TRUE, 1, Code(ConfirmErase(f)), "EraseBlock")
    BY EraseBlockScript
  <2>5. Len(ScriptOf("EraseBlock")) = 3
    BY EraseBlockScript
  <2>6. StepAsked("EraseBlock") = ScriptOf("EraseBlock")[3]
    BY <2>2, <2>4, Zenon
  <2>7. QED
    BY <2>3, <2>5, <2>6
<1>6. QED
  BY <1>1, <1>2, <1>3, <1>4, <1>5 DEF PhasesOf

(* ReadStatus: the request of a phase is the next step of the sequence.    *)
LEMMA ReadStatusSteps ==
  ASSUME TypeOK, PhasesRight, Active("ReadStatus"), AskOf("ReadStatus").cmd \in Kinds,
         ~fsm["ReadStatus"].trans
  PROVE  /\ Performed("ReadStatus") + 1 \in 1..Len(ScriptOf("ReadStatus"))
         /\ StepAsked("ReadStatus") = ScriptOf("ReadStatus")[Performed("ReadStatus") + 1]
<1> DEFINE f == fsm["ReadStatus"]
<1>1. f.st \in PhasesOf("ReadStatus") \cap {"CMDIssue", "ADDRIssue", "DATAIssue", "CMD2Issue"}
  BY AsksAre DEF Ops
<1>2. f.st = "ADDRIssue" => Enhanced(f)
  BY AsksAre DEF Ops, PhasesRight, ReadParam
<1>3. CASE f.st = "CMDIssue" /\ Enhanced(f)
  <2>1. AskOf("ReadStatus") = Ask("ACS", 0, TRUE, Code("78h"))
    BY <1>2, <1>3 DEF AskOf, ReadStatusAsk, Code
  <2>2. StepAsked("ReadStatus") = StepOf("ACS", TRUE, 1, Code("78h"), "ReadStatus")
    BY <2>1, AskedStep, 0 + 1 = 1, 2 + 1 = 3, 4 + 1 = 5, Zenon
  <2>3. Performed("ReadStatus") = 0
    BY <1>2, <1>3 DEF Performed, ReadStatusPerformed, Starting
  <2>4. ScriptOf("ReadStatus")[1] = StepOf("ACS", TRUE, 1, Code("78h"), "ReadStatus")
    BY <1>3, ReadEnhancedScript
  <2>5. Len(ScriptOf("ReadStatus")) = 3
    BY <1>3, ReadEnhancedScript
  <2>6. StepAsked("ReadStatus") = ScriptOf("ReadStatus")[1]
    BY <2>2, <2>4, Zenon
  <2>7. QED
    BY <2>3, <2>5, <2>6
<1>4. CASE f.st = "ADDRIssue" /\ Enhanced(f)
  <2>1. AskOf("ReadStatus") = Ask("ACS", 2, FALSE, RowAddr(f))
    BY <1>2, <1>4 DEF AskOf, ReadStatusAsk, Code
  <2>2. StepAsked("ReadStatus") = StepOf("ACS", FALSE, 3, RowAddr(f), "ReadStatus")
    BY <2>1, AskedStep, 0 + 1 = 1, 2 + 1 = 3, 4 + 1 = 5, Zenon
  <2>3. Performed("ReadStatus") = 1
    BY <1>2, <1>4 DEF Performed, ReadStatusPerformed, Starting
  <2>4. ScriptOf("ReadStatus")[2] = StepOf("ACS", FALSE, 3, RowAddr(f), "ReadStatus")
    BY <1>4, ReadEnhancedScript
  <2>5. Len(ScriptOf("ReadStatus")) = 3
    BY <1>4, ReadEnhancedScript
  <2>6. StepAsked("ReadStatus") = ScriptOf("ReadStatus")[2]
    BY <2>2, <2>4, Zenon
  <2>7. QED
    BY <2>3, <2>5, <2>6
<1>5. CASE f.st = "DATAIssue" /\ Enhanced(f)
  <2>1. AskOf("ReadStatus") = Ask("DIS", 2, FALSE, Code("00h"))
    BY <1>2, <1>5 DEF AskOf, ReadStatusAsk, Code
  <2>2. StepAsked("ReadStatus") = StepOf("DIS", FALSE, 2, DataBytes, "ReadStatus")
    BY <2>1, AskedStep, Zenon
  <2>3. Performed("ReadStatus") = 2
    BY <1>2, <1>5 DEF Performed, ReadStatusPerformed, Starting
  <2>4. ScriptOf("ReadStatus")[3] = StepOf("DIS", FALSE, 2, DataBytes, "ReadStatus")
    BY <1>5, ReadEnhancedScript
  <2>5. Len(ScriptOf("ReadStatus")) = 3
    BY <1>5, ReadEnhancedScript
  <2>6. StepAsked("ReadStatus") = ScriptOf("ReadStatus")[3]
    BY <2>2, <2>4, Zenon
  <2>7. QED
    BY <2>3, <2>5, <2>6
<1>6. CASE f.st = "CMDIssue" /\ ~Enhanced(f)
  <2>1. AskOf("ReadStatus") = Ask("ACS", 0, TRUE, Code("70h"))
    BY <1>2, <1>6 DEF AskOf, ReadStatusAsk, Code
  <2>2. StepAsked("ReadStatus") = StepOf("ACS", TRUE, 1, Code("70h"), "ReadStatus")
    BY <2>1, AskedStep, 0 + 1 = 1, 2 + 1 = 3, 4 + 1 = 5, Zenon
  <2>3. Performed("ReadStatus") = 0
    BY <1>2, <1>6 DEF Performed, ReadStatusPerformed, Starting
  <2>4. ScriptOf("ReadStatus")[1] = StepOf("ACS", TRUE, 1, Code("70h"), "ReadStatus")
    BY <1>6, ReadStatusScript
  <2>5. Len(ScriptOf("ReadStatus")) = 2
    BY <1>6, ReadStatusScript
  <2>6. StepAsked("ReadStatus") = ScriptOf("ReadStatus")[1]
    BY <2>2, <2>4, Zenon
  <2>7. QED
    BY <2>3, <2>5, <2>6
<1>7. CASE f.st = "DATAIssue" /\ ~Enhanced(f)
  <2>1. AskOf("ReadStatus") = Ask("DIS", 2, FALSE, Code("00h"))
    BY <1>2, <1>7 DEF AskOf, ReadStatusAsk, Code
  <2>2. StepAsked("ReadStatus") = StepOf("DIS", FALSE, 2, DataBytes, "ReadStatus")
    BY <2>1, AskedStep, Zenon
  <2>3. Performed("ReadStatus") = 1
    BY <1>2, <1>7 DEF Performed, ReadStatusPerformed, Starting
  <2>4. ScriptOf("ReadStatus")[2] = StepOf("DIS", FALSE, 2, DataBytes, "ReadStatus")
    BY <1>7, ReadStatusScript
  <2>5. Len(ScriptOf("ReadStatus")) = 2
    BY <1>7, ReadStatusScript
  <2>6. StepAsked("ReadStatus") = ScriptOf("ReadStatus")[2]
    BY <2>2, <2>4, Zenon
  <2>7. QED
    BY <2>3, <2>5, <2>6
<1>8. QED
  BY <1>1, <1>2, <1>3, <1>4, <1>5, <1>6, <1>7 DEF PhasesOf

(***************************************************************************)
(* What a clock edge does to a machine at work.                            *)
(***************************************************************************)

\* A bus step ends at this edge.
Stepping(o) == fsm[o].trans \/ \E k \in Kinds : LastStep(k)

\* The machine's count of steps goes up with them, and is full when it ends.
Advances(o) ==
  /\ fsm'[o].st \in PhasesOf(o) \cup {"READY"}
  /\ Working(o) /\ Working(o)' /\ Stepping(o) => Performed(o)' = Performed(o) + 1
  /\ Working(o) /\ Working(o)' /\ ~Stepping(o) => Performed(o)' = Performed(o)
  /\ Working(o) /\ ~Working(o)' => ~Stepping(o) /\ Performed(o) = Len(ScriptOf(o))

(* The registers that sequence a machine, after an edge.                   *)
LEMMA NextFields ==
  ASSUME NEW w, NEW rb, NEW finishing, Clock(w, rb, finishing), NEW o \in Ops
  PROVE  /\ fsm'[o].st = NextState(o)
         /\ fsm'[o].last <=> LastNext(o, NextState(o))
         /\ fsm'[o].trans <=> TransNext(o, NextState(o))
BY DEF Clock, Logic, MachineNext

(* A machine at work keeps the operands it has latched.                    *)
LEMMA OperandsKept ==
  ASSUME NEW w, NEW rb, NEW finishing, Clock(w, rb, finishing), NEW o \in Ops,
         NextState(o) \notin {"READY", "CMDLatch"},
         ~(o = "EraseBlock" /\ NextState(o) = "WaitRBLow")
  PROVE  /\ fsm'[o].target = fsm[o].target /\ fsm'[o].len = fsm[o].len
         /\ fsm'[o].col = fsm[o].col /\ fsm'[o].row = fsm[o].row /\ fsm'[o].way = fsm[o].way
BY DEF Clock, Logic, MachineNext, Latched, Cleared, WayNext

(* Reset: phase by phase, the count of steps follows the bus.              *)
LEMMA ResetAdvances ==
  ASSUME NEW w, NEW rb, NEW finishing, Clock(w, rb, finishing), PhasesRight, Pulses,
         Active("Reset"), \A k \in Kinds : LastStep(k) => AskOf("Reset").cmd = k
  PROVE  Advances("Reset")
<1> DEFINE f == fsm["Reset"]
<1>1. f.st \in PhasesOf("Reset") /\ ~f.trans
  BY DEF PhasesRight, Pulses, Ops
<1>2. /\ fsm'["Reset"].st = NextState("Reset")
  BY NextFields DEF Ops
<1>3. CASE f.st = "CMDLatch"
  <2>1. ~Stepping("Reset")
    BY <1>1, <1>3 DEF Stepping, AskOf, ResetAsk, AskNothing, Ask, Kinds
  <2>2. fsm'["Reset"].st = "CMDIssue"
    BY <1>2, <1>3 DEF NextState
  <2>3. QED
    BY <1>1, <1>3, <2>1, <2>2 DEF Advances, Working, Active, Performed, ResetPerformed,
       Starting, PhasesOf
<1>4. CASE f.st = "CMDIssue"
  <2>1. Stepping("Reset") <=> LastStep("ACA")
    BY <1>1, <1>4 DEF Stepping, AskOf, ResetAsk, AskNothing, Ask, Kinds
  <2>2. fsm'["Reset"].st = IF LastStep("ACA") THEN "WaitRBLow" ELSE "CMDIssue"
    BY <1>2, <1>4 DEF NextState, ResetNext
  <2>3. QED
    BY <1>1, <1>4, <2>1, <2>2 DEF Advances, Working, Active, Performed, ResetPerformed,
       Starting, PhasesOf
<1>5. CASE f.st \in {"WaitRBLow", "WaitRBHigh"}
  <2>1. ~Stepping("Reset")
    BY <1>1, <1>5 DEF Stepping, AskOf, ResetAsk, AskNothing, Ask, Kinds
  <2>2. fsm'["Reset"].st \in {"WaitRBLow", "WaitRBHigh", "READY"}
    BY <1>2, <1>5 DEF NextState, ResetNext
  <2>3. QED
    BY <1>1, <1>5, <2>1, <2>2, ResetScript DEF Advances, Working, Active, Performed,
       ResetPerformed, Starting, PhasesOf
<1>6. QED
  BY <1>1, <1>3, <1>4, <1>5 DEF PhasesOf

(* SetFeature: phase by phase, the count of steps follows the bus.         *)
LEMMA SetFeatureAdvances ==
  ASSUME NEW w, NEW rb, NEW finishing, Clock(w, rb, finishing), PhasesRight, Pulses,
         Active("SetFeature"), \A k \in Kinds : LastStep(k) => AskOf("SetFeature").cmd = k
  PROVE  Advances("SetFeature")
<1> DEFINE f == fsm["SetFeature"]
           g == fsm'["SetFeature"]
<1>1. f.st \in PhasesOf("SetFeature") /\ ~f.trans
  BY DEF PhasesRight, Pulses, Ops
<1>2. /\ g.st = NextState("SetFeature")
      /\ g.last <=> LastNext("SetFeature", NextState("SetFeature"))
      /\ g.trans <=> TransNext("SetFeature", NextState("SetFeature"))
      /\ NextState("SetFeature") \notin {"READY", "CMDLatch"} => g.target = f.target
  BY NextFields, OperandsKept DEF Ops
<1>3. Len(ScriptOf("SetFeature")) = 3
  BY SetFeatureScript
<1>4. CASE f.st = "CMDLatch"
  <2>1. ~Stepping("SetFeature")
    BY <1>1, <1>4 DEF Stepping, AskOf, SetFeatureAsk, AskNothing, Ask, Kinds
  <2>2. g.st = "CMDIssue"
    BY <1>1, <1>2, <1>4 DEF NextState, SetFeatureNext, LastNext, TransNext, LastStep, RBOps
  <2>3. QED
    BY <1>1, <1>2, <1>4, <2>1, <2>2, <1>3 DEF Advances, Working, Active, Performed,
       SetFeaturePerformed, Starting, PhasesOf
<1>5. CASE f.st = "CMDIssue"
  <2>1. Stepping("SetFeature") <=> LastStep("ACA")
    BY <1>1, <1>5 DEF Stepping, AskOf, SetFeatureAsk, AskNothing, Ask, Kinds
  <2>2. g.st = IF LastStep("ACA") THEN "ADDRIssue" ELSE "CMDIssue"
    BY <1>1, <1>2, <1>5 DEF NextState, SetFeatureNext, LastNext, TransNext, LastStep, RBOps
  <2>3. QED
    BY <1>1, <1>2, <1>5, <2>1, <2>2, <1>3 DEF Advances, Working, Active, Performed,
       SetFeaturePerformed, Starting, PhasesOf
<1>6. CASE f.st = "ADDRIssue"
  <2>1. Stepping("SetFeature") <=> LastStep("ACA")
    BY <1>1, <1>6 DEF Stepping, AskOf, SetFeatureAsk, AskNothing, Ask, Kinds
  <2>2. g.st = IF LastStep("ACA") THEN "DATAIssue" ELSE "ADDRIssue"
    BY <1>1, <1>2, <1>6 DEF NextState, SetFeatureNext, LastNext, TransNext, LastStep, RBOps
  <2>3. QED
    BY <1>1, <1>2, <1>6, <2>1, <2>2, <1>3 DEF Advances, Working, Active, Performed,
       SetFeaturePerformed, Starting, PhasesOf
<1>7. CASE f.st = "DATAIssue"
  <2>1. Stepping("SetFeature") <=> LastStep("DOA")
    BY <1>1, <1>7 DEF Stepping, AskOf, SetFeatureAsk, AskNothing, Ask, Kinds
  <2>2. g.st = IF LastStep("DOA") THEN "WaitRBLow" ELSE "DATAIssue"
    BY <1>1, <1>2, <1>7 DEF NextState, SetFeatureNext, LastNext, TransNext, LastStep, RBOps
  <2>3. QED
    BY <1>1, <1>2, <1>7, <2>1, <2>2, <1>3 DEF Advances, Working, Active, Performed,
       SetFeaturePerformed, Starting, PhasesOf
<1>8. CASE f.st \in {"WaitRBLow", "WaitRBHigh"}
  <2>1. ~Stepping("SetFeature")
    BY <1>1, <1>8 DEF Stepping, AskOf, SetFeatureAsk, AskNothing, Ask, Kinds
  <2>2. g.st \in {"WaitRBLow", "WaitRBHigh", "READY"}
    BY <1>1, <1>2, <1>8 DEF NextState, SetFeatureNext, LastNext, TransNext, LastStep, RBOps
  <2>3. QED
    BY <1>1, <1>2, <1>8, <2>1, <2>2, <1>3 DEF Advances, Working, Active, Performed,
       SetFeaturePerformed, Starting, PhasesOf
<1>9. QED
  BY <1>1, <1>4, <1>5, <1>6, <1>7, <1>8 DEF PhasesOf

(* GetFeature: phase by phase, the count of steps follows the bus.         *)
LEMMA GetFeatureAdvances ==
  ASSUME NEW w, NEW rb, NEW finishing, Clock(w, rb, finishing), PhasesRight, Pulses,
         Active("GetFeature"), \A k \in Kinds : LastStep(k) => AskOf("GetFeature").cmd = k
  PROVE  Advances("GetFeature")
<1> DEFINE f == fsm["GetFeature"]
           g == fsm'["GetFeature"]
<1>1. f.st \in PhasesOf("GetFeature") /\ ~f.trans
  BY DEF PhasesRight, Pulses, Ops
<1>2. /\ g.st = NextState("GetFeature")
      /\ g.last <=> LastNext("GetFeature", NextState("GetFeature"))
      /\ g.trans <=> TransNext("GetFeature", NextState("GetFeature"))
      /\ NextState("GetFeature") \notin {"READY", "CMDLatch"} => g.target = f.target
  BY NextFields, OperandsKept DEF Ops
<1>3. Len(ScriptOf("GetFeature")) = 3
  BY GetFeatureScript
<1>4. CASE f.st = "CMDLatch"
  <2>1. ~Stepping("GetFeature")
    BY <1>1, <1>4 DEF Stepping, AskOf, GetFeatureAsk, AskNothing, Ask, Kinds
  <2>2. g.st = "CMDIssue"
    BY <1>1, <1>2, <1>4 DEF NextState, GetFeatureNext, LastNext, TransNext, LastStep, RBOps
  <2>3. QED
    BY <1>1, <1>2, <1>4, <2>1, <2>2, <1>3 DEF Advances, Working, Active, Performed,
       GetFeaturePerformed, Starting, PhasesOf
<1>5. CASE f.st = "CMDIssue"
  <2>1. Stepping("GetFeature") <=> LastStep("ACS")
    BY <1>1, <1>5 DEF Stepping, AskOf, GetFeatureAsk, AskNothing, Ask, Kinds
  <2>2. g.st = IF LastStep("ACS") THEN "ADDRIssue" ELSE "CMDIssue"
    BY <1>1, <1>2, <1>5 DEF NextState, GetFeatureNext, LastNext, TransNext, LastStep, RBOps
  <2>3. QED
    BY <1>1, <1>2, <1>5, <2>1, <2>2, <1>3 DEF Advances, Working, Active, Performed,
       GetFeaturePerformed, Starting, PhasesOf
<1>6. CASE f.st = "ADDRIssue"
  <2>1. Stepping("GetFeature") <=> LastStep("ACS")
    BY <1>1, <1>6 DEF Stepping, AskOf, GetFeatureAsk, AskNothing, Ask, Kinds
  <2>2. g.st = IF LastStep("ACS") THEN "WaitRBLow" ELSE "ADDRIssue"
    BY <1>1, <1>2, <1>6 DEF NextState, GetFeatureNext, LastNext, TransNext, LastStep, RBOps
  <2>3. QED
    BY <1>1, <1>2, <1>6, <2>1, <2>2, <1>3 DEF Advances, Working, Active, Performed,
       GetFeaturePerformed, Starting, PhasesOf
<1>7. CASE f.st \in {"WaitRBLow", "WaitRBHigh"}
  <2>1. ~Stepping("GetFeature")
    BY <1>1, <1>7 DEF Stepping, AskOf, GetFeatureAsk, AskNothing, Ask, Kinds
  <2>2. g.st \in {"WaitRBLow", "WaitRBHigh"} \/ (g.st = "DATAIssue" /\ ~g.last)
    BY <1>1, <1>2, <1>7 DEF NextState, GetFeatureNext, LastNext, TransNext, LastStep, RBOps,
       AskOf, GetFeatureAsk, AskNothing, Ask, Kinds
  <2>3. QED
    BY <1>1, <1>2, <1>7, <2>1, <2>2, <1>3 DEF Advances, Working, Active, Performed,
       GetFeaturePerformed, Starting, PhasesOf
<1>8. CASE f.st = "DATAIssue" /\ ~f.last
  <2>1. Stepping("GetFeature") <=> LastStep("DIS")
    BY <1>1, <1>8 DEF Stepping, AskOf, GetFeatureAsk, AskNothing, Ask, Kinds
  <2>2. g.st = "DATAIssue" /\ (g.last <=> LastStep("DIS"))
    BY <1>1, <1>2, <1>8 DEF NextState, GetFeatureNext, LastNext, TransNext, LastStep, RBOps
  <2>3. QED
    BY <1>1, <1>2, <1>8, <2>1, <2>2, <1>3 DEF Advances, Working, Active, Performed,
       GetFeaturePerformed, Starting, PhasesOf
<1>9. CASE f.st = "DATAIssue" /\ f.last
  <2>1. ~Stepping("GetFeature")
    BY <1>1, <1>9 DEF Stepping, AskOf, GetFeatureAsk, AskNothing, Ask, Kinds
  <2>2. g.st = "READY"
    BY <1>1, <1>2, <1>9 DEF NextState, GetFeatureNext, LastNext, TransNext, LastStep, RBOps
  <2>3. QED
    BY <1>1, <1>2, <1>9, <2>1, <2>2, <1>3 DEF Advances, Working, Active, Performed,
       GetFeaturePerformed, Starting, PhasesOf
<1>10. QED
  BY <1>1, <1>4, <1>5, <1>6, <1>7, <1>8, <1>9 DEF PhasesOf

(* ProgramPage: phase by phase, the count of steps follows the bus.        *)
LEMMA ProgramPageAdvances ==
  ASSUME NEW w, NEW rb, NEW finishing, Clock(w, rb, finishing), PhasesRight, Pulses,
         Active("ProgramPage"), \A k \in Kinds : LastStep(k) => AskOf("ProgramPage").cmd = k
  PROVE  Advances("ProgramPage")
<1> DEFINE f == fsm["ProgramPage"]
           g == fsm'["ProgramPage"]
<1>1. f.st \in PhasesOf("ProgramPage") /\ (f.trans <=> f.st = "CMDLatch")
  BY DEF PhasesRight, Pulses, Ops
<1>2. /\ g.st = NextState("ProgramPage")
      /\ g.last <=> LastNext("ProgramPage", NextState("ProgramPage"))
      /\ g.trans <=> TransNext("ProgramPage", NextState("ProgramPage"))
      /\ NextState("ProgramPage") \notin {"READY", "CMDLatch"} => g.target = f.target
  BY NextFields, OperandsKept DEF Ops
<1>3. Len(ScriptOf("ProgramPage")) = 5
  BY ProgramPageScript
<1>4. CASE f.st = "CMDLatch"
  <2>1. Stepping("ProgramPage")
    BY <1>1, <1>4 DEF Stepping, AskOf, ProgramPageAsk, AskNothing, Ask, Kinds
  <2>2. g.st = "CMDIssue"
    BY <1>1, <1>2, <1>4 DEF NextState, ProgramPageNext, LastNext, TransNext, LastStep, RBOps
  <2>3. QED
    BY <1>1, <1>2, <1>4, <2>1, <2>2, <1>3 DEF Advances, Working, Active, Performed,
       ProgramPagePerformed, Starting, PhasesOf
<1>5. CASE f.st = "CMDIssue"
  <2>1. Stepping("ProgramPage") <=> LastStep("ACS")
    BY <1>1, <1>5 DEF Stepping, AskOf, ProgramPageAsk, AskNothing, Ask, Kinds
  <2>2. g.st = IF LastStep("ACS") THEN "ADDRIssue" ELSE "CMDIssue"
    BY <1>1, <1>2, <1>5 DEF NextState, ProgramPageNext, LastNext, TransNext, LastStep, RBOps
  <2>3. QED
    BY <1>1, <1>2, <1>5, <2>1, <2>2, <1>3 DEF Advances, Working, Active, Performed,
       ProgramPagePerformed, Starting, PhasesOf
<1>6. CASE f.st = "ADDRIssue"
  <2>1. Stepping("ProgramPage") <=> LastStep("ACS")
    BY <1>1, <1>6 DEF Stepping, AskOf, ProgramPageAsk, AskNothing, Ask, Kinds
  <2>2. g.st = IF LastStep("ACS") THEN "DATAIssue" ELSE "ADDRIssue"
    BY <1>1, <1>2, <1>6 DEF NextState, ProgramPageNext, LastNext, TransNext, LastStep, RBOps
  <2>3. QED
    BY <1>1, <1>2, <1>6, <2>1, <2>2, <1>3 DEF Advances, Working, Active, Performed,
       ProgramPagePerformed, Starting, PhasesOf
<1>7. CASE f.st = "DATAIssue"
  <2>1. Stepping("ProgramPage") <=> LastStep("DOS")
    BY <1>1, <1>7 DEF Stepping, AskOf, ProgramPageAsk, AskNothing, Ask, Kinds
  <2>2. IF LastStep("DOS") THEN g.st = "CMD2Issue" /\ ~g.last ELSE g.st = "DATAIssue"
    BY <1>1, <1>2, <1>7 DEF NextState, ProgramPageNext, LastNext, TransNext, LastStep, RBOps,
       AskOf, ProgramPageAsk, AskNothing, Ask, Kinds
  <2>3. QED
    BY <1>1, <1>2, <1>7, <2>1, <2>2, <1>3 DEF Advances, Working, Active, Performed,
       ProgramPagePerformed, Starting, PhasesOf
<1>8. CASE f.st = "CMD2Issue" /\ ~f.last
  <2>1. Stepping("ProgramPage") <=> LastStep("ACS")
    BY <1>1, <1>8 DEF Stepping, AskOf, ProgramPageAsk, AskNothing, Ask, Kinds
  <2>2. g.st = "CMD2Issue" /\ (g.last <=> LastStep("ACS"))
    BY <1>1, <1>2, <1>8 DEF NextState, ProgramPageNext, LastNext, TransNext, LastStep, RBOps
  <2>3. QED
    BY <1>1, <1>2, <1>8, <2>1, <2>2, <1>3 DEF Advances, Working, Active, Performed,
       ProgramPagePerformed, Starting, PhasesOf
<1>9. CASE f.st = "CMD2Issue" /\ f.last
  <2>1. ~Stepping("ProgramPage")
    BY <1>1, <1>9 DEF Stepping, AskOf, ProgramPageAsk, AskNothing, Ask, Kinds
  <2>2. g.st = "READY"
    BY <1>1, <1>2, <1>9 DEF NextState, ProgramPageNext, LastNext, TransNext, LastStep, RBOps
  <2>3. QED
    BY <1>1, <1>2, <1>9, <2>1, <2>2, <1>3 DEF Advances, Working, Active, Performed,
       ProgramPagePerformed, Starting, PhasesOf
<1>10. QED
  BY <1>1, <1>4, <1>5, <1>6, <1>7, <1>8, <1>9 DEF PhasesOf

(* EraseBlock: phase by phase, the count of steps follows the bus.         *)
LEMMA EraseBlockAdvances ==
  ASSUME NEW w, NEW rb, NEW finishing, Clock(w, rb, finishing), PhasesRight, Pulses,
         Active("EraseBlock"), \A k \in Kinds : LastStep(k) => AskOf("EraseBlock").cmd = k
  PROVE  Advances("EraseBlock")
<1> DEFINE f == fsm["EraseBlock"]
           g == fsm'["EraseBlock"]
<1>1. f.st \in PhasesOf("EraseBlock") /\ ~f.trans
  BY DEF PhasesRight, Pulses, Ops
<1>2. /\ g.st = NextState("EraseBlock")
      /\ g.last <=> LastNext("EraseBlock", NextState("EraseBlock"))
      /\ g.trans <=> TransNext("EraseBlock", NextState("EraseBlock"))
      /\ NextState("EraseBlock") \notin {"READY", "CMDLatch", "WaitRBLow"} => g.target = f.target
  BY NextFields, OperandsKept DEF Ops
<1>3. Len(ScriptOf("EraseBlock")) = 3
  BY EraseBlockScript
<1>4. CASE f.st = "CMDLatch"
  <2>1. ~Stepping("EraseBlock")
    BY <1>1, <1>4 DEF Stepping, AskOf, EraseBlockAsk, AskNothing, Ask, Kinds
  <2>2. g.st = "CMDIssue"
    BY <1>1, <1>2, <1>4 DEF NextState, EraseBlockNext, LastNext, TransNext, LastStep, RBOps
  <2>3. QED
    BY <1>1, <1>2, <1>4, <2>1, <2>2, <1>3 DEF Advances, Working, Active, Performed,
       EraseBlockPerformed, Starting, PhasesOf
<1>5. CASE f.st = "CMDIssue"
  <2>1. Stepping("EraseBlock") <=> LastStep("ACS")
    BY <1>1, <1>5 DEF Stepping, AskOf, EraseBlockAsk, AskNothing, Ask, Kinds
  <2>2. g.st = IF LastStep("ACS") THEN "ADDRIssue" ELSE "CMDIssue"
    BY <1>1, <1>2, <1>5 DEF NextState, EraseBlockNext, LastNext, TransNext, LastStep, RBOps
  <2>3. QED
    BY <1>1, <1>2, <1>5, <2>1, <2>2, <1>3 DEF Advances, Working, Active, Performed,
       EraseBlockPerformed, Starting, PhasesOf
<1>6. CASE f.st = "ADDRIssue"
  <2>1. Stepping("EraseBlock") <=> LastStep("ACS")
    BY <1>1, <1>6 DEF Stepping, AskOf, EraseBlockAsk, AskNothing, Ask, Kinds
  <2>2. /\ g.st = IF LastStep("ACS") THEN "CMD2Issue" ELSE "ADDRIssue"
       /\ ~g.last
    BY <1>1, <1>2, <1>6 DEF NextState, EraseBlockNext, LastNext, TransNext, LastStep, RBOps
  <2>3. QED
    BY <1>1, <1>2, <1>6, <2>1, <2>2, <1>3 DEF Advances, Working, Active, Performed,
       EraseBlockPerformed, Starting, PhasesOf
<1>7. CASE f.st = "CMD2Issue" /\ ~f.last
  <2>1. Stepping("EraseBlock") <=> LastStep("ACS")
    BY <1>1, <1>7 DEF Stepping, AskOf, EraseBlockAsk, AskNothing, Ask, Kinds
  <2>2. g.st = "CMD2Issue" /\ (g.last <=> LastStep("ACS"))
    BY <1>1, <1>2, <1>7 DEF NextState, EraseBlockNext, LastNext, TransNext, LastStep, RBOps
  <2>3. QED
    BY <1>1, <1>2, <1>7, <2>1, <2>2, <1>3 DEF Advances, Working, Active, Performed,
       EraseBlockPerformed, Starting, PhasesOf
<1>8. CASE f.st = "CMD2Issue" /\ f.last
  <2>1. ~Stepping("EraseBlock")
    BY <1>1, <1>8 DEF Stepping, AskOf, EraseBlockAsk, AskNothing, Ask, Kinds
  <2>2. g.st = "WaitRBLow"
    BY <1>1, <1>2, <1>8 DEF NextState, EraseBlockNext, LastNext, TransNext, LastStep, RBOps
  <2>3. QED
    BY <1>1, <1>2, <1>8, <2>1, <2>2, <1>3 DEF Advances, Working, Active, Performed,
       EraseBlockPerformed, Starting, PhasesOf
<1>9. CASE f.st = "WaitRBLow"
  <2>1. ~Stepping("EraseBlock")
    BY <1>1, <1>9 DEF Stepping, AskOf, EraseBlockAsk, AskNothing, Ask, Kinds
  <2>2. g.st = "READY"
    BY <1>1, <1>2, <1>9 DEF NextState, EraseBlockNext, LastNext, TransNext, LastStep, RBOps
  <2>3. QED
    BY <1>1, <1>2, <1>9, <2>1, <2>2, <1>3 DEF Advances, Working, Active, Performed,
       EraseBlockPerformed, Starting, PhasesOf
<1>10. QED
  BY <1>1, <1>4, <1>5, <1>6, <1>7, <1>8, <1>9 DEF PhasesOf

(* ReadStatus: phase by phase, the count of steps follows the bus.         *)
LEMMA ReadStatusAdvances ==
  ASSUME NEW w, NEW rb, NEW finishing, Clock(w, rb, finishing), PhasesRight, Pulses,
         Active("ReadStatus"), \A k \in Kinds : LastStep(k) => AskOf("ReadStatus").cmd = k
  PROVE  Advances("ReadStatus")
<1> DEFINE f == fsm["ReadStatus"]
           g == fsm'["ReadStatus"]
<1>1. f.st \in PhasesOf("ReadStatus") /\ ~f.trans /\ (f.st = "ADDRIssue" => Enhanced(f))
  BY DEF PhasesRight, Pulses, Ops
<1>2. /\ g.st = NextState("ReadStatus")
      /\ g.last <=> LastNext("ReadStatus", NextState("ReadStatus"))
      /\ g.trans <=> TransNext("ReadStatus", NextState("ReadStatus"))
      /\ NextState("ReadStatus") \notin {"READY", "CMDLatch"} => g.target = f.target
  BY NextFields, OperandsKept DEF Ops
<1>3. Len(ScriptOf("ReadStatus")) = IF Enhanced(f) THEN 3 ELSE 2
  BY ReadStatusScript, ReadEnhancedScript
<1>4. CASE f.st = "CMDLatch"
  <2>1. ~Stepping("ReadStatus")
    BY <1>1, <1>4 DEF Stepping, AskOf, ReadStatusAsk, AskNothing, Ask, Kinds, Enhanced
  <2>2. g.st = "CMDIssue"
    BY <1>1, <1>2, <1>4 DEF NextState, ReadStatusNext, LastNext, TransNext, LastStep, RBOps
  <2>3. QED
    BY <1>1, <1>2, <1>4, <2>1, <2>2, <1>3 DEF Advances, Working, Active, Performed,
       ReadStatusPerformed, Starting, PhasesOf, Enhanced
<1>5. CASE f.st = "CMDIssue"
  <2>1. Stepping("ReadStatus") <=> LastStep("ACS")
    BY <1>1, <1>5 DEF Stepping, AskOf, ReadStatusAsk, AskNothing, Ask, Kinds, Enhanced
  <2>2. g.st = IF LastStep("ACS") THEN (IF Enhanced(f) THEN "ADDRIssue" ELSE "DATAIssue") ELSE "CMDIssue"
    BY <1>1, <1>2, <1>5 DEF NextState, ReadStatusNext, LastNext, TransNext, LastStep, RBOps,
       Enhanced
  <2>3. QED
    BY <1>1, <1>2, <1>5, <2>1, <2>2, <1>3 DEF Advances, Working, Active, Performed,
       ReadStatusPerformed, Starting, PhasesOf, Enhanced
<1>6. CASE f.st = "ADDRIssue"
  <2>1. Stepping("ReadStatus") <=> LastStep("ACS")
    BY <1>1, <1>6 DEF Stepping, AskOf, ReadStatusAsk, AskNothing, Ask, Kinds, Enhanced
  <2>2. g.st = IF LastStep("ACS") THEN "DATAIssue" ELSE "ADDRIssue"
    BY <1>1, <1>2, <1>6 DEF NextState, ReadStatusNext, LastNext, TransNext, LastStep, RBOps
  <2>3. QED
    BY <1>1, <1>2, <1>6, <2>1, <2>2, <1>3 DEF Advances, Working, Active, Performed,
       ReadStatusPerformed, Starting, PhasesOf, Enhanced
<1>7. CASE f.st = "DATAIssue"
  <2>1. Stepping("ReadStatus") <=> LastStep("DIS")
    BY <1>1, <1>7 DEF Stepping, AskOf, ReadStatusAsk, AskNothing, Ask, Kinds, Enhanced
  <2>2. g.st = IF LastStep("DIS") THEN "WaitRBLow" ELSE "DATAIssue"
    BY <1>1, <1>2, <1>7 DEF NextState, ReadStatusNext, LastNext, TransNext, LastStep, RBOps
  <2>3. QED
    BY <1>1, <1>2, <1>7, <2>1, <2>2, <1>3 DEF Advances, Working, Active, Performed,
       ReadStatusPerformed, Starting, PhasesOf, Enhanced
<1>8. CASE f.st = "WaitRBLow"
  <2>1. ~Stepping("ReadStatus")
    BY <1>1, <1>8 DEF Stepping, AskOf, ReadStatusAsk, AskNothing, Ask, Kinds, Enhanced
  <2>2. g.st \in {"WaitRBLow", "READY"}
    BY <1>1, <1>2, <1>8 DEF NextState, ReadStatusNext, LastNext, TransNext, LastStep, RBOps
  <2>3. QED
    BY <1>1, <1>2, <1>8, <2>1, <2>2, <1>3 DEF Advances, Working, Active, Performed,
       ReadStatusPerformed, Starting, PhasesOf, Enhanced
<1>9. QED
  BY <1>1, <1>4, <1>5, <1>6, <1>7, <1>8 DEF PhasesOf

(* ReadPage: phase by phase, the count of steps follows the bus.           *)
LEMMA ReadPageAdvances ==
  ASSUME NEW w, NEW rb, NEW finishing, Clock(w, rb, finishing), PhasesRight, Pulses, Handshake,
         Active("ReadPage"), \A k \in Kinds : LastStep(k) => AskOf("ReadPage").cmd = k
  PROVE  Advances("ReadPage")
<1> DEFINE f == fsm["ReadPage"]
           g == fsm'["ReadPage"]
<1>1. f.st \in PhasesOf("ReadPage") /\ (f.st = "CMD2Issue" => ~ReadParam(f))
      /\ (f.trans => f.st = "DATAIssue" /\ ~f.last /\ \A k \in Kinds : ~LastStep(k))
  BY DEF PhasesRight, Pulses, Ops, Handshake, LastStep
<1>2. /\ g.st = NextState("ReadPage")
      /\ g.last <=> LastNext("ReadPage", NextState("ReadPage"))
      /\ g.trans <=> TransNext("ReadPage", NextState("ReadPage"))
      /\ NextState("ReadPage") \notin {"READY", "CMDLatch"} => g.target = f.target
  BY NextFields, OperandsKept DEF Ops
<1>3. Len(ScriptOf("ReadPage")) = IF ReadParam(f) THEN 4 ELSE 5
  BY ReadPageScript, ReadParameterScript DEF ReadParam
<1>4. CASE f.st = "CMDLatch"
  <2>1. ~Stepping("ReadPage")
    BY <1>1, <1>4 DEF Stepping, AskOf, ReadPageAsk, AskNothing, Ask, Kinds, ReadParam
  <2>2. g.st = "CMDIssue"
    BY <1>1, <1>2, <1>4 DEF NextState, ReadPageNext, LastNext, TransNext, LastStep, RBOps
  <2>3. QED
    BY <1>1, <1>2, <1>4, <2>1, <2>2, <1>3 DEF Advances, Working, Active, Performed,
       ReadPagePerformed, Starting, PhasesOf, ReadParam
<1>5. CASE f.st = "CMDIssue"
  <2>1. Stepping("ReadPage") <=> LastStep("ACS")
    BY <1>1, <1>5 DEF Stepping, AskOf, ReadPageAsk, AskNothing, Ask, Kinds, ReadParam
  <2>2. g.st = IF LastStep("ACS") THEN "ADDRIssue" ELSE "CMDIssue"
    BY <1>1, <1>2, <1>5 DEF NextState, ReadPageNext, LastNext, TransNext, LastStep, RBOps
  <2>3. QED
    BY <1>1, <1>2, <1>5, <2>1, <2>2, <1>3 DEF Advances, Working, Active, Performed,
       ReadPagePerformed, Starting, PhasesOf, ReadParam
<1>6. CASE f.st = "ADDRIssue"
  <2>1. Stepping("ReadPage") <=> LastStep("ACS")
    BY <1>1, <1>6 DEF Stepping, AskOf, ReadPageAsk, AskNothing, Ask, Kinds, ReadParam
  <2>2. g.st = IF LastStep("ACS") THEN (IF ReadParam(f) THEN "WaitRBLow" ELSE "CMD2Issue") ELSE "ADDRIssue"
    BY <1>1, <1>2, <1>6 DEF NextState, ReadPageNext, LastNext, TransNext, LastStep, RBOps, ReadParam
  <2>3. QED
    BY <1>1, <1>2, <1>6, <2>1, <2>2, <1>3 DEF Advances, Working, Active, Performed,
       ReadPagePerformed, Starting, PhasesOf, ReadParam
<1>7. CASE f.st = "CMD2Issue"
  <2>1. Stepping("ReadPage") <=> LastStep("ACS")
    BY <1>1, <1>7 DEF Stepping, AskOf, ReadPageAsk, AskNothing, Ask, Kinds, ReadParam
  <2>2. g.st = IF LastStep("ACS") THEN "WaitRBLow" ELSE "CMD2Issue"
    BY <1>1, <1>2, <1>7 DEF NextState, ReadPageNext, LastNext, TransNext, LastStep, RBOps
  <2>3. QED
    BY <1>1, <1>2, <1>7, <2>1, <2>2, <1>3 DEF Advances, Working, Active, Performed,
       ReadPagePerformed, Starting, PhasesOf, ReadParam
<1>8. CASE f.st \in {"WaitRBLow", "WaitRBHigh"}
  <2>1. ~Stepping("ReadPage")
    BY <1>1, <1>8 DEF Stepping, AskOf, ReadPageAsk, AskNothing, Ask, Kinds, ReadParam
  <2>2. g.st \in {"WaitRBLow", "WaitRBHigh"} \/ (g.st = "DATAIssue" /\ g.trans)
    <3>1. g.st = NextState("ReadPage")
      BY <1>2
    <3>2. CASE f.st = "WaitRBLow"
      <4>1. NextState("ReadPage") \in {"WaitRBLow", "WaitRBHigh"}
        BY <3>2 DEF NextState, ReadPageNext
      <4>2. QED
        BY <3>1, <4>1
    <3>3. CASE f.st = "WaitRBHigh"
      <4>1. NextState("ReadPage") \in {"WaitRBHigh", "DATAIssue"}
        BY <3>3 DEF NextState, ReadPageNext
      <4>2. CASE NextState("ReadPage") = "WaitRBHigh"
        BY <3>1, <4>2
      <4>3. CASE NextState("ReadPage") = "DATAIssue"
        <5>1. TransNext("ReadPage", NextState("ReadPage"))
          BY <3>3, <4>3, Zenon DEF TransNext
        <5>2. QED
          BY <1>2, <4>3, <5>1, Zenon
      <4>4. QED
        BY <4>1, <4>2, <4>3, Zenon
    <3>4. QED
      BY <1>8, <3>2, <3>3
  <2>3. QED
    BY <1>1, <1>2, <1>8, <2>1, <2>2, <1>3 DEF Advances, Working, Active, Performed,
       ReadPagePerformed, Starting, PhasesOf, ReadParam
<1>9. CASE f.st = "DATAIssue" /\ f.trans
  <2>1. Stepping("ReadPage")
    BY <1>1, <1>9 DEF Stepping, AskOf, ReadPageAsk, AskNothing, Ask, Kinds, ReadParam
  <2>2. g.st = "DATAIssue" /\ ~g.trans /\ ~g.last
    <3>1. NextState("ReadPage") = "DATAIssue" /\ ~LastStep("DIS")
      BY <1>1, <1>9 DEF NextState, ReadPageNext, Kinds
    <3>2. QED
      BY <1>2, <1>9, <3>1 DEF LastNext, TransNext, RBOps
  <2>3. QED
    BY <1>1, <1>2, <1>9, <2>1, <2>2, <1>3 DEF Advances, Working, Active, Performed,
       ReadPagePerformed, Starting, PhasesOf, ReadParam
<1>10. CASE f.st = "DATAIssue" /\ ~f.trans /\ ~f.last
  <2>1. Stepping("ReadPage") <=> LastStep("DIS")
    BY <1>1, <1>10 DEF Stepping, AskOf, ReadPageAsk, AskNothing, Ask, Kinds, ReadParam
  <2>2. g.st = "DATAIssue" /\ ~g.trans /\ (g.last <=> LastStep("DIS"))
    BY <1>1, <1>2, <1>10 DEF NextState, ReadPageNext, LastNext, TransNext, LastStep, RBOps
  <2>3. QED
    BY <1>1, <1>2, <1>10, <2>1, <2>2, <1>3 DEF Advances, Working, Active, Performed,
       ReadPagePerformed, Starting, PhasesOf, ReadParam
<1>11. CASE f.st = "DATAIssue" /\ ~f.trans /\ f.last
  <2>1. ~Stepping("ReadPage")
    BY <1>1, <1>11 DEF Stepping, AskOf, ReadPageAsk, AskNothing, Ask, Kinds, ReadParam
  <2>2. g.st = "READY"
    BY <1>1, <1>2, <1>11 DEF NextState, ReadPageNext, LastNext, TransNext, LastStep, RBOps
  <2>3. QED
    BY <1>1, <1>2, <1>11, <2>1, <2>2, <1>3 DEF Advances, Working, Active, Performed,
       ReadPagePerformed, Starting, PhasesOf, ReadParam
<1>12. QED
  BY <1>1, <1>4, <1>5, <1>6, <1>7, <1>8, <1>9, <1>10, <1>11 DEF PhasesOf

(***************************************************************************)
(* All machines together.                                                  *)
(***************************************************************************)

(* What an atom at its last step has done is the step the machine at work  *)
(* asked for.                                                              *)
LEMMA TransferIs ==
  ASSUME TypeOK, Exclusion, Handshake, AtomsCarry, NEW o \in Ops, Active(o),
         NEW k \in Kinds, LastStep(k)
  PROVE  AskOf(o).cmd = k /\ Transfer(k) = StepAsked(o)
<1>1. /\ AskOf(o).cmd = k /\ atom[k].num = AskOf(o).num /\ atom[k].cle = AskOf(o).cle
      /\ atom[k].ca = AskOf(o).ca /\ atom[k].way = fsm[o].way
  BY WorkerAsks DEF AtomsCarry
<1>2. QED
  BY <1>1 DEF Transfer, StepAsked, StepOf, FeatureBytes, DataBytes

(* An atom's last step is the next step of the sequence.                   *)
LEMMA StepIsNext ==
  ASSUME TypeOK, Exclusion, Handshake, AtomsCarry, PhasesRight, NEW o \in Ops, Active(o),
         ~fsm[o].trans, NEW k \in Kinds, LastStep(k)
  PROVE  /\ Performed(o) + 1 \in 1..Len(ScriptOf(o))
         /\ Transfer(k) = ScriptOf(o)[Performed(o) + 1]
<1>1. AskOf(o).cmd \in Kinds /\ Transfer(k) = StepAsked(o)
  BY TransferIs
<1>2. /\ Performed(o) + 1 \in 1..Len(ScriptOf(o))
      /\ StepAsked(o) = ScriptOf(o)[Performed(o) + 1]
  <2>1. CASE o = "Reset"
    BY <1>1, <2>1, ResetSteps
  <2>2. CASE o = "SetFeature"
    BY <1>1, <2>2, SetFeatureSteps
  <2>3. CASE o = "ProgramPage"
    BY <1>1, <2>3, ProgramPageSteps
  <2>4. CASE o = "ReadPage"
    BY <1>1, <2>4, ReadPageSteps
  <2>5. CASE o = "GetFeature"
    BY <1>1, <2>5, GetFeatureSteps
  <2>6. CASE o = "EraseBlock"
    BY <1>1, <2>6, EraseBlockSteps
  <2>7. CASE o = "ReadStatus"
    BY <1>1, <2>7, ReadStatusSteps
  <2>8. QED
    BY <2>1, <2>2, <2>3, <2>4, <2>5, <2>6, <2>7 DEF Ops
<1>3. QED
  BY <1>1, <1>2

(* So is a descriptor pulse, and no atom ends with it.                     *)
LEMMA DescriptorIsNext ==
  ASSUME Handshake, Pulses, NEW o \in Ops, Active(o), fsm[o].trans,
         \A k \in Kinds : LastStep(k) => AskOf(o).cmd = k
  PROVE  /\ Performed(o) + 1 \in 1..Len(ScriptOf(o))
         /\ Descriptor = ScriptOf(o)[Performed(o) + 1]
         /\ \A k \in Kinds : ~LastStep(k)
<1>1. CASE o = "ProgramPage" /\ fsm[o].st = "CMDLatch"
  <2>1. Performed("ProgramPage") = 0
    BY <1>1 DEF Performed, ProgramPagePerformed
  <2>2. Len(ScriptOf("ProgramPage")) = 5 /\ Descriptor = ScriptOf("ProgramPage")[1]
    BY ProgramPageScript, Zenon
  <2>3. \A k \in Kinds : ~LastStep(k)
    BY <1>1 DEF AskOf, ProgramPageAsk, AskNothing, Ask, Kinds
  <2>4. QED
    BY <1>1, <2>1, <2>2, <2>3
<1>2. CASE o = "ReadPage" /\ fsm[o].st = "DATAIssue" /\ ~fsm[o].last
  <2>1. \A k \in Kinds : ~LastStep(k)
    BY <1>2 DEF Pulses, Handshake, LastStep
  <2>2. CASE ReadParam(fsm["ReadPage"])
    <3>1. Performed("ReadPage") = 2
      BY <1>2, <2>2 DEF Performed, ReadPagePerformed, Starting
    <3>2. Len(ScriptOf("ReadPage")) = 4 /\ Descriptor = ScriptOf("ReadPage")[3]
      BY <2>2, ReadParameterScript, Zenon DEF ReadParam
    <3>3. QED
      BY <1>2, <2>1, <3>1, <3>2
  <2>3. CASE ~ReadParam(fsm["ReadPage"])
    <3>1. Performed("ReadPage") = 3
      BY <1>2, <2>3 DEF Performed, ReadPagePerformed, Starting
    <3>2. Len(ScriptOf("ReadPage")) = 5 /\ Descriptor = ScriptOf("ReadPage")[4]
      BY <2>3, ReadPageScript, Zenon DEF ReadParam
    <3>3. QED
      BY <1>2, <2>1, <3>1, <3>2
  <2>4. QED
    BY <2>2, <2>3
<1>3. QED
  BY <1>1, <1>2 DEF Pulses

(* Every active machine keeps count of its steps.                          *)
LEMMA MachineAdvances ==
  ASSUME NEW w, NEW rb, NEW finishing, Clock(w, rb, finishing), TypeOK, Exclusion, Handshake,
         PhasesRight, Pulses, NEW o \in Ops, Active(o)
  PROVE  Advances(o)
<1>1. \A k \in Kinds : LastStep(k) => AskOf(o).cmd = k
  BY WorkerAsks
<1>2. CASE o = "Reset"
  BY <1>1, <1>2, ResetAdvances
<1>3. CASE o = "SetFeature"
  BY <1>1, <1>3, SetFeatureAdvances
<1>4. CASE o = "ProgramPage"
  BY <1>1, <1>4, ProgramPageAdvances
<1>5. CASE o = "ReadPage"
  BY <1>1, <1>5, ReadPageAdvances
<1>6. CASE o = "GetFeature"
  BY <1>1, <1>6, GetFeatureAdvances
<1>7. CASE o = "EraseBlock"
  BY <1>1, <1>7, EraseBlockAdvances
<1>8. CASE o = "ReadStatus"
  BY <1>1, <1>8, ReadStatusAdvances
<1>9. QED
  BY <1>2, <1>3, <1>4, <1>5, <1>6, <1>7, <1>8 DEF Ops

(* With one machine at work, the bus steps that end at an edge are none,   *)
(* or the next step of its sequence.                                       *)
LEMMA StepsAre ==
  ASSUME TypeOK, Exclusion, Handshake, AtomsCarry, PhasesRight, Pulses, NEW o \in Ops, Active(o)
  PROVE  /\ ~Stepping(o) => StepsNow = << >>
         /\ Stepping(o) => /\ Performed(o) + 1 \in 1..Len(ScriptOf(o))
                           /\ StepsNow = <<ScriptOf(o)[Performed(o) + 1]>>
<1>1. (fsm["ProgramPage"].trans \/ fsm["ReadPage"].trans) <=> fsm[o].trans
  <2>1. ASSUME NEW p \in Ops, fsm[p].trans PROVE p = o
    BY <2>1 DEF Pulses, Exclusion, OneOperation, Underway, Active
  <2>2. fsm[o].trans => o = "ProgramPage" \/ o = "ReadPage"
    BY DEF Pulses
  <2>3. QED
    BY <2>1, <2>2 DEF Ops
<1>2. \A k \in Kinds : LastStep(k) => AskOf(o).cmd = k
  BY WorkerAsks
<1>3. CASE fsm[o].trans
  <2>1. \A k \in Kinds : ~LastStep(k)
    BY <1>2, <1>3, DescriptorIsNext
  <2>2. StepsNow = <<Descriptor>> \o << >>
    BY <1>1, <1>3, <2>1, Zenon DEF StepsNow
  <2>3. StepsNow = <<Descriptor>>
    BY <2>2
  <2>4. QED
    BY <1>2, <1>3, <2>3, DescriptorIsNext, Zenon DEF Stepping
<1>4. CASE ~fsm[o].trans /\ \E k \in Kinds : LastStep(k)
  <2> DEFINE l == CHOOSE k \in Kinds : LastStep(k)
  <2>1. l \in Kinds /\ LastStep(l)
    BY <1>4
  <2> HIDE DEF l
  <2>2. StepsNow = << >> \o <<Transfer(l)>>
    BY <1>1, <1>4, Zenon DEF StepsNow, l
  <2>3. StepsNow = <<Transfer(l)>>
    BY <2>2
  <2>4. QED
    BY <1>4, <2>1, <2>3, StepIsNext, Zenon DEF Stepping
<1>5. CASE ~fsm[o].trans /\ ~\E k \in Kinds : LastStep(k)
  <2>1. StepsNow = << >> \o << >>
    BY <1>1, <1>5, Zenon DEF StepsNow
  <2>2. QED
    BY <1>5, <2>1 DEF Stepping
<1>6. QED
  BY <1>3, <1>4, <1>5

(***************************************************************************)
(* The parts of the invariant, step by step.                               *)
(***************************************************************************)

(* With no atom at its last step a request that has started an atom is     *)
(* held, operands and all.                                                 *)
LEMMA WholeRequestHeld ==
  ASSUME NEW w, NEW rb, NEW finishing, Clock(w, rb, finishing), TypeOK,
         NEW o \in Ops, AskOf(o).cmd \in Kinds, \A k \in Kinds : ~LastStep(k)
  PROVE  Active(o)' /\ AskOf(o)' = AskOf(o) /\ fsm'[o].way = fsm[o].way
<1> DEFINE f == fsm[o]
           g == fsm'[o]
<1>1. f.st \in {"CMDIssue", "ADDRIssue", "DATAIssue", "CMD2Issue"}
  BY DEF AskOf, ResetAsk, SetFeatureAsk, ProgramPageAsk, ReadPageAsk, GetFeatureAsk,
     EraseBlockAsk, ReadStatusAsk, AskNothing, Ask, Kinds, Ops
<1>2. /\ f.st = "CMD2Issue" /\ o \in {"ProgramPage", "EraseBlock"} => ~f.last
      /\ f.st = "DATAIssue" /\ o \in {"ReadPage", "GetFeature"} => ~f.last
  BY DEF AskOf, ProgramPageAsk, ReadPageAsk, GetFeatureAsk, EraseBlockAsk, AskNothing, Ask,
     Kinds, Ops
<1>3. ~LastStep("ACA") /\ ~LastStep("ACS") /\ ~LastStep("DOA") /\ ~LastStep("DOS") /\ ~LastStep("DIS")
  BY DEF Kinds
<1>4. NextState(o) = f.st
  BY <1>1, <1>2, <1>3 DEF NextState, ResetNext, SetFeatureNext, ProgramPageNext, ReadPageNext,
     GetFeatureNext, EraseBlockNext, ReadStatusNext, Ops
<1>5. g.st = f.st /\ ~g.last
  BY <1>1, <1>3, <1>4, NextFields DEF LastNext
<1>6. g.target = f.target /\ g.len = f.len /\ g.col = f.col /\ g.row = f.row /\ g.way = f.way
  BY <1>1, <1>4, OperandsKept
<1>7. Active(o)'
  BY <1>1, <1>5 DEF Active
<1>8. AskOf(o)' = AskOf(o)
  <2>1. /\ PageAddr(g) = PageAddr(f) /\ RowAddr(g) = RowAddr(f) /\ BlockAddr(g) = BlockAddr(f)
        /\ ConfirmProgram(g) = ConfirmProgram(f) /\ ReadParam(g) = ReadParam(f)
        /\ Enhanced(g) = Enhanced(f)
    BY <1>6 DEF PageAddr, RowAddr, BlockAddr, ConfirmProgram, ReadParam, Enhanced
  <2>2. CASE o = "Reset"
    BY <1>5, <2>2 DEF AskOf, ResetAsk
  <2>3. CASE o = "SetFeature"
    BY <1>5, <2>3 DEF AskOf, SetFeatureAsk
  <2>4. CASE o = "ProgramPage"
    BY <1>2, <1>5, <1>6, <2>1, <2>4 DEF AskOf, ProgramPageAsk
  <2>5. CASE o = "ReadPage"
    BY <1>2, <1>5, <1>6, <2>1, <2>5 DEF AskOf, ReadPageAsk
  <2>6. CASE o = "GetFeature"
    BY <1>2, <1>5, <2>6 DEF AskOf, GetFeatureAsk
  <2>7. CASE o = "EraseBlock"
    BY <1>2, <1>5, <1>6, <2>1, <2>7 DEF AskOf, EraseBlockAsk
  <2>8. CASE o = "ReadStatus"
    BY <1>5, <2>1, <2>8 DEF AskOf, ReadStatusAsk
  <2>9. QED
    BY <2>2, <2>3, <2>4, <2>5, <2>6, <2>7, <2>8 DEF Ops
<1>9. QED
  BY <1>6, <1>7, <1>8

(* An atom that runs after an edge has just latched the owner's request,   *)
(* or was running, short of its last step, with operands it keeps.         *)
LEMMA RunningAtom ==
  ASSUME NEW w, NEW rb, NEW finishing, Clock(w, rb, finishing), TypeOK, Handshake,
         NEW k \in Kinds, atom'[k].st = "RUN"
  PROVE  /\ MuxAsk.cmd = k /\ \A l \in Kinds : ~LastStep(l)
         /\ \/ /\ atom'[k].num = MuxAsk.num /\ atom'[k].cle = MuxAsk.cle
               /\ atom'[k].ca = MuxAsk.ca /\ atom'[k].way = MuxWay
            \/ /\ atom[k].st = "RUN"
               /\ atom'[k].num = atom[k].num /\ atom'[k].cle = atom[k].cle
               /\ atom'[k].ca = atom[k].ca /\ atom'[k].way = atom[k].way
<1>1. atom'[k] = AtomNext(k, k \in finishing) /\ atom[k] \in AtomType
  BY DEF Clock, Inputs, TypeOK
<1>2. AtomReady.st = "READY"
  BY DEF AtomReady
<1>3. ASSUME MuxAsk.cmd = k, ~atom[k].last PROVE \A l \in Kinds : ~LastStep(l)
  <2>1. ASSUME NEW l \in Kinds, l # k PROVE atom[l].st = "READY"
    BY <1>3, <2>1 DEF Handshake, AtomFollowsOwner, TypeOK, AtomType
  <2>2. QED
    BY <1>3, <2>1 DEF LastStep, Handshake
<1>4. CASE atom[k].st = "READY" /\ MuxAsk.cmd = k
  <2>1. atom'[k] = [st |-> "RUN", last |-> FALSE, num |-> MuxAsk.num, cle |-> MuxAsk.cle,
                    ca |-> MuxAsk.ca, way |-> MuxWay]
    BY <1>1, <1>4, Zenon DEF AtomNext
  <2>2. \A l \in Kinds : ~LastStep(l)
    BY <1>3, <1>4 DEF Handshake
  <2>3. /\ atom'[k].num = MuxAsk.num /\ atom'[k].cle = MuxAsk.cle
        /\ atom'[k].ca = MuxAsk.ca /\ atom'[k].way = MuxWay
    BY <2>1
  <2>4. QED
    BY <1>4, <2>2, <2>3
<1>5. CASE atom[k].st = "RUN" /\ ~atom[k].last
  <2>1. PICK finishes : atom'[k] = [atom[k] EXCEPT !.last = finishes]
    BY <1>1, <1>5, Zenon DEF AtomNext
  <2>2. /\ atom'[k].num = atom[k].num /\ atom'[k].cle = atom[k].cle
        /\ atom'[k].ca = atom[k].ca /\ atom'[k].way = atom[k].way
    BY <1>1, <2>1 DEF AtomType
  <2>3. MuxAsk.cmd = k
    BY <1>5 DEF Handshake, AtomFollowsOwner
  <2>4. QED
    BY <1>3, <1>5, <2>2, <2>3
<1>6. CASE ~(atom[k].st = "READY" /\ MuxAsk.cmd = k) /\ ~(atom[k].st = "RUN" /\ ~atom[k].last)
  <2>1. atom'[k] = AtomReady
    BY <1>1, <1>6, Zenon DEF AtomNext
  <2>2. QED
    BY <1>2, <2>1
<1>7. QED
  BY <1>4, <1>5, <1>6

(* A request held is a request the running atom carries.                   *)
LEMMA AtomsCarryStep ==
  ASSUME NEW w, NEW rb, NEW finishing, Clock(w, rb, finishing), TypeOK, Exclusion, Exclusion',
         Handshake, AtomsCarry
  PROVE  AtomsCarry'
<1> SUFFICES ASSUME NEW k \in Kinds, atom'[k].st = "RUN"
             PROVE  /\ atom'[k].num = MuxAsk'.num /\ atom'[k].cle = MuxAsk'.cle
                    /\ atom'[k].ca = MuxAsk'.ca /\ atom'[k].way = MuxWay'
  BY DEF AtomsCarry
<1>1. /\ MuxAsk.cmd = k /\ \A l \in Kinds : ~LastStep(l)
      /\ atom'[k].num = MuxAsk.num /\ atom'[k].cle = MuxAsk.cle
      /\ atom'[k].ca = MuxAsk.ca /\ atom'[k].way = MuxWay
  BY RunningAtom DEF AtomsCarry
<1>2. PICK o \in Ops : Active(o) /\ MuxAsk = AskOf(o) /\ MuxWay = fsm[o].way
  <2>1. Owner # "Idle"
    BY <1>1 DEF MuxAsk, AskNothing, Ask, Kinds
  <2>2. Owner \in Ops /\ Active(Owner)
    BY <2>1 DEF Owner, Ops
  <2>3. QED
    BY <2>1, <2>2 DEF MuxAsk, MuxWay
<1>3. Active(o)' /\ AskOf(o)' = AskOf(o) /\ fsm'[o].way = fsm[o].way
  BY <1>1, <1>2, WholeRequestHeld
<1>4. Owner' = o
  <2>1. \A p \in Ops \ {o} : ~Active(p)'
    BY <1>3 DEF Exclusion, OneOperation, Underway, Active
  <2>2. QED
    BY <1>3, <2>1 DEF Owner, Ops
<1>5. MuxAsk' = AskOf(o)' /\ MuxWay' = fsm'[o].way
  BY <1>4 DEF MuxAsk, MuxWay, AskOf, Ops
<1>6. QED
  BY <1>1, <1>2, <1>3, <1>5

(* Registers a machine does not have stay zero.                            *)
LEMMA UnusedZeroStep ==
  ASSUME NEW w, NEW rb, NEW finishing, Clock(w, rb, finishing), UnusedZero
  PROVE  UnusedZero'
BY DEF Clock, Logic, MachineNext, UnusedZero, Latched, Cleared

(* A descriptor pulse lasts one clock.                                     *)
LEMMA PulsesStep ==
  ASSUME NEW w, NEW rb, NEW finishing, Clock(w, rb, finishing), TypeOK, Exclusion, Handshake,
         Handshake', Pulses, PhasesRight
  PROVE  Pulses'
<1>1. ASSUME NEW o \in Ops, fsm'[o].trans
      PROVE  \/ o = "ProgramPage" /\ fsm'[o].st = "CMDLatch"
             \/ /\ o = "ReadPage" /\ fsm[o].st = "WaitRBHigh"
                /\ NextState(o) = "DATAIssue"
  <2>1. TransNext(o, NextState(o)) /\ fsm'[o].st = NextState(o)
    BY <1>1, NextFields
  <2>2. ~(o = "ReadPage" /\ NextState(o) = "WaitRBHigh" /\ rbp[o].ready)
    <3>1. SUFFICES ASSUME o = "ReadPage", NextState(o) = "WaitRBHigh", rbp[o].ready PROVE FALSE
      OBVIOUS
    <3>2. NextState("ReadPage") = "WaitRBHigh" /\ rbp["ReadPage"].ready
      BY <3>1
    <3>3. QED
      BY <3>2 DEF NextState, ReadPageNext
  <2>3. QED
    BY <2>1, <2>2 DEF TransNext
<1>2. fsm'["ProgramPage"].st = "CMDLatch" => fsm'["ProgramPage"].trans
  BY NextFields DEF TransNext, Ops
<1>3. ASSUME fsm["ReadPage"].st = "WaitRBHigh", NextState("ReadPage") = "DATAIssue"
      PROVE  /\ fsm'["ReadPage"].st = "DATAIssue" /\ ~fsm'["ReadPage"].last
             /\ \A k \in Kinds : atom'[k].st = "READY"
  <2>1. Active("ReadPage") /\ AskOf("ReadPage").cmd \notin Kinds
    BY <1>3 DEF Active, AskOf, ReadPageAsk, AskNothing, Ask, Kinds
  <2>2. MuxAsk = AskOf("ReadPage") /\ ~LastStep("DIS")
    BY <2>1, WorkerAsks DEF Ops, Kinds
  <2>3. ~LastNext("ReadPage", NextState("ReadPage"))
    BY <1>3, <2>2 DEF LastNext, RBOps
  <2>4. ASSUME NEW k \in Kinds PROVE atom'[k].st # "RUN"
    BY <2>1, <2>2, RunningAtom
  <2>5. \A k \in Kinds : atom'[k].st \in {"READY", "RUN"}
    <3>1. \A k \in Kinds : (k \in finishing) \in BOOLEAN
      OBVIOUS
    <3>2. \A k \in Kinds : AtomNext(k, k \in finishing) \in AtomType
      BY <3>1, AtomNextType
    <3>3. QED
      BY <3>2 DEF Clock, Inputs, AtomType
  <2>6. QED
    BY <1>3, <2>3, <2>4, <2>5, NextFields DEF Ops
<1>4. QED
  BY <1>1, <1>2, <1>3 DEF Pulses, Ops

(* Every machine stays in its own phases.                                  *)
LEMMA PhasesRightStep ==
  ASSUME NEW w, NEW rb, NEW finishing, Clock(w, rb, finishing), TypeOK, Exclusion, Handshake,
         Pulses, PhasesRight
  PROVE  PhasesRight'
<1>1. ASSUME NEW o \in Ops, Active(o)' PROVE fsm'[o].st \in PhasesOf(o)
  <2>1. CASE Active(o)
    BY <1>1, <2>1, MachineAdvances DEF Advances, Active
  <2>2. CASE ~Active(o)
    <3>1. fsm'[o].st = "CMDLatch"
      BY <1>1, <2>2, LeavesOnStart, NextFields DEF Active, Underway
    <3>2. QED
      BY <3>1 DEF PhasesOf
  <2>3. QED
    BY <2>1, <2>2
<1>2. ASSUME fsm'["ReadPage"].st = "CMD2Issue" PROVE ~ReadParam(fsm'["ReadPage"])
  <2>1. NextState("ReadPage") = "CMD2Issue"
    BY <1>2, NextFields DEF Ops
  <2>2. ~ReadParam(fsm["ReadPage"])
    BY <2>1 DEF NextState, ReadPageNext, PhasesRight
  <2>3. fsm'["ReadPage"].target = fsm["ReadPage"].target
    BY <2>1, OperandsKept DEF Ops
  <2>4. QED
    BY <2>2, <2>3 DEF ReadParam
<1>3. ASSUME fsm'["ReadStatus"].st = "ADDRIssue" PROVE Enhanced(fsm'["ReadStatus"])
  <2>1. NextState("ReadStatus") = "ADDRIssue"
    BY <1>3, NextFields DEF Ops
  <2>2. Enhanced(fsm["ReadStatus"])
    BY <2>1 DEF NextState, ReadStatusNext, PhasesRight
  <2>3. fsm'["ReadStatus"].target = fsm["ReadStatus"].target
    BY <2>1, OperandsKept DEF Ops
  <2>4. QED
    BY <2>2, <2>3 DEF Enhanced
<1>4. QED
  BY <1>1, <1>2, <1>3 DEF PhasesRight

(***************************************************************************)
(* The bus history.                                                        *)
(***************************************************************************)

(* Between two edges of its work a machine's sequence stays the same.      *)
LEMMA ScriptKept ==
  ASSUME NEW w, NEW rb, NEW finishing, Clock(w, rb, finishing), TypeOK, Exclusion, Handshake,
         Pulses, PhasesRight, NEW o \in Ops, Working(o), Working(o)'
  PROVE  LatchedOperands(o)' = LatchedOperands(o) /\ ScriptOf(o)' = ScriptOf(o)
<1>1. Active(o) /\ fsm[o].st \notin {"RESET", "READY"}
  BY DEF Working, Active
<1>2. NextState(o) \notin {"READY", "CMDLatch"} /\ ~(o = "EraseBlock" /\ NextState(o) = "WaitRBLow")
  <2>1. NextState(o) # "READY" /\ ~(o = "EraseBlock" /\ NextState(o) = "WaitRBLow")
    BY NextFields DEF Working, Active
  <2>2. NextState(o) # "CMDLatch"
    BY <1>1 DEF NextState, ResetNext, SetFeatureNext, ProgramPageNext, ReadPageNext,
       GetFeatureNext, EraseBlockNext, ReadStatusNext, Ops
  <2>3. QED
    BY <2>1, <2>2
<1>3. regs' = regs
  <2>1. ~adapter.valid
    BY <1>1 DEF Exclusion
  <2>2. QED
    BY <2>1 DEF Clock, Logic, RegsNext, Start
<1>4. /\ fsm'[o].target = fsm[o].target /\ fsm'[o].len = fsm[o].len
      /\ fsm'[o].col = fsm[o].col /\ fsm'[o].row = fsm[o].row /\ fsm'[o].way = fsm[o].way
  BY <1>2, OperandsKept
<1>5. LatchedOperands(o)' = LatchedOperands(o)
  BY <1>3, <1>4 DEF LatchedOperands
<1>6. QED
  BY <1>5 DEF ScriptOf

(* The machine at work is unique.                                          *)
LEMMA OneWorks ==
  ASSUME OneOperation, NEW o \in Ops, Working(o)
  PROVE  (CHOOSE p \in Ops : Working(p)) = o /\ \A p \in Ops : Working(p) => p = o
BY DEF OneOperation, Underway, Working, Active

(* A machine comes to work on its start, when no other is active.          *)
LEMMA WorkBegins ==
  ASSUME NEW w, NEW rb, NEW finishing, Clock(w, rb, finishing), TypeOK, Exclusion,
         NEW o \in Ops, ~Working(o), Working(o)'
  PROVE  /\ Start(o) /\ fsm'[o].st = "CMDLatch" /\ NextState(o) = "CMDLatch"
         /\ \A p \in Ops : ~Active(p)
<1>1. ~Active(o)
  <2>1. SUFFICES ASSUME Active(o) PROVE FALSE
    OBVIOUS
  <2>2. o = "EraseBlock" /\ fsm[o].st = "WaitRBLow"
    BY <2>1 DEF Working
  <2>3. NextState(o) = "READY"
    BY <2>2 DEF NextState, EraseBlockNext
  <2>4. QED
    BY <2>3, NextFields DEF Working, Active
<1>2. Start(o) /\ NextState(o) = "CMDLatch"
  BY <1>1, LeavesOnStart, NextFields DEF Working, Active, Underway
<1>3. QED
  BY <1>2, NextFields DEF Exclusion, Start, Active

(* The sequences are sequences.                                            *)
LEMMA ScriptIsSequence ==
  ASSUME NEW o \in Ops
  PROVE  IsSequence(ScriptOf(o))
<1>1. IsSequence(ScriptOf("ReadPage"))
  BY ReadPageScript, ReadParameterScript, Zenon
<1>2. IsSequence(ScriptOf("ReadStatus"))
  BY ReadStatusScript, ReadEnhancedScript, Zenon
<1>3. /\ IsSequence(ScriptOf("Reset")) /\ IsSequence(ScriptOf("SetFeature"))
      /\ IsSequence(ScriptOf("GetFeature")) /\ IsSequence(ScriptOf("ProgramPage"))
      /\ IsSequence(ScriptOf("EraseBlock"))
  BY ResetScript, SetFeatureScript, GetFeatureScript, ProgramPageScript, EraseBlockScript, Zenon
<1>4. QED
  BY <1>1, <1>2, <1>3 DEF Ops

(* A bus step is well formed.                                              *)
LEMMA StepTypes ==
  ASSUME TypeOK
  PROVE  Descriptor \in BusStep /\ \A k \in Kinds : Transfer(k) \in BusStep
<1>1. Descriptor \in BusStep
  BY DEF Descriptor, BusStep
<1>2. ASSUME NEW k \in Kinds PROVE Transfer(k) \in BusStep
  <2>1. /\ atom[k].cle \in BOOLEAN /\ atom[k].num \in Nat /\ atom[k].way \in SUBSET Way
        /\ atom[k].ca \in CAType /\ regs.feat \in Addr
    BY DEF TypeOK, AtomType, RegsType
  <2>2. Strobes(k, atom[k].num) \in Nat
    BY <2>1 DEF Strobes
  <2> DEFINE what == CASE k \in {"ACA", "ACS"} -> atom[k].ca
                       [] k = "DOA" -> <<"feature", regs.feat>>
                       [] OTHER -> <<"data">>
  <2>3. what \in CAType \cup {<<"feature", a>> : a \in Addr} \cup {<<"data">>}
    <3>1. CASE k \in {"ACA", "ACS"}
      BY <2>1, <3>1
    <3>2. CASE k = "DOA"
      BY <2>1, <3>2
    <3>3. CASE k \notin {"ACA", "ACS", "DOA"}
      BY <3>3
    <3>4. QED
      BY <3>1, <3>2, <3>3
  <2>4. Transfer(k) = [kind |-> k, cle |-> atom[k].cle, n |-> Strobes(k, atom[k].num),
                       way |-> atom[k].way, what |-> what]
    BY DEF Transfer
  <2> HIDE DEF what
  <2>5. QED
    BY <2>1, <2>2, <2>3, <2>4 DEF BusStep
<1>3. QED
  BY <1>1, <1>2

(* The steps that end at an edge are well formed.                          *)
LEMMA StepsNowType ==
  ASSUME TypeOK
  PROVE  StepsNow \in Seq(BusStep)
<1> DEFINE d == IF fsm["ProgramPage"].trans \/ fsm["ReadPage"].trans THEN <<Descriptor>> ELSE << >>
           l == CHOOSE k \in Kinds : LastStep(k)
           t == IF \E k \in Kinds : LastStep(k) THEN <<Transfer(l)>> ELSE << >>
<1>1. d \in Seq(BusStep)
  BY StepTypes
<1>2. t \in Seq(BusStep)
  <2>1. CASE \E k \in Kinds : LastStep(k)
    <3>1. l \in Kinds
      BY <2>1
    <3> HIDE DEF l
    <3>2. <<Transfer(l)>> \in Seq(BusStep)
      BY <3>1, StepTypes
    <3>3. QED
      BY <2>1, <3>2
  <2>2. CASE ~\E k \in Kinds : LastStep(k)
    BY <2>2
  <2>3. QED
    BY <2>1, <2>2
<1>3. StepsNow = d \o t
  BY Zenon DEF StepsNow
<1> HIDE DEF d, t
<1>4. QED
  BY <1>1, <1>2, <1>3, ConcatProperties, Zenon

(* The history of a machine that stays at work grows by its next step, or  *)
(* not at all, and stays a prefix of its sequence.                         *)
LEMMA BusGrows ==
  ASSUME NEW w, NEW rb, NEW finishing, Clock(w, rb, finishing), TypeOK, Exclusion, Handshake,
         AtomsCarry, Pulses, PhasesRight, BusRight, NEW o \in Ops, Working(o), Working(o)'
  PROVE  /\ ~Stepping(o) => bus' = bus /\ Performed(o)' = Len(bus)
         /\ Stepping(o) => /\ Len(bus) < Len(ScriptOf(o))
                           /\ bus' = Append(bus, ScriptOf(o)[Len(bus) + 1])
                           /\ Performed(o)' = Len(bus) + 1
<1>1. Active(o) /\ Advances(o)
  BY MachineAdvances DEF Working
<1>2. bus \in Seq(BusStep) /\ Len(bus) = Performed(o) /\ Len(bus) \in Nat
  BY DEF BusRight
<1>3. bus' = bus \o StepsNow
  BY DEF Clock, Logic, BusNext
<1>4. CASE ~Stepping(o)
  <2>1. bus' = bus \o << >>
    BY <1>1, <1>3, <1>4, StepsAre, Zenon
  <2>2. bus' = bus
    BY <1>2, <2>1
  <2>3. Performed(o)' = Performed(o)
    BY <1>1, <1>4 DEF Advances
  <2>4. QED
    BY <1>2, <1>4, <2>2, <2>3
<1>5. CASE Stepping(o)
  <2>1. Performed(o) + 1 \in 1..Len(ScriptOf(o)) /\ StepsNow = <<ScriptOf(o)[Performed(o) + 1]>>
    BY <1>1, <1>5, StepsAre
  <2> DEFINE x == ScriptOf(o)[Performed(o) + 1]
  <2>2. x = ScriptOf(o)[Len(bus) + 1]
    BY <1>2
  <2>3. bus' = bus \o <<x>>
    BY <1>3, <2>1
  <2>4. Len(ScriptOf(o)) \in Nat
    BY ScriptIsSequence DEF IsSequence
  <2>5. Len(bus) < Len(ScriptOf(o))
    BY <1>2, <2>1, <2>4
  <2>6. Performed(o)' = Len(bus) + 1
    BY <1>1, <1>2, <1>5 DEF Advances
  <2> HIDE DEF x
  <2>7. x \in BusStep
    <3>1. StepsNow \in Seq(BusStep) /\ StepsNow = <<x>>
      BY <2>1, StepsNowType DEF x
    <3>2. QED
      BY <3>1
  <2>8. bus' = Append(bus, x)
    BY <1>2, <2>3, <2>7
  <2>9. QED
    BY <1>5, <2>2, <2>5, <2>6, <2>8, Zenon
<1>6. QED
  BY <1>4, <1>5

(* The history stays the performed part of the sequence.                   *)
LEMMA BusRightStep ==
  ASSUME NEW w, NEW rb, NEW finishing, Clock(w, rb, finishing), TypeOK, Exclusion, Exclusion',
         Handshake, AtomsCarry, Pulses, PhasesRight, BusRight
  PROVE  BusRight'
<1>1. bus' \in Seq(BusStep)
  <2>1. bus \o StepsNow \in Seq(BusStep)
    BY StepsNowType, ConcatProperties, Zenon DEF BusRight
  <2>2. << >> \in Seq(BusStep)
    OBVIOUS
  <2>3. QED
    BY <2>1, <2>2 DEF Clock, Logic, BusNext
<1>2. (\A o \in Ops : ~Working(o)') => bus' = << >>
  BY DEF Clock, Logic, BusNext
<1>3. ASSUME NEW o \in Ops, Working(o)'
      PROVE  /\ Len(bus') = Performed(o)' /\ Len(bus') <= Len(ScriptOf(o)')
             /\ \A i \in 1..Len(bus') : bus'[i] = ScriptOf(o)'[i]
  <2>1. CASE Working(o)
    <3> DEFINE s == ScriptOf(o)
    <3>1. ScriptOf(o)' = s
      BY <1>3, <2>1, ScriptKept
    <3>2. bus \in Seq(BusStep) /\ Len(bus) \in Nat /\ Len(bus) <= Len(s) /\ Len(s) \in Nat
          /\ \A i \in 1..Len(bus) : bus[i] = s[i]
      BY <2>1, ScriptIsSequence DEF BusRight, IsSequence
    <3>3. CASE ~Stepping(o)
      <4>1. bus' = bus /\ Performed(o)' = Len(bus)
        BY <1>3, <2>1, <3>3, BusGrows
      <4> HIDE DEF s
      <4>2. QED
        BY <3>1, <3>2, <4>1
    <3>4. CASE Stepping(o)
      <4>1. /\ Len(bus) < Len(s) /\ bus' = Append(bus, s[Len(bus) + 1])
            /\ Performed(o)' = Len(bus) + 1
        BY <1>3, <2>1, <3>4, BusGrows
      <4> HIDE DEF s
      <4>2. Len(bus') = Len(bus) + 1 /\ \A i \in 1..Len(bus') :
              bus'[i] = IF i = Len(bus) + 1 THEN s[Len(bus) + 1] ELSE bus[i]
        BY <1>1, <3>2, <4>1
      <4>3. \A i \in 1..Len(bus') : bus'[i] = s[i]
        BY <3>2, <4>2
      <4>4. QED
        BY <3>1, <3>2, <4>1, <4>2, <4>3
    <3>5. QED
      BY <3>3, <3>4
  <2>2. CASE ~Working(o)
    <3>1. fsm'[o].st = "CMDLatch" /\ \A p \in Ops : ~Active(p)
      BY <1>3, <2>2, WorkBegins
    <3>2. bus = << >>
      BY <3>1 DEF BusRight, Working
    <3>3. StepsNow = << >>
      <4>1. \A k \in Kinds : ~LastStep(k)
        BY <3>1, IdleAsksNothing
      <4>2. ~fsm["ProgramPage"].trans /\ ~fsm["ReadPage"].trans
        BY <3>1 DEF Pulses, Active, Ops
      <4>3. StepsNow = << >> \o << >>
        BY <4>1, <4>2, Zenon DEF StepsNow
      <4>4. QED
        BY <4>3
    <3>4. bus' = << >>
      <4>1. bus' = << >> \o << >>
        BY <1>3, <3>2, <3>3 DEF Clock, Logic, BusNext
      <4>2. QED
        BY <4>1
    <3>5. Performed(o)' = 0
      BY <3>1 DEF Performed, ResetPerformed, SetFeaturePerformed, ProgramPagePerformed,
         ReadPagePerformed, GetFeaturePerformed, EraseBlockPerformed, ReadStatusPerformed,
         Starting, Ops
    <3>6. Len(ScriptOf(o)') \in Nat
      <4>1. IsSequence(ScriptOf(o))'
        BY ScriptIsSequence, PTL
      <4>2. QED
        BY <4>1 DEF IsSequence
    <3>7. QED
      BY <3>4, <3>5, <3>6
  <2>3. QED
    BY <2>1, <2>2
<1>4. QED
  BY <1>1, <1>2, <1>3 DEF BusRight

(***************************************************************************)
(* The invariant holds.                                                    *)
(***************************************************************************)
WholeInv == TypeOK /\ Exclusion /\ Handshake /\ RefInv

(* It holds after reset.                                                   *)
LEMMA RefInvInit == Init => RefInv
<1> SUFFICES ASSUME Init PROVE RefInv
  OBVIOUS
<1>1. \A o \in Ops : /\ fsm[o].st = "RESET" /\ ~fsm[o].trans /\ fsm[o].target = 0
                     /\ fsm[o].len = 0 /\ fsm[o].col = Addr0 /\ fsm[o].row = Addr0
  BY DEF Init
<1>2. AtomsCarry
  BY DEF Init, AtomsCarry, AtomReady
<1>3. UnusedZero
  BY <1>1 DEF UnusedZero
<1>4. Pulses
  BY <1>1 DEF Pulses, Ops
<1>5. PhasesRight
  BY <1>1 DEF PhasesRight, Active, Ops
<1>6. BusRight
  BY <1>1 DEF BusRight, Working, Active, Init
<1>7. QED
  BY <1>2, <1>3, <1>4, <1>5, <1>6 DEF RefInv

(* Every clock edge keeps it.                                              *)
LEMMA RefInvStep ==
  ASSUME TypeOK, Exclusion, Exclusion', Handshake, Handshake', RefInv, ClockEdge
  PROVE  RefInv'
<1>1. PICK w \in Word \cup {NoWord}, rb \in SUBSET Way, finishing \in SUBSET Running :
        Clock(w, rb, finishing)
  BY DEF ClockEdge
<1>2. AtomsCarry /\ UnusedZero /\ Pulses /\ PhasesRight /\ BusRight
  BY DEF RefInv
<1>3. AtomsCarry' /\ UnusedZero'
  BY <1>1, <1>2, AtomsCarryStep, UnusedZeroStep
<1>4. Pulses' /\ PhasesRight'
  BY <1>1, <1>2, PulsesStep, PhasesRightStep
<1>5. BusRight'
  BY <1>1, <1>2, BusRightStep
<1>6. QED
  BY <1>3, <1>4, <1>5 DEF RefInv

(* So does a step that changes nothing.                                    *)
LEMMA RefInvStutter ==
  ASSUME RefInv, UNCHANGED vars
  PROVE  RefInv'
<1> USE DEF vars
<1>1. AtomsCarry'
  <2>1. MuxAsk' = MuxAsk /\ MuxWay' = MuxWay
    BY DEF MuxAsk, MuxWay, Owner, Active, AskOf
  <2>2. QED
    BY <2>1 DEF RefInv, AtomsCarry
<1>2. UnusedZero' /\ Pulses'
  BY DEF RefInv, UnusedZero, Pulses
<1>3. PhasesRight'
  BY DEF RefInv, PhasesRight, Active
<1>4. BusRight'
  <2>1. ASSUME NEW o \in Ops
        PROVE  /\ Working(o)' <=> Working(o)
               /\ Performed(o)' = Performed(o) /\ ScriptOf(o)' = ScriptOf(o)
    <3>1. Working(o)' <=> Working(o)
      BY DEF Working, Active
    <3>2. Performed(o)' = Performed(o)
      BY DEF Performed
    <3>3. LatchedOperands(o)' = LatchedOperands(o)
      BY DEF LatchedOperands
    <3>4. QED
      BY <3>1, <3>2, <3>3 DEF ScriptOf
  <2>2. bus' = bus
    OBVIOUS
  <2>3. QED
    BY <2>1, <2>2 DEF RefInv, BusRight
<1>5. QED
  BY <1>1, <1>2, <1>3, <1>4 DEF RefInv

(* All of it holds after reset, and every clock edge keeps it.             *)
LEMMA WholeInvInit == Init => WholeInv
BY InitType, ExclusionInit, HandshakeInit, RefInvInit DEF WholeInv

LEMMA WholeInvStep ==
  ASSUME WholeInv, [ClockEdge]_vars
  PROVE  WholeInv'
<1>1. TypeOK /\ Exclusion /\ Handshake /\ RefInv
  BY DEF WholeInv
<1>2. TypeOK' /\ Exclusion'
  BY <1>1, TypeStep, ExclusionStep
<1>3. Handshake'
  BY <1>1, <1>2, HandshakeStep, HandshakeStutter
<1>4. RefInv'
  BY <1>1, <1>2, <1>3, RefInvStep, RefInvStutter
<1>5. QED
  BY <1>2, <1>3, <1>4 DEF WholeInv

LEMMA WholeInvariant == Spec => []WholeInv
<1>1. WholeInv /\ [Next]_vars => WholeInv'
  BY WholeInvStep, NextIsClock
<1>2. QED
  BY <1>1, WholeInvInit, PTL DEF Spec

(***************************************************************************)
(* The refinement.                                                         *)
(***************************************************************************)

(* The job of the sequencer is what the machine at work has latched.       *)
JobLatched == \A o \in Ops : Exclusion /\ Working(o) => JobNow = LatchedOperands(o)

(* The machine at work, not the adapter, says what the job is.             *)
LEMMA JobAtWork == JobLatched
<1> USE DEF JobLatched
<1> DEFINE working == \E p \in Ops : Working(p)
           c == CHOOSE p \in Ops : Working(p)
           j == LatchedOperands(c)
<1>1. JobNow = CASE working -> j [] PendingOp -> PendingOperands [] OTHER -> NoJob
  BY Zenon DEF JobNow
<1> SUFFICES ASSUME NEW o \in Ops, Exclusion, Working(o)
             PROVE  JobNow = LatchedOperands(o)
  OBVIOUS
<1>2. working /\ c = o /\ ~PendingOp
  BY OneWorks DEF Exclusion, PendingOp, Working, Active
<1> HIDE DEF c
<1>3. j = LatchedOperands(o)
  BY <1>2
<1> HIDE DEF j
<1>4. QED
  BY <1>1, <1>2, <1>3

(* Operands are those of a job, and no job is no operands.                 *)
LEMMA LatchedIsJob ==
  ASSUME TypeOK, NEW o \in Ops
  PROVE  LatchedOperands(o) \in Jobs /\ LatchedOperands(o) # NoJob
<1>1. /\ fsm[o].way \in SUBSET Way /\ fsm[o].target \in Target /\ fsm[o].len \in Length
      /\ fsm[o].col \in Addr /\ fsm[o].row \in Addr /\ regs.feat \in Addr
  BY DEF TypeOK, MachineType, RegsType
<1>2. LatchedOperands(o) \in Jobs
  BY <1>1 DEF LatchedOperands, Jobs
<1>3. LatchedOperands(o).op = o /\ NoJob.op = "none"
  BY DEF LatchedOperands, NoJob
<1>4. QED
  BY <1>2, <1>3 DEF Ops

PendingTyped == TypeOK /\ PendingOp => PendingOperands \in Jobs

(* The operands of an accepted word are those of a job.                    *)
LEMMA PendingIsJob == PendingTyped
<1> SUFFICES ASSUME TypeOK, PendingOp PROVE PendingOperands \in Jobs
  BY DEF PendingTyped
<1>1. /\ adapter.opcode \in Ops /\ adapter.target \in Target /\ adapter.len \in Length
      /\ regs.way \in SUBSET Way /\ regs.col \in Addr /\ regs.row \in Addr /\ regs.feat \in Addr
  BY DEF TypeOK, AdapterType, RegsType, PendingOp
<1>2. QED
  BY <1>1 DEF PendingOperands, Jobs, Target

(* The machine that an accepted word starts latches the operands in force. *)
LEMMA StartLatches ==
  ASSUME NEW w, NEW rb, NEW finishing, Clock(w, rb, finishing), TypeOK, Exclusion,
         UnusedZero, NEW o \in Ops, adapter.valid, adapter.opcode = o
  PROVE  Working(o)' /\ LatchedOperands(o)' = PendingOperands
<1> DEFINE g == fsm'[o]
<1>1. fsm[o].st = "READY" /\ Start(o)
  BY DEF Exclusion, Start
<1>2. NextState(o) = "CMDLatch"
  BY <1>1 DEF NextState
<1>3. g.st = "CMDLatch" /\ g.way = regs.way
  BY <1>1, <1>2 DEF Clock, Logic, MachineNext, WayNext
<1>4. /\ g.target = IF o \in TargetOps THEN adapter.target ELSE 0
      /\ g.len = IF o \in LenOps THEN adapter.len ELSE 0
      /\ g.col = IF o \in ColOps THEN regs.col ELSE Addr0
      /\ g.row = IF o \in RowOps THEN regs.row ELSE Addr0
  <2>1. /\ g.target = Latched(o, "CMDLatch", TargetOps, adapter.target, 0, fsm[o].target)
        /\ g.len = Latched(o, "CMDLatch", LenOps, adapter.len, 0, fsm[o].len)
        /\ g.col = Latched(o, "CMDLatch", ColOps, regs.col, Addr0, fsm[o].col)
        /\ g.row = Latched(o, "CMDLatch", RowOps, regs.row, Addr0, fsm[o].row)
    BY <1>1, <1>2 DEF Clock, Logic, MachineNext
  <2>2. QED
    BY <1>1, <2>1 DEF Latched, Cleared, UnusedZero
<1>5. regs' = regs
  BY <1>1 DEF Clock, Logic, RegsNext, Start, Ops
<1>6. Working(o)'
  BY <1>1, <1>3 DEF Working, Active
<1>7. LatchedOperands(o)' = PendingOperands
  <2>1. /\ "target" \in Uses(o) <=> o \in TargetOps
        /\ "len" \in Uses(o) <=> o \in LenOps
        /\ "col" \in Uses(o) <=> o \in ColOps
        /\ "row" \in Uses(o) <=> o \in RowOps
    BY <1>1 DEF Uses, TargetOps, LenOps, ColOps, RowOps, Ops
  <2>2. QED
    BY <1>1, <1>3, <1>4, <1>5, <2>1 DEF LatchedOperands, PendingOperands
<1>8. QED
  BY <1>1, <1>6, <1>7

(* Every clock edge is a step of the sequencer, or none of its business.   *)
LEMMA RefinementStep ==
  ASSUME WholeInv, WholeInv', ClockEdge
  PROVE  [Sequencer!Next]_<<JobNow, bus>>
<1>1. PICK w \in Word \cup {NoWord}, rb \in SUBSET Way, finishing \in SUBSET Running :
        /\ w \in Word => MaySend(w)
        /\ Clock(w, rb, finishing)
  BY DEF ClockEdge
<1>2. /\ TypeOK /\ Exclusion /\ OneOperation /\ Handshake
      /\ AtomsCarry /\ UnusedZero /\ Pulses /\ PhasesRight /\ BusRight
  BY DEF WholeInv, RefInv, Exclusion
<1>3. TypeOK' /\ Exclusion' /\ OneOperation' /\ BusRight'
  BY DEF WholeInv, RefInv, Exclusion
<1>4. CASE \E o \in Ops : Working(o)
  <2>1. PICK o \in Ops : Working(o)
    BY <1>4
  <2>2. JobNow = LatchedOperands(o) /\ JobNow # NoJob /\ Active(o)
    BY <1>2, <2>1, JobAtWork, LatchedIsJob DEF Working, JobLatched
  <2>3. CASE Working(o)'
    <3>1. LatchedOperands(o)' = LatchedOperands(o)
      BY <1>1, <1>2, <2>1, <2>3, ScriptKept
    <3>2. JobNow' = LatchedOperands(o)'
      <4>1. JobLatched'
        BY JobAtWork, PTL
      <4>2. QED
        BY <1>3, <2>3, <4>1 DEF JobLatched
    <3>3. JobNow' = JobNow
      BY <2>2, <3>1, <3>2
    <3>4. CASE ~Stepping(o)
      <4>1. bus' = bus
        BY <1>1, <1>2, <2>1, <2>3, <3>4, BusGrows
      <4>2. QED
        BY <3>3, <4>1
    <3>5. CASE Stepping(o)
      <4>1. Len(bus) < Len(ScriptOf(o)) /\ bus' = Append(bus, ScriptOf(o)[Len(bus) + 1])
        BY <1>1, <1>2, <2>1, <2>3, <3>5, BusGrows
      <4>2. ScriptOf(o) = Sequencer!Script(JobNow)
        BY <2>2 DEF ScriptOf
      <4>3. Sequencer!Perform
        BY <2>2, <3>3, <4>1, <4>2 DEF Sequencer!Perform
      <4>4. QED
        BY <4>3 DEF Sequencer!Next
    <3>6. QED
      BY <3>4, <3>5
  <2>4. CASE ~Working(o)'
    <3>1. ~Stepping(o) /\ Performed(o) = Len(ScriptOf(o))
      BY <1>1, <1>2, <2>1, <2>2, <2>4, MachineAdvances DEF Advances
    <3>2. \A p \in Ops : ~Working(p)'
      <4>1. SUFFICES ASSUME NEW p \in Ops, Working(p)' PROVE FALSE
        OBVIOUS
      <4>2. p # o /\ ~Working(p)
        BY <1>2, <2>1, <2>4, <4>1, OneWorks
      <4>3. ~Active(o)
        BY <1>1, <1>2, <4>1, <4>2, WorkBegins
      <4>4. QED
        BY <2>2, <4>3
    <3>3. ~PendingOp'
      <4>1. SUFFICES ASSUME adapter'.valid PROVE FALSE
        BY DEF PendingOp
      <4>2. ~Underway(o)
        BY <1>1, <4>1, AdapterAccepts
      <4>3. QED
        BY <2>2, <4>2 DEF Underway, Active
    <3>4. JobNow' = NoJob
      BY <3>2, <3>3 DEF JobNow
    <3>5. bus' = << >>
      BY <1>1, <3>2 DEF Clock, Logic, BusNext
    <3>6. bus = Sequencer!Script(JobNow)
      <4>1. /\ bus \in Seq(BusStep) /\ Len(bus) = Len(ScriptOf(o))
            /\ \A i \in 1..Len(bus) : bus[i] = ScriptOf(o)[i]
        BY <1>2, <2>1, <3>1 DEF BusRight
      <4>2. IsSequence(ScriptOf(o))
        BY ScriptIsSequence
      <4>3. bus = [i \in 1..Len(bus) |-> bus[i]]
        BY <4>1
      <4>4. bus = ScriptOf(o)
        BY <4>1, <4>2, <4>3 DEF IsSequence
      <4>5. QED
        BY <2>2, <4>4 DEF ScriptOf
    <3>7. Sequencer!Complete
      BY <2>2, <3>4, <3>5, <3>6 DEF Sequencer!Complete
    <3>8. QED
      BY <3>7 DEF Sequencer!Next
  <2>5. QED
    BY <2>3, <2>4
<1>5. CASE (\A o \in Ops : ~Working(o)) /\ PendingOp
  <2>1. PICK o \in Ops : adapter.opcode = o /\ adapter.valid
    BY <1>5 DEF PendingOp
  <2>2. Working(o)' /\ LatchedOperands(o)' = PendingOperands
    BY <1>1, <1>2, <2>1, StartLatches
  <2>3. JobNow = PendingOperands
    BY <1>5 DEF JobNow
  <2>4. JobNow' = LatchedOperands(o)'
    <3>1. JobLatched'
      BY JobAtWork, PTL
    <3>2. QED
      BY <1>3, <2>2, <3>1 DEF JobLatched
  <2>5. bus = << >> /\ bus' = << >>
    <3>1. bus = << >>
      BY <1>2, <1>5 DEF BusRight
    <3>2. ~Working(o)
      BY <1>5
    <3>3. Len(bus') = Performed(o)' /\ Performed(o)' = 0
      <4>1. fsm'[o].st = "CMDLatch"
        BY <1>1, <1>2, <2>2, <3>2, WorkBegins
      <4>2. Performed(o)' = 0
        BY <4>1 DEF Performed, ResetPerformed, SetFeaturePerformed, ProgramPagePerformed,
           ReadPagePerformed, GetFeaturePerformed, EraseBlockPerformed, ReadStatusPerformed,
           Starting, Ops
      <4>3. QED
        BY <1>3, <2>2, <4>2 DEF BusRight
    <3>4. bus' = << >>
      BY <1>3, <3>3 DEF BusRight
    <3>5. QED
      BY <3>1, <3>4
  <2>6. QED
    BY <2>2, <2>3, <2>4, <2>5
<1>6. CASE (\A o \in Ops : ~Working(o)) /\ ~PendingOp
  <2>1. JobNow = NoJob /\ bus = << >>
    BY <1>2, <1>6 DEF JobNow, BusRight
  <2>2. \A o \in Ops : ~Working(o)'
    <3>1. SUFFICES ASSUME NEW o \in Ops, Working(o)' PROVE FALSE
      OBVIOUS
    <3>2. Start(o)
      BY <1>1, <1>2, <1>6, <3>1, WorkBegins
    <3>3. QED
      BY <1>6, <3>2 DEF Start, PendingOp
  <2>3. bus' = << >>
    BY <1>3, <2>2 DEF BusRight
  <2>4. CASE PendingOp'
    <3>1. JobNow' = PendingOperands'
      BY <2>2, <2>4 DEF JobNow
    <3>2. JobNow' \in Jobs
      <4>1. PendingTyped'
        BY PendingIsJob, PTL
      <4>2. QED
        BY <1>3, <2>4, <3>1, <4>1 DEF PendingTyped
    <3>3. Sequencer!Accept
      BY <2>1, <2>3, <3>2 DEF Sequencer!Accept
    <3>4. QED
      BY <3>3 DEF Sequencer!Next
  <2>5. CASE ~PendingOp'
    <3>1. JobNow' = NoJob
      BY <2>2, <2>5 DEF JobNow
    <3>2. QED
      BY <2>1, <2>3, <3>1
  <2>6. QED
    BY <2>4, <2>5
<1>7. QED
  BY <1>4, <1>5, <1>6

LEMMA SequencerInit == Init => Sequencer!Init
<1>1. SUFFICES ASSUME Init PROVE JobNow = NoJob /\ bus = << >>
  BY DEF Sequencer!Init
<1>2. (\A o \in Ops : ~Working(o)) /\ ~PendingOp
  BY <1>1 DEF Init, Working, Active, PendingOp
<1>3. QED
  BY <1>1, <1>2 DEF JobNow, Init

LEMMA SequencerStep ==
  ASSUME WholeInv, WholeInv', [ClockEdge]_vars
  PROVE  [Sequencer!Next]_<<JobNow, bus>>
<1>1. CASE UNCHANGED vars
  <2>1. JobNow' = JobNow
    BY <1>1 DEF vars, JobNow, Working, Active, LatchedOperands, PendingOp, PendingOperands
  <2>2. bus' = bus
    BY <1>1 DEF vars
  <2>3. QED
    BY <2>1, <2>2
<1>2. QED
  BY <1>1, RefinementStep

(* The controller performs, for every operation it accepts and for no      *)
(* other, exactly the ONFI bus sequence of that operation with the         *)
(* operands in force at acceptance, one operation at a time.               *)
THEOREM ControllerIsSequencer == Spec => ImplementsSequencer
<1>1. WholeInv /\ WholeInv' /\ [Next]_vars => [Sequencer!Next]_<<JobNow, bus>>
  BY SequencerStep, NextIsClock
<1>2. QED
  BY <1>1, SequencerInit, WholeInvariant, PTL DEF Spec, ImplementsSequencer, Sequencer!Spec
=============================================================================
