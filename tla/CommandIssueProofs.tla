------------------------- MODULE CommandIssueProofs -------------------------
(***************************************************************************)
(* Proofs about CommandIssue for every set of ways, addresses, lengths and *)
(* words, and every gap of at least two clocks.                            *)
(***************************************************************************)
EXTENDS CommandIssue, TLAPS

USE WaysAssumption, LengthAssumption, WordsAssumption, GapAssumption

(***************************************************************************)
(* Type correctness.                                                       *)
(***************************************************************************)

(* The machines only move between the named phases.                        *)
LEMMA NextStateType ==
  ASSUME TypeOK, NEW o \in Ops
  PROVE  NextState(o) \in Phases \ {"RESET"}
<1>1. fsm[o].st \in Phases
  BY DEF TypeOK, MachineType
<1>2. QED
  BY <1>1 DEF NextState, ResetNext, SetFeatureNext, ProgramPageNext, ReadPageNext,
     GetFeatureNext, EraseBlockNext, ReadStatusNext, Phases, Ops

(* A machine loads registers of their types.                               *)
LEMMA MachineNextType ==
  ASSUME TypeOK, NEW o \in Ops
  PROVE  MachineNext(o) \in MachineType
<1> DEFINE s == NextState(o)
<1>1. s \in Phases
  BY NextStateType
<1>2. fsm[o] \in MachineType /\ adapter \in AdapterType /\ regs \in RegsType
  BY DEF TypeOK
<1>3. Latched(o, s, TargetOps, adapter.target, 0, fsm[o].target) \in Target
  BY <1>2 DEF Latched, MachineType, AdapterType, Target
<1>4. Latched(o, s, LenOps, adapter.len, 0, fsm[o].len) \in Length
  BY <1>2 DEF Latched, MachineType, AdapterType
<1>5. Latched(o, s, ColOps, regs.col, Addr0, fsm[o].col) \in Addr
  BY <1>2 DEF Latched, MachineType, RegsType
<1>6. Latched(o, s, RowOps, regs.row, Addr0, fsm[o].row) \in Addr
  BY <1>2 DEF Latched, MachineType, RegsType
<1>7. WayNext(o, s) \in SUBSET Way
  BY <1>2 DEF WayNext, MachineType, RegsType
<1>8. LastNext(o, s) \in BOOLEAN /\ TransNext(o, s) \in BOOLEAN
  BY DEF LastNext, TransNext
<1>9. TimerNext(o, s) \in 0..StatusDelay
  BY <1>2 DEF TimerNext, MachineType, StatusDelay
<1> HIDE DEF s
<1>10. QED
  BY <1>1, <1>3, <1>4, <1>5, <1>6, <1>7, <1>8, <1>9 DEF MachineNext, MachineType, s

(* The bytes a machine asks for are codes or addresses.                    *)
LEMMA CATypes ==
  ASSUME TypeOK, NEW o \in Ops
  PROVE  /\ \A c \in Codes : <<c>> \in CAType
         /\ PageAddr(fsm[o]) \in CAType
         /\ RowAddr(fsm[o]) \in CAType
         /\ BlockAddr(fsm[o]) \in CAType
         /\ fsm[o].len \in Nat
<1>1. fsm[o].len \in Nat /\ fsm[o].col \in Addr /\ fsm[o].row \in Addr
  BY DEF TypeOK, MachineType
<1>2. QED
  BY <1>1 DEF CAType, PageAddr, RowAddr, BlockAddr

(* Each machine asks for operands of their types.                          *)
LEMMA AskOfType ==
  ASSUME TypeOK, NEW o \in Ops
  PROVE  AskOf(o).num \in Nat /\ AskOf(o).cle \in BOOLEAN /\ AskOf(o).ca \in CAType
<1> DEFINE Typed(a) == a.num \in Nat /\ a.cle \in BOOLEAN /\ a.ca \in CAType
<1> DEFINE f == fsm[o]
<1>1. \A cmd : \A n \in Nat : \A cle \in BOOLEAN : \A ca \in CAType : Typed(Ask(cmd, n, cle, ca))
  BY DEF Ask
<1>2. /\ \A c \in Codes : <<c>> \in CAType
      /\ PageAddr(f) \in CAType /\ RowAddr(f) \in CAType /\ BlockAddr(f) \in CAType
      /\ f.len \in Nat
  BY CATypes
<1>3. ConfirmProgram(f) \in Codes
  BY DEF ConfirmProgram, Codes
<1> HIDE DEF Typed, f
<1>4. Typed(AskNothing)
  BY <1>1, <1>2 DEF AskNothing, Codes
<1>5. Typed(ResetAsk(f))
  BY <1>1, <1>2, <1>4 DEF ResetAsk, Codes
<1>6. Typed(SetFeatureAsk(f))
  BY <1>1, <1>2, <1>4 DEF SetFeatureAsk, Codes
<1>7. Typed(ProgramPageAsk(f))
  BY <1>1, <1>2, <1>3, <1>4 DEF ProgramPageAsk, Codes
<1>8. Typed(ReadPageAsk(f))
  BY <1>1, <1>2, <1>4 DEF ReadPageAsk, Codes
<1>9. Typed(GetFeatureAsk(f))
  BY <1>1, <1>2, <1>4 DEF GetFeatureAsk, Codes
<1>10. Typed(EraseBlockAsk(f))
  BY <1>1, <1>2, <1>4 DEF EraseBlockAsk, Codes
<1>11. Typed(ReadStatusAsk(f))
  BY <1>1, <1>2, <1>4 DEF ReadStatusAsk, Codes
<1>12. Typed(AskOf(o))
  BY <1>5, <1>6, <1>7, <1>8, <1>9, <1>10, <1>11 DEF AskOf, Ops, f
<1>13. QED
  BY <1>12 DEF Typed

(* A started atom latches operands of their types.                         *)
LEMMA MuxAskType ==
  ASSUME TypeOK
  PROVE  /\ MuxAsk.num \in Nat /\ MuxAsk.cle \in BOOLEAN /\ MuxAsk.ca \in CAType
         /\ MuxWay \in SUBSET Way
<1>1. Owner \in Ops \cup {"Idle"}
  BY DEF Owner, Ops
<1>2. ASSUME NEW o \in Ops
      PROVE  AskOf(o).num \in Nat /\ AskOf(o).cle \in BOOLEAN /\ AskOf(o).ca \in CAType
  BY <1>2, AskOfType
<1>3. AskNothing.num \in Nat /\ AskNothing.cle \in BOOLEAN /\ AskNothing.ca \in CAType
  BY DEF AskNothing, Ask, CAType, Codes
<1>4. MuxWay \in SUBSET Way
  BY <1>1 DEF MuxWay, TypeOK, MachineType
<1>5. QED
  BY <1>1, <1>2, <1>3, <1>4 DEF MuxAsk

LEMMA AtomNextType ==
  ASSUME TypeOK, NEW k \in Kinds, NEW finishes \in BOOLEAN
  PROVE  AtomNext(k, finishes) \in AtomType
<1>1. atom[k] \in AtomType
  BY DEF TypeOK
<1>2. AtomReady \in AtomType
  BY DEF AtomReady, AtomType, CAType, Codes
<1>3. MuxAsk.num \in Nat /\ MuxAsk.cle \in BOOLEAN /\ MuxAsk.ca \in CAType
      /\ MuxWay \in SUBSET Way
  BY MuxAskType
<1>4. CASE atom[k].st = "READY" /\ MuxAsk.cmd = k
  BY <1>3, <1>4 DEF AtomNext, AtomType
<1>5. CASE atom[k].st = "RUN" /\ ~atom[k].last
  <2>1. AtomNext(k, finishes) = [atom[k] EXCEPT !.last = finishes]
    BY <1>5, Zenon DEF AtomNext
  <2>2. QED
    BY <1>1, <2>1 DEF AtomType
<1>6. CASE ~(atom[k].st = "READY" /\ MuxAsk.cmd = k) /\ ~(atom[k].st = "RUN" /\ ~atom[k].last)
  BY <1>2, <1>6, Zenon DEF AtomNext
<1>7. QED
  BY <1>4, <1>5, <1>6

(* The adapter, the setup registers, the R/B pipelines and the gap count.  *)
LEMMA SmallRegistersType ==
  ASSUME TypeOK, NEW w \in Word \cup {NoWord}, NEW rb \in SUBSET Way
  PROVE  /\ AdapterNext(w) \in AdapterType
         /\ RegsNext \in RegsType
         /\ \A o \in RBOps : PipelineNext(o, rb) \in PipelineType
         /\ SinceNext(w) \in 1..MinGap
<1>1. adapter \in AdapterType /\ regs \in RegsType /\ since \in 1..MinGap
  BY DEF TypeOK
<1>2. Busy \in BOOLEAN
  BY DEF Busy
<1>3. AdapterNext(w) \in AdapterType
  <2>1. CASE w = NoWord
    BY <1>1, <1>2, <2>1 DEF AdapterNext, AdapterType
  <2>2. CASE w # NoWord
    <3>1. w \in Word
      BY <2>2
    <3>2. QED
      BY <1>2, <2>2, <3>1 DEF AdapterNext, AdapterType, Word
  <2>3. QED
    BY <2>1, <2>2
<1>4. RegsNext \in RegsType
  <2>1. WaysOf[adapter.addr] \in SUBSET Way /\ adapter.addr \in Addr
    BY <1>1 DEF AdapterType
  <2>2. QED
    BY <1>1, <2>1 DEF RegsNext, RegsType
<1>5. ASSUME NEW o \in RBOps
      PROVE  PipelineNext(o, rb) \in PipelineType
  <2>1. fsm[o].way \in SUBSET Way /\ rbp[o].sel \in SUBSET Way
    BY DEF TypeOK, MachineType, PipelineType, RBOps, Ops
  <2>2. QED
    BY <2>1 DEF PipelineNext, PipelineType
<1>6. SinceNext(w) \in 1..MinGap
  BY <1>1 DEF SinceNext
<1>7. QED
  BY <1>3, <1>4, <1>5, <1>6

LEMMA InitType == Init => TypeOK
<1> SUFFICES ASSUME Init PROVE TypeOK
  OBVIOUS
<1>1. adapter \in AdapterType
  BY DEF Init, AdapterType, Opcodes, Target
<1>2. regs \in RegsType
  BY DEF Init, RegsType
<1>3. fsm \in [Ops -> MachineType]
  BY DEF Init, MachineType, Phases, Target, StatusDelay
<1>4. rbp \in [RBOps -> PipelineType]
  BY DEF Init, PipelineType
<1>5. atom \in [Kinds -> AtomType]
  BY DEF Init, AtomReady, AtomType, CAType, Codes
<1>6. since \in 1..MinGap
  BY DEF Init
<1>7. QED
  BY <1>1, <1>2, <1>3, <1>4, <1>5, <1>6 DEF TypeOK

(* A clock edge with any word the host side may hold, sent no sooner than  *)
(* MinGap clocks after an operation word.                                  *)
ClockEdge ==
  \E w \in Word \cup {NoWord}, rb \in SUBSET Way, finishing \in SUBSET Running :
    /\ w \in Word => MaySend(w)
    /\ Clock(w, rb, finishing)

(* No word is not a word.                                                  *)
LEMMA NoWordIsNone == NoWord \notin Word
<1>1. SUFFICES ASSUME NoWord \in Word PROVE FALSE
  OBVIOUS
<1>2. DOMAIN NoWord = {"none"} /\ "valid" \in DOMAIN NoWord
  BY <1>1 DEF NoWord, Word
<1>3. QED
  BY <1>2

(* Every step is a clock edge with some input.                             *)
LEMMA NextIsClock ==
  ASSUME Next
  PROVE  ClockEdge
<1>1. CASE Quiet
  <2>1. PICK rb \in SUBSET Way, finishing \in SUBSET Running : Clock(NoWord, rb, finishing)
    BY <1>1 DEF Quiet, Edge, Clock
  <2>2. QED
    BY <2>1, NoWordIsNone DEF ClockEdge
<1>2. CASE \E w \in Words : Receive(w)
  BY <1>2 DEF Receive, Edge, Clock, ClockEdge
<1>3. QED
  BY <1>1, <1>2 DEF Next

(* Every clock edge keeps the types.                                       *)
LEMMA TypeStep ==
  ASSUME TypeOK, [ClockEdge]_vars
  PROVE  TypeOK'
<1>1. CASE ClockEdge
  <2>1. PICK w \in Word \cup {NoWord}, rb \in SUBSET Way, finishing \in SUBSET Running :
          Clock(w, rb, finishing)
    BY <1>1 DEF ClockEdge
  <2>2. adapter' \in AdapterType /\ regs' \in RegsType /\ since' \in 1..MinGap
    BY <2>1, SmallRegistersType DEF Clock, Logic, Inputs
  <2>3. fsm' \in [Ops -> MachineType]
    BY <2>1, MachineNextType DEF Clock, Logic
  <2>4. rbp' \in [RBOps -> PipelineType]
    BY <2>1, SmallRegistersType DEF Clock, Logic, Inputs
  <2>5. atom' \in [Kinds -> AtomType]
    <3>1. \A k \in Kinds : (k \in finishing) \in BOOLEAN
      OBVIOUS
    <3>2. \A k \in Kinds : AtomNext(k, k \in finishing) \in AtomType
      BY <3>1, AtomNextType
    <3>3. QED
      BY <2>1, <3>2 DEF Clock, Inputs
  <2>6. QED
    BY <2>2, <2>3, <2>4, <2>5 DEF TypeOK
<1>2. CASE UNCHANGED vars
  BY <1>2 DEF vars, TypeOK
<1>3. QED
  BY <1>1, <1>2

(* The registers keep their types.                                         *)
THEOREM TypeCorrect == Spec => []TypeOK
<1>1. Init => TypeOK
  BY InitType
<1>2. TypeOK /\ [Next]_vars => TypeOK'
  BY TypeStep, NextIsClock
<1>3. QED
  BY <1>1, <1>2, PTL DEF Spec

(***************************************************************************)
(* One operation at a time.  OneOperation alone is not inductive: what     *)
(* keeps a second operation out is that an accepted word is in the adapter *)
(* only while every machine is in READY, and that holds because the clock  *)
(* after an operation word, in which the busy flag is not up yet, is too   *)
(* early for another command word.                                         *)
(***************************************************************************)
Exclusion ==
  /\ OneOperation
  /\ adapter.valid => \A o \in Ops : fsm[o].st = "READY"
  /\ PendingOp => since = 1

(* A machine leaves READY only on its own start, and never re-enters RESET. *)
LEMMA LeavesOnStart ==
  ASSUME TypeOK, NEW o \in Ops, ~Underway(o)
  PROVE  NextState(o) = IF fsm[o].st = "READY" /\ Start(o) THEN "CMDLatch" ELSE "READY"
BY DEF Underway, NextState

(* The machines' states after a clock edge.                                *)
LEMMA ClockStates ==
  ASSUME NEW w, NEW rb, NEW finishing, Clock(w, rb, finishing), NEW o \in Ops
  PROVE  fsm'[o] = MachineNext(o) /\ fsm'[o].st = NextState(o)
BY DEF Clock, Logic, MachineNext

(* What the adapter holds after an edge was let in with no machine busy.   *)
LEMMA AdapterAccepts ==
  ASSUME NEW w \in Word \cup {NoWord}, NEW rb, NEW finishing, Clock(w, rb, finishing),
         w \in Word => MaySend(w), adapter'.valid
  PROVE  /\ w \in Word /\ w # NoWord /\ w.valid /\ since >= MinGap
         /\ \A o \in Ops : ~Underway(o)
         /\ adapter'.opcode = w.opcode
<1>1. w # NoWord /\ w.valid /\ ~Busy /\ adapter'.opcode = w.opcode
  <2>1. adapter' = AdapterNext(w)
    BY DEF Clock, Logic
  <2>2. CASE w = NoWord
    <3>1. adapter'.valid = FALSE
      BY <2>1, <2>2 DEF AdapterNext
    <3>2. QED
      BY <3>1
  <2>3. CASE w # NoWord
    BY <2>1, <2>3 DEF AdapterNext
  <2>4. QED
    BY <2>2, <2>3
<1>2. w \in Word /\ since >= MinGap
  BY <1>1 DEF MaySend
<1>3. QED
  BY <1>1, <1>2 DEF Busy, Active, Underway

LEMMA ExclusionStep ==
  ASSUME TypeOK, Exclusion, [ClockEdge]_vars
  PROVE  Exclusion'
<1>1. CASE ClockEdge
  <2>1. PICK w \in Word \cup {NoWord}, rb \in SUBSET Way, finishing \in SUBSET Running :
          /\ w \in Word => MaySend(w)
          /\ Clock(w, rb, finishing)
    BY <1>1 DEF ClockEdge
  <2>2. since \in 1..MinGap
    BY DEF TypeOK
  <2>3. OneOperation'
    <3> SUFFICES ASSUME NEW p \in Ops, NEW q \in Ops, Underway(p)', Underway(q)' PROVE p = q
      BY DEF OneOperation
    <3>1. ASSUME NEW o \in Ops, Underway(o)'
          PROVE  Underway(o) \/ Start(o)
      BY <2>1, <3>1, LeavesOnStart, ClockStates DEF Underway
    <3>2. ASSUME NEW o \in Ops, Start(o)
          PROVE  \A r \in Ops : ~Underway(r)
      BY <3>2 DEF Exclusion, Start, Underway
    <3>3. CASE Start(p) \/ Start(q)
      BY <3>1, <3>2, <3>3 DEF Start
    <3>4. CASE ~Start(p) /\ ~Start(q)
      BY <3>1, <3>4 DEF Exclusion, OneOperation
    <3>5. QED
      BY <3>3, <3>4
  <2>4. (adapter.valid => \A o \in Ops : fsm[o].st = "READY")'
    <3> SUFFICES ASSUME adapter'.valid, NEW o \in Ops PROVE fsm'[o].st = "READY"
      OBVIOUS
    <3>1. since >= MinGap /\ ~Underway(o)
      BY <2>1, AdapterAccepts
    <3>2. ~Start(o)
      BY <2>2, <3>1 DEF Exclusion, PendingOp, Start
    <3>3. QED
      BY <2>1, <3>1, <3>2, LeavesOnStart, ClockStates
  <2>5. (PendingOp => since = 1)'
    <3> SUFFICES ASSUME PendingOp' PROVE since' = 1
      OBVIOUS
    <3>1. w # NoWord /\ w.valid /\ w.opcode \in Ops
      BY <2>1, AdapterAccepts DEF PendingOp
    <3>2. QED
      BY <2>1, <3>1 DEF Clock, Logic, SinceNext
  <2>6. QED
    BY <2>3, <2>4, <2>5 DEF Exclusion
<1>2. CASE UNCHANGED vars
  BY <1>2 DEF vars, Exclusion, OneOperation, Underway, PendingOp
<1>3. QED
  BY <1>1, <1>2

LEMMA ExclusionInit == Init => Exclusion
BY DEF Init, Exclusion, OneOperation, Underway, PendingOp

LEMMA ExclusionHolds == Spec => [](TypeOK /\ Exclusion)
<1>1. TypeOK /\ Exclusion /\ [Next]_vars => Exclusion'
  BY ExclusionStep, NextIsClock
<1>2. QED
  BY <1>1, ExclusionInit, TypeCorrect, PTL DEF Spec

(* No two operations are ever in progress together.                        *)
THEOREM OneAtATime == Spec => []OneOperation
<1>1. Exclusion => OneOperation
  BY DEF Exclusion
<1>2. QED
  BY <1>1, ExclusionHolds, PTL

(* An accepted operation starts at the next clock edge.                    *)
THEOREM NoAcceptedOperationLost == Spec => AcceptedStarts
<1>1. ASSUME TypeOK, Exclusion, [Next]_vars
      PROVE  [PendingOp => /\ fsm[adapter.opcode].st = "READY"
                           /\ fsm'[adapter.opcode].st = "CMDLatch"]_vars
  <2>1. ASSUME Next, PendingOp
        PROVE  fsm[adapter.opcode].st = "READY" /\ fsm'[adapter.opcode].st = "CMDLatch"
    <3>1. adapter.opcode \in Ops /\ Start(adapter.opcode) /\ fsm[adapter.opcode].st = "READY"
      BY <1>1, <2>1 DEF Exclusion, PendingOp, Start
    <3>2. PICK w \in Word \cup {NoWord}, rb \in SUBSET Way, finishing \in SUBSET Running :
            Clock(w, rb, finishing)
      BY <2>1, NextIsClock DEF ClockEdge
    <3>3. QED
      BY <1>1, <3>1, <3>2, LeavesOnStart, ClockStates DEF Underway
  <2>2. QED
    BY <1>1, <2>1
<1>2. QED
  BY <1>1, ExclusionHolds, PTL DEF Spec, AcceptedStarts

(* The setup registers do not move while an operation is in progress.      *)
THEOREM SetupRegistersStable == Spec => SetupStable
<1>1. ASSUME TypeOK, Exclusion, [Next]_vars
      PROVE  [(\E o \in Ops : Underway(o)) => regs' = regs]_vars
  <2>1. ASSUME Next, NEW o \in Ops, Underway(o)
        PROVE  regs' = regs
    <3>1. ~adapter.valid
      BY <1>1, <2>1 DEF Exclusion, Underway
    <3>2. PICK w \in Word \cup {NoWord}, rb \in SUBSET Way, finishing \in SUBSET Running :
            Clock(w, rb, finishing)
      BY <2>1, NextIsClock DEF ClockEdge
    <3>3. QED
      BY <3>1, <3>2 DEF Clock, Logic, RegsNext, Start
  <2>2. QED
    BY <1>1, <2>1
<1>2. QED
  BY <1>1, ExclusionHolds, PTL DEF Spec, SetupStable

(***************************************************************************)
(* The atom generators follow the owner of the multiplexer.  A started     *)
(* atom latches its operands and runs to its last step whatever the        *)
(* machine does, so the machine must hold its request for as long: it does *)
(* because, with only that atom running, no other LastStep can move it on. *)
(***************************************************************************)
Handshake ==
  /\ AtomFollowsOwner
  /\ \A k \in Kinds : atom[k].st = "READY" => ~atom[k].last

(* The only active machine owns the multiplexer.                           *)
LEMMA OwnerIs ==
  ASSUME OneOperation, NEW o \in Ops, Active(o)
  PROVE  Owner = o
<1>1. \A p \in Ops \ {o} : ~Active(p)
  BY DEF OneOperation, Underway, Active
<1>2. QED
  BY <1>1 DEF Owner, Ops

(* A machine that asks for an atom is active, and with no atom at its last *)
(* step it goes on asking for the same one.                                *)
LEMMA RequestHeld ==
  ASSUME NEW w, NEW rb, NEW finishing, Clock(w, rb, finishing), TypeOK,
         NEW o \in Ops, AskOf(o).cmd \in Kinds, \A k \in Kinds : ~LastStep(k)
  PROVE  Active(o) /\ Active(o)' /\ AskOf(o)'.cmd = AskOf(o).cmd
<1>1. /\ fsm'[o].st = NextState(o)
      /\ fsm'[o].last = LastNext(o, NextState(o))
      /\ fsm'[o].target = Latched(o, NextState(o), TargetOps, adapter.target, 0, fsm[o].target)
  BY DEF Clock, Logic, MachineNext
<1>2. fsm[o].st \in {"CMDIssue", "ADDRIssue", "DATAIssue", "CMD2Issue"}
  BY DEF AskOf, ResetAsk, SetFeatureAsk, ProgramPageAsk, ReadPageAsk, GetFeatureAsk,
     EraseBlockAsk, ReadStatusAsk, AskNothing, Ask, Kinds, Ops
<1>3. /\ fsm[o].st = "CMD2Issue" /\ o \in {"ProgramPage", "EraseBlock"} => ~fsm[o].last
      /\ fsm[o].st = "DATAIssue" /\ o \in {"ReadPage", "GetFeature"} => ~fsm[o].last
  BY DEF AskOf, ProgramPageAsk, ReadPageAsk, GetFeatureAsk, EraseBlockAsk, AskNothing, Ask,
     Kinds, Ops
<1>4. ~LastStep("ACA") /\ ~LastStep("ACS") /\ ~LastStep("DOA") /\ ~LastStep("DOS") /\ ~LastStep("DIS")
  BY DEF Kinds
<1>5. NextState(o) = fsm[o].st
  BY <1>2, <1>3, <1>4 DEF NextState, ResetNext, SetFeatureNext, ProgramPageNext, ReadPageNext,
     GetFeatureNext, EraseBlockNext, ReadStatusNext, Ops
<1>6. fsm'[o].st = fsm[o].st /\ fsm'[o].target = fsm[o].target /\ fsm'[o].last = FALSE
  BY <1>1, <1>2, <1>4, <1>5 DEF Latched, Cleared, LastNext
<1>7. Active(o) /\ Active(o)'
  BY <1>2, <1>6 DEF Active
<1>8. AskOf(o)'.cmd = AskOf(o).cmd
  BY <1>2, <1>3, <1>6 DEF AskOf, ResetAsk, SetFeatureAsk, ProgramPageAsk, ReadPageAsk,
     GetFeatureAsk, EraseBlockAsk, ReadStatusAsk, AskNothing, Ask, ReadParam, Ops
<1>9. QED
  BY <1>7, <1>8

(* With one machine in progress, the atom it asks for is the only one that *)
(* runs, and a request held is a request the multiplexer passes on.        *)
LEMMA OwnerHeld ==
  ASSUME NEW w, NEW rb, NEW finishing, Clock(w, rb, finishing), TypeOK, OneOperation,
         OneOperation', MuxAsk.cmd \in Kinds, \A k \in Kinds : ~LastStep(k)
  PROVE  MuxAsk'.cmd = MuxAsk.cmd
<1>1. Owner # "Idle"
  BY DEF MuxAsk, AskNothing, Ask, Kinds
<1>2. Owner \in Ops
  BY <1>1 DEF Owner, Ops
<1>3. MuxAsk = AskOf(Owner)
  BY <1>1 DEF MuxAsk
<1>4. PICK o \in Ops : o = Owner /\ AskOf(o).cmd = MuxAsk.cmd
  BY <1>2, <1>3
<1>5. Active(o)' /\ AskOf(o)'.cmd = MuxAsk.cmd
  BY <1>4, RequestHeld
<1>6. Owner' = o
  <2>1. \A p \in Ops \ {o} : ~Active(p)'
    BY <1>5 DEF OneOperation, Underway, Active
  <2>2. QED
    BY <1>5, <2>1 DEF Owner, Ops
<1>7. MuxAsk' = AskOf(o)'
  BY <1>6 DEF MuxAsk, AskOf, Ops
<1>8. QED
  BY <1>5, <1>7

LEMMA HandshakeStep ==
  ASSUME TypeOK, Exclusion, Exclusion', Handshake, ClockEdge
  PROVE  Handshake'
<1>1. PICK w \in Word \cup {NoWord}, rb \in SUBSET Way, finishing \in SUBSET Running :
        Clock(w, rb, finishing)
  BY DEF ClockEdge
<1>2. ASSUME NEW k \in Kinds
      PROVE  atom[k].st \in {"READY", "RUN"} /\ atom'[k] = AtomNext(k, k \in finishing)
  BY <1>1 DEF Clock, Inputs, TypeOK, AtomType
<1>3. ASSUME NEW k \in Kinds, atom'[k].st = "READY"
      PROVE  ~atom'[k].last
  <2>1. CASE atom[k].st = "READY" /\ MuxAsk.cmd = k
    <3>1. atom'[k] = [st |-> "RUN", last |-> FALSE, num |-> MuxAsk.num, cle |-> MuxAsk.cle,
                      ca |-> MuxAsk.ca, way |-> MuxWay]
      BY <1>2, <2>1, Zenon DEF AtomNext
    <3>2. QED
      BY <3>1
  <2>2. CASE atom[k].st = "RUN" /\ ~atom[k].last
    <3>1. PICK finishes : atom'[k] = [atom[k] EXCEPT !.last = finishes]
      BY <1>2, <2>2, Zenon DEF AtomNext
    <3>2. atom'[k].st = "RUN"
      BY <2>2, <3>1 DEF TypeOK, AtomType
    <3>3. QED
      BY <1>3, <3>2
  <2>3. CASE ~(atom[k].st = "READY" /\ MuxAsk.cmd = k) /\ ~(atom[k].st = "RUN" /\ ~atom[k].last)
    <3>1. atom'[k] = AtomReady
      BY <1>2, <2>3, Zenon DEF AtomNext
    <3>2. QED
      BY <3>1 DEF AtomReady
  <2>4. QED
    BY <2>1, <2>2, <2>3
<1>4. ASSUME NEW k \in Kinds, atom'[k].st = "RUN"
      PROVE  MuxAsk'.cmd = k
  \* either way k is the atom the owner asks for, and it is not at its last step
  <2>1. MuxAsk.cmd = k /\ ~atom[k].last
    <3>1. CASE atom[k].st = "READY"
      <4>1. MuxAsk.cmd = k
        <5>1. SUFFICES ASSUME MuxAsk.cmd # k PROVE FALSE
          OBVIOUS
        <5>2. atom'[k] = AtomReady
          BY <1>2, <3>1, <5>1, Zenon DEF AtomNext
        <5>3. QED
          BY <1>4, <5>2 DEF AtomReady
      <4>2. QED
        BY <3>1, <4>1 DEF Handshake
    <3>2. CASE atom[k].st = "RUN"
      <4>1. ~atom[k].last
        <5>1. SUFFICES ASSUME atom[k].last PROVE FALSE
          OBVIOUS
        <5>2. atom'[k] = AtomReady
          BY <1>2, <3>2, <5>1, Zenon DEF AtomNext
        <5>3. QED
          BY <1>4, <5>2 DEF AtomReady
      <4>2. QED
        BY <3>2, <4>1 DEF Handshake, AtomFollowsOwner
    <3>3. QED
      BY <1>2, <3>1, <3>2
  <2>2. \A l \in Kinds : ~LastStep(l)
    <3>1. ASSUME NEW l \in Kinds, l # k PROVE atom[l].st = "READY"
      BY <1>2, <2>1, <3>1 DEF Handshake, AtomFollowsOwner
    <3>2. QED
      BY <2>1, <3>1 DEF LastStep, Handshake
  <2>3. QED
    BY <1>1, <2>1, <2>2, OwnerHeld DEF Exclusion
<1>5. QED
  BY <1>3, <1>4 DEF Handshake, AtomFollowsOwner

(* A step that changes nothing keeps it too.                               *)
LEMMA HandshakeStutter ==
  ASSUME Handshake, UNCHANGED vars
  PROVE  Handshake'
BY DEF vars, Handshake, AtomFollowsOwner, MuxAsk, Owner, Active, AskOf

LEMMA HandshakeInit == Init => Handshake
BY DEF Init, Handshake, AtomFollowsOwner, AtomReady

(* Only the atom the owner of the multiplexer asks for ever runs.          *)
THEOREM AtomsFollowOwner == Spec => []AtomFollowsOwner
<1>1. TypeOK /\ Exclusion /\ Exclusion' /\ Handshake /\ [Next]_vars => Handshake'
  BY HandshakeStep, HandshakeStutter, NextIsClock
<1>2. Handshake => AtomFollowsOwner
  BY DEF Handshake
<1>3. QED
  BY <1>1, <1>2, HandshakeInit, ExclusionHolds, PTL DEF Spec
=============================================================================
