--------------------------- MODULE MCCommandIssue ---------------------------
(***************************************************************************)
(* CommandIssue on small instances.                                        *)
(***************************************************************************)
EXTENDS CommandIssue

CONSTANTS w1, w2, a0, a1, a2

MCWaysOf == [a \in {a0, a1, a2} |->
               CASE a = a0 -> {} [] a = a1 -> {w1} [] a = a2 -> Way]

W(opcode, target, addr, len) ==
  [valid |-> TRUE, opcode |-> opcode, target |-> target, addr |-> addr, len |-> len]

\* A write to a register other than rCommand.
Silent(addr, len) ==
  [valid |-> FALSE, opcode |-> "Other", target |-> 0, addr |-> addr, len |-> len]

\* Pages, blocks and status: set up, read, program and erase of every kind.
SequenceWords ==
  {W("SelectWay", 0, a1, 0), W("SetColumn", 0, a1, 0), W("SetRow", 0, a2, 0), Silent(a1, 2),
   W("ReadPage", 0, a0, 2), W("ReadPage", 1, a0, 4),
   W("ProgramPage", 0, a0, 4), W("ProgramPage", 1, a0, 2), W("ProgramPage", 2, a0, 2),
   W("EraseBlock", 0, a0, 0), W("EraseBlock", 2, a0, 0),
   W("ReadStatus", 0, a0, 0), W("ReadStatus", 1, a0, 0)}

\* One word of every operation, with the setup words and a silent one.
AllWords ==
  {W("SelectWay", 0, a1, 0), W("SetFeatureWord", 0, a1, 0), Silent(a1, 0),
   W("Reset", 0, a0, 0), W("SetFeature", 0, a0, 0), W("GetFeature", 0, a0, 0),
   W("ReadPage", 0, a0, 2), W("ReadPage", 1, a0, 2), W("ProgramPage", 0, a0, 2),
   W("EraseBlock", 0, a0, 0), W("ReadStatus", 0, a0, 0), W("ReadStatus", 1, a0, 0)}

\* One word of every operation, on no way or on both, with either feature word
\* and a write that is not a command.
MixedWords ==
  {W("SelectWay", 0, a2, 0), W("SetFeatureWord", 0, a1, 0), W("SetFeatureWord", 0, a2, 0),
   Silent(a1, 0), W("Reset", 0, a0, 0), W("SetFeature", 0, a0, 0), W("GetFeature", 0, a0, 0),
   W("ReadPage", 0, a0, 2), W("ProgramPage", 0, a0, 2), W("EraseBlock", 0, a0, 0),
   W("ReadStatus", 0, a0, 0)}
=============================================================================
