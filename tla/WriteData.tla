----------------------------- MODULE WriteData -----------------------------
(***************************************************************************)
(* The data a command sends to a chip: the feature word that               *)
(* NFC_Command_SetFeature offers in two halves to the asynchronous output  *)
(* atom, and the page that the write FIFO offers to the synchronous one.   *)
(* Both listen to the one oACG_CI_WriteReady of the atom in use.           *)
(***************************************************************************)
EXTENDS Naturals, Sequences

CONSTANTS
  Byte,
  Zero,      \* the byte 8'h00
  Scripts,   \* what the driver asks for: sequences of Item
  Depth      \* bound: words the write FIFO holds

Word == Byte \X Byte                                    \* <<[15:8], [7:0]>>
Item ==
  [op : {"set_feature"}, word : Word \X Word] \cup      \* <<[31:16], [15:0]>>
  [op : {"SetFeature"}] \cup
  [op : {"ProgramPage"}, page : Seq(Word) \ {<< >>}]

ASSUME ByteAssumption == Zero \in Byte
ASSUME ScriptAssumption == \A s \in Scripts : s \in Seq(Item)
ASSUME DepthAssumption == Depth \in Nat \ {0}

VARIABLES
  script,    \* what the driver has still to ask for
  command,   \* the command machine at work: its op and phase, the length it asks for
  feature,   \* rFeature4B
  half,      \* NFC_Command_SetFeature's rACG_WriteData and rACG_WriteLast
  stream,    \* words the DMA has still to deliver
  fifo,      \* words the write FIFO offers
  atom,      \* the registers of the output atom that is or was last in use
  sent,      \* history: bytes the chip has been given for this command
  asked      \* history: bytes it was to be given

vars == <<script, command, feature, half, stream, fifo, atom, sent, asked>>

Bytes(words) ==
  [i \in 1..2 * Len(words) |-> words[(i + 1) \div 2][IF i % 2 = 1 THEN 1 ELSE 2]]

-----------------------------------------------------------------------------
(* Wires.                                                                  *)
Active(op) == command.op = op
Commanded == command.phase = "data"                     \* oACG_Command[5] or [2]

\* The mux passes on the WriteReady of the atom the command names.
WriteReady == Commanded /\ atom.wready
WriteValid == Active("SetFeature") \/ (Active("ProgramPage") /\ fifo # << >>)
WriteData ==
  CASE Active("SetFeature") -> half.data
    [] Active("ProgramPage") /\ fifo # << >> -> Head(fifo)
    [] OTHER -> <<Zero, Zero>>

\* wFifo_WriteReady is gated by the program machine; the feature word's is not.
Popped == WriteReady /\ Active("ProgramPage") /\ fifo # << >>
HalfLastStuck == WriteReady \/ half.last                \* mutant
HalfLast == WriteReady # half.last

-----------------------------------------------------------------------------
(* The output atoms.                                                       *)
Async == Active("SetFeature")
TimerDone == atom.tc = IF Async THEN 9 ELSE 1
Strobed == atom.tc = 4
DoneLate == atom.dc > atom.num                          \* mutant
Done == atom.dc = atom.num                              \* wDOADone, wDOSDone

Tick == IF TimerDone THEN 0 ELSE atom.tc + 1

\* Next states, first those the two atoms share.
Prologue ==
  CASE atom.st = "RESET" -> "READY"
    [] atom.st = "READY" -> IF Commanded THEN "LATCH" ELSE "READY"
    [] atom.st = "LATCH" -> "SETUP"                     \* DOA_tCSSS, DOS_tDQSS
    [] atom.st = "SETUP" -> IF TimerDone THEN "OST00" ELSE "SETUP"
    [] atom.st = "OST00" -> IF WriteValid THEN "OST01" ELSE "OST00"
    [] atom.st = "OST01" -> IF atom.wready THEN "OST02" ELSE "OST01"

AsyncNext ==
  CASE atom.st \in {"OST02", "OST03"} /\ ~TimerDone -> atom.st
    [] atom.st \in {"OST02", "OST03"} /\ TimerDone /\ Done -> "OST04"
    [] atom.st = "OST02" /\ TimerDone /\ ~Done -> "OST03"
    [] atom.st = "OST03" /\ TimerDone /\ ~Done -> "OST00"
    [] atom.st = "OST04" -> IF atom.last THEN "READY" ELSE "OST04"
    [] OTHER -> Prologue

SyncNextBlind ==                                        \* mutant
  CASE atom.st = "OST02" -> IF Done THEN "OST03" ELSE "OST02"
    [] atom.st = "OST03" -> IF atom.last THEN "READY" ELSE "OST03"
    [] OTHER -> Prologue
SyncNext ==
  CASE atom.st = "OST02" /\ Done -> "OST03"
    [] atom.st = "OST02" /\ ~Done -> IF WriteValid THEN "OST02" ELSE "OST00"
    [] atom.st = "OST03" -> IF atom.last THEN "READY" ELSE "OST03"
    [] OTHER -> Prologue

AtomNext == IF Async THEN AsyncNext ELSE SyncNext

Rest == [st |-> "READY", wready |-> FALSE, last |-> FALSE, num |-> 0,
         data |-> <<Zero, Zero>>, dq |-> Zero, we |-> TRUE, dc |-> 0, tc |-> 0]

\* The registers after an edge, by the state entered.
Entered(s) ==
  CASE s = "READY" -> Rest
    [] s = "LATCH" -> [Rest EXCEPT !.st = s, !.num = command.num]
    [] s = "SETUP" -> [atom EXCEPT !.st = s, !.tc = Tick]
    [] s \in {"OST00", "OST01"} ->
         [atom EXCEPT !.st = s, !.wready = (s = "OST01"), !.we = TRUE, !.tc = 0]
    [] s = "OST02" /\ ~Async ->
         [atom EXCEPT !.st = s, !.wready = TRUE, !.dc = @ + 2, !.tc = 0]
    [] s = "OST03" /\ ~Async ->
         [atom EXCEPT !.st = s, !.wready = FALSE, !.last = (atom.tc = 3 /\ Done), !.tc = @ + 1]
    [] s \in {"OST02", "OST03"} /\ Async ->
         [atom EXCEPT !.st = s, !.wready = FALSE, !.last = TimerDone /\ Done,
                      !.data = IF atom.wready THEN WriteData ELSE @,
                      !.dq = atom.data[IF s = "OST02" THEN 1 ELSE 2],
                      !.we = atom.tc > 4,
                      !.dc = IF Strobed THEN @ + 1 ELSE @, !.tc = Tick]
    [] s = "OST04" -> [Rest EXCEPT !.st = s, !.last = TimerDone /\ Done]

(* The chip takes DQ in asynchronous mode at the rising edge of WE, in     *)
(* synchronous mode at the two edges of DQS the atom makes in OST02.       *)
Given ==
  CASE atom'.st = "OST02" /\ ~Async -> WriteData
    [] Async /\ atom'.we /\ ~atom.we -> <<atom'.dq>>
    [] OTHER -> << >>

-----------------------------------------------------------------------------
(* The command machines, one at a time: latches stands for the command and *)
(* address latches before the data, end for what comes after it.           *)
NoCommand == [op |-> "none", phase |-> "ready", num |-> 0]

Request ==
  /\ command.phase = "ready" /\ script # << >>
  /\ script' = Tail(script)
  /\ LET i == Head(script) IN
     CASE i.op = "set_feature" ->                       \* rFeature4B <= iTop_CI_Address
            /\ feature' = i.word
            /\ UNCHANGED <<command, asked>>
       [] i.op = "SetFeature" ->
            /\ command' = [op |-> i.op, phase |-> "latches", num |-> 4]
            /\ asked' = Bytes(feature)
            /\ UNCHANGED feature
       [] i.op = "ProgramPage" ->
            /\ command' = [op |-> i.op, phase |-> "latches", num |-> 2 * Len(i.page)]
            /\ asked' = Bytes(i.page)
            /\ UNCHANGED feature

Advance ==
  /\ command.phase \in {"latches", "end"}
  /\ command' = IF command.phase = "latches" THEN [command EXCEPT !.phase = "data"] ELSE NoCommand
  /\ UNCHANGED <<script, feature, asked>>

\* The machine leaves its data phase on the atom's LastStep.
DataDone ==
  /\ Commanded /\ atom.last
  /\ command' = [command EXCEPT !.phase = "end"]
  /\ UNCHANGED <<script, feature, asked>>

Stay == ~(Commanded /\ atom.last) /\ UNCHANGED <<script, command, feature, asked>>

\* oTransValid: the program machine has the DMA fetch its page.
Fetched ==
  IF script' # script /\ Head(script).op = "ProgramPage" THEN Head(script).page ELSE << >>

-----------------------------------------------------------------------------
\* The data path at an edge; arrives says whether the FIFO takes a word.
Path(arrives) ==
  /\ arrives => stream # << >> /\ Len(fifo) < Depth
  /\ atom' = Entered(AtomNext)
  /\ sent' = IF command.phase = "latches" THEN << >> ELSE sent \o Given
  /\ half' = [last |-> HalfLast, data |-> feature[IF HalfLast THEN 2 ELSE 1]]
  /\ fifo' = (IF Popped THEN Tail(fifo) ELSE fifo) \o (IF arrives THEN <<Head(stream)>> ELSE << >>)
  /\ stream' = (IF arrives THEN Tail(stream) ELSE stream) \o Fetched

Move == (Request \/ Advance) /\ \E arrives \in BOOLEAN : Path(arrives)
Arrive == (Stay \/ DataDone) /\ Path(TRUE)
Quiet == (Stay \/ DataDone) /\ Path(FALSE)

Init ==
  /\ script \in Scripts
  /\ command = NoCommand
  /\ feature = <<<<Zero, Zero>>, <<Zero, Zero>>>>
  /\ half = [last |-> FALSE, data |-> <<Zero, Zero>>]
  /\ stream = << >> /\ fifo = << >>
  /\ atom = [Rest EXCEPT !.st = "RESET"]
  /\ sent = << >> /\ asked = << >>

Next == Move \/ Arrive \/ Quiet
Spec == Init /\ [][Next]_vars

(* The clock runs, the DMA delivers, and the latch atoms and the chip let  *)
(* the command machines come to their data phase and to their end.         *)
FairSpec == Spec /\ WF_vars(Next) /\ WF_vars(Arrive) /\ WF_vars(Move)

-----------------------------------------------------------------------------
TypeOK ==
  /\ script \in Seq(Item)
  /\ command \in [op : {"none", "SetFeature", "ProgramPage"},
                   phase : {"ready", "latches", "data", "end"}, num : Nat]
  /\ feature \in Word \X Word
  /\ half \in [last : BOOLEAN, data : Word]
  /\ stream \in Seq(Word) /\ fifo \in Seq(Word) /\ Len(fifo) <= Depth
  /\ atom.num \in Nat /\ atom.dc \in 0..atom.num /\ atom.tc \in 0..9 /\ atom.dq \in Byte
  /\ sent \in Seq(Byte) /\ asked \in Seq(Byte)

Intact ==
  /\ Len(sent) <= Len(asked)
  /\ sent = SubSeq(asked, 1, Len(sent))
  /\ command.phase = "end" => sent = asked

(* A chip whose features are set is given the four bytes of the feature    *)
(* word, the timing mode first: NFC_Command_SetFeature's two halves do not *)
(* change places, whatever was sent before.                                *)
FeatureIntact == command.phase \in {"data", "end"} /\ Active("SetFeature") => Intact

(* A page is programmed with the words the DMA fetched for it, in order    *)
(* and each once, however they trickle into the FIFO, and leaves the FIFO  *)
(* empty for the next one.                                                 *)
PageIntact ==
  command.phase \in {"data", "end"} /\ Active("ProgramPage") =>
    /\ Intact
    /\ command.phase = "end" => fifo = << >> /\ stream = << >>

(* Every command asked for comes to its end: an output atom that starved   *)
(* resumes with the word it waited for and counts to its length.           *)
CommandsEnd == <>[](script = << >> /\ command = NoCommand)
=============================================================================
