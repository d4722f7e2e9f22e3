------------------------------ MODULE ReadData ------------------------------
(***************************************************************************)
(* The data a chip sends: the synchronous input atom that strobes it out,  *)
(* the samples' way through the physical input, its block FIFO and the     *)
(* atom's FIFO, and the split behind them: the status machine picks its    *)
(* byte out of the stream that the read FIFO otherwise takes for the DMA.  *)
(* Nothing marks whose a word is: only the clock at which it comes out.    *)
(***************************************************************************)
EXTENDS Naturals, Sequences

CONSTANTS
  Datum,      \* what a chip sends: two bytes of a page, a feature, a status
  Scripts,    \* what the driver asks for: sequences of Item
  FlagDelays, \* clocks by which the block FIFO's EMPTY may lag a write
  Depth,      \* words an axis_fifo holds (2 ** $clog2(DEPTH / 2))
  MinGap      \* clocks from the end of a command to the next command

Item ==                                                 \* a status is one word
  [op : {"ReadPage", "GetFeature"}, words : Seq(Datum) \ {<< >>}]
    \cup [op : {"ReadStatus"}, words : {<<d>> : d \in Datum}]
None == [none |-> TRUE]                                 \* no word

ASSUME ReadScriptAssumption == \A s \in Scripts : s \in Seq(Item)
ASSUME FlagAssumption == FlagDelays \subseteq Nat /\ FlagDelays # {}
ASSUME ReadDepthAssumption == Depth \in Nat \ {0, 1} /\ MinGap \in Nat
ASSUME NoneAssumption == None \notin Datum

VARIABLES
  script,    \* what the driver has still to ask for
  command,   \* the command machine at work or last at work, and the status machine's rTimer
  gap,       \* history: clocks since a command ended, up to MinGap
  atom,      \* registers of NFC_Atom_Datainput_Sync
  chip,      \* words the chip has still to send for this command
  line,      \* samples between the pins and the block FIFO's EMPTY, one place a clock
  block,     \* words of the block FIFO its reader knows of, and its output register
  pi,        \* rPI_Buff_Valid and its delays _m1 to _m4, rPI_Buff_Last, rPI_Buff_Data
  afifo,     \* the input atom's axis_fifo
  rfifo,     \* read_fifo of NFC_Command_Issue_Top
  caught,    \* history: the words rStatus has held since the command began
  taken,     \* history: words the DMA has been given, with their last flags
  asked      \* history: words it was to be given

vars == <<script, command, gap, atom, chip, line, block, pi, afifo, rfifo, caught, taken, asked>>

-----------------------------------------------------------------------------
(* An axis_fifo: its memory and the two registers its words leave through. *)
NewFifo == [q |-> << >>, read |-> None, out |-> None]
FifoReady(f) == Len(f.q) < Depth                        \* s_axis_tready: ~full

\* A FIFO after an edge at which it is offered the words of offer (at most
\* one) and m_axis_tready is ready.
FifoAfter(f, offer, ready) ==
  LET store == ready \/ f.out = None
      read == (store \/ f.read = None) /\ f.q # << >> IN
  [q |-> (IF read THEN Tail(f.q) ELSE f.q) \o (IF FifoReady(f) THEN offer ELSE << >>),
   read |-> IF read THEN Head(f.q) ELSE IF store THEN None ELSE f.read,
   out |-> IF store THEN f.read ELSE f.out]

Offered(f) == IF f.out = None THEN << >> ELSE <<f.out>>

-----------------------------------------------------------------------------
(* The input atom.                                                         *)
TimerDone == atom.tc = 3                                \* wTimerDone, wtWPSTDone
Commanded == command.phase = "data"                     \* oACG_Command[1]
NumOfData == 2 * Len(command.words)                     \* rACG_NumOfData
Done == atom.dc = atom.num                              \* wDISDone

AtomNext ==
  CASE atom.st = "RESET" -> "READY"
    [] atom.st = "READY" -> IF Commanded THEN "LATCH" ELSE "READY"
    [] atom.st = "LATCH" -> "tDQSS"
    [] atom.st = "tDQSS" -> IF TimerDone THEN "OST00" ELSE "tDQSS"
    [] atom.st = "OST00" -> IF FifoReady(afifo) THEN "OST01" ELSE "OST00"
    [] atom.st = "OST01" -> IF Done THEN "OST02" ELSE "OST01"
    [] atom.st = "OST02" -> IF atom.last THEN "READY" ELSE "OST02"

Strobes == AtomNext = "OST01"                           \* ALE and CLE high after the edge

AtomRest == [st |-> "READY", last |-> FALSE, num |-> 0, dc |-> 0, tc |-> 0]

\* The registers after an edge, by the state entered.
EnteredEarly(s) ==                                      \* mutant
  CASE s = "READY" -> AtomRest
    [] s = "LATCH" -> [AtomRest EXCEPT !.st = s, !.num = NumOfData]
    [] s = "tDQSS" -> [atom EXCEPT !.st = s, !.tc = IF TimerDone THEN 0 ELSE @ + 1]
    [] s = "OST00" -> [atom EXCEPT !.st = s, !.tc = 0]
    [] s = "OST01" -> [atom EXCEPT !.st = s, !.tc = 0, !.dc = @ + 2]
    [] s = "OST02" -> [atom EXCEPT !.st = s, !.tc = (@ + 1) % 16, !.last = TimerDone /\ atom.dc > atom.num]
Entered(s) ==
  CASE s = "READY" -> AtomRest
    [] s = "LATCH" -> [AtomRest EXCEPT !.st = s, !.num = NumOfData]
    [] s = "tDQSS" -> [atom EXCEPT !.st = s, !.tc = IF TimerDone THEN 0 ELSE @ + 1]
    [] s = "OST00" -> [atom EXCEPT !.st = s, !.tc = 0]
    [] s = "OST01" -> [atom EXCEPT !.st = s, !.tc = 0, !.dc = @ + 2]
    [] s = "OST02" -> [atom EXCEPT !.st = s, !.tc = (@ + 1) % 16, !.last = TimerDone /\ Done]

-----------------------------------------------------------------------------
(* The physical input.                                                     *)
Samples == 6     \* clocks from a strobe (ALE and CLE high) to the block FIFO's write
Empty == block.q = << >>                                \* oPI_Buff_Empty
Moves == FifoReady(afifo) /\ pi.valid                   \* rPI_Buff_advance_condition

PiAfter ==
  LET ends == Moves /\ pi.last IN
  [valid |-> ~ends /\ (pi.valid \/ (~Empty /\ FifoReady(afifo))),
   m1 |-> pi.valid,
   m2 |-> (pi.valid /\ ~pi.m1) \/ (pi.m2 /\ ~ends),
   m3 |-> pi.m2,
   m4 |-> (pi.m2 /\ ~pi.m3) \/ (pi.m4 /\ ~ends),
   last |-> Moves /\ Empty,
   data |-> IF pi.m2 THEN block.out ELSE None]

Input ==
  /\ pi' = PiAfter
  /\ line' = Append(Tail(line), IF Strobes THEN Head(chip) ELSE None)
  /\ block' = [q |-> (IF Moves /\ ~Empty THEN Tail(block.q) ELSE block.q)
                       \o (IF Head(line) = None THEN << >> ELSE <<Head(line)>>),
               out |-> IF Moves /\ ~Empty THEN Head(block.q) ELSE block.out]

-----------------------------------------------------------------------------
(* The split between the status machine and the read FIFO.                 *)
StatusBusy == command.op = "ReadStatus" /\ command.phase # "ready"   \* ~rCMDReady

AllForDma == Offered(afifo)              \* mutant
KeptForDma ==                            \* iACG_CI_ReadValid & wRS_CMDReady
  IF StatusBusy THEN << >> ELSE Offered(afifo)

Caught == afifo.out # None /\ afifo.out.last /\ StatusBusy

\* takes: the DMA takes what the read FIFO offers.
Split(takes) ==
  /\ afifo' = FifoAfter(afifo, IF pi.m4 THEN <<[data |-> pi.data, last |-> pi.last]>> ELSE << >>,
                        FifoReady(rfifo))
  /\ rfifo' = FifoAfter(rfifo, KeptForDma, takes)
  /\ taken' = IF takes THEN taken \o Offered(rfifo) ELSE taken

(* The DMA, which has been given a descriptor, never falls behind by as    *)
(* many words as a FIFO holds: the strobes cannot be held back.            *)
InFlight == Len(asked) - Len(taken) - (IF command.op = "ReadStatus" THEN 0 ELSE Len(chip))
KeepsUp == InFlight < Depth

-----------------------------------------------------------------------------
(* The machines, one at a time: latches stands for everything a command    *)
(* does before its data phase.                                             *)
WaitClocks == 12
WaitOverLate == command.timer = 2 * WaitClocks          \* mutant
WaitOverEarly == command.timer = 4                      \* mutant
WaitOver == command.timer = WaitClocks

Packet(words) == [i \in 1..Len(words) |-> [data |-> words[i], last |-> i = Len(words)]]

Request ==
  /\ command.phase = "ready" /\ gap = MinGap /\ script # << >>
  /\ LET i == Head(script) IN
     /\ command' = [op |-> i.op, phase |-> "latches", words |-> i.words, timer |-> 0]
     /\ chip' = i.words
     /\ asked' = IF i.op = "ReadStatus" THEN asked ELSE asked \o Packet(i.words)
  /\ script' = Tail(script)
  /\ caught' = << >> /\ gap' = 0

Moved(phase) ==
  /\ command' = [command EXCEPT !.phase = phase, !.timer = IF phase = "wait" THEN @ + 1 ELSE 0]
  /\ chip' = IF Strobes THEN Tail(chip) ELSE chip
  /\ caught' = IF Caught THEN Append(caught, afifo.out.data) ELSE caught
  /\ gap' = IF command.phase = "ready" /\ gap < MinGap THEN gap + 1 ELSE gap
  /\ UNCHANGED <<script, asked>>

Latched == command.phase = "latches" /\ Moved("data")

\* rST_DATAIssue ends on the atom's last step; the status machine counts
\* its wait, the other two show rLastStep and are ready.
Runs ==
  CASE command.phase \in {"ready", "latches"} -> Moved(command.phase)
    [] Commanded /\ ~atom.last -> Moved("data")
    [] Commanded /\ atom.last -> Moved(IF command.op = "ReadStatus" THEN "wait" ELSE "end")
    [] command.phase = "wait" -> Moved(IF WaitOver THEN "end" ELSE "wait")
    [] command.phase = "end" -> Moved("ready")

Edge(takes) == atom' = Entered(AtomNext) /\ Input /\ Split(takes)

Asks == Request /\ \E takes \in BOOLEAN : (~takes => KeepsUp) /\ Edge(takes)
Latches == Latched /\ \E takes \in BOOLEAN : (~takes => KeepsUp) /\ Edge(takes)
Takes == Runs /\ Edge(TRUE)
Stalls == KeepsUp /\ Runs /\ Edge(FALSE)

Init ==
  /\ script \in Scripts
  /\ command = [op |-> "none", phase |-> "ready", words |-> << >>, timer |-> 0]
  /\ gap = 0
  /\ atom = [AtomRest EXCEPT !.st = "RESET"]
  /\ chip = << >>
  /\ \E lag \in FlagDelays : line = [i \in 1..Samples + lag |-> None]
  /\ block = [q |-> << >>, out |-> None]
  /\ pi = [valid |-> FALSE, m1 |-> FALSE, m2 |-> FALSE, m3 |-> FALSE, m4 |-> FALSE,
           last |-> FALSE, data |-> None]
  /\ afifo = NewFifo /\ rfifo = NewFifo
  /\ caught = << >> /\ taken = << >> /\ asked = << >>

Next == Asks \/ Latches \/ Takes \/ Stalls
Spec == Init /\ [][Next]_vars

(* The clock runs, the DMA takes a word now and then, the driver asks on   *)
(* and the latch atoms finish.                                             *)
FairSpec == Spec /\ WF_vars(Next) /\ WF_vars(Takes) /\ SF_vars(Asks) /\ SF_vars(Latches)

-----------------------------------------------------------------------------
ReadTypeOK ==
  /\ script \in Seq(Item)
  /\ command.phase \in {"ready", "latches", "data", "wait", "end"}
  /\ command.timer \in 0..WaitClocks /\ gap \in 0..MinGap
  /\ atom.num \in Nat /\ atom.dc \in 0..atom.num /\ atom.tc \in 0..4
  /\ Len(afifo.q) <= Depth /\ Len(rfifo.q) <= Depth

(* The DMA is given what the chip sent for the pages and features asked    *)
(* for, in order, each word once, no status byte among them, and a last    *)
(* flag on the last word of each command and on no other.                  *)
ReadIntact == Len(taken) <= Len(asked) /\ taken = SubSeq(asked, 1, Len(taken))

(* A status read has its byte before the status machine is ready again and *)
(* the driver told so: the wait outlasts the samples' way through the      *)
(* input, and no word of an earlier page is mistaken for a status.         *)
StatusCaught ==
  command.op = "ReadStatus" =>
    /\ caught # << >> => caught = command.words
    /\ command.phase = "ready" => caught = command.words

(* Everything asked for is read and reaches the DMA.                       *)
ReadsArrive == <>[](script = << >> /\ command.phase = "ready" /\ taken = asked)
=============================================================================
