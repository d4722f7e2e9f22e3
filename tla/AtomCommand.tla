---------------------------- MODULE AtomCommand ----------------------------
(***************************************************************************)
(* The two latch atoms, register by register: NFC_Atom_Command_Sync, which *)
(* pulses CLE or ALE over a free-running clock, and                        *)
(* NFC_Atom_Command_Async, which pulses WE under a steady CLE or ALE.      *)
(* They share their states and differ in their timing.                     *)
(***************************************************************************)
EXTENDS Naturals, Sequences

CONSTANTS
  Way,       \* the chips on the bus
  Byte,      \* the bytes of CAData
  Zero,      \* the byte 8'h00
  Asks       \* Asks[m]: the operands the atom of mode m is started with

Modes == {"sync", "async"}
MaxBytes == 5                                           \* CAData is 40 bits

Ask == [num : Nat, cle : BOOLEAN, ca : [1..MaxBytes -> Byte], way : SUBSET Way]

ASSUME ByteAssumption == Zero \in Byte
(* Five asynchronous bytes are one too many: the atom would return to      *)
(* READY from its fifth byte without a LastStep.  The machines ask for one.*)
ASSUME AskAssumption ==
  /\ Asks \in [Modes -> SUBSET Ask]
  /\ \A a \in Asks["sync"] : a.num \in 0..4
  /\ \A a \in Asks["async"] : a.num \in 1..4

VARIABLES
  mode,      \* which of the two atoms this is; it never changes
  r,         \* the registers
  put        \* history: the bytes the chips have been given for the job in hand

latchvars == <<mode, r, put>>

-----------------------------------------------------------------------------
\* Bytes asked for by NumOfData.
Count(num) == IF mode = "sync" THEN num + 1 ELSE num

TimerDone == r.tc = IF mode = "sync" THEN 2 ELSE 9
AllBytesEarly == r.dc + 1 = r.num                       \* mutant
AllBytes == r.dc = r.num                               \* wACSDone

\* LastStep is a register: decided one clock before the byte's time is over.
LastNow == AllBytes /\ IF mode = "sync" THEN r.tc = 1 ELSE TimerDone

\* Output states are OST00..OST04, here "OST" with the byte they put out, k in 1..5.
To(s, k) == [st |-> s, k |-> k]

NextState(start) ==
  CASE r.st = "RESET" -> To("READY", 0)
    [] r.st = "READY" -> To(IF start THEN "LATCH" ELSE "READY", 0)
    [] r.st = "LATCH" -> To("SETUP", 0)
    [] r.st = "SETUP" -> IF mode = "sync" \/ TimerDone THEN To("OST", 1) ELSE To("SETUP", 0)
    [] r.st = "OST" ->
         CASE r.last -> To("READY", 0)
           [] ~r.last /\ TimerDone -> IF r.k = MaxBytes THEN To("READY", 0) ELSE To("OST", r.k + 1)
           [] OTHER -> To("OST", r.k)

NoBytes == [i \in 1..MaxBytes |-> Zero]
Idle == [st |-> "READY", k |-> 0, ready |-> TRUE, last |-> FALSE,
         way |-> {}, num |-> 0, cle |-> FALSE, ca |-> NoBytes,
         ce |-> {}, we |-> TRUE, latch |-> FALSE, dq |-> Zero, dc |-> 0, tc |-> 0]

Tick == IF TimerDone THEN 0 ELSE r.tc + 1

\* The registers after an edge with iStart and operands ask.
Registers(start, ask) ==
  LET n == NextState(start) IN
  CASE n.st = "READY" -> Idle
    [] n.st = "LATCH" ->
         [Idle EXCEPT !.st = "LATCH", !.ready = FALSE, !.way = ask.way, !.num = ask.num,
                      !.cle = ask.cle, !.ca = ask.ca]
    [] n.st = "SETUP" ->                                \* ACS_DQSHZ, ACA_tCSSS
         [r EXCEPT !.st = "SETUP", !.ce = r.way, !.latch = (mode = "async"),
                   !.tc = IF mode = "sync" THEN 0 ELSE Tick]
    [] n.st = "OST" ->
         [r EXCEPT !.st = "OST", !.k = n.k, !.ce = r.way, !.last = LastNow,
                   !.dq = r.ca[n.k],
                   !.latch = (mode = "async" \/ r.tc = 0),
                   !.we = (mode = "sync" \/ r.tc > 4),
                   !.dc = IF TimerDone THEN r.dc + 1 ELSE r.dc,
                   !.tc = Tick]

(* The chips latch a byte where CLE or ALE is up: in synchronous mode at   *)
(* every clock, in asynchronous mode at the rising edge of WE.             *)
Given ==
  IF r'.latch /\ (mode = "async" => ~r.we /\ r'.we)
  THEN <<[byte |-> r'.dq, cle |-> r'.cle, way |-> r'.ce]>>
  ELSE << >>

Edge(start, ask) ==
  /\ r' = Registers(start, ask)
  /\ put' = IF r'.st = "READY" THEN << >> ELSE put \o Given
  /\ UNCHANGED mode

LatchInit ==
  /\ mode \in Modes
  /\ r = [Idle EXCEPT !.st = "RESET", !.ready = FALSE]
  /\ put = << >>

Wait == \E ask \in Asks[mode] : Edge(FALSE, ask)
Started == \E ask \in Asks[mode] : Edge(TRUE, ask)

LatchNext == Wait \/ Started
LatchSpec == LatchInit /\ [][LatchNext]_latchvars /\ WF_latchvars(LatchNext)

-----------------------------------------------------------------------------
NoJob == [none |-> TRUE]
InHand == r.st \in {"LATCH", "SETUP", "OST"}
JobOf == [bytes |-> [i \in 1..Count(r.num) |-> r.ca[i]], cle |-> r.cle, way |-> r.way]
Jobs == [bytes : UNION {[1..n -> Byte] : n \in 1..MaxBytes}, cle : BOOLEAN, way : SUBSET Way]

Port == INSTANCE AtomPort WITH
  Job <- Jobs, NoJob <- NoJob,
  job <- IF InHand THEN JobOf ELSE NoJob, put <- put, last <- r.last

(* Whatever it is asked, a latch atom gives the chips it was told to       *)
(* address exactly the bytes asked for, in order and each once, raises     *)
(* LastStep after the last of them, and always comes to it.                *)
ImplementsPort == Port!Spec
=============================================================================
