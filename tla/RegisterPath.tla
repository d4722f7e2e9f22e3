---------------------------- MODULE RegisterPath ----------------------------
(***************************************************************************)
(* The way of a register access between the processor and the controller:  *)
(* the AXI-Lite register file, the two clock-crossing FIFOs, the interface *)
(* adapter, the status word that comes back, and the two DMA descriptor    *)
(* ports.  NandController lets the driver see the controller's busy bit    *)
(* without delay; here the two have clocks of their own, and a word takes  *)
(* some five clocks each way.                                              *)
(*                                                                         *)
(* AEdge is one rising edge of the AXI clock (10 ns), SEdge one of the     *)
(* system clock (12 ns, prj/BuildZynqPrj.tcl:319,365).  What the command   *)
(* machines do with an operation is CommandIssue's; here an operation      *)
(* latches, waits for the chip, moves data and ends.  The two operations   *)
(* that move data are modelled: they use all of the path.                  *)
(***************************************************************************)
EXTENDS Integers, AsyncFifo

CONSTANTS
  AxiPeriod, SysPeriod,  \* of the two clocks, in a common unit
  Values                 \* values of the operands and DMA addresses

(* The AXI clock is the faster one, and less than twice as fast; a FIFO    *)
(* holds what crosses in the seven clocks or so of a round of pointers.    *)
ASSUME PeriodAssumption ==
  /\ AxiPeriod \in Nat \ {0} /\ SysPeriod \in Nat \ {0}
  /\ AxiPeriod <= SysPeriod /\ SysPeriod <= 2 * AxiPeriod
ASSUME DepthAssumption == FifoDepth >= 8

VARIABLES
  todo,      \* what is left of the driver's call
  axil,      \* the AXI-Lite channels: the master's valids and the slave's answers
  regs,      \* rCommand .. rDMAWAddress, and the pulses rAxilValid, rCommandValid
  axil_sys,  \* FIFO of register words to the controller
  sys_axil,  \* FIFO of status words to the register file
  adapter,   \* rOpcode (when rCMDValid), rLength, rCommandFail, and rNFCStatus[0]
  machine,   \* the operation under way
  engine,    \* the two halves of axi_dma: what each is doing
  stream,    \* data of the operation that is in the data FIFOs
  skew,      \* time of the next AXI edge less that of the next system edge
  due,       \* history: register writes accepted and not arrived at the adapter
  owed       \* history: descriptors of the call that no engine has taken

vars == <<todo, axil, regs, axil_sys, sys_axil, adapter, machine, engine, stream,
          skew, due, owed>>

\* The operations that move data; each has its half of the DMA engine.
Ops == {"ReadPage", "ProgramPage"}

-----------------------------------------------------------------------------
(* The driver (NFC.c).                                                     *)

Write(reg, val, x) == [is |-> "write", reg |-> reg, val |-> val, x |-> x]
Operand(reg, x) == Write(reg, x, x)
Cmd(op, x) == Write("cmd", op, x)
Poll(busy) == [is |-> "poll", busy |-> busy]

AwaitFall == <<Poll(FALSE)>>                            \* mutant
Await == <<Poll(TRUE), Poll(FALSE)>>

Setups == {"SelectWay", "SetColumn", "SetRow"}
select(setup, x) == <<Operand("addr", x), Cmd(setup, x)>>
\* The way, the column, the row, the length and the DMA address are the call's own
\* x; rDMAWAddress and rDMARAddress have the name of the operation they are for.
Transfer(op, x) ==
  select("SelectWay", x) \o select("SetColumn", x) \o select("SetRow", x)
    \o <<Operand("len", x), Operand(op, x), Cmd(op, x)>> \o Await
readpage_00h_30h(x) == Transfer("ReadPage", x)
progpage_80h_10h(x) == Transfer("ProgramPage", x)
(* The next call has operands of its own, so that a stale one shows.       *)
Calls ==
  UNION {{readpage_00h_30h(x), progpage_80h_10h(x)} : x \in Values \ {regs.addr}}

Doing(is, rest) == rest # << >> /\ Head(rest).is = is

-----------------------------------------------------------------------------
(* The AXI-Lite slave and its master.  The slave waits for address and     *)
(* data of a write, so w says that both are offered; they are held until   *)
(* taken, and a read waits for the response of the write before it.  slow  *)
(* holds the channels on which the master takes its time.                  *)

WrEn(slow) ==
  axil.w /\ (~axil.bvalid \/ "b" \notin slow) /\ ~axil.awready
RdEn(slow) == axil.ar /\ (~axil.rvalid \/ "r" \notin slow) /\ ~axil.arready

Taken == axil.awready                    \* a write's address and data handshake
Answered(slow) == axil.rvalid /\ "r" \notin slow

TodoNext(slow) ==
  IF Taken \/ (Answered(slow) /\ axil.rdata = Head(todo).busy) THEN Tail(todo) ELSE todo

AxilNext(slow) ==
  LET write == Doing("write", TodoNext(slow))
      read == Doing("poll", todo) /\ ~axil.bvalid /\ ~axil.rvalid
  IN [w |-> (axil.w /\ ~Taken) \/ (write /\ "w" \notin slow),
      ar |-> (axil.ar /\ ~axil.arready) \/ (read /\ "ar" \notin slow),
      awready |-> WrEn(slow),
      bvalid |-> WrEn(slow) \/ (axil.bvalid /\ "b" \in slow),
      arready |-> RdEn(slow),
      rvalid |-> RdEn(slow) \/ (axil.rvalid /\ "r" \in slow),
      rdata |-> IF RdEn(slow) THEN sys_axil.out.busy ELSE axil.rdata]

RegsNextSticky(slow) ==                                 \* mutant
  IF WrEn(slow)
  THEN [regs EXCEPT ![Head(todo).reg] = Head(todo).val, !.axilValid = TRUE,
                    !.commandValid = @ \/ Head(todo).reg = "cmd"]
  ELSE [regs EXCEPT !.axilValid = FALSE]
RegsNext(slow) ==
  LET write == Head(todo)
  IN IF WrEn(slow)
     THEN [regs EXCEPT ![write.reg] = write.val, !.axilValid = TRUE,
                       !.commandValid = @ \/ write.reg = "cmd"]
     ELSE [regs EXCEPT !.axilValid = FALSE, !.commandValid = FALSE]

RegisterWord ==
  [cmd |-> regs.cmd, addr |-> regs.addr, len |-> regs.len, valid |-> regs.commandValid]

-----------------------------------------------------------------------------
(* The DMA engines.  A descriptor is offered while the status word at the  *)
(* output of the crossing has the pulse, whatever its valid says, with the *)
(* live address and length registers; an engine that took one is not ready *)
(* again before the third clock after.  The read engine fills the stream   *)
(* of a program, the write engine drains that of a read.                   *)

TakesAlways(d) == sys_axil.out.pulse = d                \* mutant
Takes(d) == sys_axil.out.pulse = d /\ engine[d] = "ready"

Descriptor(d) == [dir |-> d, addr |-> regs[d], len |-> regs.len]

EngineNext(d, finish) ==
  CASE Takes(d) -> "start"
    [] engine[d] = "start" -> "run"
    [] d \in finish -> "ready"
    [] OTHER -> engine[d]

MayFinish == {d \in Ops : engine[d] = "run" /\ (d = "ReadPage" => d \in stream)}

Owed == IF Taken /\ Head(todo).reg = "cmd" /\ Head(todo).val \in Ops
        THEN {[dir |-> Head(todo).val, addr |-> Head(todo).x, len |-> Head(todo).x]}
        ELSE {}

-----------------------------------------------------------------------------
\* One edge of the AXI clock.
AEdge(slow, finish) ==
  /\ skew <= 0 /\ skew' = skew + AxiPeriod
  /\ IF todo = << >> THEN todo' \in Calls \cup {<< >>} ELSE todo' = TodoNext(slow)
  /\ axil' = AxilNext(slow)
  /\ regs' = RegsNext(slow)
  /\ axil_sys' = Written(axil_sys, IF regs.axilValid THEN <<RegisterWord>> ELSE << >>)
  /\ sys_axil' = ReadOut(sys_axil)
  /\ engine' = [d \in Ops |-> EngineNext(d, finish)]
  /\ stream' = (stream \cup (finish \cap {"ProgramPage"})) \ (finish \cap {"ReadPage"})
  /\ due' = IF Taken THEN Append(due, Head(todo)) ELSE due
  /\ owed' = (owed \cup Owed) \ {Descriptor(d) : d \in {e \in Ops : Takes(e)}}
  /\ UNCHANGED <<adapter, machine>>

(* The system side.  An operation lasts until the driver has seen it busy  *)
(* (NandController checks that with the driver's real poll period), a page *)
(* is programmed when its data is there, and the data of one page read are *)
(* in memory when the chip has the next page ready.                        *)
Busy == machine.st # "ready"

AdapterNextPulse ==                                     \* mutant
  [op |-> IF axil_sys.valid /\ axil_sys.out.valid /\ ~Busy THEN axil_sys.out.cmd ELSE "none",
   fail |-> FALSE, busy |-> adapter.op \in Ops]
AdapterNext ==
  LET word == axil_sys.out
      takes == axil_sys.valid /\ word.valid
  IN [op |-> IF takes /\ ~Busy THEN word.cmd ELSE "none",
      fail |-> IF axil_sys.valid THEN takes /\ Busy ELSE adapter.fail,
      busy |-> Busy]

MayGo ==
  /\ ~(Doing("poll", todo) /\ Head(todo).busy)
  /\ machine.op = "ProgramPage" /\ machine.st = "data" => "ProgramPage" \in stream
  /\ machine.op = "ReadPage" /\ machine.st = "wait"
       => engine["ReadPage"] = "ready" /\ "ReadPage" \notin stream

\* rTransValid pulses for one clock: a program asks for its data at once, a read when it has them.
MachineNext(go) ==
  LET At(st, op, asks) ==
        [st |-> st, op |-> op, pulse |-> IF op = asks THEN op ELSE "none"]
  IN CASE ~Busy /\ adapter.op \in Ops -> At("latch", adapter.op, "ProgramPage")
       [] machine.st = "latch" -> At("wait", machine.op, "nothing")
       [] machine.st = "wait" /\ go -> At("data", machine.op, "ReadPage")
       [] machine.st = "data" /\ go -> At("ready", machine.op, "nothing")
       [] OTHER -> At(machine.st, machine.op, "nothing")

Ends(op) == machine.st = "data" /\ machine.op = op /\ machine'.st = "ready"

\* One edge of the system clock.
SEdge(go) ==
  /\ skew >= 0 /\ skew' = skew - SysPeriod
  /\ go => MayGo
  /\ adapter' = AdapterNext
  /\ machine' = MachineNext(go)
  /\ sys_axil' = Written(sys_axil, <<[busy |-> adapter.busy, pulse |-> machine.pulse]>>)
  /\ axil_sys' = ReadOut(axil_sys)
  /\ stream' = (stream \cup {op \in {"ReadPage"} : Ends(op)}) \ {op \in {"ProgramPage"} : Ends(op)}
  /\ due' = IF axil_sys.valid /\ due # << >> THEN Tail(due) ELSE due
  /\ UNCHANGED <<todo, axil, regs, engine, owed>>

\* The channels on which the master has something to offer or to take.
Channels ==
  {c \in {"w"} : Doing("write", todo) /\ (~axil.w \/ Taken)}
    \cup {c \in {"b"} : axil.bvalid} \cup {c \in {"r"} : axil.rvalid}
    \cup {c \in {"ar"} : Doing("poll", todo) /\ ~axil.bvalid /\ ~axil.rvalid /\ ~axil.ar}

Init ==
  /\ todo = << >>
  /\ axil = [w |-> FALSE, ar |-> FALSE, awready |-> FALSE, bvalid |-> FALSE,
             arready |-> FALSE, rvalid |-> FALSE, rdata |-> FALSE]
  /\ \E x \in Values :
       regs = [cmd |-> "SelectWay", addr |-> x, len |-> x, ReadPage |-> x, ProgramPage |-> x,
               axilValid |-> FALSE, commandValid |-> FALSE]
  /\ axil_sys = Empty(RegisterWord)
  /\ sys_axil = Empty([busy |-> FALSE, pulse |-> "none"])
  /\ adapter = [op |-> "none", fail |-> FALSE, busy |-> FALSE]
  /\ machine = [st |-> "ready", op |-> "ReadPage", pulse |-> "none"]
  /\ engine = [d \in Ops |-> "ready"]
  /\ stream = {} /\ skew = 0 /\ due = << >> /\ owed = {}

AStep == \E slow \in SUBSET Channels, finish \in SUBSET MayFinish : AEdge(slow, finish)
SStep == \E go \in BOOLEAN : SEdge(go)

Next == AStep \/ SStep

(* The clocks run; time and again the master is not slow and an engine is  *)
(* done with its transfer, and a chip is done with its operation.          *)
Fairness ==
  /\ WF_vars(Next)
  /\ SF_vars(AEdge({}, MayFinish))
  /\ SF_vars(MayGo /\ SEdge(TRUE))

Spec == Init /\ [][Next]_vars /\ Fairness

-----------------------------------------------------------------------------

(* The registers of the path have their types.                             *)
RegisterTypeOK ==
  /\ FifoTypeOK(axil_sys) /\ FifoTypeOK(sys_axil)
  /\ skew \in -SysPeriod..AxiPeriod
  /\ engine \in [Ops -> {"ready", "start", "run"}] /\ stream \subseteq Ops
  /\ adapter.op \in Ops \cup Setups \cup {"none"}
  /\ machine.st \in {"ready", "latch", "wait", "data"} /\ machine.op \in Ops

(* The crossings are written without a look at their ready, so they must   *)
(* never be full: the register file takes at most every second AXI clock a *)
(* write, and the AXI clock is the faster one for the status words.        *)
NeverFull == ~Full(axil_sys) /\ ~Full(sys_axil)

(* Every register write arrives at the adapter, once and in the order the  *)
(* driver made it, and a command arrives with the operands written for it. *)
WordsArrive ==
  axil_sys.valid =>
    /\ due # << >>
    /\ LET word == axil_sys.out
           write == Head(due)
       IN /\ word.valid <=> write.reg = "cmd"
          /\ write.reg \in {"cmd", "addr", "len"} => word[write.reg] = write.val
          /\ write.reg = "cmd" => word.addr = write.x

(* When a call of the driver returns, the controller is idle, no word of   *)
(* the call is on its way, none was refused, and its descriptor is taken:  *)
(* the busy bits that ended the polls were not those of before the call.   *)
PollTruth ==
  todo = << >> =>
    /\ ~Busy /\ adapter.op = "none" /\ ~adapter.fail
    /\ due = << >> /\ owed = {}

(* An engine takes a descriptor only for the operation under way, once,    *)
(* and with the address and the length the driver gave that operation, for *)
(* all that the pulse is one or two AXI clocks long and the registers are  *)
(* read as they are when it comes out.                                     *)
DescriptorsRight == \A d \in Ops : Takes(d) => Descriptor(d) \in owed

(* Every call of the driver returns.                                       *)
CallsReturn == (todo # << >>) ~> (todo = << >>)
=============================================================================
