--------------------------- MODULE NandController ---------------------------
(***************************************************************************)
(* The controller closed with what it stands between: the firmware's       *)
(* request loop, which calls the driver NFC.c, and the NAND chips.         *)
(*                                                                         *)
(* CommandIssue leaves the register words, the R/B inputs and the atoms'   *)
(* durations free.  Here the words are those the driver writes, one call   *)
(* after another, polling the busy bit in between, and the R/B inputs are  *)
(* the chips', two flip-flops late.  The driver is free to be slow: the    *)
(* clocks between two of its register accesses are not bounded, except     *)
(* while it waits for the busy bit to rise, where it must look at least    *)
(* once every PollPeriod clocks.                                           *)
(***************************************************************************)
EXTENDS CommandIssue, SequencesExt

CONSTANTS
  WayAddr,     \* WayAddr[w]: the address word that selects way w alone
  Row,         \* a row address
  Param,       \* the length of the parameter page
  Page,        \* the length of a page
  Requests,    \* the kinds of request the firmware serves, a subset of RequestKinds
  PollPeriod   \* clocks between two reads of the status register, at most

RequestKinds == {"ReadPage", "ReadParameter", "ProgramPage", "EraseBlock",
                 "TestConsistent", "TestWriteSpeed", "TestReadSpeed"}

ASSUME DriverAssumption ==
  /\ WayAddr \in [Way -> Addr]
  /\ \A w \in Way : WaysOf[WayAddr[w]] = {w}
  /\ Row \in Addr
  /\ Param \in Length /\ Page \in Length
  /\ Requests \subseteq RequestKinds
ASSUME PollAssumption == PollPeriod \in Nat \ {0}
ASSUME NumberOfWaysAssumption == IsFiniteSet(Way)

VARIABLES
  host,        \* the AXI-Lite registers: Address and Length as last written
  todo,        \* what the firmware has left to do, a sequence of instructions
  age,         \* clocks since the driver last read the status register
  status,      \* rNFCStatus[15:8]: whose status byte, and its ready bits
  chip,        \* the chips: array state and last command latched
  pins         \* the R/B synchroniser

sysvars == <<vars, host, todo, age, status, chip, pins>>

-----------------------------------------------------------------------------
(* The driver's instructions, and its calls as sequences of them.          *)

SetAddr(a)    == [do |-> "addr", addr |-> a]            \* Xil_Out32(NFC+rAddress, a)
SetLength(n)  == [do |-> "len", len |-> n]              \* Xil_Out32(NFC+rLength, n)
SetDMA        == [do |-> "dma"]                         \* rDMARAddress, rDMAWAddress
Cmd(o, t)     == [do |-> "cmd", opcode |-> o, target |-> t]
BusyIs(b)     == [do |-> "poll", busy |-> b]            \* while(busy bit # b)
Usleep        == [do |-> "sleep"]
Check(w)      == [do |-> "check", way |-> w]            \* while(status not ready)
Rest(w)       == [do |-> "rest", way |-> w]             \* usleep(5000), usleep(3000)
Verdict(w)    == [do |-> "verdict", way |-> w]          \* the status the host is sent

AwaitFall == <<BusyIs(FALSE)>>                          \* mutant
Await == <<BusyIs(TRUE), BusyIs(FALSE)>>

select_way(w) == <<SetAddr(WayAddr[w]), Cmd("SelectWay", 0)>>
select_col    == <<SetAddr(Addr0), Cmd("SetColumn", 0)>>
select_row    == <<SetAddr(Row), Cmd("SetRow", 0)>>
set_feature   == <<SetAddr(Row), Cmd("SetFeatureWord", 0)>>

reset_ffh(w)      == select_way(w) \o <<Cmd("Reset", 0)>> \o Await
setfeature_efh(w) == select_way(w) \o set_feature \o <<Cmd("SetFeature", 0)>> \o Await
readparameterpage(w) ==
  select_way(w) \o <<SetLength(Param), SetDMA, Cmd("ReadPage", 1)>> \o Await
progpage_80h(w, t) ==
  select_way(w) \o select_col \o select_row \o
  <<SetLength(Page), SetDMA, Cmd("ProgramPage", t)>> \o Await
readpage_00h_30h(w) ==
  select_way(w) \o select_col \o select_row \o
  <<SetLength(Page), SetDMA, Cmd("ReadPage", 0)>> \o Await
eraseblock_60h_d0h(w) == select_way(w) \o select_row \o <<Cmd("EraseBlock", 0)>> \o Await
ReadstatusNoSelect(w) == <<Cmd("ReadStatus", 0), Usleep>>          \* mutant
readstatus_70h(w) == select_way(w) \o <<Cmd("ReadStatus", 0), Usleep>>

\* while((readstatus_70h(way) & (ARDY | RDY)) == 0x00);
StatusOnce(w) == readstatus_70h(w)                      \* mutant
UntilReady(w) == readstatus_70h(w) \o <<Check(w)>>

Serve(r, w) ==
  CASE r = "ReadPage" -> UntilReady(w) \o readpage_00h_30h(w)
    [] r = "ReadParameter" -> UntilReady(w) \o readparameterpage(w)
    [] r = "ProgramPage" -> UntilReady(w) \o progpage_80h(w, 0) \o readstatus_70h(w)
    [] r = "EraseBlock" ->
         UntilReady(w) \o eraseblock_60h_d0h(w) \o UntilReady(w)
         \o readstatus_70h(w) \o <<Verdict(w)>>
    [] r = "TestConsistent" ->                          \* one page of its loop
         eraseblock_60h_d0h(w) \o <<Rest(w)>> \o progpage_80h(w, 0) \o <<Rest(w)>>
         \o readpage_00h_30h(w)
    [] r = "TestWriteSpeed" ->                          \* the last round of its loop
         eraseblock_60h_d0h(w) \o <<Rest(w)>> \o eraseblock_60h_d0h(w) \o <<Rest(w)>>
         \o UntilReady(w) \o progpage_80h(w, 2) \o UntilReady(w) \o progpage_80h(w, 1)
         \o UntilReady(w) \o progpage_80h(w, 2) \o UntilReady(w) \o progpage_80h(w, 0)
         \o UntilReady(w)
    [] r = "TestReadSpeed" -> readpage_00h_30h(w) \o readpage_00h_30h(w)

-----------------------------------------------------------------------------
(* The chips, external to the repository: known by what the controller     *)
(* sends them and what it expects of their R/B and status.                 *)

Confirms == {"FFh", "30h", "10h", "11h", "15h", "D0h", "D1h"}

\* What finishing bus step t makes of a chip it addresses.
Heard(c, t) ==
  LET cmd == IF t.cle THEN t.what[1] ELSE c.cmd
      begins == \/ t.cle /\ cmd \in Confirms
                \/ ~t.cle /\ t.kind \in {"ACA", "ACS"} /\ cmd \in {"EEh", "ECh"}
                \/ t.kind = "DOA" /\ cmd = "EFh"
  IN [cmd |-> cmd, st |-> IF begins /\ c.st = "ready" THEN "armed" ELSE c.st]

\* The chip is "armed" from the step that starts its array operation until
\* R/B falls (tWB), and "busy" while R/B is low.
ChipNext(w, moves) ==
  LET c == chip[w]
      heard == {Transfer(k) : k \in {l \in Kinds : LastStep(l) /\ w \in atom[l].way}}
      h == IF heard = {} THEN c ELSE Heard(c, CHOOSE t \in heard : TRUE)
  IN CASE moves /\ c.st = "armed" -> [h EXCEPT !.st = "busy"]
       [] moves /\ c.st = "busy" -> [h EXCEPT !.st = "ready"]
       [] OTHER -> h

Unready == {w \in Way : chip[w].st # "ready"}           \* chips that may move on
ReadyPins == {w \in Way : chip[w].st # "busy"}          \* I_NAND_RB
PinsNext == [buf1 |-> ReadyPins, buf0 |-> pins.buf1]

\* The status byte of a status read, taken over when its data has been read.
StatusNext ==
  LET f == fsm["ReadStatus"] IN
  IF f.st = "DATAIssue" /\ LastStep("DIS")
  THEN [way |-> f.way, ready |-> \A w \in f.way : chip[w].st = "ready"]
  ELSE status

-----------------------------------------------------------------------------
(* One clock edge with word w from the host side.                          *)
SysEdge(w) ==
  /\ Logic(w)
  /\ \E finishing \in SUBSET Running : Inputs(pins.buf0, finishing)
  /\ \E moving \in SUBSET Unready : chip' = [c \in Way |-> ChipNext(c, c \in moving)]
  /\ pins' = PinsNext
  /\ status' = StatusNext

Doing(what) == todo # << >> /\ Head(todo).do = what

RegisterWord ==
  [valid |-> FALSE, opcode |-> "Other", target |-> 0, addr |-> host.addr, len |-> host.len]

\* A write to an operand register, and the word of the new registers it sends.
DriverOperand ==
  /\ Doing("addr") \/ Doing("len") \/ Doing("dma")
  /\ host' = CASE Doing("addr") -> [host EXCEPT !.addr = Head(todo).addr]
               [] Doing("len") -> [host EXCEPT !.len = Head(todo).len]
               [] Doing("dma") -> host
  /\ SysEdge([RegisterWord EXCEPT !.addr = host'.addr, !.len = host'.len])
  /\ todo' = Tail(todo)
  /\ UNCHANGED age

CommandWord ==
  [RegisterWord EXCEPT !.valid = TRUE, !.opcode = Head(todo).opcode, !.target = Head(todo).target]

DriverCommand ==
  /\ Doing("cmd")
  /\ SysEdge(CommandWord)
  /\ todo' = Tail(todo)
  /\ UNCHANGED <<host, age>>

DriverPoll ==
  /\ Doing("poll")
  /\ SysEdge(NoWord)
  /\ todo' = IF adapter.busy = Head(todo).busy THEN Tail(todo) ELSE todo
  /\ age' = 0
  /\ UNCHANGED host

\* usleep(1) outlasts the status operation, some fifty clocks of 12 ns.
DriverSleep ==
  /\ Doing("sleep")
  /\ ~PendingOp /\ ~Busy
  /\ SysEdge(NoWord)
  /\ todo' = Tail(todo)
  /\ UNCHANGED <<host, age>>

DriverCheck ==
  /\ Doing("check")
  /\ SysEdge(NoWord)
  /\ todo' = IF status.ready THEN Tail(todo)
             ELSE readstatus_70h(Head(todo).way) \o todo
  /\ UNCHANGED <<host, age>>

DriverVerdict ==
  /\ Doing("verdict")
  /\ SysEdge(NoWord)
  /\ todo' = Tail(todo)
  /\ UNCHANGED <<host, age>>

\* usleep(5000) outlasts an erase and usleep(3000) a program.
DriverRest ==
  /\ Doing("rest")
  /\ chip[Head(todo).way].st = "ready"
  /\ SysEdge(NoWord)
  /\ todo' = Tail(todo)
  /\ UNCHANGED <<host, age>>

(* The self tests do not ask whether a chip is ready (helloworld.c:182):   *)
(* the person who starts one is assumed to take longer over it than a      *)
(* chip over the program or erase before it.                               *)
SelfTests == {"TestConsistent", "TestWriteSpeed", "TestReadSpeed"}
AtRest == \A w \in Way : chip[w].st = "ready"

FirmwareRequest ==
  /\ todo = << >>
  /\ SysEdge(NoWord)
  /\ \E r \in Requests, w \in Way : (r \in SelfTests => AtRest) /\ todo' = Serve(r, w)
  /\ UNCHANGED <<host, age>>

BetweenUnbounded ==                                     \* mutant
  SysEdge(NoWord) /\ UNCHANGED <<host, todo, age>>
\* The processor is between two register accesses.
Between ==
  /\ SysEdge(NoWord)
  /\ Doing("poll") /\ Head(todo).busy => age + 1 < PollPeriod
  /\ age' = IF Doing("poll") /\ Head(todo).busy THEN age + 1 ELSE age
  /\ UNCHANGED <<host, todo>>

DriverStep ==
  \/ DriverOperand \/ DriverCommand \/ DriverPoll
  \/ DriverSleep \/ DriverCheck \/ DriverVerdict \/ DriverRest

\* main: reset and switch every chip to synchronous mode, then serve requests.
Startup ==
  LET ways == SetToSeq(Way)
      Each(call(_)) == FlattenSeq([i \in 1..Len(ways) |-> call(ways[i])])
  IN Each(reset_ffh) \o Each(setfeature_efh)

SysInit ==
  /\ Init
  \* the synchroniser is reset to "busy", and so are the pipelines behind it
  /\ pins = [buf1 |-> {}, buf0 |-> {}]
  /\ \A o \in RBOps : rbp[o].ways = {} /\ ~rbp[o].ready
  /\ host = [addr |-> Addr0, len |-> 0]
  /\ todo = Startup
  /\ age = 0
  /\ status = [way |-> {}, ready |-> FALSE]
  /\ chip = [w \in Way |-> [st |-> "ready", cmd |-> "00h"]]

SysNext == DriverStep \/ FirmwareRequest \/ Between

(***************************************************************************)
(* The processor goes on executing the driver, a running atom reaches its  *)
(* last step (its counters only count up; a data atom has its data), and a *)
(* chip ends what it began.                                                *)
(***************************************************************************)
Fairness ==
  /\ WF_sysvars(SysNext)
  /\ WF_sysvars(DriverStep)
  /\ []<>(Running = {})
  /\ \A w \in Way : []<>(chip[w].st = "ready")

SysSpec == SysInit /\ [][SysNext]_sysvars
FairSysSpec == SysSpec /\ Fairness

-----------------------------------------------------------------------------

(* The closed system keeps the gap CommandIssue asks of its environment,   *)
(* and no word of the driver ever meets a busy controller: the driver's    *)
(* polling, busy rising before busy falling, is enough for both.           *)
NeverRefused ==
  Doing("cmd") => MaySend(CommandWord) /\ ~Busy

(* While a chip works on its array nothing but a status read or a reset is *)
(* put on its bus: a program or erase goes on after its machine is done,   *)
(* and a read's data phase waits for the chip through a late R/B pipeline. *)
BusyChipLeftAlone ==
  \A k \in Kinds :
    atom[k].st = "RUN" /\ Owner \notin {"Reset", "ReadStatus"}
      => \A w \in atom[k].way : chip[w].st = "ready"

(* A status that says ready, when the driver acts on it, is that of the    *)
(* chip it asked about, and that chip is ready now; and the verdict on an  *)
(* erase is read from that chip after it is done.                          *)
StatusTellsTruth ==
  \/ Doing("check") /\ status.ready
  \/ Doing("verdict")
  =>
    /\ status.ready /\ status.way = {Head(todo).way}
    /\ chip[Head(todo).way].st = "ready"

(* Every request is served to its end: no operation hangs waiting for R/B, *)
(* and no poll misses the busy bit.                                        *)
RequestsEnd == (todo # << >>) ~> (todo = << >>)
=============================================================================
