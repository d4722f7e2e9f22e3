# A verification project for NandFlashController

TLA+ specifications of the ONFI NAND flash controller in `src/rtl` and of the
software that drives it, the TLC configurations that check them on small
instances, and theorems about them checked by TLAPS.

File and line numbers are those of the repository. `PROJECT.json` names, for
each definition, the lines it stands for.

## 1. The system

A PC sends requests to a Zynq processor, over USB or over TCP. The processor
writes the controller's AXI-Lite registers. The controller runs ONFI bus
sequences on two or more NAND chips that share one bus, and moves page data by
DMA.

```
 PC application --USB--> usb_sw -----------+
      |---------TCP--> raw_lwip_sw ---------+--calls--> NFC.c --AXI-Lite--> register file
      +---------TCP--> freertos_lwip_sw ----+                         | word per write
                                                                      | (clock crossing, both ways)
                                                             interface adapter --> setup registers
                                                                      | start          | operands
                                                             seven operation machines <+
                                                                      | command bit, NumOfData, CAData
                                                             multiplexer --> atoms --> physical layer --> chips
  memory <--DMA engine (descriptors)--> write FIFO / read FIFO <--------------+
```

| Component | State | Operations | Modelled in |
|---|---|---|---|
| PC application (`USBHOSTAPPDlg.cpp`) | link, `rev_buf`, receiving thread, `bulk_thread_finished` | connect, close, restart, one handler per request button | PcApp |
| USB firmware, control (`xusbps_cdc_ch9.c`, `xusbps_cdc_irq.c`) | driver state, line coding, endpoint 3 primed | bus reset, setup packets | UsbControl |
| USB firmware, data (`xusbps_cdc_buffer.c`, `helloworld.c`) | receive ring, `rx_buffer`, `tx_buffer` | endpoint 3's interrupt, the main loop, endpoint 2 | CdcBuffer, UsbFirmware |
| Raw lwIP firmware (`raw_lwip_sw/main.c`) | `rx_buffer`, `rx_size` (static) | receive callback | RawServer |
| FreeRTOS firmware (`freertos_lwip_sw/main.c`) | a buffer per thread | one thread per connection | RtosServer |
| Firmware's requests (`helloworld.c`, the same in the three images) | request being served | start-up, requests, self tests | NandController |
| Driver (`NFC.c`, the same in the three images) | none of its own | one function per operation, polling busy | NandController, RegisterPath |
| Register file (`NandFlashController_AXIL_Reg.v`) | registers, handshakes of the two channels, pulses | write, read status | RegisterPath |
| Clock crossings (`NandFlashController_Top_AXI.v`, `axis_async_fifo.v`) | memory, pointers and their synchronisers, output registers | write, read | AsyncFifo |
| Descriptor ports (`NandFlashController_Top_AXI.v`, `axi_dma_*.v`) | ready or at work | take a descriptor | RegisterPath |
| Interface adapter (`NandFlashController_Interface_adapter.v`) | last word, valid, refused, busy | take or refuse a register word, sample the busy flag | CommandIssue, RegisterPath, HostView |
| Setup registers and busy flag (`NFC_Command_Issue_Top.v`) | way, column, row, feature word | setup commands, OR of the machines' active bits | CommandIssue |
| Operation machines (`NFC_Command_*.v`) | phase, latched operands, R/B pipeline, timers | Reset, SetFeature, GetFeature, ProgramPage, ReadPage (and parameter page), EraseBlock, ReadStatus | CommandIssue, WriteData, ReadData |
| Multiplexer (`..._to_Atom_Command_Generator_Mux.v`) | none | priority choice of the machine that owns the atoms | CommandIssue |
| Latch atoms (`NFC_Atom_Command_{Sync,Async}.v`) | phase, timer, byte counter, pins | put up to five command or address bytes on the bus | AtomCommand, AtomPort |
| Output atoms (`NFC_Atom_Dataoutput_{Sync,Async}.v`) | phase, timer, byte counter, stream ready | send feature bytes or a page, waiting for data | WriteData |
| Input atom (`NFC_Atom_Datainput_Sync.v`) and read FIFO | phase, counters, FIFOs | strobe words out of a chip, hand them on | ReadData |
| Physical layer (`NFC_Physical_*.v`, `NFC_Pinpad.v`) | R/B synchroniser, read pipeline, block FIFO | serialise, delay, capture | ReadData, the synchroniser in NandController |

What is hard in it:

* **No handshake holds the parts together.** The adapter refuses a command by a
  busy flag that rises two clocks after the command. A machine and an atom hand
  over by a command bit, a ready bit and a one-clock LastStep. Every one of
  these meets at the right clock or goes wrong without a sign.
* **Live and latched operands mix.** Most operands are copied when an operation
  starts; the feature word is read from the live register while it runs, and a
  DMA descriptor is made of the live address and length registers at the clock
  its pulse comes out of the crossing.
* **Two conventions for counts.** A synchronous latch atom strobes NumOfData + 1
  bytes, an asynchronous one NumOfData.
* **R/B is late.** The value a machine tests is five clocks older than the pin
  and is an OR over the selected ways.
* **A busy chip outlives its operation.** Program and erase machines end with
  their bus cycles; the chip works on. Whether the next command disturbs it is
  up to the firmware, which has to ask the right chip and to read the answer to
  its own question.
* **Waiting without time-outs.** The driver waits for busy to rise and then to
  fall; machines wait for R/B; the PC application waits for an answer. Nothing
  gives up.
* **Crossings without back-pressure.** Register words and status words cross
  between clocks of 10 and 12 ns through FIFOs whose ready is left unconnected,
  and the busy bit the driver polls is some ten clocks old.
* **Data at its own pace.** The DMA may starve the output atom at any word. The
  input atom's strobes cannot be held back once begun, and nothing marks whose a
  word is: the status machine picks its byte by the clock at which it comes out.
* **An interrupt and a main loop share a ring** without a lock; endpoint 2 sends
  from the answer's buffer after the call has returned.
* **Streams have no frames.** A request and an answer are 8704 bytes each. The
  USB loop acts when exactly one request is in its ring, the raw callback when it
  has gathered one, the FreeRTOS thread on whatever one read returns; the PC
  application shows an answer after a single recv.

Correctness, part by part. Adapter and machines: operations exclude one
another, an accepted one starts, and it performs exactly its ONFI sequence with
the operands in force when it was accepted. Atoms: the bytes asked for, in
order, each once, and LastStep only then. Data output and input: what was asked
to be sent is what arrives, a status byte goes to the status register and to
nobody else. Register path: no word is lost, polls are not fooled by an old busy
bit, each descriptor is taken once and is its operation's. Driver and firmware:
no command is refused, no busy chip is disturbed, a status acted on is true, and
every request ends. Host: no byte of a request is lost or taken twice, each
request is carried out once, and each click shows its own answer.

## 2. The modules

**BusSequencer** is what the controller promises its host. It takes a job,
performs the job's bus sequence (`Script`) step by step, and is free again. A
bus step is one atom's work: a command or address latch, a data transfer, or the
descriptor pulse to the DMA engine.

**CommandIssue** is the command path, one step per rising edge of
`iSystemClock`. `Clock(w, rb, finishing)` gives every register its next value
from the values before the edge:

| Variable | Code |
|---|---|
| `adapter` | the registers of the interface adapter: opcode, target, address, length, valid, fail, busy |
| `regs` | `rTargetWay1B`, `rColAddr2B`, `rRowAddr3B`, `rFeature4B` |
| `fsm[o]` | the state and latched operands of machine `o`; `NextState` has one operator per Verilog `case` |
| `rbp[o]` | the three-stage R/B pipeline of the machines that wait for R/B |
| `atom[k]` | atom `k` through its port: ready, or running with latched operands |
| `bus`, `since` | history: the steps performed; clocks since the last operation word |

What the design does not decide is chosen anew at each edge: the word leaving
the clock crossing (`w`), the R/B inputs (`rb`), and which running atom comes to
its last step (`finishing`). `Clock` is `Logic`, the machines and atoms, and
`Inputs`, the adapter's word and the R/B registers; with the history they make
an `Edge`. The erase machine has no branch of its own for its last phase and
falls into the default one, which clears its registers; the model keeps this
(`Cleared`, `WayNext`). `ImplementsSequencer` is BusSequencer with `job` mapped
to the operands in force (`JobNow`) and `bus` to the history.

The one condition put on the environment is `MinGap >= 2`: a command word does
not follow an operation word on the very next clock. A word sent then would be
taken before the busy flag is up. Two AXI-Lite writes are at least two AXI
clocks apart, and the driver polls after each operation. NandController checks
that the driver keeps the gap (`NeverRefused`), RegisterPath that the polls keep
it across the crossings (`PollTruth`).

**HostView** adds what a host can see of a refused command, and the line of the
register table that the code contradicts.

**NandController** closes CommandIssue. The firmware's requests become sequences
of driver instructions (`Serve`), the driver executes them one register access
at a time (`DriverOperand`, `DriverCommand`, `DriverPoll`, `DriverSleep`,
`DriverCheck`, `DriverRest`, `DriverVerdict`), and any number of clocks may pass
between two accesses (`Between`). All of them take the same clock edge,
`SysEdge`, with their own word on the crossing. Chips are "ready", "armed"
(confirmed, R/B not down yet) or "busy", and move at their own pace. They are
outside the repository: modelled by what the controller sends them and expects
of them. The R/B pins reach the machines two flip-flops late (`pins`). Here the
driver sees the adapter's busy bit without delay; the delay is RegisterPath's
business.

Self tests begin only when every chip is ready (`AtRest`). They erase, program
and read without asking for readiness first (helloworld.c:182), and rely on
fixed sleeps in between. A sleep is assumed to outlast what it is there for: the
status operation (`DriverSleep`), the chip's program or erase (`DriverRest`). The
person who clicks is assumed to be slower than the chip's last page program, a
millisecond at most.

A chip has one ready bit. The firmware tests three masks of a status byte: `RDY`,
`ARDY | RDY` and, for the verdict on an erase, `ARDY`. `ARDY` implies `RDY`, and
the two differ only behind a cache program (15h), while the chip takes the next
page but still works on its array. The one request that sends a 15h, the write
self test, ends with a 10h and a wait, so at the boundaries of requests there is
one bit to tell; inside that test the array work behind a 15h is not a state of
the model.

**AtomPort** is what an atom promises at its ports: take a job, put its bytes,
raise LastStep, release. **AtomCommand** is the two latch atoms register by
register. `mode` says which of them an instance is: they share the states and
differ in the timer, the byte count and the pulsed pin. The bytes given to the
chips (`put`) are read off the pins: in synchronous mode at each clock with CLE
or ALE up, in asynchronous mode at the rising edge of WE.

**WriteData** is the data a command sends. The feature word is offered in two
halves by `NFC_Command_SetFeature` (`half`) to the asynchronous output atom; the
page is offered by the write FIFO to the synchronous one. Both listen to the one
WriteReady the multiplexer passes on. Command machines appear as phases
(`command`), with the latch cycles before and after the data as one phase each.
Set Feature in CommandIssue sends its feature word as one unit; its two halves
are the business of this module.

**ReadData** is the data a chip sends, one step per clock. The input atom's
registers are all there (`Entered`). A sample is taken to be the word its strobe
asked for and travels through `line`: six clocks from the strobe to the write of
the block FIFO, and a further lag, chosen once per behaviour from `FlagDelays`,
by which the EMPTY flag of the vendor's FIFO may trail a write. The reader of the
block FIFO is its chain of valid bits (`pi`). An `axis_fifo` is its memory and
the two registers its words leave through (`FifoAfter`). Command machines are
phases; the status machine's twelve clocks of waiting are counted (`WaitOver`).
The DMA takes or stalls at will, within `KeepsUp`: it never is as many words
behind as one FIFO holds. This is an assumption about the DMA engine; the real
FIFOs hold 4096 words and a page of 4320 words is longer than that.

**AsyncFifo** is one clock-crossing FIFO as operators on a record, with two
synchroniser registers in each direction. A Gray-coded pointer that is two clocks
old is "so many of the words are not visible yet", which is what the record holds.
**RegisterPath** puts one on the way to the controller and one on the way back,
with the AXI-Lite slave in front and the adapter behind. `AEdge` is an edge of the
AXI clock and `SEdge` one of the system clock; `skew` is the time of the next edge
of the one less that of the other, so the two interleave as 10 and 12 ns clocks
do, with every alignment and either order of coincident edges. `slow` is the set
of channels the master holds back at an edge, of those on which it has something
to offer or to take (`Channels`). The driver's two calls that move data are
modelled, since they use all of the path: nine register writes, those of
`select_way`, `select_col` and `select_row` first, and the two polls, each call
with operand values that may differ from the last call's. `MayGo` holds what is
assumed of the operation itself: it lasts until the driver has seen it busy (this
is what NandController checks of the driver's real poll period), a program ends
after its data have come, and the data of a page read are in memory before the
chip has the next page ready.

**Link** is what lies between the PC and the board: requests, answers and the two
streams of bytes they travel in, cut into cells. `Execute` is what every image
does with a request; how is NandController's business. **PcApp** is the
application: one window thread with a handler per button, and over USB a receiving
thread per request. The loop that would make the handler wait for that thread is
commented out (USBHOSTAPPDlg.cpp:465), so the thread begins at any time after it
was created (`ThreadStarts`), also after the handler has found its own
`bulk_thread_finished` still set and shown what was in the buffer. **UsbControl**
is the control endpoint and the driver state. Its handlers answer with data, an
empty packet or a stall, or not at all: a request for more than the reply buffer
holds (xusbps_cdc_ch9.c:138, 201), a vendor request without data. The host
learns of these by its own time-out (`HostGivesUp`). **CdcBuffer** is the ring of
`xusbps_cdc_buffer.c` as operators; a read is split in two (`Copied`, `Consumed`),
since the interrupt may write between the copy and the update of the indices.
**UsbFirmware** has the interrupt (`PacketIn` and the handler), the main loop and
endpoint 2. **RawServer** and **RtosServer** are the two TCP images: a frame or a
read may return any part of what is under way. **HostSystem** composes them;
`image` is the firmware the board runs.

The link and the firmware are assumed to meet under these conditions, each of
them a guard with a name:

* `AtRest` of PcApp: the next click comes after the answer to the last, also when
  a receiving thread that began late has this answer still to come and the window
  is free already.
* `UserIsSlow`: with the FreeRTOS image, which acts on the first piece of a
  request, the next click comes after the last piece has been read.
* `RecvAtLeast`: how much of an answer a recv returns at least; all of it in
  `link`, any part in `erasebox`.
* Connections are opened, closed and reset only between requests (`AtRest`
  again).

**CommandIssueProofs**, **CommandIssueRefinement**, **NandControllerProofs**,
**AtomCommandProofs**, **WriteDataProofs**, **ReadDataProofs**,
**RegisterPathProofs** and **HostSystemProofs** hold the theorems. The `MC`
modules give the constants their small values.

## 3. The runs

| Run | Asks | Result |
|---|---|---|
| `exclusion` | any operation word at any clock, on no way or on two: do operations exclude one another, do accepted ones start, are setup registers stable, does only the atom asked for run, do resets and features implement BusSequencer? | holds |
| `sequences` | do page, parameter, program, erase and status operations of every kind implement BusSequencer? | holds |
| `service` | two chips and every flash request of the protocol: is a command ever refused, a busy chip disturbed, a status untrue, and does every request end? | holds |
| `latch` | do both latch atoms implement AtomPort, liveness included, for every length and any start? | holds |
| `writedata` | do feature words and pages reach the chip whole, in the order the firmware uses, however the DMA delivers? | holds |
| `readdata` | do pages and features reach the DMA whole, each status byte its register and nothing else, however the DMA stalls within the FIFO's depth? | holds |
| `registers` | page reads and programs through the register file and the crossings: is a word ever lost, a poll fooled by an old busy bit, a descriptor lost or wrong, and does every call return? | holds |
| `link` | clicks against each of the three images, threads that begin late and control requests nothing answers: is every request carried out once and answered, does a handler whose thread has begun show its own answer, does the link come up? | holds |
| `commandfail` | is rCommandFail the status of the last command? | violated |
| `latefeature` | does a Set Feature after a page program send its word as given? | violated |
| `erasebox` | is the erase box true when a recv returns a part of the answer? | violated |
| `latethread` | does a button show its own answer over USB, however late its receiving thread begins? | violated |

Bounds, and why they are enough:

* Two ways wherever ways matter: they meet in the R/B reduction and in
  `SelectWay`. HostView has one.
* Three addresses: the reset value and two that differ, so that a stale operand
  shows. Lengths 0, 2 and 4 for the same reason; the atoms of CommandIssue are
  ports, so a length is an operand and not a count of clocks.
* `MinGap` 2 in CommandIssue, the smallest gap allowed; any larger one is proved
  (section 6).
* `PollPeriod` 4: between the two reads of the busy bit the driver makes while
  waiting for it to rise, fewer than four clocks pass. Here an atom may end after
  one clock, so the shortest operation is busy for a handful of clocks; the
  atoms' real durations, tens of clocks, leave the driver far more room.
* `writedata`: `Depth` 2, pages of one to four words, enough for the FIFO to run
  dry and to fill at each word of a page and for bursts of odd and even length.
* `readdata`: `Depth` 4, pages of one, two and four words, so that a page fills
  a FIFO; `FlagDelays` 0, 2 and 5; `MinGap` 12, fewer clocks than the driver's
  poll and its next command take. The two numbers are edges. With a flag that
  lags by six clocks, or with a next command after ten, TLC finds `StatusCaught`
  violated: the status machine's twelve clocks are just enough for five. A DMA
  that falls two FIFO depths behind violates it too.
* `registers`: the real depth of 16 and the real periods in units of 2 ns. TLC
  finds `NeverFull` violated at depth 4 and not at 6 or 8, and violated at any
  depth when the AXI clock is slower than the system clock (6:5, 7:5), since a
  status word is written on every system clock. AXI clocks that are faster still
  (5:10, 5:11) are fine.
* `link`, `erasebox` and `latethread`: a request is two packets of two cells and
  the ring holds two requests and a half, in place of 17 packets of 512 bytes and
  7.5 requests. Two clicks, two connections, two setup packets: the second of each
  meets what the first left. Two of the six request kinds, one whose answer is a
  page and one whose answer is a verdict; the handlers differ in nothing else the
  properties see.
* All five byte counts of CAData in `latch`, two byte patterns, one with
  repeated bytes so that "each once" is not about distinct values.
* The self tests' loops are cut to one page of a block, and one round. A round
  begins in the state the round before left: the chip at rest.

`CHECK_DEADLOCK` is off in `link`, `erasebox` and `latethread`, where the user may
stop and everything waits for the next click; `ClickEnds` and `LinkComesUp` say
that nothing else stops. It is on in every other run: the clock always runs.

## 4. Fairness

* The clock runs (`WF` of the next-state relation).
* NandController: the processor goes on executing the driver. Nothing is assumed
  about its speed but `PollPeriod` while it waits for busy to rise. This is the
  one place the driver is sensitive to its own speed: an operation that begins
  and ends between two polls leaves it in `while` for ever (NFC.c:37).
* A running atom ends (`[]<>(Running = {})`): in AtomCommand, WriteData and
  ReadData this is checked of the latch, output and input atoms rather than
  assumed.
* A chip ends what it began (`[]<>` of each chip being ready).
* WriteData: the DMA delivers the words it was asked for, and the latch cycles
  around a data phase end.
* ReadData: the DMA takes a word now and then, the driver goes on and the latch
  atoms finish. The last two are strong fairness: the moment at which they are
  enabled comes back at every clock that the DMA stalls or not.
* RegisterPath: both clocks run, because an edge is due before the other clock
  may run on. Time and again the master accepts on every channel and an engine is
  done, and a chip is done: strong fairness, since the edges at which they may
  happen alternate with the other clock's.
* HostSystem: the application's threads, the interrupts and the main loops of the
  board each go on, a thread that was created begins some time, and the host
  configures a device that it has reset. A control transfer that nothing answers
  ends by the time-out every host gives it. The user need not do anything.

## 5. Findings

1. **rCommandFail** (`commandfail`). README.md:172 calls it the status of the
   last command. The adapter clears it on every register write that is not a
   command, so a refused command is forgotten when the next operand is written.
2. **Set Feature after a page program** (`latefeature`). Which half of the
   feature word goes first is a toggle on WriteReady that is never reset and is
   not gated by the machine's own activity. A page program toggles it too, and
   an odd number of toggles makes the next Set Feature send the low half where
   the timing mode belongs. The firmware sets features only at start-up, and
   `writedata` shows that this order is safe.
3. **Erase Successfully** (`erasebox`). The application reads its answer with one
   recv and tests the returned count against SOCKET_ERROR only
   (USBHOSTAPPDlg.cpp:679-696). TCP may hand over a part of the 8704 bytes; the
   rest then answers the next click, and the box says that an erase succeeded
   which has not been carried out. `link` shows that all is well when a recv
   returns the whole answer.
4. **The receiving thread may be late** (`latethread`). A handler sets
   `bulk_thread_finished`, creates the thread that clears it, sends its request and
   spins while the flag is clear (USBHOSTAPPDlg.cpp:463-489). The wait for the
   thread in between is commented out (:465). A thread that has not begun when the
   request is out leaves the flag set: the handler shows what is in the buffer,
   and zeros there read "Erase Successfully!" (:696) before the erase has been
   carried out. `link` shows what is left of the promise: a handler whose thread
   has begun by then shows its own answer (`AnswerAwaited`), and the answer that a
   late thread takes does not turn up in a later click.

Observations that no run checks. README.md:278-281 gives Read Parameter Page(ECh)
the opcode 000001, which is Reset's; the code issues ECh for opcode 000100 with
target 1 (NFC_Command_Issue_Top.v:415, NFC_Command_ReadPage.v:170). The self tests erase or read without
asking for readiness (helloworld.c:182), so right after a program request they
would reach a chip that is still busy (`AtRest` of NandController). The fifth byte
of an asynchronous latch returns to READY with no LastStep
(NFC_Atom_Command_Async.v:142); the machines ask for one byte, and `AskAssumption`
says so. The bytes of a Get Feature go into the read FIFO and stay there in front
of the next page (NFC_Command_Issue_Top.v:824); the request loop calls none, and
`ReadIntact` counts them among the words asked for. The ring's index wraps as
`length % (start + n)`, which is the length (xusbps_cdc_buffer.c:95); the wrap is
not reached, because an emptied ring starts at its first cell again and the
application sends one request at a time.

## 6. What is proved

For every set of ways, addresses, lengths and words, and every gap of at least
two clocks (`CommandIssueProofs`):

* `TypeCorrect`: `Spec => []TypeOK`.
* `OneAtATime`: two operations are never under way together. `OneOperation` is
  not inductive. Nothing in it says why a word in the adapter cannot start a
  second machine. The invariant proved is `Exclusion`: with it, a valid word in
  the adapter means that every machine is READY, and a pending operation word is
  one clock old. The second part carries the gap: the word that would follow it
  at once is the one `MinGap` rules out, and any later one meets the busy flag.
* `NoAcceptedOperationLost` and `SetupRegistersStable`: action properties, both
  from `Exclusion`.
* `AtomsFollowOwner`: a running atom is the one the owner of the multiplexer
  asks for. The invariant is `Handshake`, which adds that an atom that is ready
  has its LastStep down. Otherwise a stale LastStep could move a machine on
  under the next atom. The step is: a machine keeps its request until LastStep
  (`RequestHeld`), and ownership does not change meanwhile (`OwnerHeld`, which
  rests on `OneOperation`).

For every set of ways and bytes and all operands `AskAssumption` admits
(`AtomCommandProofs`):

* `LatchKeepsPort`: every step of either latch atom is a step of AtomPort or a
  stutter. This is the refinement that `latch` checks, without its fairness. The
  invariant `Inv` ties the byte counter, the timer and the number of bytes put
  out together (`SyncCount`, `AsyncCount`): the two atoms count differently, and
  a byte is out at the first of its three clocks, or at the seventh of its ten.
  It also shows that the branch from the fifth byte back to READY without a
  LastStep is never taken under `AskAssumption`.

For the same constants as `CommandIssueProofs` (`CommandIssueRefinement`):

* `ControllerIsSequencer`: CommandIssue implements BusSequencer, the refinement
  that `exclusion` and `sequences` check. Given `Exclusion` and `Handshake`, the
  invariant `WholeInv` adds that the history is as long as the owner's phase says
  and is a prefix of its script (`RefInv`). For this a running atom must carry the
  operands of its owner (`AtomsCarry`), registers a machine does not have must be
  zero (`UnusedZero`), and the descriptor pulse must last one clock at a known
  place (`Pulses`): a read's is over before its input atom runs. A step is then
  one step of the script, its beginning or end, or a stutter.

For any number of ways, any address words and operands, any subset of the
requests, any poll period and any pace of the processor, the atoms and the chips,
with `MinGap` 2, the least gap there is (`NandControllerProofs`):

* `DriverNeverRefused`, `ChipsAtWorkLeftAlone` and `StatusIsTrue`: the three safety
  properties of `service`. The argument follows what the firmware may know
  (`Knowledge`): the address last written, the ways selected, the operation issued
  and whether a poll has seen it, the chips known to be ready, whose status was
  read last. Each instruction has a triple, what must be known before it and what
  is known after (`Takes`). A call's triples are laid end to end (`Leads`), call
  by call (`Does`), up to each request (`ServesAsked`, `ServesTests`) and the
  start-up over all ways (`DoesStartup`). The invariant `SysInv` says that what is
  known is true (`Right`) and that triples lead from it through all that is left
  to do (`Known`). An instruction whose need is not met, such as a program of a
  chip nobody has asked, would leave no way to lay the triples.
* What makes `Right` inductive is where the chip, the three stages of the R/B
  pipeline and the machine stand to each other. Before the confirming cycle the
  pipeline fills with "ready" (`Filled`), so that the machine cannot take a level
  of an earlier operation for its own. After it, a stage that shows R/B low has
  only low or the end of the work behind it (`Fell`), and once low has come out a
  high is the end (`Rose`). Program and erase machines do not look, and leave
  nothing known of the chip but what a status read tells (`Told`).
* `ClosedSystemIsSequencer`: the closed system implements BusSequencer. Here the
  words are the driver's, so no condition on the host is left.

None of the four uses `PollPeriod`: a driver that polls too late hangs, which is
the business of `RequestsEnd`, but does no harm.

For every set of bytes, every set of scripts and every depth of the write FIFO
(`WriteDataProofs`):

* `WriteTypes`, and `PagesIntact`: pages reach the chip whole, however the DMA
  delivers. The invariant is `AllInv`. Its control part counts, in each state of
  either output atom, how many bytes have left; its data part says that what was
  asked for is what left, then the word in the atom, then the FIFO, then the rest of
  the stream.
* `FeaturesIntact`: the feature word leaves in order if no script has a page
  program before a Set Feature (`FeaturesFirst`, the firmware's start-up order).
  Finding 2 shows that it is not so without that hypothesis, which is a theorem's
  hypothesis and not an assumption on the constants. The invariant ties the
  half to be offered next to the byte count.

For every set of words, every set of scripts, pages of any length, every depth of
the two FIFOs from two words up, and every lag of the block FIFO's EMPTY of at most
five clocks and `MinGap` of at least six more than the lag (`ReadDataProofs`; the
hypothesis is `FlagsInTime`, and the bounds of `readdata` in section 3 show that it
is as weak as it can be in either number):

* `ReadTypesHold`, `ReadsAreIntact` and `StatusIsCaught`, all from `ReadInv`. None
  of the three is inductive: they say nothing of the registers a word passes
  between the pins and the DMA. The invariant has one number, `t`, the clocks
  since the command's first strobe. The machine's phase and the atom's counters
  follow from it (`Control`, `Atom`), and so does what every register and FIFO
  from the pins to the atom's output holds (`PipeAt`): which word of the command,
  or none.
* That nothing on this way ever waits is what has to be proved. A word waits only
  if the read FIFO is full. Of a DMA that takes nothing, fewer than `Depth` words
  are outstanding (`KeepsUp`), and when the read FIFO's two output registers stand
  still they hold two of those (`RoomLeft`, `FifoKeeps`). So the read FIFO never
  fills, the atom's FIFO never holds more than one word, and the physical input
  moves on every clock.
* What was asked for is what the DMA was given, then what the read FIFO holds, then
  the words that have not come out of the atom's FIFO (`Stream`). A status read adds
  nothing: its word comes out when `t` is 13 and the lag, and its machine is busy
  until `t` is 19 (`WhatIsKept`, `SeenMovesOn`). The next command finds the pipe
  empty (`PipeDrained`).

For every depth of the crossings from eight up, every two clock periods with the
AXI clock the faster, by at most a factor of two (10 and 12 ns in the
repository), every alignment of the edges, and every set of operand values
(`RegisterPathProofs`):

* `RegisterTypes`, and `CrossingsNeverFull`: the crossings are written without a
  look at their ready and never overflow. That a FIFO is not full says nothing of
  the next edges; the invariant is one of time. Each count of words, seen or not
  yet seen by either side's synchronisers, is bounded by the time that has
  passed since the edges that could have made it (`RegisterPace`, `StatusPace`):
  the writer earns at most one place per two AXI clocks, or one per system clock,
  and `skew` is the time of the next edges. For status words there is a lower
  bound too (`StatusFlow`): the newest word is never older than a known number
  of clocks.
* `RegisterWordsArrive`: `AllCarried` says that the words due are those in the
  output, the memory's register and the memory, oldest first, each with its
  operands.
* `PollsTellTruth` and `DescriptorsAreRight`: the invariant `InCall` gives the
  course of a driver call. For some operation and operands, what is left of the
  call is the rest of its script (`Rest`), the registers written so far hold its
  operands (`OperandsSet`), and the writes under way are its last ones (`InOrder`).
  It says where the operation stands, and what the line of status bits from the
  controller to the driver, from newest to oldest, can look like there: no bit
  left from before the operation, one run of busy bits, at most one pulse
  (`Course`).

For a request of any whole number of packets of any size, any ring that holds a
request (64 KiB and 8704 bytes in the repository), any number of packet
descriptors, any subset of the requests and any number of clicks
(`HostSystemProofs`):

* `LineCodingSettled`: `Coded` says what the control endpoint's state owes the
  line coding asked for last. The data phase stores it only in the driver state
  CONFIG, and nothing but the request's own status phase leaves that state.
* `AnswersAwaited`: a handler whose receiving thread has begun shows the answer to
  its own click over USB (`AnswerAwaited`). `UsbRequest`
  says where the clicked request's cells are: the first of them in the ring,
  from its start on, then the packets in endpoint 3, then those in the cable;
  or all of them in the receive buffer. So the ring never wraps, holds exactly
  one request when the main loop takes it, and is back at its start after.
  `UsbAnswer` says the same of the answer: what the thread has received is its
  first cells, what endpoint 2 has yet to send the rest, and a handler that spins
  with no thread left has the whole of it. A flag that is set with a thread not
  begun is the handler's own (finding 4); the only step from the loop to the box is
  its end (`OnlySpinShows`). The theorem assumes of the user what the guards
  `AtRest` and `UserIsSlow` say: no click while an answer is still to come. It
  assumes nothing of when the thread begins.
* `StreamStaysIntact`, `EachCarriedOutOnce` and `HostTyped` speak of all three
  images and have a hypothesis, `RecvWhole`: a recv returns the whole answer.
  Without it a button shows an answer before its request has been carried out,
  the user may click again, and two requests are under way (the run `erasebox`
  has such a recv). `TcpState` is the invariant over TCP: what the raw image has
  gathered and what is in the connection make up the request; what is left in the
  connection after the FreeRTOS image has answered is a proper end of it, so no
  piece that it reads there has a header; and a connection that was closed is
  empty but for that.

The assumptions on constants are the named `ASSUME`s of the modules, evaluated
by TLC in every run. TLC also checked each inductive invariant on the runs'
instances before it was proved.

What is assumed beyond them is in the specifications' guards, and a theorem holds
under those of its module: `MinGap` of CommandIssue; `AtRest`, `DriverSleep` and
`DriverRest` of NandController, which make a self test's user and the sleeps
slower than the chip; `KeepsUp` of ReadData, the DMA that keeps up; `MayGo` of
RegisterPath, an operation that the driver sees busy; `AtRest` and `UserIsSlow` of
PcApp, the user who waits for an answer. `RecvWhole`, `FlagsInTime` and
`FeaturesFirst` are hypotheses of the theorems that need them.

Model-checked only: `EraseBoxTrue` and `UsbAnswerShown`, which findings 3 and 4
refute, and all liveness (`RequestsEnd`, `CommandsEnd`, `ReadsArrive`,
`CallsReturn`, `ClickEnds`, `LinkComesUp`, the fairness of `ImplementsPort`): the
prover does not treat fairness and ENABLED.

## 7. The plan

Done, in this order: the command path and its abstract specification; its
proofs; the host's view; the closed system with driver and chips; the latch
atoms, their contract and its proof; the data sent; the data read; the register
path with its crossings and descriptors; the PC application and the three
firmware images.

Proved: the command path and its refinement, the closed system with driver and
chips, the latch atoms, the data sent, the data read, the register path, the PC
application and the firmware images. Next: **NandController** over RegisterPath,
where one step of the driver's polls in the one is a poll of the other, many
clocks old (`PollsTellTruth`).

## 8. What is not modelled, and why

* The asynchronous input atom: its instance is commented out.
* Serialisers, delay lines, DQS levels and I/O primitives: analogue timing,
  which a model of clock edges does not speak of. That a strobe's sample is the
  word the chip put out for it is such a matter.
* Of the vendored AXI and stream libraries: DMA bursts, the width conversion of
  the page data FIFOs, frame mode, which is off. The reset of either clock domain:
  nothing in the repository resets a running controller.
* When DMA data are in memory: the firmware does not ask (helloworld.c:401).
* The tap register and the read-back of registers that no driver call reads;
  `getfeature_eeh`, multi-plane erase, `readstatus_78h` and `set_DelayTap` of
  the driver: not called by the request loop. The operations behind the first
  three are in CommandIssue.
* The ReadBlock request: the application never sends it. The buttons for other
  boards, and what the application draws.
* The network stacks; lost, duplicated or reordered segments, which TCP hides;
  two connections at once, which the application does not open. The demonstration
  programs beside the two servers, which nothing starts.
* Killing the application or unplugging the board with a request under way: the
  firmware has no provision for it, and what a chip or a half-filled ring is
  left with is not said anywhere.
* The contents of the USB descriptors and the notification endpoint, which is
  set up and never used.
* The cache register of a chip behind a 15h: one ready bit stands for `RDY` and
  `ARDY` (section 2).
* The contents of a status byte beyond its ready bits: no document says what a
  host may conclude from the fail bit that the firmware returns.
