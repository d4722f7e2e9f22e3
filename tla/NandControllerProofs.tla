------------------------- MODULE NandControllerProofs -------------------------
(***************************************************************************)
(* Proofs about the closed system: the driver's calls never meet a busy    *)
(* controller, a chip at work on its array is left alone, and a status the *)
(* firmware acts on is the status of the chip it asked about.              *)
(*                                                                         *)
(* The argument follows what the firmware may know while it executes its   *)
(* calls.  Each instruction is given a triple: what must be known before   *)
(* it, and what is known after it.  A call's triples are laid end to end,  *)
(* and an invariant says that what is known is true and that triples lead  *)
(* from it through all that is left to do.                                 *)
(***************************************************************************)
EXTENDS NandController, CommandIssueRefinement, FiniteSetTheorems, WellFoundedInduction

USE DriverAssumption, PollAssumption

-----------------------------------------------------------------------------
(* What the firmware knows.  Between operations it is "calm"; an operation *)
(* it has written is "issued", and "seen" once a poll has found the busy   *)
(* bit up.                                                                 *)
Knowledge ==
  [at     : {"calm", "issued", "seen"},
   op     : Ops \cup {"none"},       \* the operation issued
   addr   : Addr,                    \* the Address register
   way    : SUBSET Way,              \* the ways selected
   rested : SUBSET Way,              \* chips that are ready
   told   : SUBSET Way]              \* whose status the last status read has brought

Calm(p) == p.at = "calm"

\* The driver issues every operation but one.
DriverOps == Ops \ {"GetFeature"}

\* Operations that outlast the chip's work.
Returning == {"Reset", "SetFeature", "ReadPage"}

Issued(p, o) ==
  [p EXCEPT !.at = "issued", !.op = o, !.told = {},
            !.rested = IF o = "ReadStatus" THEN @ ELSE @ \ p.way]

Ended(p) ==
  [p EXCEPT !.at = "calm", !.op = "none",
            !.rested = IF p.op \in Returning THEN @ \cup p.way ELSE @,
            !.told = IF p.op = "ReadStatus" THEN p.way ELSE {}]

-----------------------------------------------------------------------------
(* The triples: instruction x takes knowledge p to knowledge q.            *)

TakesOperand(x, p, q) ==
  /\ x.do \in {"addr", "len", "dma"} /\ Calm(p)
  /\ q = IF x.do = "addr" THEN [p EXCEPT !.addr = x.addr] ELSE p

TakesSetup(x, p, q) ==
  /\ x.do = "cmd" /\ x.opcode \in Setups /\ Calm(p)
  /\ q = IF x.opcode = "SelectWay" THEN [p EXCEPT !.way = WaysOf[p.addr]] ELSE p

TakesOperation(x, p, q) ==
  /\ x.do = "cmd" /\ x.opcode \in DriverOps /\ Calm(p)
  /\ \E w \in Way : p.way = {w} /\ (x.opcode = "ReadStatus" \/ w \in p.rested)
  /\ q = Issued(p, x.opcode)

TakesPoll(x, p, q) ==
  /\ x.do = "poll"
  /\ IF x.busy THEN p.at = "issued" /\ q = [p EXCEPT !.at = "seen"]
               ELSE p.at = "seen" /\ q = Ended(p)

TakesSleep(x, p, q) == x.do = "sleep" /\ p.at = "issued" /\ q = Ended(p)

TakesCheck(x, p, q) ==
  /\ x.do = "check" /\ Calm(p) /\ p.op = "none"
  /\ p.addr = WayAddr[x.way] /\ p.way = {x.way} /\ p.told = {x.way}
  /\ q = [p EXCEPT !.rested = @ \cup {x.way}]

TakesVerdict(x, p, q) ==
  /\ x.do = "verdict" /\ Calm(p) /\ p.told = {x.way} /\ x.way \in p.rested
  /\ q = p

TakesRest(x, p, q) ==
  /\ x.do = "rest" /\ Calm(p)
  /\ q = [p EXCEPT !.rested = @ \cup {x.way}, !.told = {}]

Takes(x, p, q) ==
  \/ TakesOperand(x, p, q) \/ TakesSetup(x, p, q) \/ TakesOperation(x, p, q)
  \/ TakesPoll(x, p, q) \/ TakesSleep(x, p, q)
  \/ TakesCheck(x, p, q) \/ TakesVerdict(x, p, q) \/ TakesRest(x, p, q)

Instructions ==
  [do : {"addr"}, addr : Addr] \cup [do : {"len"}, len : Length] \cup [do : {"dma"}]
  \cup [do : {"cmd"}, opcode : Ops \cup Setups, target : Target]
  \cup [do : {"poll"}, busy : BOOLEAN] \cup [do : {"sleep"}]
  \cup [do : {"check", "rest", "verdict"}, way : Way]

\* The instructions s, one after another, take p to q.
Leads(s, p, q) ==
  /\ s \in Seq(Instructions)
  /\ \E known \in [0..Len(s) -> Knowledge] :
       /\ known[0] = p /\ known[Len(s)] = q
       /\ \A i \in 1..Len(s) : Takes(s[i], known[i-1], known[i])

-----------------------------------------------------------------------------
(* What is true of the controller and the chips when p is known.           *)

Rested(w) == chip[w].st = "ready"

\* The R/B pipeline of machine o fills with the level of a chip that is ready,
\* one stage at each edge, until all of it shows the chip ready.
Filled(o, w) ==
  LET st == fsm[o].st IN
  /\ w \in pins.buf1
  /\ st # "CMDLatch" => w \in pins.buf0 /\ rbp[o].sel = {w}
  /\ st \notin {"CMDLatch", "CMDIssue"} => rbp[o].ways = {w} /\ rbp[o].ready
  /\ st = "CMDIssue" /\ (\E k \in Kinds : atom[k].st = "RUN") => rbp[o].ways = {w}
  /\ st = "CMDIssue" /\ (\E k \in Kinds : LastStep(k)) => rbp[o].ready

\* Once a stage has seen R/B low, the stages before it show it low, or high
\* again after the chip's work is done.
Fell(o, w) ==
  LET risen1 == (w \in pins.buf1 => Rested(w)) /\ chip[w].st # "armed"
      risen0 == (w \in pins.buf0 => w \in pins.buf1) /\ risen1
  IN /\ w \notin pins.buf1 => chip[w].st # "armed"
     /\ w \notin pins.buf0 => risen1
     /\ rbp[o].ways = {} => risen0
     /\ ~rbp[o].ready => (rbp[o].ways # {} => w \in pins.buf0) /\ risen0

\* R/B has been low: a stage that shows it high shows the end of the work.
Rose(o, w) ==
  /\ rbp[o].ready => rbp[o].ways # {}
  /\ rbp[o].ways # {} => w \in pins.buf0
  /\ w \in pins.buf0 => w \in pins.buf1
  /\ w \in pins.buf1 => Rested(w)
  /\ chip[w].st # "armed"

\* The chip has been given the code that starts its work.
Confirmed(o) ==
  CASE o \in {"Reset", "SetFeature"} -> fsm[o].st \in {"WaitRBLow", "WaitRBHigh"}
    [] o = "ReadPage" -> fsm[o].st \in {"WaitRBLow", "WaitRBHigh", "DATAIssue"}
    [] OTHER -> fsm[o].st = "WaitRBLow" \/ (fsm[o].st = "CMD2Issue" /\ fsm[o].last)

Before(o, w) == Rested(w) /\ (o \in Returning => Filled(o, w))

After(o, w) ==
  o \in Returning =>
    /\ rbp[o].sel = {w}
    /\ fsm[o].st = "WaitRBLow" => Fell(o, w)
    /\ fsm[o].st = "WaitRBHigh" =>
         Rose(o, w) /\ (fsm[o].last /\ o # "ReadPage" => Rested(w))
    /\ fsm[o].st = "DATAIssue" => Rested(w)

\* The status register tells the truth about way w, and shows a chip known to
\* be ready as ready.
Told(W, rested) ==
  /\ status.way = W
  /\ status.ready => \A w \in W : Rested(w)
  /\ W \subseteq rested => status.ready

AtWork(o, w, rested) ==
  /\ Underway(o)
  /\ Working(o) => fsm[o].way = {w}
  /\ o # "ReadStatus" => IF Confirmed(o) THEN After(o, w) ELSE Before(o, w)
  /\ o = "ReadStatus" /\ fsm[o].st = "WaitRBLow" => Told({w}, rested)
  /\ fsm[o].st = "ADDRIssue" /\ ~(o = "ReadPage" /\ ReadParam(fsm[o])) =>
       chip[w].cmd \notin {"EEh", "ECh"}

\* The operation issued is accepted, at work, or over.
InFlight(p) ==
  \E w \in Way :
    /\ p.way = {w}
    /\ \/ PendingOp /\ adapter.opcode = p.op /\ (p.op # "ReadStatus" => Rested(w))
       \/ ~PendingOp /\ AtWork(p.op, w, p.rested)
       \/ /\ ~PendingOp /\ ~Busy
          /\ p.op \in Returning => Rested(w)
          /\ p.op = "ReadStatus" => Told({w}, p.rested)

Right(p) ==
  /\ host.addr = p.addr
  /\ RegsNext.way = p.way
  /\ \A w \in p.rested : Rested(w)
  /\ p.told # {} => Told(p.told, p.rested)
  /\ p.at = "calm" => ~PendingOp /\ ~Busy
  /\ p.at = "issued" /\ adapter.busy => ~PendingOp
  /\ p.at = "seen" => ~PendingOp /\ (Busy => adapter.busy)
  /\ p.at # "calm" =>
       /\ p.op \in DriverOps /\ p.told = {} /\ InFlight(p)
       /\ p.op # "ReadStatus" => p.way \cap p.rested = {}

-----------------------------------------------------------------------------
(* The chips and the R/B pipelines at one clock edge.                      *)

\* The chips, the pins and the status register hold what they should.
WorldType ==
  /\ host \in [addr : Addr, len : Length]
  /\ pins \in [buf1 : SUBSET Way, buf0 : SUBSET Way]
  /\ status \in [way : SUBSET Way, ready : BOOLEAN]
  /\ DOMAIN chip = Way
  /\ \A w \in Way : /\ chip[w] = [cmd |-> chip[w].cmd, st |-> chip[w].st]
                    /\ chip[w].st \in {"ready", "armed", "busy"}

\* One edge outside the controller.
World ==
  /\ \E moving \in SUBSET Way : chip' = [c \in Way |-> ChipNext(c, c \in moving)]
  /\ pins' = PinsNext
  /\ status' = StatusNext

Hears(w, k) == LastStep(k) /\ w \in atom[k].way

Begins(c, t) ==
  LET cmd == IF t.cle THEN t.what[1] ELSE c.cmd IN
  \/ t.cle /\ cmd \in Confirms
  \/ ~t.cle /\ t.kind \in {"ACA", "ACS"} /\ cmd \in {"EEh", "ECh"}
  \/ t.kind = "DOA" /\ cmd = "EFh"

\* How a chip's array moves by itself.
Moves(a, b) ==
  /\ a = "ready" => b = "ready"
  /\ a = "armed" => b \in {"armed", "busy"}
  /\ a = "busy" => b \in {"busy", "ready"}

(* A chip that hears nothing goes on by itself.                            *)
LEMMA ChipDeaf ==
  ASSUME WorldType, World, NEW w \in Way, \A k \in Kinds : ~Hears(w, k)
  PROVE  /\ chip'[w] = [cmd |-> chip[w].cmd, st |-> chip'[w].st]
         /\ Moves(chip[w].st, chip'[w].st) /\ chip'[w].st \in {"ready", "armed", "busy"}
<1> DEFINE c == chip[w]
<1>1. c = [cmd |-> c.cmd, st |-> c.st] /\ c.st \in {"ready", "armed", "busy"}
  BY DEF WorldType
<1>2. PICK moving \in SUBSET Way : chip'[w] = ChipNext(w, w \in moving)
  BY DEF World
<1>3. {Transfer(k) : k \in {l \in Kinds : LastStep(l) /\ w \in atom[l].way}} = {}
  BY DEF Hears
<1>4. ChipNext(w, w \in moving) =
        CASE w \in moving /\ c.st = "armed" -> [c EXCEPT !.st = "busy"]
          [] w \in moving /\ c.st = "busy" -> [c EXCEPT !.st = "ready"]
          [] OTHER -> c
  BY <1>3, Zenon DEF ChipNext
<1> HIDE DEF c
<1>5. chip'[w] = [cmd |-> c.cmd, st |-> chip'[w].st]
  BY <1>1, <1>2, <1>4
<1>6. chip'[w].st \in {"ready", "armed", "busy"} /\ Moves(c.st, chip'[w].st)
  BY <1>1, <1>2, <1>4 DEF Moves
<1>7. QED
  BY <1>5, <1>6 DEF c

(* A chip that hears a bus step takes its code, and starts its work if the *)
(* step is the one that begins it.                                         *)
LEMMA ChipHears ==
  ASSUME WorldType, World, NEW w \in Way, NEW k \in Kinds, Hears(w, k),
         \A l \in Kinds : LastStep(l) => l = k
  PROVE  /\ chip'[w] = [cmd |-> IF Transfer(k).cle THEN Transfer(k).what[1] ELSE chip[w].cmd,
                        st |-> chip'[w].st]
         /\ chip'[w].st \in {"ready", "armed", "busy"}
         /\ ~(chip[w].st = "ready" /\ Begins(chip[w], Transfer(k))) =>
              Moves(chip[w].st, chip'[w].st)
<1> DEFINE c == chip[w]
           t == Transfer(k)
           h == Heard(c, t)
<1>1. c = [cmd |-> c.cmd, st |-> c.st] /\ c.st \in {"ready", "armed", "busy"}
  BY DEF WorldType
<1>2. PICK moving \in SUBSET Way : chip'[w] = ChipNext(w, w \in moving)
  BY DEF World
<1>3. {l \in Kinds : LastStep(l) /\ w \in atom[l].way} = {k}
  BY DEF Hears
<1>4. {Transfer(l) : l \in {m \in Kinds : LastStep(m) /\ w \in atom[m].way}} = {t}
  BY <1>3
<1>5. t = CHOOSE u \in {t} : TRUE
  OBVIOUS
<1>6. ChipNext(w, w \in moving) =
        CASE w \in moving /\ c.st = "armed" -> [h EXCEPT !.st = "busy"]
          [] w \in moving /\ c.st = "busy" -> [h EXCEPT !.st = "ready"]
          [] OTHER -> h
  <2>1. {t} # {}
    OBVIOUS
  <2> HIDE DEF t
  <2>2. QED
    BY <1>4, <1>5, <2>1, Zenon DEF ChipNext
<1>7. h = [cmd |-> IF t.cle THEN t.what[1] ELSE c.cmd,
           st |-> IF Begins(c, t) /\ c.st = "ready" THEN "armed" ELSE c.st]
  BY Zenon DEF Heard, Begins
<1> DEFINE code == IF t.cle THEN t.what[1] ELSE c.cmd
           begun == Begins(c, t)
<1>8. h = [cmd |-> code, st |-> IF begun /\ c.st = "ready" THEN "armed" ELSE c.st]
  BY <1>7
<1> HIDE DEF code, begun, h
<1>9. chip'[w] = [cmd |-> code, st |-> chip'[w].st]
  BY <1>1, <1>2, <1>6, <1>8 DEF c
<1>10. chip'[w].st \in {"ready", "armed", "busy"}
  BY <1>1, <1>2, <1>6, <1>8 DEF c
<1>11. ~(c.st = "ready" /\ begun) => Moves(c.st, chip'[w].st)
  BY <1>1, <1>2, <1>6, <1>8 DEF c, Moves
<1>12. QED
  BY <1>9, <1>10, <1>11 DEF code, begun

(* The pipeline takes over one stage after another.                        *)
LEMMA PipelineMoves ==
  ASSUME TypeOK, WorldType, NEW finishing, Clock(NoWord, pins.buf0, finishing), World,
         NEW o \in Returning, NEW w \in Way
  PROVE  /\ rbp'[o].sel = fsm[o].way
         /\ rbp[o].sel = {w} => rbp'[o].ways = IF w \in pins.buf0 THEN {w} ELSE {}
         /\ rbp'[o].ready <=> rbp[o].ways # {}
         /\ w \in pins'.buf0 <=> w \in pins.buf1
         /\ w \in pins'.buf1 <=> chip[w].st # "busy"
<1>1. rbp'[o] = PipelineNext(o, pins.buf0)
  BY DEF Clock, Inputs, Returning, RBOps
<1>2. rbp'[o].sel = fsm[o].way /\ rbp'[o].ways = rbp[o].sel \cap pins.buf0
      /\ rbp'[o].ready = (rbp[o].ways # {})
  BY <1>1 DEF PipelineNext
<1>3. pins'.buf0 = pins.buf1 /\ pins'.buf1 = ReadyPins
  BY DEF World, PinsNext
<1>4. w \in ReadyPins <=> chip[w].st # "busy"
  BY DEF ReadyPins
<1>5. rbp[o].sel = {w} => rbp[o].sel \cap pins.buf0 = IF w \in pins.buf0 THEN {w} ELSE {}
  OBVIOUS
<1>6. QED
  BY <1>2, <1>3, <1>4, <1>5

(* An atom is at its last step only after it has run.                      *)
LEMMA RunsBefore ==
  ASSUME NEW w, NEW rb, NEW finishing, Clock(w, rb, finishing), TypeOK,
         NEW k \in Kinds, LastStep(k)'
  PROVE  atom[k].st = "RUN"
<1>1. atom'[k] = AtomNext(k, k \in finishing) /\ atom[k].st \in {"READY", "RUN"}
  BY DEF Clock, Inputs, TypeOK, AtomType
<1>2. SUFFICES ASSUME atom[k].st = "READY" PROVE ~atom'[k].last
  BY <1>1 DEF LastStep
<1>3. CASE MuxAsk.cmd = k
  <2>1. atom'[k] = [st |-> "RUN", last |-> FALSE, num |-> MuxAsk.num, cle |-> MuxAsk.cle,
                    ca |-> MuxAsk.ca, way |-> MuxWay]
    BY <1>1, <1>2, <1>3, Zenon DEF AtomNext
  <2>2. QED
    BY <2>1
<1>4. CASE MuxAsk.cmd # k
  <2>1. atom'[k] = AtomReady
    BY <1>1, <1>2, <1>4, Zenon DEF AtomNext
  <2>2. QED
    BY <2>1 DEF AtomReady
<1>5. QED
  BY <1>3, <1>4

(* While the chip stays ready the level moves down the pipeline, and it is *)
(* there before the first atom of the operation is at its last step.       *)
LEMMA FilledMoves ==
  ASSUME TypeOK, Exclusion, Handshake, WorldType, NEW finishing,
         Clock(NoWord, pins.buf0, finishing), World,
         NEW o \in Returning, NEW w \in Way, Active(o), fsm[o].way = {w},
         Rested(w), Filled(o, w)
  PROVE  /\ w \in pins'.buf1 /\ w \in pins'.buf0 /\ rbp'[o].sel = {w}
         /\ fsm[o].st # "CMDLatch" => rbp'[o].ways = {w}
         /\ fsm[o].st \notin {"CMDLatch", "CMDIssue"} => rbp'[o].ready
         /\ fsm[o].st = "CMDIssue" /\ (\E k \in Kinds : atom[k].st = "RUN") => rbp'[o].ready
<1>1. /\ rbp'[o].sel = {w}
      /\ rbp[o].sel = {w} => rbp'[o].ways = IF w \in pins.buf0 THEN {w} ELSE {}
      /\ rbp'[o].ready <=> rbp[o].ways # {}
      /\ w \in pins'.buf0 <=> w \in pins.buf1
      /\ w \in pins'.buf1
  BY PipelineMoves DEF Rested
<1>2. QED
  BY <1>1 DEF Filled

(* The chip's level after its work began moves down the pipeline.          *)
LEMMA FellMoves ==
  ASSUME TypeOK, WorldType, NEW finishing, Clock(NoWord, pins.buf0, finishing), World,
         NEW o \in Returning, NEW w \in Way, rbp[o].sel = {w}, Fell(o, w),
         Moves(chip[w].st, chip'[w].st)
  PROVE  Fell(o, w)' /\ (~rbp[o].ready => Rose(o, w)')
<1>1. /\ rbp'[o].ways = IF w \in pins.buf0 THEN {w} ELSE {}
      /\ rbp'[o].ready <=> rbp[o].ways # {}
      /\ w \in pins'.buf0 <=> w \in pins.buf1
      /\ w \in pins'.buf1 <=> chip[w].st # "busy"
  BY PipelineMoves
<1>2. chip[w].st \in {"ready", "armed", "busy"}
  BY DEF WorldType
<1>3. /\ rbp'[o].ways = {} <=> w \notin pins.buf0
  BY <1>1
<1>4. chip[w].st # "armed" => chip'[w].st # "armed"
  BY <1>2 DEF Moves
<1>5. chip[w].st # "armed" /\ chip[w].st # "busy" => chip'[w].st = "ready"
  BY <1>2 DEF Moves
<1>6. chip[w].st = "busy" => chip'[w].st # "armed"
  BY DEF Moves
<1>7. Fell(o, w)'
  BY <1>1, <1>3, <1>4, <1>5, <1>6 DEF Fell, Rested
<1>8. ~rbp[o].ready => Rose(o, w)'
  BY <1>1, <1>3, <1>4, <1>5, <1>6 DEF Fell, Rose, Rested
<1>9. QED
  BY <1>7, <1>8

LEMMA RoseMoves ==
  ASSUME TypeOK, WorldType, NEW finishing, Clock(NoWord, pins.buf0, finishing), World,
         NEW o \in Returning, NEW w \in Way, rbp[o].sel = {w}, Rose(o, w),
         Moves(chip[w].st, chip'[w].st)
  PROVE  Rose(o, w)'
<1>1. /\ rbp'[o].ways = IF w \in pins.buf0 THEN {w} ELSE {}
      /\ rbp'[o].ready <=> rbp[o].ways # {}
      /\ w \in pins'.buf0 <=> w \in pins.buf1
      /\ w \in pins'.buf1 <=> chip[w].st # "busy"
  BY PipelineMoves
<1>2. chip[w].st \in {"ready", "armed", "busy"}
  BY DEF WorldType
<1>3. /\ rbp'[o].ways = {} <=> w \notin pins.buf0
  BY <1>1
<1>4. chip[w].st # "armed" => chip'[w].st # "armed"
  BY <1>2 DEF Moves
<1>5. chip[w].st # "armed" /\ chip[w].st # "busy" => chip'[w].st = "ready"
  BY <1>2 DEF Moves
<1>6. QED
  BY <1>1, <1>3, <1>4, <1>5 DEF Rose, Rested

-----------------------------------------------------------------------------
(* What the chip is sent, phase by phase.                                  *)

\* The machine is at the step that begins the chip's work.
Confirming(o) ==
  LET f == fsm[o] IN
  CASE o = "Reset" -> f.st = "CMDIssue"
    [] o = "SetFeature" -> f.st = "DATAIssue"
    [] o = "ReadPage" -> f.st = "CMD2Issue" \/ (f.st = "ADDRIssue" /\ ReadParam(f))
    [] o \in {"ProgramPage", "EraseBlock"} -> f.st = "CMD2Issue"
    [] OTHER -> FALSE

\* The address cycles of the machine's sequence do not begin the chip's work.
AddressHarmless(o, w) ==
  fsm[o].st = "ADDRIssue" /\ ~(o = "ReadPage" /\ ReadParam(fsm[o])) =>
    chip[w].cmd \notin {"EEh", "ECh"}

(* An atom at its last step is the one the active machine asks for, and    *)
(* has carried its operands to the ways it selects.                        *)
LEMMA LastCarries ==
  ASSUME WholeInv, NEW o \in Ops, Active(o), NEW k \in Kinds, LastStep(k)
  PROVE  /\ AskOf(o).cmd = k /\ \A l \in Kinds : LastStep(l) => l = k
         /\ atom[k].st = "RUN" /\ atom[k].way = fsm[o].way
         /\ Transfer(k).kind = k /\ Transfer(k).cle = AskOf(o).cle
         /\ k \in {"ACA", "ACS"} => Transfer(k).what = AskOf(o).ca
<1>1. TypeOK /\ Exclusion /\ Handshake /\ AtomsCarry
  BY DEF WholeInv, RefInv
<1>2. MuxAsk = AskOf(o) /\ MuxWay = fsm[o].way
      /\ \A l \in Kinds : LastStep(l) => AskOf(o).cmd = l /\ atom[l].st = "RUN"
  BY <1>1, WorkerAsks
<1>3. /\ atom[k].cle = AskOf(o).cle /\ atom[k].ca = AskOf(o).ca /\ atom[k].way = fsm[o].way
  BY <1>1, <1>2 DEF AtomsCarry
<1>4. QED
  BY <1>2, <1>3 DEF Transfer

(* The first code is not one an address would follow, and nothing begins   *)
(* the chip's work but the step that is meant to.                          *)
LEMMA CodesSent ==
  ASSUME WholeInv, NEW o \in DriverOps, Active(o), NEW k \in Kinds, LastStep(k),
         NEW w \in Way, AddressHarmless(o, w)
  PROVE  /\ fsm[o].st = "CMDIssue" =>
              /\ Transfer(k).cle
              /\ Transfer(k).what[1] \in {"EEh", "ECh"} => o = "ReadPage" /\ ReadParam(fsm[o])
         /\ Begins(chip[w], Transfer(k)) => Confirming(o)
<1> DEFINE f == fsm[o]
           t == Transfer(k)
<1>1. /\ AskOf(o).cmd = k /\ t.kind = k /\ t.cle = AskOf(o).cle
      /\ k \in {"ACA", "ACS"} => t.what = AskOf(o).ca
  BY LastCarries DEF DriverOps
<1>2. PhasesRight
  BY DEF WholeInv, RefInv
<1>3. f.st \in {"CMDIssue", "ADDRIssue", "DATAIssue", "CMD2Issue"} /\ f.st \in PhasesOf(o)
  BY <1>1, <1>2, AsksAre DEF DriverOps
<1>4. AddressHarmless(o, w)
  OBVIOUS
<1> USE DEF AskOf, Ask, AskNothing, Begins, Confirming, Confirms, Kinds, AddressHarmless
<1>5. CASE o = "Reset"
  BY <1>1, <1>3, <1>5 DEF ResetAsk, PhasesOf
<1>6. CASE o = "SetFeature"
  BY <1>1, <1>3, <1>4, <1>6 DEF SetFeatureAsk, PhasesOf
<1>7. CASE o = "ProgramPage"
  BY <1>1, <1>3, <1>4, <1>7 DEF ProgramPageAsk, PhasesOf, ConfirmProgram
<1>8. CASE o = "ReadPage"
  BY <1>1, <1>3, <1>4, <1>8 DEF ReadPageAsk, PhasesOf
<1>9. CASE o = "EraseBlock"
  BY <1>1, <1>3, <1>4, <1>9 DEF EraseBlockAsk, PhasesOf
<1>10. CASE o = "ReadStatus"
  BY <1>1, <1>3, <1>4, <1>10 DEF ReadStatusAsk, PhasesOf
<1>11. QED
  BY <1>5, <1>6, <1>7, <1>8, <1>9, <1>10 DEF DriverOps, Ops, t

-----------------------------------------------------------------------------
(* A machine at work, at an edge that brings no word.                      *)

(* The chip at work with a machine starts its own work at the one step     *)
(* that is meant to begin it, and takes no code that would make an address *)
(* begin it.                                                               *)
LEMMA ChipEdge ==
  ASSUME WholeInv, WorldType, World, NEW o \in DriverOps, Active(o),
         NEW w \in Way, fsm[o].way = {w}, AddressHarmless(o, w)
  PROVE  /\ ~(Confirming(o) /\ \E k \in Kinds : LastStep(k)) =>
              Moves(chip[w].st, chip'[w].st)
         /\ fsm[o].st = "CMDIssue" /\ (\E k \in Kinds : LastStep(k)) =>
              (chip'[w].cmd \in {"EEh", "ECh"} => o = "ReadPage" /\ ReadParam(fsm[o]))
         /\ (\A k \in Kinds : ~LastStep(k)) => chip'[w].cmd = chip[w].cmd
<1>1. CASE \A k \in Kinds : ~LastStep(k)
  <2>1. chip'[w] = [cmd |-> chip[w].cmd, st |-> chip'[w].st] /\ Moves(chip[w].st, chip'[w].st)
    BY <1>1, ChipDeaf DEF Hears
  <2>2. chip'[w].cmd = chip[w].cmd
    BY <2>1
  <2>3. QED
    BY <1>1, <2>1, <2>2
<1>2. ASSUME NEW k \in Kinds, LastStep(k)
      PROVE  /\ ~Confirming(o) => Moves(chip[w].st, chip'[w].st)
             /\ fsm[o].st = "CMDIssue" =>
                  (chip'[w].cmd \in {"EEh", "ECh"} => o = "ReadPage" /\ ReadParam(fsm[o]))
  <2>1. atom[k].way = {w} /\ \A l \in Kinds : LastStep(l) => l = k
    BY <1>2, LastCarries DEF DriverOps
  <2>2. Hears(w, k)
    BY <1>2, <2>1 DEF Hears
  <2>3. /\ chip'[w] = [cmd |-> IF Transfer(k).cle THEN Transfer(k).what[1] ELSE chip[w].cmd,
                       st |-> chip'[w].st]
        /\ ~(chip[w].st = "ready" /\ Begins(chip[w], Transfer(k))) =>
             Moves(chip[w].st, chip'[w].st)
    BY <2>1, <2>2, ChipHears
  <2>4. chip'[w].cmd = IF Transfer(k).cle THEN Transfer(k).what[1] ELSE chip[w].cmd
    BY <2>3
  <2>5. /\ fsm[o].st = "CMDIssue" =>
              /\ Transfer(k).cle
              /\ Transfer(k).what[1] \in {"EEh", "ECh"} => o = "ReadPage" /\ ReadParam(fsm[o])
        /\ Begins(chip[w], Transfer(k)) => Confirming(o)
    BY <1>2, CodesSent
  <2>6. QED
    BY <2>3, <2>4, <2>5
<1>3. QED
  BY <1>1, <1>2

(* A machine that is asked to go on keeps its way, and goes to its address *)
(* phase from its command phase only.                                      *)
LEMMA WorkCarries ==
  ASSUME WholeInv, WorldType, World, NEW finishing, Clock(NoWord, pins.buf0, finishing),
         NEW o \in DriverOps, Active(o), NEW w \in Way, fsm[o].way = {w},
         AddressHarmless(o, w), Active(o)'
  PROVE  (Working(o)' => fsm'[o].way = {w}) /\ AddressHarmless(o, w)'
<1> DEFINE f == fsm[o]
           g == fsm'[o]
<1>1. o \in Ops /\ g.st = NextState(o) /\ f.st \notin {"RESET", "READY"} /\ g.st # "READY"
  BY NextFields DEF DriverOps, Active
<1>2. \A k \in Kinds : LastStep(k) => AskOf(o).cmd = k
  BY <1>1, LastCarries
<1>3. NextState(o) # "CMDLatch"
  BY <1>1 DEF NextState, ResetNext, SetFeatureNext, ProgramPageNext, ReadPageNext,
     GetFeatureNext, EraseBlockNext, ReadStatusNext, Ops
<1>4. Working(o)' => g.way = {w}
  BY <1>1, <1>3, OperandsKept DEF Working
<1>5. ASSUME g.st = "ADDRIssue", ~(o = "ReadPage" /\ ReadParam(g))
      PROVE  chip'[w].cmd \notin {"EEh", "ECh"}
  <2>1. g.target = f.target
    BY <1>1, <1>3, <1>5, OperandsKept
  <2>2. ~(o = "ReadPage" /\ ReadParam(f))
    BY <1>5, <2>1 DEF ReadParam
  <2>3. \/ f.st = "CMDIssue" /\ \E k \in Kinds : LastStep(k)
        \/ f.st = "ADDRIssue" /\ \A k \in Kinds : ~LastStep(k)
    <3>1. CASE f.st = "ADDRIssue"
      <4>1. o \in {"SetFeature"} => ~LastStep("ACA") /\ AskOf(o).cmd = "ACA"
        BY <1>1, <1>5, <3>1 DEF NextState, SetFeatureNext, AskOf, SetFeatureAsk, Ask
      <4>2. o \in {"ProgramPage", "ReadPage", "EraseBlock", "ReadStatus"} =>
              ~LastStep("ACS") /\ AskOf(o).cmd = "ACS"
        BY <1>1, <1>5, <2>2, <3>1 DEF NextState, ProgramPageNext, ReadPageNext, EraseBlockNext,
           ReadStatusNext, AskOf, ProgramPageAsk, ReadPageAsk, EraseBlockAsk, ReadStatusAsk, Ask
      <4>3. o # "Reset"
        <5>1. PhasesRight
          BY DEF WholeInv, RefInv
        <5>2. QED
          BY <3>1, <5>1 DEF PhasesRight, PhasesOf, Ops
      <4>4. QED
        BY <1>2, <3>1, <4>1, <4>2, <4>3 DEF DriverOps, Ops
    <3>2. CASE f.st # "ADDRIssue"
      BY <1>1, <1>5, <3>2 DEF NextState, ResetNext, SetFeatureNext, ProgramPageNext, ReadPageNext,
         GetFeatureNext, EraseBlockNext, ReadStatusNext, Kinds, Ops
    <3>3. QED
      BY <3>1, <3>2
  <2>4. QED
    BY <2>2, <2>3, ChipEdge DEF AddressHarmless
<1>6. QED
  BY <1>4, <1>5 DEF AddressHarmless

(* The phases of the machines that wait for the chip.                      *)
LEMMA ReturningPhases ==
  ASSUME WholeInv, NEW finishing, Clock(NoWord, pins.buf0, finishing),
         NEW o \in Returning, Active(o)
  PROVE  LET f == fsm[o]
             g == fsm'[o]
             stepping == \E k \in Kinds : LastStep(k)
         IN
         /\ ~Confirmed(o) =>
              /\ Active(o)' /\ g.st # "CMDLatch"
              /\ Confirmed(o)' => g.st = "WaitRBLow" /\ stepping
                                  /\ f.st \notin {"CMDLatch"}
              /\ ~Confirmed(o)' => ~(Confirming(o) /\ stepping)
              /\ g.st = "CMDIssue" => f.st \in {"CMDLatch", "CMDIssue"}
              /\ f.st = "CMDLatch" => g.st = "CMDIssue"
              /\ f.st = "CMDIssue" /\ g.st # "CMDIssue" => stepping
         /\ Confirmed(o) => ~Confirming(o)
         /\ f.st = "WaitRBLow" => g.st = IF rbp[o].ready THEN "WaitRBLow" ELSE "WaitRBHigh"
         /\ f.st = "WaitRBHigh" /\ o # "ReadPage" =>
              g.st = (IF f.last THEN "READY" ELSE "WaitRBHigh") /\ (g.last /\ ~f.last => rbp[o].ready)
         /\ f.st = "WaitRBHigh" /\ o = "ReadPage" =>
              g.st = IF rbp[o].ready THEN "DATAIssue" ELSE "WaitRBHigh"
         /\ f.st = "WaitRBLow" => ~g.last \/ rbp[o].ready
         /\ Confirmed(o) /\ f.st = "DATAIssue" => g.st \in {"DATAIssue", "READY"}
<1> DEFINE f == fsm[o]
           g == fsm'[o]
<1>1. o \in Ops /\ o \in DriverOps /\ g.st = NextState(o) /\ (g.last <=> LastNext(o, NextState(o)))
  BY NextFields DEF Returning, Ops, DriverOps
<1>2. f.st \in PhasesOf(o) /\ (f.st = "CMD2Issue" => ~(o = "ReadPage" /\ ReadParam(f)))
  BY <1>1 DEF WholeInv, RefInv, PhasesRight
<1>3. \A k \in Kinds : LastStep(k) => AskOf(o).cmd = k
  BY <1>1, LastCarries
<1> USE DEF AskOf, Ask, Confirmed, Confirming, NextState, Active, PhasesOf, Kinds, LastNext, RBOps
<1>4. CASE o = "Reset"
  BY <1>1, <1>2, <1>3, <1>4 DEF ResetNext, ResetAsk
<1>5. CASE o = "SetFeature"
  BY <1>1, <1>2, <1>3, <1>5 DEF SetFeatureNext, SetFeatureAsk
<1>6. CASE o = "ReadPage"
  BY <1>1, <1>2, <1>3, <1>6 DEF ReadPageNext, ReadPageAsk
<1>7. QED
  BY <1>4, <1>5, <1>6 DEF Returning

(* While such a machine works, its chip is ready up to the step that       *)
(* begins the work, and R/B is waited out after it.                        *)
LEMMA ReturningWorks ==
  ASSUME WholeInv, WorldType, World, NEW finishing, Clock(NoWord, pins.buf0, finishing),
         NEW o \in Returning, NEW w \in Way, NEW rested, AtWork(o, w, rested)
  PROVE  IF Active(o)' THEN AtWork(o, w, rested)' ELSE Rested(w)'
<1> DEFINE f == fsm[o]
           g == fsm'[o]
           stepping == \E k \in Kinds : LastStep(k)
<1>1. /\ TypeOK /\ Exclusion /\ Handshake /\ o \in Ops /\ o \in DriverOps /\ Active(o)
      /\ f.way = {w} /\ AddressHarmless(o, w)
      /\ IF Confirmed(o) THEN After(o, w) ELSE Before(o, w)
  BY DEF WholeInv, AtWork, Underway, Active, Working, Returning, DriverOps, Ops, AddressHarmless
<1>2. ~(Confirming(o) /\ stepping) => Moves(chip[w].st, chip'[w].st)
  BY <1>1, ChipEdge
<1>3. Active(o)' => (Working(o)' => g.way = {w}) /\ AddressHarmless(o, w)'
  BY <1>1, WorkCarries
<1> HIDE DEF stepping
<1>4. SUFFICES IF Active(o)' THEN IF Confirmed(o)' THEN After(o, w)' ELSE Before(o, w)'
               ELSE Rested(w)'
  BY <1>1, <1>3 DEF AtWork, Underway, Active, Returning, AddressHarmless
<1>5. CASE ~Confirmed(o)
  <2>1. /\ Active(o)' /\ g.st # "CMDLatch"
        /\ Confirmed(o)' => g.st = "WaitRBLow" /\ stepping /\ f.st # "CMDLatch"
        /\ ~Confirmed(o)' => ~(Confirming(o) /\ stepping)
        /\ g.st = "CMDIssue" => f.st \in {"CMDLatch", "CMDIssue"}
        /\ f.st = "CMDLatch" => g.st = "CMDIssue"
        /\ f.st = "CMDIssue" /\ g.st # "CMDIssue" => stepping
    BY <1>1, <1>5, ReturningPhases DEF stepping
  <2>2. Rested(w) /\ Filled(o, w)
    BY <1>1, <1>5 DEF Before
  <2>3. stepping => \E k \in Kinds : atom[k].st = "RUN"
    BY <1>1, LastCarries DEF stepping
  <2>4. /\ w \in pins'.buf1 /\ w \in pins'.buf0 /\ rbp'[o].sel = {w}
        /\ f.st # "CMDLatch" => rbp'[o].ways = {w}
        /\ f.st \notin {"CMDLatch", "CMDIssue"} => rbp'[o].ready
        /\ f.st = "CMDIssue" /\ (\E k \in Kinds : atom[k].st = "RUN") => rbp'[o].ready
    BY <1>1, <2>2, FilledMoves
  <2>5. CASE Confirmed(o)'
    <3>1. rbp'[o].ways = {w} /\ rbp'[o].ready
      BY <2>1, <2>3, <2>4, <2>5
    <3>2. Fell(o, w)'
      BY <2>4, <3>1 DEF Fell
    <3>3. QED
      BY <2>1, <2>4, <2>5, <3>2 DEF After
  <2>6. CASE ~Confirmed(o)'
    <3>1. Rested(w)'
      BY <1>2, <2>1, <2>2, <2>6 DEF Rested, Moves
    <3>2. g.st = "CMDIssue" /\ (\E k \in Kinds : atom'[k].st = "RUN") => rbp'[o].ways = {w}
      <4>1. SUFFICES ASSUME NEW k \in Kinds, atom'[k].st = "RUN" PROVE f.st # "CMDLatch"
        BY <2>4
      <4>2. MuxAsk.cmd = k /\ MuxAsk = AskOf(o)
        BY <1>1, <4>1, RunningAtom, WorkerAsks
      <4>3. QED
        BY <4>2 DEF AskOf, ResetAsk, SetFeatureAsk, ReadPageAsk, AskNothing, Ask, Kinds, Returning
    <3>3. g.st = "CMDIssue" /\ (\E k \in Kinds : LastStep(k)') => rbp'[o].ready
      <4>1. SUFFICES ASSUME NEW k \in Kinds, LastStep(k)', g.st = "CMDIssue" PROVE rbp'[o].ready
        OBVIOUS
      <4>2. atom[k].st = "RUN" /\ f.st \in {"CMDLatch", "CMDIssue"}
        BY <1>1, <2>1, <4>1, RunsBefore
      <4>3. MuxAsk.cmd = k /\ MuxAsk = AskOf(o)
        BY <1>1, <4>2, WorkerAsks DEF Handshake, AtomFollowsOwner
      <4>4. f.st = "CMDIssue"
        BY <4>2, <4>3 DEF AskOf, ResetAsk, SetFeatureAsk, ReadPageAsk, AskNothing, Ask, Kinds,
           Returning
      <4>5. QED
        BY <2>4, <4>2, <4>4
    <3>4. g.st \notin {"CMDLatch", "CMDIssue"} => rbp'[o].ways = {w} /\ rbp'[o].ready
      BY <2>1, <2>3, <2>4
    <3>5. Filled(o, w)'
      BY <2>1, <2>4, <3>2, <3>3, <3>4 DEF Filled
    <3>6. QED
      BY <2>1, <2>6, <3>1, <3>5 DEF Before
  <2>7. QED
    BY <2>5, <2>6
<1>6. CASE Confirmed(o)
  <2>1. After(o, w) /\ Moves(chip[w].st, chip'[w].st) /\ rbp[o].sel = {w}
    BY <1>1, <1>2, <1>6, ReturningPhases DEF After
  <2>2. rbp'[o].sel = {w} /\ (Rested(w) => Rested(w)')
    BY <1>1, <2>1, PipelineMoves DEF Rested, Moves
  <2>3. CASE f.st = "WaitRBLow"
    <3>1. g.st = (IF rbp[o].ready THEN "WaitRBLow" ELSE "WaitRBHigh") /\ (~g.last \/ rbp[o].ready)
      BY <1>1, <2>3, ReturningPhases
    <3>2. Fell(o, w)' /\ (~rbp[o].ready => Rose(o, w)')
      BY <1>1, <2>1, <2>3, FellMoves DEF After
    <3>3. QED
      BY <2>2, <3>1, <3>2 DEF After, Active, Confirmed, Returning
  <2>4. CASE f.st = "WaitRBHigh"
    <3>1. Rose(o, w) /\ Rose(o, w)'
      BY <1>1, <2>1, <2>4, RoseMoves DEF After
    <3>2. rbp[o].ready => Rested(w)
      BY <3>1 DEF Rose
    <3>3. CASE o # "ReadPage"
      <4>1. g.st = (IF f.last THEN "READY" ELSE "WaitRBHigh") /\ (g.last /\ ~f.last => rbp[o].ready)
        BY <1>1, <2>4, <3>3, ReturningPhases
      <4>2. f.last => Rested(w)
        BY <2>1, <2>4, <3>3 DEF After
      <4>3. QED
        BY <2>2, <3>1, <3>2, <3>3, <4>1, <4>2 DEF After, Active, Confirmed, Returning
    <3>4. CASE o = "ReadPage"
      <4>1. g.st = IF rbp[o].ready THEN "DATAIssue" ELSE "WaitRBHigh"
        BY <1>1, <2>4, <3>4, ReturningPhases
      <4>2. QED
        BY <2>2, <3>1, <3>2, <3>4, <4>1 DEF After, Active, Confirmed
    <3>5. QED
      BY <3>3, <3>4
  <2>5. CASE f.st = "DATAIssue"
    <3>1. g.st \in {"DATAIssue", "READY"} /\ Rested(w)'
      BY <1>1, <1>6, <2>1, <2>2, <2>5, ReturningPhases DEF After
    <3>2. o = "ReadPage"
      BY <1>6, <2>5 DEF Confirmed, Returning
    <3>3. QED
      BY <2>2, <3>1, <3>2 DEF After, Active, Confirmed
  <2>6. QED
    BY <1>6, <2>3, <2>4, <2>5 DEF Confirmed, Returning
<1>7. QED
  BY <1>5, <1>6

(* A program or erase leaves its chip at work when its machine is done.    *)
LEMMA LeavingWorks ==
  ASSUME WholeInv, WorldType, World, NEW finishing, Clock(NoWord, pins.buf0, finishing),
         NEW o \in {"ProgramPage", "EraseBlock"}, NEW w \in Way, NEW rested,
         AtWork(o, w, rested), Active(o)'
  PROVE  AtWork(o, w, rested)'
<1> DEFINE f == fsm[o]
           g == fsm'[o]
           stepping == \E k \in Kinds : LastStep(k)
<1>1. /\ o \in Ops /\ o \in DriverOps /\ o \notin Returning /\ Active(o) /\ AddressHarmless(o, w)
      /\ (Working(o) => f.way = {w}) /\ (~Confirmed(o) => Rested(w))
  BY DEF AtWork, Underway, Active, Before, DriverOps, Ops, AddressHarmless, Returning
<1>2. /\ g.st = NextState(o) /\ (g.last <=> LastNext(o, NextState(o)))
  BY <1>1, NextFields
<1>3. f.st \in PhasesOf(o)
  BY <1>1 DEF WholeInv, RefInv, PhasesRight
<1>4. \A k \in Kinds : LastStep(k) => AskOf(o).cmd = k
  BY <1>1, LastCarries
<1>5. f.st # "WaitRBLow"
  BY <1>1, <1>2, <1>3 DEF NextState, EraseBlockNext, Active, PhasesOf
<1>6. f.way = {w}
  BY <1>1, <1>5 DEF Working
<1>7. (Working(o)' => g.way = {w}) /\ AddressHarmless(o, w)'
  BY <1>1, <1>6, WorkCarries
<1>8. ~Confirmed(o)' => ~Confirmed(o) /\ ~(Confirming(o) /\ stepping)
  <2> USE DEF AskOf, Ask, Confirmed, Confirming, NextState, Active, PhasesOf, Kinds, LastNext, RBOps
  <2>1. CASE o = "ProgramPage"
    BY <1>1, <1>2, <1>3, <1>4, <1>5, <2>1 DEF ProgramPageNext, ProgramPageAsk
  <2>2. CASE o = "EraseBlock"
    BY <1>1, <1>2, <1>3, <1>4, <1>5, <2>2 DEF EraseBlockNext, EraseBlockAsk
  <2>3. QED
    BY <2>1, <2>2
<1>9. ~Confirmed(o)' => Rested(w)'
  <2>1. ~(Confirming(o) /\ stepping) => Moves(chip[w].st, chip'[w].st)
    BY <1>1, <1>6, ChipEdge
  <2>2. QED
    BY <1>1, <1>8, <2>1 DEF Rested, Moves
<1>10. QED
  BY <1>1, <1>7, <1>9 DEF AtWork, Underway, Active, Before, After, AddressHarmless

(* A status read takes the chip's status over and begins nothing.          *)
LEMMA StatusWorks ==
  ASSUME WholeInv, WorldType, World, NEW finishing, Clock(NoWord, pins.buf0, finishing),
         NEW w \in Way, NEW rested, AtWork("ReadStatus", w, rested),
         w \in rested => Rested(w)
  PROVE  IF Active("ReadStatus")' THEN AtWork("ReadStatus", w, rested)' ELSE Told({w}, rested)'
<1> DEFINE o == "ReadStatus"
           f == fsm[o]
           g == fsm'[o]
<1>1. /\ o \in Ops /\ o \in DriverOps /\ Active(o) /\ AddressHarmless(o, w) /\ f.way = {w}
      /\ (f.st = "WaitRBLow" => Told({w}, rested)) /\ ~Confirming(o)
  BY DEF AtWork, Underway, Active, Working, DriverOps, Ops, AddressHarmless, Confirming
<1>2. g.st = NextState(o)
  BY <1>1, NextFields
<1>3. f.st \in PhasesOf(o)
  BY <1>1 DEF WholeInv, RefInv, PhasesRight
<1>4. Rested(w) => Rested(w)'
  BY <1>1, ChipEdge DEF Rested, Moves
<1>5. Active(o)' => (Working(o)' => g.way = {w}) /\ AddressHarmless(o, w)'
  BY <1>1, WorkCarries
<1>6. status' = StatusNext
  BY DEF World
<1>7. \/ Active(o)' /\ g.st # "WaitRBLow"
      \/ f.st = "WaitRBLow" /\ g.st \in {"WaitRBLow", "READY"}
      \/ f.st = "DATAIssue" /\ g.st = "WaitRBLow" /\ LastStep("DIS")
  BY <1>1, <1>2, <1>3 DEF NextState, ReadStatusNext, PhasesOf, Active
<1>8. f.st = "WaitRBLow" => Told({w}, rested)'
  <2>1. SUFFICES ASSUME f.st = "WaitRBLow" PROVE Told({w}, rested)'
    OBVIOUS
  <2>2. status' = status
    BY <1>6, <2>1 DEF StatusNext
  <2>3. QED
    BY <1>1, <1>4, <2>1, <2>2 DEF Told
<1>9. f.st = "DATAIssue" /\ LastStep("DIS") => Told({w}, rested)'
  <2>1. SUFFICES ASSUME f.st = "DATAIssue", LastStep("DIS") PROVE Told({w}, rested)'
    OBVIOUS
  <2>2. status' = [way |-> {w}, ready |-> Rested(w)]
    BY <1>1, <1>6, <2>1 DEF StatusNext, Rested
  <2>3. QED
    BY <1>4, <2>2 DEF Told
<1>10. g.st = "WaitRBLow" \/ ~Active(o)' => Told({w}, rested)'
  BY <1>7, <1>8, <1>9
<1>11. QED
  BY <1>1, <1>5, <1>10 DEF AtWork, Underway, Active, AddressHarmless

-----------------------------------------------------------------------------
(* What is known stays true at an edge that brings no word.                *)

(* At most one atom is at its last step.                                   *)
LEMMA OneLast ==
  ASSUME WholeInv, NEW k \in Kinds, NEW l \in Kinds, LastStep(k), LastStep(l)
  PROVE  k = l
<1>1. atom[k].st = "RUN" /\ atom[l].st = "RUN"
  BY DEF WholeInv, Handshake, LastStep, TypeOK, AtomType
<1>2. QED
  BY <1>1 DEF WholeInv, Handshake, AtomFollowsOwner

(* The chips, the pins and the status register keep their types.           *)
LEMMA WorldTypeStep ==
  ASSUME WholeInv, WorldType, World, host' \in [addr : Addr, len : Length]
  PROVE  WorldType'
<1>1. ASSUME NEW w \in Way
      PROVE  /\ chip'[w] = [cmd |-> chip'[w].cmd, st |-> chip'[w].st]
             /\ chip'[w].st \in {"ready", "armed", "busy"}
  <2>1. CASE \A k \in Kinds : ~Hears(w, k)
    <3>1. chip'[w] = [cmd |-> chip[w].cmd, st |-> chip'[w].st]
          /\ chip'[w].st \in {"ready", "armed", "busy"}
      BY <2>1, ChipDeaf
    <3>2. chip'[w].cmd = chip[w].cmd
      BY <3>1
    <3>3. QED
      BY <3>1, <3>2
  <2>2. ASSUME NEW k \in Kinds, Hears(w, k)
        PROVE  /\ chip'[w] = [cmd |-> chip'[w].cmd, st |-> chip'[w].st]
               /\ chip'[w].st \in {"ready", "armed", "busy"}
    <3> DEFINE code == IF Transfer(k).cle THEN Transfer(k).what[1] ELSE chip[w].cmd
    <3>1. \A l \in Kinds : LastStep(l) => l = k
      BY <2>2, OneLast DEF Hears
    <3>2. chip'[w] = [cmd |-> code, st |-> chip'[w].st]
          /\ chip'[w].st \in {"ready", "armed", "busy"}
      BY <2>2, <3>1, ChipHears
    <3> HIDE DEF code
    <3>3. chip'[w].cmd = code
      BY <3>2
    <3>4. QED
      BY <3>2, <3>3
  <2>3. QED
    BY <2>1, <2>2
<1>2. DOMAIN chip' = Way
  BY DEF World
<1>3. pins' \in [buf1 : SUBSET Way, buf0 : SUBSET Way]
  BY DEF World, WorldType, PinsNext, ReadyPins
<1>4. status' \in [way : SUBSET Way, ready : BOOLEAN]
  <2>1. fsm["ReadStatus"].way \in SUBSET Way
    BY DEF WholeInv, TypeOK, MachineType, Ops
  <2>2. status' = StatusNext
    BY DEF World
  <2> DEFINE allready == \A w \in fsm["ReadStatus"].way : chip[w].st = "ready"
  <2>3. allready \in BOOLEAN
    OBVIOUS
  <2>4. status' = status \/ status' = [way |-> fsm["ReadStatus"].way, ready |-> allready]
    BY <2>2 DEF StatusNext
  <2> HIDE DEF allready
  <2>5. QED
    BY <2>1, <2>3, <2>4 DEF WorldType
<1>5. QED
  BY <1>1, <1>2, <1>3, <1>4 DEF WorldType

(* With no machine active the chips go on by themselves and the status     *)
(* register stays.                                                         *)
LEMMA IdleEdge ==
  ASSUME WholeInv, WorldType, World, ~Busy
  PROVE  /\ \A w \in Way : Rested(w) => Rested(w)'
         /\ status' = status
<1>1. \A o \in Ops : ~Active(o)
  BY DEF Busy
<1>2. \A k \in Kinds : ~LastStep(k)
  BY <1>1, IdleAsksNothing DEF WholeInv
<1>3. \A w \in Way : Rested(w) => Rested(w)'
  BY <1>2, ChipDeaf DEF Hears, Rested, Moves
<1>4. status' = status
  BY <1>1 DEF World, StatusNext, Active, Ops
<1>5. QED
  BY <1>3, <1>4

(* Busy rises only for an operation accepted.                              *)
LEMMA BusyRises ==
  ASSUME NEW w, NEW rb, NEW finishing, Clock(w, rb, finishing), NEW o \in Ops, Active(o)'
  PROVE  Active(o) \/ (PendingOp /\ adapter.opcode = o)
<1>1. fsm'[o].st = NextState(o)
  BY NextFields
<1>2. QED
  BY <1>1 DEF Active, NextState, Start, PendingOp

(* The operation in flight goes on.                                        *)
LEMMA FlightStep ==
  ASSUME WholeInv, WorldType, World, NEW finishing, Clock(NoWord, pins.buf0, finishing),
         NEW p \in Knowledge, p.op \in DriverOps, InFlight(p), RegsNext.way = p.way,
         \A w \in p.rested : Rested(w)
  PROVE  InFlight(p)'
<1> DEFINE o == p.op
<1>1. PICK w \in Way :
        /\ p.way = {w}
        /\ \/ PendingOp /\ adapter.opcode = o /\ (o # "ReadStatus" => Rested(w))
           \/ ~PendingOp /\ AtWork(o, w, p.rested)
           \/ /\ ~PendingOp /\ ~Busy
              /\ o \in Returning => Rested(w)
              /\ o = "ReadStatus" => Told({w}, p.rested)
  BY DEF InFlight
<1>2. TypeOK /\ Exclusion /\ o \in Ops
  BY DEF WholeInv, DriverOps
<1>3. ~PendingOp'
  BY DEF Clock, Logic, AdapterNext, PendingOp, WholeInv, TypeOK, AdapterType
<1>4. SUFFICES \/ AtWork(o, w, p.rested)'
               \/ /\ ~Busy'
                  /\ o \in Returning => Rested(w)'
                  /\ o = "ReadStatus" => Told({w}, p.rested)'
  BY <1>1, <1>3 DEF InFlight
<1>5. CASE PendingOp /\ adapter.opcode = o /\ (o # "ReadStatus" => Rested(w))
  <2>1. (\A q \in Ops : fsm[q].st = "READY") /\ Start(o)
    BY <1>2, <1>5 DEF Exclusion, PendingOp, Start
  <2>2. regs.way = {w}
    BY <1>1, <1>2, <1>5 DEF RegsNext, Start, Ops
  <2>3. fsm'[o].st = "CMDLatch" /\ fsm'[o].way = {w}
    BY <1>2, <2>1, <2>2 DEF Clock, Logic, MachineNext, NextState, WayNext
  <2>4. ~Busy
    BY <2>1 DEF Busy, Active
  <2>5. o \in Returning => w \in pins'.buf1
    BY <1>2, <1>5, PipelineMoves DEF Rested, Returning
  <2>6. o # "ReadStatus" => Rested(w)'
    BY <1>5, <2>4, IdleEdge
  <2>7. ~Confirmed(o)'
    BY <1>2, <2>3 DEF Confirmed, Ops
  <2>8. o \in Returning => Filled(o, w)'
    BY <2>3, <2>5 DEF Filled
  <2>9. QED
    BY <2>3, <2>6, <2>7, <2>8 DEF AtWork, Underway, Before
<1>6. CASE ~PendingOp /\ AtWork(o, w, p.rested)
  <2>1. Active(o) /\ \A q \in Ops \ {o} : ~Active(q)
    BY <1>2, <1>6 DEF AtWork, Underway, Active, Exclusion, OneOperation
  <2>2. \A q \in Ops \ {o} : ~Active(q)'
    BY <1>6, <2>1, BusyRises
  <2>3. ~Active(o)' => ~Busy'
    BY <2>2 DEF Busy
  <2>4. CASE o \in Returning
    BY <1>6, <2>3, <2>4, ReturningWorks DEF Returning
  <2>5. CASE o \in {"ProgramPage", "EraseBlock"}
    BY <1>6, <2>3, <2>5, LeavingWorks DEF Returning
  <2>6. CASE o = "ReadStatus"
    BY <1>1, <1>6, <2>3, <2>6, StatusWorks DEF Returning
  <2>7. QED
    BY <2>4, <2>5, <2>6 DEF DriverOps, Ops, Returning
<1>7. CASE /\ ~PendingOp /\ ~Busy
           /\ o \in Returning => Rested(w)
           /\ o = "ReadStatus" => Told({w}, p.rested)
  <2>1. ~Busy'
    BY <1>7, BusyRises DEF Busy
  <2>2. (Rested(w) => Rested(w)') /\ status' = status
    BY <1>7, IdleEdge
  <2>3. Told({w}, p.rested) => Told({w}, p.rested)'
    BY <2>2 DEF Told
  <2>4. QED
    BY <1>7, <2>1, <2>2, <2>3
<1>8. QED
  BY <1>1, <1>5, <1>6, <1>7

(* The chips known to be ready stay ready.                                 *)
LEMMA RestedKept ==
  ASSUME WholeInv, WorldType, World, NEW p \in Knowledge, Right(p), NEW v \in p.rested
  PROVE  Rested(v)'
<1>1. v \in Way /\ Rested(v)
  BY DEF Right, Knowledge
<1>2. CASE ~Busy
  BY <1>1, <1>2, IdleEdge
<1>3. CASE Busy
  <2>1. p.at # "calm" /\ p.op \in DriverOps /\ InFlight(p)
        /\ (p.op # "ReadStatus" => p.way \cap p.rested = {})
    BY <1>3 DEF Right
  <2>2. PICK w \in Way : p.way = {w} /\ AtWork(p.op, w, p.rested)
    <3>1. PendingOp => ~Busy
      BY DEF WholeInv, Exclusion, PendingOp, Busy, Active
    <3>2. QED
      BY <1>3, <2>1, <3>1 DEF InFlight
  <2> DEFINE o == p.op
  <2>3. o \in Ops /\ Active(o)
    BY <2>1, <2>2 DEF AtWork, Underway, Active, DriverOps
  <2>4. ASSUME NEW k \in Kinds, LastStep(k)
        PROVE  atom[k].way = {w} /\ Working(o) /\ \A l \in Kinds : LastStep(l) => l = k
    <3>1. AskOf(o).cmd = k /\ atom[k].way = fsm[o].way /\ \A l \in Kinds : LastStep(l) => l = k
      BY <2>3, <2>4, LastCarries
    <3>2. ~(o = "EraseBlock" /\ fsm[o].st = "WaitRBLow")
      BY <3>1 DEF AskOf, EraseBlockAsk, AskNothing, Ask, Kinds
    <3>3. QED
      BY <2>2, <2>3, <3>1, <3>2 DEF Working, AtWork
  <2>5. CASE \A k \in Kinds : ~Hears(v, k)
    BY <1>1, <2>5, ChipDeaf DEF Rested, Moves
  <2>6. CASE \E k \in Kinds : Hears(v, k)
    <3>1. v = w /\ Working(o)
      BY <2>4, <2>6 DEF Hears
    <3>2. o = "ReadStatus" /\ fsm[o].way = {w} /\ AddressHarmless(o, w)
      BY <2>1, <2>2, <3>1 DEF AtWork, AddressHarmless
    <3>3. ~Confirming(o)
      BY <3>2 DEF Confirming
    <3>4. Moves(chip[w].st, chip'[w].st)
      BY <2>1, <2>3, <3>2, <3>3, ChipEdge
    <3>5. QED
      BY <1>1, <3>1, <3>4 DEF Rested, Moves
  <2>7. QED
    BY <2>5, <2>6
<1>4. QED
  BY <1>2, <1>3

(* What is known stays true.                                               *)
LEMMA RightStep ==
  ASSUME WholeInv, WorldType, World, NEW finishing, Clock(NoWord, pins.buf0, finishing),
         host' = host, NEW p \in Knowledge, Right(p)
  PROVE  Right(p)'
<1>1. adapter' = [adapter EXCEPT !.valid = FALSE, !.busy = Busy] /\ regs' = RegsNext
  BY DEF Clock, Logic, AdapterNext
<1>2. ~adapter'.valid /\ adapter'.busy = Busy /\ ~PendingOp'
  BY <1>1 DEF PendingOp, WholeInv, TypeOK, AdapterType
<1>3. (RegsNext.way = p.way)'
  <2>1. RegsNext' = regs'
    BY <1>2 DEF RegsNext, Start
  <2>2. QED
    BY <1>1, <2>1 DEF Right
<1>4. (\A w \in p.rested : Rested(w))'
  BY RestedKept
<1>5. Busy' => Busy \/ PendingOp
  BY BusyRises DEF Busy
<1>6. (p.told # {} => Told(p.told, p.rested))'
  <2>1. SUFFICES ASSUME p.told # {} PROVE Told(p.told, p.rested)'
    OBVIOUS
  <2>2. p.told \subseteq Way /\ Told(p.told, p.rested) /\ ~Busy
    BY <2>1 DEF Right, Knowledge
  <2>3. status' = status /\ \A w \in Way : Rested(w) => Rested(w)'
    BY <2>2, IdleEdge
  <2>4. QED
    BY <2>2, <2>3 DEF Told
<1>7. (p.at # "calm" => InFlight(p))'
  BY FlightStep DEF Right
<1>8. QED
  BY <1>2, <1>3, <1>4, <1>5, <1>6, <1>7 DEF Right

-----------------------------------------------------------------------------
(* An instruction that only waits adds to what is known.                   *)

(* A poll that finds the busy bit up has seen the operation accepted.      *)
LEMMA SeenRight ==
  ASSUME NEW p \in Knowledge, Right(p), p.at = "issued", adapter.busy
  PROVE  [p EXCEPT !.at = "seen"] \in Knowledge /\ Right([p EXCEPT !.at = "seen"])
<1> DEFINE q == [p EXCEPT !.at = "seen"]
<1>1. /\ q \in Knowledge /\ q.at = "seen" /\ q.op = p.op /\ q.addr = p.addr /\ q.way = p.way
      /\ q.rested = p.rested /\ q.told = p.told
  BY DEF Knowledge
<1> HIDE DEF q
<1>2. InFlight(p) => InFlight(q)
  BY <1>1 DEF InFlight
<1>3. Right(q)
  BY <1>1, <1>2 DEF Right
<1>4. QED
  BY <1>1, <1>3 DEF q

(* With the operation neither pending nor at work it is over.              *)
LEMMA EndedRight ==
  ASSUME NEW p \in Knowledge, Right(p), p.at # "calm", ~PendingOp, ~Busy
  PROVE  Ended(p) \in Knowledge /\ Right(Ended(p))
<1> DEFINE q == Ended(p)
<1>1. /\ q \in Knowledge /\ q.at = "calm" /\ q.op = "none" /\ q.addr = p.addr /\ q.way = p.way
      /\ q.rested = (IF p.op \in Returning THEN p.rested \cup p.way ELSE p.rested)
      /\ q.told = (IF p.op = "ReadStatus" THEN p.way ELSE {})
  BY DEF Knowledge, Ended
<1> HIDE DEF q
<1>2. p.op \in DriverOps /\ InFlight(p)
  BY DEF Right
<1>3. PICK w \in Way : /\ p.way = {w}
                       /\ p.op \in Returning => Rested(w)
                       /\ p.op = "ReadStatus" => Told({w}, p.rested)
  <2>1. \A v \in Way : ~AtWork(p.op, v, p.rested)
    BY <1>2 DEF AtWork, Underway, Busy, Active, DriverOps
  <2>2. QED
    BY <1>2, <2>1 DEF InFlight
<1>4. \A v \in q.rested : Rested(v)
  BY <1>1, <1>3 DEF Right
<1>5. q.told # {} => Told(q.told, q.rested)
  BY <1>1, <1>3 DEF Returning
<1>6. Right(q)
  BY <1>1, <1>4, <1>5 DEF Right
<1>7. QED
  BY <1>1, <1>6 DEF q

(* A status that says ready speaks of the chip asked about.                *)
LEMMA CheckedRight ==
  ASSUME NEW p \in Knowledge, Right(p), NEW w \in Way, Calm(p), p.told = {w}, status.ready
  PROVE  [p EXCEPT !.rested = @ \cup {w}] \in Knowledge /\ Right([p EXCEPT !.rested = @ \cup {w}])
<1> DEFINE q == [p EXCEPT !.rested = @ \cup {w}]
<1>1. /\ q \in Knowledge /\ q.at = p.at /\ q.op = p.op /\ q.addr = p.addr /\ q.way = p.way
      /\ q.rested = p.rested \cup {w} /\ q.told = {w}
  BY DEF Knowledge
<1> HIDE DEF q
<1>2. Told({w}, p.rested)
  BY DEF Right
<1>3. Rested(w) /\ Told({w}, q.rested)
  BY <1>2 DEF Told
<1>4. Right(q)
  BY <1>1, <1>3 DEF Right, Calm
<1>5. QED
  BY <1>1, <1>4 DEF q

LEMMA WaitedRight ==
  ASSUME NEW p \in Knowledge, Right(p), NEW w \in Way, Calm(p), Rested(w)
  PROVE  LET q == [p EXCEPT !.rested = @ \cup {w}, !.told = {}] IN q \in Knowledge /\ Right(q)
<1> DEFINE q == [p EXCEPT !.rested = @ \cup {w}, !.told = {}]
<1>1. /\ q \in Knowledge /\ q.at = p.at /\ q.op = p.op /\ q.addr = p.addr /\ q.way = p.way
      /\ q.rested = p.rested \cup {w} /\ q.told = {}
  BY DEF Knowledge
<1> HIDE DEF q
<1>2. Right(q)
  BY <1>1 DEF Right, Calm
<1>3. QED
  BY <1>1, <1>2 DEF q

-----------------------------------------------------------------------------
(* A word the driver sends while it is calm.                               *)

LEMMA CalmWord ==
  ASSUME WholeInv, WorldType, World, NEW finishing, NEW v \in Word,
         Clock(v, pins.buf0, finishing), NEW p \in Knowledge, Right(p), Calm(p)
  PROVE  /\ adapter'.valid = v.valid /\ adapter'.opcode = v.opcode /\ adapter'.addr = v.addr
         /\ adapter'.busy = FALSE /\ ~Busy' /\ regs'.way = p.way /\ regs' \in RegsType
         /\ \A w \in p.rested : Rested(w)'
         /\ p.told # {} => Told(p.told, p.rested)'
<1>1. ~Busy /\ ~PendingOp /\ RegsNext.way = p.way /\ p.told \subseteq Way /\ p.rested \subseteq Way
  BY DEF Right, Calm, Knowledge
<1>2. v # NoWord
  BY NoWordIsNone
<1>3. adapter' = [opcode |-> v.opcode, target |-> v.target, addr |-> v.addr, len |-> v.len,
                  valid |-> v.valid /\ ~Busy, fail |-> v.valid /\ Busy, busy |-> Busy]
  BY <1>2 DEF Clock, Logic, AdapterNext
<1>4. v.valid \in BOOLEAN /\ Busy = FALSE
  BY <1>1 DEF Word, Busy
<1>5. adapter'.valid = v.valid /\ adapter'.opcode = v.opcode /\ adapter'.addr = v.addr
      /\ adapter'.busy = FALSE
  BY <1>3, <1>4
<1>6. ~Busy'
  BY <1>1, BusyRises DEF Busy
<1>7. regs' = RegsNext /\ RegsNext \in RegsType
  BY SmallRegistersType, Zenon DEF Clock, Logic, WholeInv
<1>8. (\A w \in Way : Rested(w) => Rested(w)') /\ status' = status
  BY <1>1, IdleEdge
<1>9. \A w \in p.rested : Rested(w)'
  BY <1>1, <1>8 DEF Right
<1>10. p.told # {} => Told(p.told, p.rested)'
  BY <1>1, <1>8 DEF Right, Told
<1>11. QED
  BY <1>1, <1>5, <1>6, <1>7, <1>9, <1>10

(* An operand register written leaves the controller alone.                *)
LEMMA OperandRight ==
  ASSUME WholeInv, WorldType, World, NEW finishing, NEW v \in Word, ~v.valid,
         Clock(v, pins.buf0, finishing), NEW p \in Knowledge, Right(p), Calm(p),
         NEW q \in Knowledge, host'.addr = q.addr, q.at = p.at, q.way = p.way,
         q.rested = p.rested, q.told = p.told
  PROVE  Right(q)'
<1>1. /\ ~adapter'.valid /\ ~Busy' /\ regs'.way = p.way
      /\ \A w \in p.rested : Rested(w)'
      /\ p.told # {} => Told(p.told, p.rested)'
  BY CalmWord
<1>2. RegsNext' = regs' /\ ~PendingOp'
  BY <1>1 DEF RegsNext, Start, PendingOp
<1>3. QED
  BY <1>1, <1>2 DEF Right, Calm

(* A setup command takes the address last written.                         *)
LEMMA SetupRight ==
  ASSUME WholeInv, WorldType, World, NEW finishing, NEW v \in Word, v.valid,
         v.opcode \in Setups, v.addr = host.addr, host' = host,
         Clock(v, pins.buf0, finishing), NEW p \in Knowledge, Right(p), Calm(p),
         NEW q \in Knowledge, q.addr = p.addr, q.at = p.at, q.rested = p.rested, q.told = p.told,
         q.way = IF v.opcode = "SelectWay" THEN WaysOf[p.addr] ELSE p.way
  PROVE  Right(q)'
<1>1. /\ adapter'.valid /\ adapter'.opcode = v.opcode /\ adapter'.addr = v.addr
      /\ ~Busy' /\ regs'.way = p.way /\ regs' \in RegsType
      /\ \A w \in p.rested : Rested(w)'
      /\ p.told # {} => Told(p.told, p.rested)'
  BY CalmWord
<1>2. host.addr = p.addr
  BY DEF Right
<1>3. ~PendingOp'
  BY <1>1 DEF PendingOp, Setups, Ops
<1>4. RegsNext'.way = q.way
  <2>1. CASE v.opcode = "SelectWay"
    <3>1. RegsNext' = [regs' EXCEPT !.way = WaysOf[p.addr]]
      BY <1>1, <1>2, <2>1 DEF RegsNext, Start
    <3>2. QED
      BY <1>1, <2>1, <3>1 DEF RegsType
  <2>2. CASE v.opcode # "SelectWay"
    <3>1. \/ RegsNext' = [regs' EXCEPT !.col = adapter'.addr]
          \/ RegsNext' = [regs' EXCEPT !.row = adapter'.addr]
          \/ RegsNext' = [regs' EXCEPT !.feat = adapter'.addr]
          \/ RegsNext' = regs'
      BY <1>1, <2>2 DEF RegsNext, Start
    <3>2. QED
      BY <1>1, <2>2, <3>1 DEF RegsType
  <2>3. QED
    BY <2>1, <2>2
<1>5. QED
  BY <1>1, <1>2, <1>3, <1>4 DEF Right, Calm

(* An operation is accepted, with the ways selected.                       *)
LEMMA OperationRight ==
  ASSUME WholeInv, WorldType, World, NEW finishing, NEW v \in Word, v.valid,
         v.opcode \in DriverOps, host' = host,
         Clock(v, pins.buf0, finishing), NEW p \in Knowledge, Right(p), Calm(p),
         NEW w \in Way, p.way = {w}, v.opcode = "ReadStatus" \/ w \in p.rested
  PROVE  Issued(p, v.opcode) \in Knowledge /\ Right(Issued(p, v.opcode))'
<1> DEFINE q == Issued(p, v.opcode)
<1>1. /\ q \in Knowledge /\ q.at = "issued" /\ q.op = v.opcode /\ q.addr = p.addr
      /\ q.way = p.way /\ q.told = {}
      /\ q.rested = (IF v.opcode = "ReadStatus" THEN p.rested ELSE p.rested \ p.way)
  BY DEF Issued, Knowledge, DriverOps
<1> HIDE DEF q
<1>2. /\ adapter'.valid /\ adapter'.opcode = v.opcode /\ adapter'.busy = FALSE
      /\ regs'.way = p.way /\ \A x \in p.rested : Rested(x)'
  BY CalmWord
<1>3. PendingOp' /\ v.opcode \in Ops
  BY <1>2 DEF PendingOp, DriverOps
<1>4. RegsNext' = regs'
  BY <1>2, <1>3 DEF RegsNext, Start, Ops
<1>5. InFlight(q)'
  BY <1>1, <1>2, <1>3 DEF InFlight
<1>6. Right(q)'
  BY <1>1, <1>2, <1>4, <1>5 DEF Right
<1>7. QED
  BY <1>1, <1>6 DEF q

-----------------------------------------------------------------------------
(* Triples end to end.                                                     *)

LEMMA LeadsEnds ==
  ASSUME NEW s, NEW p, NEW q, Leads(s, p, q)
  PROVE  s \in Seq(Instructions) /\ p \in Knowledge /\ q \in Knowledge
<1>1. s \in Seq(Instructions)
  BY DEF Leads
<1>2. Len(s) \in Nat
  BY <1>1, LenProperties
<1>3. PICK known \in [0..Len(s) -> Knowledge] : known[0] = p /\ known[Len(s)] = q
  BY DEF Leads
<1>4. 0 \in 0..Len(s) /\ Len(s) \in 0..Len(s)
  BY <1>2
<1>5. QED
  BY <1>1, <1>3, <1>4

LEMMA LeadsNowhere ==
  ASSUME NEW p \in Knowledge
  PROVE  Leads(<< >>, p, p)
<1> DEFINE known == [i \in 0..0 |-> p]
<1>1. << >> \in Seq(Instructions) /\ Len(<< >>) = 0
  BY EmptySeq
<1>2. known \in [0..0 -> Knowledge] /\ known[0] = p
  OBVIOUS
<1>3. \A i \in 1..0 : FALSE
  OBVIOUS
<1> HIDE DEF known
<1>4. QED
  BY <1>1, <1>2, <1>3 DEF Leads

LEMMA LeadsNothingLeft ==
  ASSUME NEW p, NEW q, Leads(<< >>, p, q)
  PROVE  p = q
BY EmptySeq DEF Leads

LEMMA LeadsOne ==
  ASSUME NEW x \in Instructions, NEW p \in Knowledge, NEW q \in Knowledge, Takes(x, p, q)
  PROVE  Leads(<<x>>, p, q)
<1> DEFINE known == [i \in 0..1 |-> IF i = 0 THEN p ELSE q]
<1>1. <<x>> \in Seq(Instructions) /\ Len(<<x>>) = 1 /\ <<x>>[1] = x
  OBVIOUS
<1>2. known \in [0..1 -> Knowledge] /\ known[0] = p /\ known[1] = q
  OBVIOUS
<1> HIDE DEF known
<1>3. \A i \in 1..1 : Takes(<<x>>[i], known[i-1], known[i])
  <2>1. SUFFICES ASSUME NEW i \in 1..1 PROVE Takes(<<x>>[i], known[i-1], known[i])
    OBVIOUS
  <2>2. i = 1 /\ i - 1 = 0
    OBVIOUS
  <2>3. QED
    BY <1>1, <1>2, <2>2, Zenon
<1>4. QED
  BY <1>1, <1>2, <1>3 DEF Leads

LEMMA LeadsOn ==
  ASSUME NEW s, NEW t, NEW p, NEW q, NEW r, Leads(s, p, q), Leads(t, q, r)
  PROVE  Leads(s \o t, p, r)
<1> DEFINE m == Len(s)
           n == Len(t)
<1>1. s \in Seq(Instructions) /\ t \in Seq(Instructions)
  BY LeadsEnds
<1>2. m \in Nat /\ n \in Nat
  BY <1>1, LenProperties
<1>3. /\ s \o t \in Seq(Instructions) /\ Len(s \o t) = m + n
      /\ \A i \in 1..(m+n) : (s \o t)[i] = IF i <= m THEN s[i] ELSE t[i - m]
  BY <1>1, ConcatProperties
<1>4. PICK a \in [0..m -> Knowledge] :
        a[0] = p /\ a[m] = q /\ \A i \in 1..m : Takes(s[i], a[i-1], a[i])
  BY DEF Leads
<1>5. PICK b \in [0..n -> Knowledge] :
        b[0] = q /\ b[n] = r /\ \A i \in 1..n : Takes(t[i], b[i-1], b[i])
  BY DEF Leads
<1> DEFINE known == [i \in 0..(m+n) |-> IF i <= m THEN a[i] ELSE b[i - m]]
           u == s \o t
<1> HIDE DEF m, n, u
<1>6. known \in [0..(m+n) -> Knowledge]
  BY <1>2
<1>7. \A i \in 0..(m+n) : known[i] = IF i <= m THEN a[i] ELSE b[i - m]
  OBVIOUS
<1> HIDE DEF known
<1>8. known[0] = p
  BY <1>2, <1>4, <1>7
<1>9. \A i \in 0..n : known[m + i] = b[i]
  <2>1. SUFFICES ASSUME NEW i \in 0..n PROVE known[m + i] = b[i]
    OBVIOUS
  <2>2. CASE i = 0
    <3>1. m \in 0..(m+n) /\ m + i = m
      BY <1>2, <2>2
    <3>2. QED
      BY <1>2, <1>4, <1>5, <1>7, <2>2, <3>1
  <2>3. CASE i # 0
    <3>1. m + i \in 0..(m+n) /\ ~(m + i <= m) /\ (m + i) - m = i
      BY <1>2, <2>3
    <3>2. QED
      BY <1>7, <3>1
  <2>4. QED
    BY <2>2, <2>3
<1>10. known[m+n] = r
  BY <1>2, <1>5, <1>9
<1>11. ASSUME NEW i \in 1..(m+n) PROVE Takes(u[i], known[i-1], known[i])
  <2>1. CASE i <= m
    <3>1. i \in 1..m /\ i \in 0..(m+n) /\ i - 1 \in 0..(m+n) /\ i - 1 <= m
      BY <1>2, <2>1
    <3>2. u[i] = s[i] /\ known[i-1] = a[i-1] /\ known[i] = a[i]
      BY <1>3, <1>7, <2>1, <3>1 DEF u
    <3>3. QED
      BY <1>4, <3>1, <3>2
  <2>2. CASE ~(i <= m)
    <3> DEFINE j == i - m
    <3>1. j \in 1..n /\ j \in 0..n /\ j - 1 \in 0..n /\ m + j = i /\ m + (j - 1) = i - 1
      BY <1>2, <2>2
    <3>2. u[i] = t[j]
      BY <1>3, <2>2 DEF u
    <3>3. known[i] = b[j] /\ known[i-1] = b[j-1]
      <4> HIDE DEF j
      <4>1. QED
        BY <1>9, <3>1
    <3> HIDE DEF j
    <3>4. QED
      BY <1>5, <3>1, <3>2, <3>3
  <2>3. QED
    BY <2>1, <2>2
<1>12. Leads(u, p, r)
  <2>1. u \in Seq(Instructions) /\ Len(u) = m + n
    BY <1>3 DEF u
  <2>2. QED
    BY <1>6, <1>8, <1>10, <1>11, <2>1 DEF Leads
<1>13. QED
  BY <1>12 DEF u

LEMMA LeadsFirst ==
  ASSUME NEW s, NEW p, NEW q, Leads(s, p, q), s # << >>
  PROVE  /\ Head(s) \in Instructions
         /\ \E k \in Knowledge : Takes(Head(s), p, k) /\ Leads(Tail(s), k, q)
<1> DEFINE n == Len(s)
           t == Tail(s)
<1>1. s \in Seq(Instructions)
  BY LeadsEnds
<1>2. PICK a \in [0..n -> Knowledge] :
        a[0] = p /\ a[n] = q /\ \A i \in 1..n : Takes(s[i], a[i-1], a[i])
  BY DEF Leads
<1>3. n \in Nat /\ n # 0 /\ Head(s) = s[1] /\ Head(s) \in Instructions
  BY <1>1, EmptySeq, HeadTailProperties, LenProperties
<1>4. t \in Seq(Instructions) /\ Len(t) = n - 1 /\ \A i \in 1..(n-1) : t[i] = s[i+1]
  BY <1>1, HeadTailProperties
<1> DEFINE known == [i \in 0..(n-1) |-> a[i+1]]
<1> HIDE DEF n, t
<1>5. known \in [0..(n-1) -> Knowledge] /\ \A i \in 0..(n-1) : known[i] = a[i+1]
  BY <1>3
<1> HIDE DEF known
<1>6. known[0] = a[1] /\ known[n-1] = q /\ a[1] \in Knowledge
  BY <1>2, <1>3, <1>5
<1>7. Takes(Head(s), p, a[1])
  <2>1. 1 \in 1..n /\ 1 - 1 = 0
    BY <1>3
  <2>2. Takes(s[1], a[0], a[1])
    BY <1>2, <2>1, Zenon
  <2>3. QED
    BY <1>2, <1>3, <2>2
<1>8. ASSUME NEW i \in 1..(n-1) PROVE Takes(t[i], known[i-1], known[i])
  <2>1. i + 1 \in 1..n /\ (i + 1) - 1 = i /\ i - 1 \in 0..(n-1) /\ i \in 0..(n-1)
        /\ (i - 1) + 1 = i
    BY <1>3
  <2>2. Takes(s[i+1], a[i], a[i+1])
    BY <1>2, <2>1
  <2>3. QED
    BY <1>4, <1>5, <2>1, <2>2
<1>9. Leads(t, a[1], q)
  BY <1>4, <1>5, <1>6, <1>8 DEF Leads
<1>10. QED
  BY <1>3, <1>6, <1>7, <1>9 DEF t

-----------------------------------------------------------------------------
(* What a call does: from anything known in P its instructions lead to     *)
(* something known in Q.                                                   *)
Does(s, P, Q) == \A p \in P : \E q \in Q : Leads(s, p, q)

LEMMA DoesOne ==
  ASSUME NEW x \in Instructions, NEW P, NEW Q, P \subseteq Knowledge, Q \subseteq Knowledge,
         \A p \in P : \E q \in Q : Takes(x, p, q)
  PROVE  Does(<<x>>, P, Q)
<1>1. SUFFICES ASSUME NEW p \in P PROVE \E q \in Q : Leads(<<x>>, p, q)
  BY DEF Does
<1>2. PICK q \in Q : Takes(x, p, q)
  OBVIOUS
<1>3. QED
  BY <1>2, LeadsOne

LEMMA DoesOn ==
  ASSUME NEW s, NEW t, NEW P, NEW Q, NEW R, Does(s, P, Q), Does(t, Q, R)
  PROVE  Does(s \o t, P, R)
<1>1. SUFFICES ASSUME NEW p \in P PROVE \E r \in R : Leads(s \o t, p, r)
  BY DEF Does
<1>2. PICK q \in Q : Leads(s, p, q)
  BY DEF Does
<1>3. PICK r \in R : Leads(t, q, r)
  BY DEF Does
<1>4. QED
  BY <1>2, <1>3, LeadsOn

LEMMA StepsApart ==
  /\ \A a, b : <<a, b>> = <<a>> \o <<b>>
  /\ \A a, b, c : <<a, b, c>> = (<<a>> \o <<b>>) \o <<c>>
<1>1. ASSUME NEW a, NEW b PROVE <<a, b>> = <<a>> \o <<b>>
  <2> DEFINE T == {a, b}
             s == <<a>> \o <<b>>
  <2>1. <<a>> \in Seq(T) /\ <<b>> \in Seq(T) /\ <<a, b>> \in Seq(T)
    OBVIOUS
  <2>2. Len(<<a>>) = 1 /\ Len(<<b>>) = 1 /\ Len(<<a, b>>) = 2
        /\ <<a>>[1] = a /\ <<b>>[1] = b /\ <<a, b>>[1] = a /\ <<a, b>>[2] = b
    OBVIOUS
  <2>3. s \in Seq(T) /\ Len(s) = 2 /\ s[1] = a /\ s[2] = b
    BY <2>1, <2>2, ConcatProperties
  <2> HIDE DEF s, T
  <2>4. \A i \in 1..2 : s[i] = <<a, b>>[i]
    BY <2>2, <2>3
  <2>5. s = <<a, b>>
    BY <2>1, <2>2, <2>3, <2>4, SeqEqual
  <2>6. QED
    BY <2>5 DEF s
<1>2. ASSUME NEW a, NEW b, NEW c PROVE <<a, b, c>> = (<<a>> \o <<b>>) \o <<c>>
  <2>1. <<a, b, c>> = <<a, b>> \o <<c>>
    OBVIOUS
  <2>2. QED
    BY <1>1, <2>1
<1>3. QED
  BY <1>1, <1>2

LEMMA DoesLess ==
  ASSUME NEW s, NEW P, NEW Q, NEW P1, NEW Q1, Does(s, P, Q), P1 \subseteq P, Q \subseteq Q1
  PROVE  Does(s, P1, Q1)
BY DEF Does

LEMMA DoesNothing ==
  ASSUME NEW P, P \subseteq Knowledge
  PROVE  Does(<< >>, P, P)
BY LeadsNowhere DEF Does

\* Between two calls, with the chips S known to be ready.
Resting(S) == {p \in Knowledge : Calm(p) /\ p.op = "none" /\ S \subseteq p.rested}

\* ... with way w selected, ... by the address written last, ... and asked its status.
Selected(S, w) == {p \in Resting(S) : p.way = {w}}
Chosen(S, w) == {p \in Selected(S, w) : p.addr = WayAddr[w]}
Reported(S, w) == {p \in Chosen(S, w) : p.told = {w}}

\* The operation o is written.
Written(P, o) == {Issued(p, o) : p \in P}

LEMMA InstructionTypes ==
  /\ \A a \in Addr : SetAddr(a) \in Instructions
  /\ \A n \in Length : SetLength(n) \in Instructions
  /\ SetDMA \in Instructions /\ Usleep \in Instructions
  /\ \A o \in Ops \cup Setups, t \in Target : Cmd(o, t) \in Instructions
  /\ \A b \in BOOLEAN : BusyIs(b) \in Instructions
  /\ \A w \in Way : Check(w) \in Instructions /\ Rest(w) \in Instructions
                    /\ Verdict(w) \in Instructions
BY DEF Instructions, SetAddr, SetLength, SetDMA, Usleep, Cmd, BusyIs, Check, Rest, Verdict

LEMMA RestingSets ==
  ASSUME NEW S, NEW w
  PROVE  /\ Resting(S) \subseteq Knowledge /\ Selected(S, w) \subseteq Resting(S)
         /\ Chosen(S, w) \subseteq Selected(S, w) /\ Reported(S, w) \subseteq Chosen(S, w)
         /\ Reported(S, w) \subseteq Resting(S)
         /\ Resting(S) \subseteq Resting({})
BY DEF Resting, Selected, Chosen, Reported

(* Writing an operand register, and the setup commands.                    *)
LEMMA DoesAddress ==
  ASSUME NEW S, NEW a \in Addr
  PROVE  Does(<<SetAddr(a)>>, Resting(S), {p \in Resting(S) : p.addr = a})
<1> DEFINE x == SetAddr(a)
           Q == {p \in Resting(S) : p.addr = a}
<1>1. x \in Instructions /\ Resting(S) \subseteq Knowledge /\ Q \subseteq Knowledge
  BY InstructionTypes DEF Resting
<1>2. ASSUME NEW p \in Resting(S) PROVE \E q \in Q : Takes(x, p, q)
  <2> DEFINE q == [p EXCEPT !.addr = a]
  <2>1. q \in Q
    BY DEF Resting, Knowledge, Calm
  <2>2. TakesOperand(x, p, q)
    BY DEF TakesOperand, SetAddr, Resting
  <2> HIDE DEF q
  <2>3. QED
    BY <2>1, <2>2 DEF Takes
<1>3. QED
  BY <1>1, <1>2, DoesOne

LEMMA DoesOperand ==
  ASSUME NEW S, NEW w, NEW x \in Instructions, x.do \in {"len", "dma"}
  PROVE  Does(<<x>>, Selected(S, w), Selected(S, w))
<1>1. Selected(S, w) \subseteq Knowledge
  BY DEF Resting, Selected
<1>2. ASSUME NEW p \in Selected(S, w) PROVE Takes(x, p, p)
  BY DEF Takes, TakesOperand, Selected, Resting
<1>3. QED
  BY <1>1, <1>2, DoesOne

LEMMA DoesSetup ==
  ASSUME NEW S, NEW w, NEW o \in Setups \ {"SelectWay"}, NEW a \in Addr
  PROVE  Does(<<SetAddr(a), Cmd(o, 0)>>, Selected(S, w), Selected(S, w))
<1> DEFINE Q == {p \in Selected(S, w) : p.addr = a}
           x == SetAddr(a)
           y == Cmd(o, 0)
<1>1. /\ x \in Instructions /\ y \in Instructions
      /\ Selected(S, w) \subseteq Knowledge /\ Q \subseteq Knowledge
  BY InstructionTypes DEF Resting, Selected, Target
<1>2. ASSUME NEW p \in Selected(S, w) PROVE \E q \in Q : Takes(x, p, q)
  <2> DEFINE q == [p EXCEPT !.addr = a]
  <2>1. q \in Q
    BY DEF Resting, Selected, Knowledge, Calm
  <2>2. TakesOperand(x, p, q)
    BY DEF TakesOperand, SetAddr, Resting, Selected
  <2> HIDE DEF q
  <2>3. QED
    BY <2>1, <2>2 DEF Takes
<1>3. ASSUME NEW p \in Q PROVE p \in Selected(S, w) /\ Takes(y, p, p)
  BY DEF Takes, TakesSetup, Cmd, Selected, Resting
<1>4. Does(<<x>>, Selected(S, w), Q)
  BY <1>1, <1>2, DoesOne
<1>5. Does(<<y>>, Q, Selected(S, w))
  BY <1>1, <1>3, DoesOne
<1>6. <<x, y>> = <<x>> \o <<y>>
  BY StepsApart
<1> HIDE DEF x, y, Q
<1>7. Does(<<x>> \o <<y>>, Selected(S, w), Selected(S, w))
  BY <1>4, <1>5, DoesOn
<1>8. Does(<<x, y>>, Selected(S, w), Selected(S, w))
  BY <1>6, <1>7
<1>9. QED
  BY <1>8 DEF x, y

LEMMA DoesSelect ==
  ASSUME NEW S, NEW w \in Way
  PROVE  Does(select_way(w), Resting(S), Chosen(S, w))
<1> DEFINE a == WayAddr[w]
           Q == {p \in Resting(S) : p.addr = a}
           y == Cmd("SelectWay", 0)
<1>1. a \in Addr /\ WaysOf[a] = {w}
  OBVIOUS
<1>2. y \in Instructions /\ Q \subseteq Knowledge /\ Chosen(S, w) \subseteq Knowledge
  BY InstructionTypes DEF Resting, Selected, Chosen, Setups, Target
<1>3. ASSUME NEW p \in Q PROVE \E q \in Chosen(S, w) : Takes(y, p, q)
  <2> DEFINE q == [p EXCEPT !.way = {w}]
  <2>1. q \in Chosen(S, w)
    BY DEF Chosen, Selected, Resting, Knowledge, Calm
  <2>2. TakesSetup(y, p, q)
    BY <1>1 DEF TakesSetup, Cmd, Setups, Resting
  <2> HIDE DEF q
  <2>3. QED
    BY <2>1, <2>2 DEF Takes
<1>4. Does(<<SetAddr(a)>>, Resting(S), Q)
  BY <1>1, DoesAddress
<1>5. Does(<<y>>, Q, Chosen(S, w))
  BY <1>2, <1>3, DoesOne
<1>6. select_way(w) = <<SetAddr(a)>> \o <<y>>
  BY DEF select_way
<1>7. QED
  BY <1>4, <1>5, <1>6, DoesOn

(* An operation the driver polls the busy bit for.                         *)
LEMMA DoesOperation ==
  ASSUME NEW S, NEW w \in Way, w \in S, NEW o \in DriverOps \ {"ReadStatus"}, NEW t \in Target
  PROVE  /\ Does(<<Cmd(o, t)>>, Selected(S, w), Written(Selected(S, w), o))
         /\ Does(Await, Written(Selected(S, w), o), Resting(IF o \in Returning THEN S ELSE {}))
<1> DEFINE P == Selected(S, w)
           Q == Written(P, o)
           R == {[q EXCEPT !.at = "seen"] : q \in Q}
           Z == Resting(IF o \in Returning THEN S ELSE {})
           x == Cmd(o, t)
           up == BusyIs(TRUE)
           down == BusyIs(FALSE)
<1>1. x \in Instructions /\ up \in Instructions /\ down \in Instructions
  BY InstructionTypes DEF DriverOps
<1>2. ASSUME NEW p \in P
      PROVE  /\ p \in Knowledge /\ Calm(p) /\ p.op = "none" /\ S \subseteq p.rested
             /\ p.way = {w} /\ w \in p.rested
  BY DEF Selected, Resting
<1>3. ASSUME NEW p \in P
      PROVE  /\ Issued(p, o) \in Knowledge /\ Issued(p, o).at = "issued" /\ Issued(p, o).op = o
             /\ Issued(p, o).way = {w} /\ Issued(p, o).rested = p.rested \ {w}
  BY <1>2 DEF Issued, Knowledge, DriverOps
<1>4. ASSUME NEW q \in Q
      PROVE  /\ q \in Knowledge /\ q.at = "issued" /\ q.op = o /\ q.way = {w}
             /\ \A v \in S : v = w \/ v \in q.rested
  BY <1>2, <1>3 DEF Written
<1>5. ASSUME NEW p \in P PROVE \E q \in Q : Takes(x, p, q)
  <2>1. TakesOperation(x, p, Issued(p, o))
    BY <1>2 DEF TakesOperation, Cmd
  <2>2. QED
    BY <2>1 DEF Takes, Written
<1> HIDE DEF P, Q
<1>6. ASSUME NEW r \in R
      PROVE  /\ r \in Knowledge /\ r.at = "seen" /\ r.op = o /\ r.way = {w}
             /\ \A v \in S : v = w \/ v \in r.rested
  <2>1. PICK q \in Q : r = [q EXCEPT !.at = "seen"]
    OBVIOUS
  <2>2. q \in Knowledge /\ q.op = o /\ q.way = {w} /\ \A v \in S : v = w \/ v \in q.rested
    BY <1>4
  <2>3. QED
    BY <2>1, <2>2 DEF Knowledge
<1>7. ASSUME NEW q \in Q PROVE \E r \in R : Takes(up, q, r)
  <2>1. TakesPoll(up, q, [q EXCEPT !.at = "seen"])
    BY <1>4 DEF TakesPoll, BusyIs
  <2>2. QED
    BY <2>1 DEF Takes
<1> HIDE DEF R
<1>8. ASSUME NEW r \in R PROVE \E z \in Z : Takes(down, r, z)
  <2> DEFINE z == Ended(r)
  <2>1. /\ z \in Knowledge /\ Calm(z) /\ z.op = "none"
        /\ z.rested = (IF o \in Returning THEN r.rested \cup {w} ELSE r.rested)
    BY <1>6 DEF Ended, Knowledge, Calm
  <2>2. TakesPoll(down, r, z)
    BY <1>6 DEF TakesPoll, BusyIs
  <2> HIDE DEF z
  <2>3. z \in Z
    BY <1>6, <2>1 DEF Resting
  <2>4. QED
    BY <2>2, <2>3 DEF Takes
<1>9. P \subseteq Knowledge /\ Q \subseteq Knowledge /\ R \subseteq Knowledge /\ Z \subseteq Knowledge
  BY <1>2, <1>4, <1>6 DEF Resting
<1> HIDE DEF Z
<1>10. Does(<<x>>, P, Q) /\ Does(<<up>>, Q, R) /\ Does(<<down>>, R, Z)
  BY <1>1, <1>5, <1>7, <1>8, <1>9, DoesOne
<1>11. Await = <<up>> \o <<down>>
  BY StepsApart DEF Await
<1> HIDE DEF x, up, down
<1>12. Does(<<up>> \o <<down>>, Q, Z)
  BY <1>10, DoesOn
<1>13. Does(<<x>>, P, Q) /\ Does(Await, Q, Z)
  BY <1>10, <1>11, <1>12
<1>14. QED
  BY <1>13 DEF x, P, Q, Z

(* The status read ends while the driver sleeps.                           *)
LEMMA DoesStatus ==
  ASSUME NEW S, NEW w \in Way
  PROVE  Does(<<Cmd("ReadStatus", 0), Usleep>>, Chosen(S, w), Reported(S, w))
<1> DEFINE o == "ReadStatus"
           P == Chosen(S, w)
           Q == Written(P, o)
           Z == Reported(S, w)
           x == Cmd(o, 0)
           y == Usleep
<1>1. x \in Instructions /\ y \in Instructions /\ o \in DriverOps
  BY InstructionTypes DEF DriverOps, Ops, Target
<1>2. ASSUME NEW p \in P
      PROVE  /\ p \in Knowledge /\ Calm(p) /\ p.op = "none" /\ S \subseteq p.rested
             /\ p.way = {w} /\ p.addr = WayAddr[w]
  BY DEF Chosen, Selected, Resting
<1>3. ASSUME NEW p \in P
      PROVE  /\ Issued(p, o) \in Knowledge /\ Issued(p, o).at = "issued" /\ Issued(p, o).op = o
             /\ Issued(p, o).way = {w} /\ Issued(p, o).rested = p.rested
             /\ Issued(p, o).addr = p.addr
  BY <1>1, <1>2 DEF Issued, Knowledge, DriverOps
<1>4. ASSUME NEW q \in Q
      PROVE  /\ q \in Knowledge /\ q.at = "issued" /\ q.op = o /\ q.way = {w}
             /\ q.addr = WayAddr[w] /\ S \subseteq q.rested
  BY <1>2, <1>3 DEF Written
<1>5. ASSUME NEW p \in P PROVE \E q \in Q : Takes(x, p, q)
  <2>1. TakesOperation(x, p, Issued(p, o))
    BY <1>1, <1>2 DEF TakesOperation, Cmd
  <2>2. QED
    BY <2>1 DEF Takes, Written
<1> HIDE DEF P, Q
<1>6. ASSUME NEW q \in Q PROVE \E z \in Z : Takes(y, q, z)
  <2> DEFINE z == Ended(q)
  <2>1. /\ z \in Knowledge /\ Calm(z) /\ z.op = "none" /\ z.rested = q.rested
        /\ z.addr = q.addr /\ z.way = {w} /\ z.told = {w}
    BY <1>4 DEF Ended, Knowledge, Calm, Returning
  <2>2. TakesSleep(y, q, z)
    BY <1>4 DEF TakesSleep, Usleep
  <2> HIDE DEF z
  <2>3. z \in Z
    BY <1>4, <2>1 DEF Reported, Chosen, Selected, Resting
  <2>4. QED
    BY <2>2, <2>3 DEF Takes
<1>7. P \subseteq Knowledge /\ Q \subseteq Knowledge /\ Z \subseteq Knowledge
  BY <1>2, <1>4 DEF Reported, Chosen, Selected, Resting
<1> HIDE DEF Z
<1>8. Does(<<x>>, P, Q) /\ Does(<<y>>, Q, Z)
  BY <1>1, <1>5, <1>6, <1>7, DoesOne
<1>9. <<x, y>> = <<x>> \o <<y>>
  BY StepsApart
<1> HIDE DEF x, y
<1>10. Does(<<x>> \o <<y>>, P, Z)
  BY <1>8, DoesOn
<1>11. Does(<<x, y>>, P, Z)
  BY <1>9, <1>10
<1>12. QED
  BY <1>11 DEF x, y, P, Z

(* Acting on the status, and waiting for the chip instead of asking it.    *)
LEMMA DoesCheck ==
  ASSUME NEW S, NEW w \in Way
  PROVE  Does(<<Check(w)>>, Reported(S, w), Resting(S \cup {w}))
<1>1. ASSUME NEW p \in Reported(S, w) PROVE \E q \in Resting(S \cup {w}) : Takes(Check(w), p, q)
  <2> DEFINE q == [p EXCEPT !.rested = @ \cup {w}]
  <2>1. q \in Resting(S \cup {w})
    BY DEF Reported, Chosen, Selected, Resting, Knowledge, Calm
  <2>2. TakesCheck(Check(w), p, q)
    BY DEF TakesCheck, Check, Reported, Chosen, Selected, Resting
  <2> HIDE DEF q
  <2>3. QED
    BY <2>1, <2>2 DEF Takes
<1>2. Reported(S, w) \subseteq Knowledge /\ Resting(S \cup {w}) \subseteq Knowledge
  BY DEF Reported, Chosen, Selected, Resting
<1>3. QED
  BY <1>1, <1>2, DoesOne, InstructionTypes

LEMMA DoesVerdict ==
  ASSUME NEW S, NEW w \in Way, w \in S
  PROVE  Does(<<Verdict(w)>>, Reported(S, w), Resting(S))
<1>1. ASSUME NEW p \in Reported(S, w) PROVE p \in Resting(S) /\ Takes(Verdict(w), p, p)
  BY DEF Takes, TakesVerdict, Verdict, Reported, Chosen, Selected, Resting
<1>2. Reported(S, w) \subseteq Knowledge /\ Resting(S) \subseteq Knowledge
  BY DEF Reported, Chosen, Selected, Resting
<1>3. QED
  BY <1>1, <1>2, DoesOne, InstructionTypes

LEMMA DoesRest ==
  ASSUME NEW S, NEW w \in Way
  PROVE  Does(<<Rest(w)>>, Resting(S), Resting(S \cup {w}))
<1>1. ASSUME NEW p \in Resting(S) PROVE \E q \in Resting(S \cup {w}) : Takes(Rest(w), p, q)
  <2> DEFINE q == [p EXCEPT !.rested = @ \cup {w}, !.told = {}]
  <2>1. q \in Resting(S \cup {w})
    BY DEF Resting, Knowledge, Calm
  <2>2. TakesRest(Rest(w), p, q)
    BY DEF TakesRest, Rest, Resting
  <2> HIDE DEF q
  <2>3. QED
    BY <2>1, <2>2 DEF Takes
<1>2. \A T : Resting(T) \subseteq Knowledge
  BY DEF Resting
<1>3. QED
  BY <1>1, <1>2, DoesOne, InstructionTypes


(* The operations that need no operand register.                           *)
LEMMA DoesAlone ==
  ASSUME NEW S, NEW w \in Way, w \in S, NEW o \in {"Reset", "SetFeature", "EraseBlock"}
  PROVE  /\ Does(<<Cmd(o, 0)>>, Selected(S, w), Written(Selected(S, w), o))
         /\ Does(Await, Written(Selected(S, w), o), Resting(IF o = "EraseBlock" THEN {} ELSE S))
<1>1. /\ o \in DriverOps \ {"ReadStatus"} /\ 0 \in Target
      /\ (o \in Returning <=> o # "EraseBlock")
  BY DEF DriverOps, Ops, Returning, Target
<1>2. QED
  BY <1>1, DoesOperation

(* The driver's calls.                                                     *)
LEMMA DoesResetAndFeature ==
  ASSUME NEW S, NEW w \in Way, w \in S
  PROVE  /\ Does(reset_ffh(w), Resting(S), Resting(S))
         /\ Does(setfeature_efh(w), Resting(S), Resting(S))
<1> DEFINE P == Selected(S, w)
<1>1. Does(select_way(w), Resting(S), P)
  BY DoesSelect, DoesLess, RestingSets
<1>2. Does(set_feature, P, P)
  BY DoesSetup DEF set_feature, Setups
<1>3. /\ Does(<<Cmd("Reset", 0)>>, P, Written(P, "Reset"))
      /\ Does(Await, Written(P, "Reset"), Resting(S))
  BY DoesAlone
<1>4. /\ Does(<<Cmd("SetFeature", 0)>>, P, Written(P, "SetFeature"))
      /\ Does(Await, Written(P, "SetFeature"), Resting(S))
  BY DoesAlone
<1> HIDE DEF P
<1>5. Does(select_way(w) \o <<Cmd("Reset", 0)>>, Resting(S), Written(P, "Reset"))
  BY <1>1, <1>3, DoesOn
<1>6. Does(reset_ffh(w), Resting(S), Resting(S))
  BY <1>3, <1>5, DoesOn DEF reset_ffh
<1>7. Does(select_way(w) \o set_feature, Resting(S), P)
  BY <1>1, <1>2, DoesOn
<1>8. Does(select_way(w) \o set_feature \o <<Cmd("SetFeature", 0)>>,
           Resting(S), Written(P, "SetFeature"))
  BY <1>4, <1>7, DoesOn
<1>9. Does(setfeature_efh(w), Resting(S), Resting(S))
  BY <1>4, <1>8, DoesOn DEF setfeature_efh
<1>10. QED
  BY <1>6, <1>9

(* A call that moves a page: its operand registers, then the operation.    *)
LEMMA DoesTransfer ==
  ASSUME NEW S, NEW w \in Way, w \in S, NEW n \in Length,
         NEW o \in {"ProgramPage", "ReadPage"}, NEW t \in Target
  PROVE  /\ Does(<<SetLength(n), SetDMA, Cmd(o, t)>>, Selected(S, w), Written(Selected(S, w), o))
         /\ Does(Await, Written(Selected(S, w), o), Resting(IF o = "ReadPage" THEN S ELSE {}))
<1> DEFINE P == Selected(S, w)
           x == SetLength(n)
           y == SetDMA
           z == Cmd(o, t)
<1>1. Does(<<z>>, P, Written(P, o))
      /\ Does(Await, Written(P, o), Resting(IF o = "ReadPage" THEN S ELSE {}))
  <2>1. o \in DriverOps \ {"ReadStatus"} /\ (o \in Returning <=> o = "ReadPage")
    BY DEF DriverOps, Ops, Returning
  <2>2. QED
    BY <2>1, DoesOperation
<1>2. x \in Instructions /\ x.do = "len" /\ y \in Instructions /\ y.do = "dma"
  BY InstructionTypes DEF SetLength, SetDMA
<1> HIDE DEF x, y, z
<1>3. Does(<<x>>, P, P) /\ Does(<<y>>, P, P)
  BY <1>2, DoesOperand
<1> HIDE DEF P
<1>4. Does(<<x>> \o <<y>>, P, P)
  BY <1>3, DoesOn
<1>5. Does((<<x>> \o <<y>>) \o <<z>>, P, Written(P, o))
  BY <1>1, <1>4, DoesOn
<1>6. <<x, y, z>> = (<<x>> \o <<y>>) \o <<z>>
  BY StepsApart
<1>7. Does(<<x, y, z>>, P, Written(P, o))
  BY <1>5, <1>6
<1>8. QED
  BY <1>1, <1>7 DEF x, y, z, P

LEMMA DoesReads ==
  ASSUME NEW S, NEW w \in Way, w \in S
  PROVE  /\ Does(readparameterpage(w), Resting(S), Resting(S))
         /\ Does(readpage_00h_30h(w), Resting(S), Resting(S))
<1> DEFINE P == Selected(S, w)
           Q == Written(P, "ReadPage")
<1>1. Does(select_way(w), Resting(S), P)
  BY DoesSelect, DoesLess, RestingSets
<1>2. Does(select_col, P, P) /\ Does(select_row, P, P)
  BY DoesSetup, WaysAssumption DEF select_col, select_row, Setups
<1>3. /\ Does(<<SetLength(Param), SetDMA, Cmd("ReadPage", 1)>>, P, Q)
      /\ Does(<<SetLength(Page), SetDMA, Cmd("ReadPage", 0)>>, P, Q)
      /\ Does(Await, Q, Resting(S))
  <2>1. 0 \in Target /\ 1 \in Target /\ Param \in Length /\ Page \in Length
    BY DEF Target
  <2>2. QED
    BY <2>1, DoesTransfer
<1> HIDE DEF P, Q
<1>4. Does(select_way(w) \o <<SetLength(Param), SetDMA, Cmd("ReadPage", 1)>>, Resting(S), Q)
  BY <1>1, <1>3, DoesOn
<1>5. Does(readparameterpage(w), Resting(S), Resting(S))
  BY <1>3, <1>4, DoesOn DEF readparameterpage
<1>6. Does(select_way(w) \o select_col, Resting(S), P)
  BY <1>1, <1>2, DoesOn
<1>7. Does(select_way(w) \o select_col \o select_row, Resting(S), P)
  BY <1>2, <1>6, DoesOn
<1>8. Does(select_way(w) \o select_col \o select_row
             \o <<SetLength(Page), SetDMA, Cmd("ReadPage", 0)>>, Resting(S), Q)
  BY <1>3, <1>7, DoesOn
<1>9. Does(readpage_00h_30h(w), Resting(S), Resting(S))
  BY <1>3, <1>8, DoesOn DEF readpage_00h_30h
<1>10. QED
  BY <1>5, <1>9

LEMMA DoesProgram ==
  ASSUME NEW S, NEW w \in Way, w \in S, NEW t \in Target
  PROVE  Does(progpage_80h(w, t), Resting(S), Resting({}))
<1> DEFINE P == Selected(S, w)
           Q == Written(P, "ProgramPage")
<1>1. Does(select_way(w), Resting(S), P)
  BY DoesSelect, DoesLess, RestingSets
<1>2. Does(select_col, P, P) /\ Does(select_row, P, P)
  BY DoesSetup, WaysAssumption DEF select_col, select_row, Setups
<1>3. /\ Does(<<SetLength(Page), SetDMA, Cmd("ProgramPage", t)>>, P, Q)
      /\ Does(Await, Q, Resting({}))
  BY DoesTransfer
<1> HIDE DEF P, Q
<1>4. Does(select_way(w) \o select_col, Resting(S), P)
  BY <1>1, <1>2, DoesOn
<1>5. Does(select_way(w) \o select_col \o select_row, Resting(S), P)
  BY <1>2, <1>4, DoesOn
<1>6. Does(select_way(w) \o select_col \o select_row
             \o <<SetLength(Page), SetDMA, Cmd("ProgramPage", t)>>, Resting(S), Q)
  BY <1>3, <1>5, DoesOn
<1>7. QED
  BY <1>3, <1>6, DoesOn DEF progpage_80h

LEMMA DoesErase ==
  ASSUME NEW S, NEW w \in Way, w \in S
  PROVE  Does(eraseblock_60h_d0h(w), Resting(S), Resting({}))
<1> DEFINE P == Selected(S, w)
           Q == Written(P, "EraseBlock")
<1>1. Does(select_way(w), Resting(S), P)
  BY DoesSelect, DoesLess, RestingSets
<1>2. Does(select_row, P, P)
  BY DoesSetup DEF select_row, Setups
<1>3. Does(<<Cmd("EraseBlock", 0)>>, P, Q) /\ Does(Await, Q, Resting({}))
  BY DoesAlone
<1> HIDE DEF P, Q
<1>4. Does(select_way(w) \o select_row, Resting(S), P)
  BY <1>1, <1>2, DoesOn
<1>5. Does(select_way(w) \o select_row \o <<Cmd("EraseBlock", 0)>>, Resting(S), Q)
  BY <1>3, <1>4, DoesOn
<1>6. QED
  BY <1>3, <1>5, DoesOn DEF eraseblock_60h_d0h

(* A status read, and the loop that waits for it to say ready.             *)
LEMMA DoesReadStatus ==
  ASSUME NEW S, NEW w \in Way
  PROVE  /\ Does(readstatus_70h(w), Resting(S), Reported(S, w))
         /\ Does(UntilReady(w), Resting(S), Resting({w}))
<1>1. Does(readstatus_70h(w), Resting(S), Reported(S, w))
  BY DoesSelect, DoesStatus, DoesOn DEF readstatus_70h
<1>2. Does(readstatus_70h(w) \o <<Check(w)>>, Resting(S), Resting(S \cup {w}))
  BY <1>1, DoesCheck, DoesOn
<1>3. Resting(S \cup {w}) \subseteq Resting({w})
  BY DEF Resting
<1>4. QED
  BY <1>1, <1>2, <1>3, DoesLess DEF UntilReady


LEMMA DoesUntil ==
  ASSUME NEW S, NEW w \in Way
  PROVE  Does(UntilReady(w), Resting(S), Resting({w}))
         /\ Does(<<Rest(w)>>, Resting(S), Resting({w}))
<1>1. Resting(S \cup {w}) \subseteq Resting({w})
  BY DEF Resting
<1>2. QED
  BY <1>1, DoesReadStatus, DoesRest, DoesLess

(* A request asked of a chip whatever its state.                           *)
LEMMA ServesAsked ==
  ASSUME NEW w \in Way, NEW r \in RequestKinds \ SelfTests
  PROVE  Does(Serve(r, w), Resting({}), Resting({}))
<1> DEFINE A == Resting({})
           B == Resting({w})
           u == UntilReady(w)
           s == readstatus_70h(w)
<1>1. B \subseteq A /\ w \in {w} /\ \A t \in Target : Does(progpage_80h(w, t), B, A)
  BY DoesProgram, RestingSets
<1>2. /\ Does(u, A, B)
      /\ Does(readpage_00h_30h(w), B, B) /\ Does(readparameterpage(w), B, B)
      /\ Does(eraseblock_60h_d0h(w), B, A)
  BY DoesUntil, DoesReads, DoesErase
<1>3. /\ Does(s, A, Reported({}, w)) /\ Does(s, B, Reported({w}, w))
      /\ Reported({}, w) \subseteq A
      /\ Does(<<Verdict(w)>>, Reported({w}, w), B)
  BY DoesReadStatus, DoesVerdict, RestingSets
<1> HIDE DEF A, B, u, s
<1>4. CASE r = "ReadPage"
  <2>1. Does(u \o readpage_00h_30h(w), A, B)
    BY <1>2, DoesOn
  <2>2. Serve(r, w) = u \o readpage_00h_30h(w)
    BY <1>4 DEF Serve, u
  <2>3. QED
    BY <1>1, <2>1, <2>2, DoesLess DEF A
<1>5. CASE r = "ReadParameter"
  <2>1. Does(u \o readparameterpage(w), A, B)
    BY <1>2, DoesOn
  <2>2. Serve(r, w) = u \o readparameterpage(w)
    BY <1>5 DEF Serve, u
  <2>3. QED
    BY <1>1, <2>1, <2>2, DoesLess DEF A
<1>6. CASE r = "ProgramPage"
  <2>1. Does(progpage_80h(w, 0), B, A)
    BY <1>1 DEF Target
  <2>2. Does(u \o progpage_80h(w, 0), A, A)
    BY <1>2, <2>1, DoesOn
  <2>3. Does(u \o progpage_80h(w, 0) \o s, A, Reported({}, w))
    BY <1>3, <2>2, DoesOn
  <2>4. Serve(r, w) = u \o progpage_80h(w, 0) \o s
    BY <1>6 DEF Serve, u, s
  <2>5. QED
    BY <1>3, <2>3, <2>4, DoesLess DEF A
<1>7. CASE r = "EraseBlock"
  <2>1. Does(u \o eraseblock_60h_d0h(w), A, A)
    BY <1>2, DoesOn
  <2>2. Does(u \o eraseblock_60h_d0h(w) \o u, A, B)
    BY <1>2, <2>1, DoesOn
  <2>3. Does(u \o eraseblock_60h_d0h(w) \o u \o s, A, Reported({w}, w))
    BY <1>3, <2>2, DoesOn
  <2>4. Does(u \o eraseblock_60h_d0h(w) \o u \o s \o <<Verdict(w)>>, A, B)
    BY <1>3, <2>3, DoesOn
  <2>5. Serve(r, w) = u \o eraseblock_60h_d0h(w) \o u \o s \o <<Verdict(w)>>
    BY <1>7 DEF Serve, u, s
  <2>6. QED
    BY <1>1, <2>4, <2>5, DoesLess DEF A
<1>8. QED
  BY <1>4, <1>5, <1>6, <1>7 DEF RequestKinds, SelfTests

(* A self test starts with every chip ready.                               *)
LEMMA ServesTests ==
  ASSUME NEW w \in Way, NEW r \in SelfTests
  PROVE  Does(Serve(r, w), Resting(Way), Resting({}))
<1> DEFINE A == Resting({})
           B == Resting({w})
           u == UntilReady(w)
           z == <<Rest(w)>>
           e == eraseblock_60h_d0h(w)
           g(t) == progpage_80h(w, t)
           d == readpage_00h_30h(w)
<1>1. B \subseteq A /\ Resting(Way) \subseteq B
  BY DEF Resting
<1>2. Does(u, A, B) /\ Does(z, A, B) /\ Does(d, B, B) /\ Does(e, B, A)
      /\ \A t \in Target : Does(g(t), B, A)
  BY DoesUntil, DoesReads, DoesErase, DoesProgram
<1>3. Does(g(0), B, A) /\ Does(g(1), B, A) /\ Does(g(2), B, A)
  BY <1>2 DEF Target
<1>4. SUFFICES Does(Serve(r, w), B, A)
  BY <1>1, DoesLess
<1> HIDE DEF A, B, u, z, e, g, d
<1>5. Does(e \o z, B, B)
  BY <1>2, DoesOn
<1>6. CASE r = "TestConsistent"
  <2>1. Does(e \o z \o g(0), B, A)
    BY <1>3, <1>5, DoesOn
  <2>2. Does(e \o z \o g(0) \o z, B, B)
    BY <1>2, <2>1, DoesOn
  <2>3. Does(e \o z \o g(0) \o z \o d, B, B)
    BY <1>2, <2>2, DoesOn
  <2>4. Serve(r, w) = e \o z \o g(0) \o z \o d
    BY <1>6 DEF Serve, e, z, g, d
  <2>5. QED
    BY <1>1, <2>3, <2>4, DoesLess
<1>7. CASE r = "TestWriteSpeed"
  <2>0. Does(e \o z \o e \o z, B, B)
    BY <1>1, <1>2, <1>5, DoesOn, DoesLess
  <2>1. Does(e \o z \o e \o z \o u, B, B)
    BY <1>1, <1>2, <2>0, DoesOn, DoesLess
  <2>2. ASSUME NEW s, NEW t \in {0, 1, 2}, Does(s, B, B)
        PROVE  Does(s \o g(t) \o u, B, B)
    <3>1. Does(s \o g(t), B, A)
      BY <1>3, <2>2, DoesOn
    <3>2. QED
      BY <1>2, <3>1, DoesOn
  <2>3. Does(e \o z \o e \o z \o u \o g(2) \o u, B, B)
    BY <2>1, <2>2
  <2>4. Does(e \o z \o e \o z \o u \o g(2) \o u \o g(1) \o u, B, B)
    BY <2>2, <2>3
  <2>5. Does(e \o z \o e \o z \o u \o g(2) \o u \o g(1) \o u \o g(2) \o u, B, B)
    BY <2>2, <2>4
  <2>6. Does(e \o z \o e \o z \o u \o g(2) \o u \o g(1) \o u \o g(2) \o u \o g(0) \o u, B, B)
    BY <2>2, <2>5
  <2>7. Serve(r, w) = e \o z \o e \o z \o u \o g(2) \o u \o g(1) \o u \o g(2) \o u \o g(0) \o u
    BY <1>7 DEF Serve, e, z, g, u
  <2>8. QED
    BY <1>1, <2>6, <2>7, DoesLess
<1>8. CASE r = "TestReadSpeed"
  <2>1. Does(d \o d, B, B)
    BY <1>2, DoesOn
  <2>2. Serve(r, w) = d \o d
    BY <1>8 DEF Serve, d
  <2>3. QED
    BY <1>1, <2>1, <2>2, DoesLess
<1>9. QED
  BY <1>6, <1>7, <1>8 DEF SelfTests


-----------------------------------------------------------------------------
(* Startup runs a call for every way in turn.                              *)

(* A set of numbers that has 0 and with every number the next has them all. *)
LEMMA AllNumbers ==
  ASSUME NEW T, 0 \in T, \A n \in Nat : n \in T => n + 1 \in T
  PROVE  \A n \in Nat : n \in T
<1> DEFINE R == OpToRel(<, Nat)
<1>1. IsWellFoundedOn(R, Nat)
  BY NatLessThanWellFounded, Zenon
<1>2. \A i, j \in Nat : i < j => <<i, j>> \in R
  BY DEF OpToRel
<1> HIDE DEF R
<1>3. SUFFICES ASSUME Nat \ T # {} PROVE FALSE
  OBVIOUS
<1>4. PICK n \in Nat \ T : \A m \in Nat \ T : <<m, n>> \notin R
  BY <1>1, <1>3, WFMin
<1>5. n \in Nat /\ n # 0
  OBVIOUS
<1>6. n - 1 \in Nat /\ n - 1 < n /\ (n - 1) + 1 = n
  BY <1>5
<1>7. n - 1 \in T
  BY <1>2, <1>4, <1>5, <1>6
<1>8. QED
  BY <1>6, <1>7

(* The concatenation of a sequence of calls does what each of them does.   *)
Flattens(f, seqs, n) == f = [i \in 1..n |-> IF i = 1 THEN seqs[i] ELSE f[i-1] \o seqs[i]]

LEMMA FlattenExists ==
  ASSUME NEW seqs
  PROVE  \A n \in Nat : \E f : Flattens(f, seqs, n)
<1> DEFINE T == {n \in Nat : \E f : Flattens(f, seqs, n)}
<1>1. 0 \in T
  <2> DEFINE f == [i \in 1..0 |-> 0]
  <2>1. Flattens(f, seqs, 0)
    BY DEF Flattens
  <2>2. QED
    BY <2>1
<1>2. ASSUME NEW n \in Nat, n \in T PROVE n + 1 \in T
  <2>1. PICK f : Flattens(f, seqs, n)
    BY <1>2
  <2>2. \A i \in 1..n : f[i] = IF i = 1 THEN seqs[i] ELSE f[i-1] \o seqs[i]
    BY <2>1 DEF Flattens
  <2> DEFINE Step(g, i) == IF i = 1 THEN seqs[i] ELSE g[i-1] \o seqs[i]
             h == [i \in 1..(n+1) |-> IF i = n + 1 THEN Step(f, i) ELSE f[i]]
  <2>3. \A i \in 1..(n+1) : h[i] = Step(h, i)
    <3>1. SUFFICES ASSUME NEW i \in 1..(n+1) PROVE h[i] = Step(h, i)
      OBVIOUS
    <3>2. i # 1 => i - 1 \in 1..n /\ i - 1 \in 1..(n+1) /\ i - 1 # n + 1
      OBVIOUS
    <3>3. i # 1 => h[i-1] = f[i-1]
      BY <3>2
    <3>4. CASE i = n + 1
      BY <3>3, <3>4
    <3>5. CASE i # n + 1
      <4>1. i \in 1..n
        BY <3>5
      <4>2. h[i] = f[i]
        BY <3>5
      <4>3. QED
        BY <2>2, <3>3, <4>1, <4>2
    <3>6. QED
      BY <3>4, <3>5
  <2>4. h = [i \in 1..(n+1) |-> h[i]]
    OBVIOUS
  <2> HIDE DEF h
  <2>5. h = [i \in 1..(n+1) |-> Step(h, i)]
    BY <2>3, <2>4
  <2>6. Flattens(h, seqs, n + 1)
    BY <2>5 DEF Flattens
  <2>7. QED
    BY <2>6
<1> HIDE DEF T
<1>3. \A n \in Nat : n \in T
  BY <1>1, <1>2, AllNumbers
<1>4. QED
  BY <1>3 DEF T

LEMMA DoesEach ==
  ASSUME NEW seqs, NEW n \in Nat, seqs = [i \in 1..n |-> seqs[i]], Len(seqs) = n,
         NEW P, P \subseteq Knowledge, \A i \in 1..n : Does(seqs[i], P, P)
  PROVE  Does(FlattenSeq(seqs), P, P)
<1>1. CASE n = 0
  <2>1. FlattenSeq(seqs) = seqs
    BY <1>1 DEF FlattenSeq
  <2>2. seqs = << >>
    BY <1>1
  <2>3. QED
    BY <2>1, <2>2, DoesNothing
<1>2. CASE n # 0
  <2> DEFINE f == CHOOSE f : Flattens(f, seqs, n)
  <2>1. FlattenSeq(seqs) = f[n]
    BY <1>2 DEF FlattenSeq, Flattens
  <2>2. Flattens(f, seqs, n)
    BY FlattenExists
  <2> HIDE DEF f
  <2>3. \A i \in 1..n : f[i] = IF i = 1 THEN seqs[i] ELSE f[i-1] \o seqs[i]
    BY <2>2 DEF Flattens
  <2> DEFINE T == {i \in Nat : i \in 1..n => Does(f[i], P, P)}
  <2>4. 0 \in T
    OBVIOUS
  <2>5. ASSUME NEW i \in Nat, i \in T PROVE i + 1 \in T
    <3>1. SUFFICES ASSUME i + 1 \in 1..n PROVE Does(f[i+1], P, P)
      OBVIOUS
    <3>2. (i + 1) - 1 = i
      OBVIOUS
    <3>3. CASE i = 0
      BY <2>3, <3>1, <3>3
    <3>4. CASE i # 0
      <4>1. i \in 1..n /\ Does(f[i], P, P) /\ Does(seqs[i+1], P, P)
        BY <2>5, <3>1, <3>4
      <4>2. f[i+1] = f[i] \o seqs[i+1]
        <5>1. i + 1 # 1
          BY <3>4
        <5>2. f[i+1] = f[(i + 1) - 1] \o seqs[i+1]
          BY <2>3, <3>1, <5>1
        <5>3. QED
          BY <3>2, <5>2
      <4>3. QED
        BY <4>1, <4>2, DoesOn
    <3>5. QED
      BY <3>3, <3>4
  <2> HIDE DEF T
  <2>6. \A i \in Nat : i \in T
    BY <2>4, <2>5, AllNumbers
  <2>7. Does(f[n], P, P)
    BY <1>2, <2>6 DEF T
  <2>8. QED
    BY <2>1, <2>7
<1>3. QED
  BY <1>1, <1>2


(* The ways, one after another.                                            *)
LEMMA WaysInTurn ==
  LET ways == SetToSeq(Way)
      n == Cardinality(Way)
  IN n \in Nat /\ ways \in [1..n -> Way] /\ Len(ways) = n
<1> DEFINE n == Cardinality(Way)
           ways == SetToSeq(Way)
<1>1. n \in Nat /\ ExistsBijection(1..n, Way)
  BY FS_CardinalityType, NumberOfWaysAssumption
<1>2. PICK f : f \in [1..n -> Way] /\ \A a, b \in DOMAIN f : f[a] = f[b] => a = b
  BY <1>1 DEF ExistsBijection, Bijection, Injection, IsInjective
<1>3. IsInjective(f)
  BY <1>2 DEF IsInjective
<1>4. ways = CHOOSE g \in [1..n -> Way] : IsInjective(g)
  BY DEF SetToSeq
<1>5. ways \in [1..n -> Way]
  BY <1>2, <1>3, <1>4
<1> HIDE DEF ways
<1>6. ways \in Seq(Way) /\ Len(ways) = n
  BY <1>1, <1>5
<1>7. QED
  BY <1>1, <1>5, <1>6 DEF ways

(* Resetting the chips and switching them to synchronous mode, with every  *)
(* chip known to be ready before and after.                                *)
LEMMA DoesStartup == Does(Startup, Resting(Way), Resting(Way))
<1> DEFINE ways == SetToSeq(Way)
           n == Cardinality(Way)
           P == Resting(Way)
           first == [i \in 1..n |-> reset_ffh(ways[i])]
           second == [i \in 1..n |-> setfeature_efh(ways[i])]
<1>1. n \in Nat /\ ways \in [1..n -> Way] /\ Len(ways) = n
  BY WaysInTurn
<1>2. Startup = FlattenSeq(first) \o FlattenSeq(second)
  BY <1>1 DEF Startup
<1>3. P \subseteq Knowledge
  BY DEF Resting
<1>4. \A i \in 1..n : Does(reset_ffh(ways[i]), P, P) /\ Does(setfeature_efh(ways[i]), P, P)
  BY <1>1, DoesResetAndFeature
<1> HIDE DEF n, ways, P
<1>5. first = [i \in 1..n |-> first[i]] /\ second = [i \in 1..n |-> second[i]]
  OBVIOUS
<1>6. Len(first) = n /\ Len(second) = n
  BY <1>1
<1>7. \A i \in 1..n : Does(first[i], P, P) /\ Does(second[i], P, P)
  BY <1>4
<1> HIDE DEF first, second
<1>8. Does(FlattenSeq(first), P, P) /\ Does(FlattenSeq(second), P, P)
  BY <1>1, <1>3, <1>5, <1>6, <1>7, DoesEach
<1>9. Does(FlattenSeq(first) \o FlattenSeq(second), P, P)
  BY <1>8, DoesOn
<1>10. QED
  BY <1>2, <1>9 DEF P


-----------------------------------------------------------------------------
(* What is known, and that triples lead from it through what is left to do *)
(* to where the firmware may serve another request.                        *)
Knowing(p) == Right(p) /\ \E q \in Knowledge : Calm(q) /\ Leads(todo, p, q)
Known == \E p \in Knowledge : Knowing(p)

\* The clock after an operation word is the one in which it is accepted.
GapKept == since = 1 => PendingOp

SysInv == WholeInv /\ WorldType /\ GapKept /\ Known

(* A clock edge of the closed system, piece by piece.                      *)
LEMMA SysEdgeParts ==
  ASSUME WholeInv, WorldType, NEW v \in Word \cup {NoWord}, SysEdge(v),
         v \in Word => MaySend(v)
  PROVE  /\ ClockEdge /\ World
         /\ \E finishing \in SUBSET Running : Clock(v, pins.buf0, finishing)
<1>1. pins.buf0 \in SUBSET Way
  BY DEF WorldType
<1>2. PICK finishing \in SUBSET Running : Clock(v, pins.buf0, finishing)
  BY DEF SysEdge, Clock
<1>3. ClockEdge
  BY <1>1, <1>2 DEF ClockEdge
<1>4. World
  <2>1. SUBSET Unready \subseteq SUBSET Way
    BY DEF Unready
  <2>2. QED
    BY <2>1 DEF SysEdge, World
<1>5. QED
  BY <1>2, <1>3, <1>4

(* An edge that brings no word keeps everything that is right.             *)
LEMMA QuietEdge ==
  ASSUME MinGap = 2, SysInv, SysEdge(NoWord), host' = host
  PROVE  /\ WholeInv' /\ WorldType' /\ GapKept' /\ ClockEdge
         /\ \A p \in Knowledge : Right(p) => Right(p)'
<1>1. WholeInv /\ WorldType /\ NoWord \in Word \cup {NoWord} /\ NoWord \notin Word
  BY NoWordIsNone DEF SysInv
<1>2. ClockEdge /\ World
  BY <1>1, SysEdgeParts
<1>3. PICK finishing \in SUBSET Running : Clock(NoWord, pins.buf0, finishing)
  BY <1>1, SysEdgeParts
<1>4. WholeInv'
  BY <1>1, <1>2, WholeInvStep
<1>5. WorldType'
  BY <1>1, <1>2, WorldTypeStep DEF WorldType
<1>6. since' = SinceNext(NoWord) /\ since \in 1..2
  BY <1>1, <1>3 DEF Clock, Logic, WholeInv, TypeOK
<1>7. since' = 2
  BY <1>6 DEF SinceNext
<1>8. \A p \in Knowledge : Right(p) => Right(p)'
  BY <1>1, <1>2, <1>3, RightStep
<1>9. QED
  BY <1>2, <1>4, <1>5, <1>7, <1>8 DEF GapKept

(* A word sent while calm.                                                 *)
LEMMA WordEdge ==
  ASSUME MinGap = 2, SysInv, NEW v \in Word, SysEdge(v), host' \in [addr : Addr, len : Length],
         NEW p \in Knowledge, Right(p), Calm(p)
  PROVE  /\ MaySend(v) /\ ~Busy /\ WholeInv' /\ WorldType' /\ GapKept' /\ ClockEdge /\ World
         /\ \E finishing \in SUBSET Running : Clock(v, pins.buf0, finishing)
<1>1. WholeInv /\ WorldType /\ v # NoWord
  BY NoWordIsNone DEF SysInv
<1>2. ~Busy /\ ~PendingOp
  BY DEF Right, Calm
<1>3. since = 2
  BY <1>1, <1>2 DEF SysInv, GapKept, WholeInv, TypeOK
<1>4. MaySend(v)
  BY <1>3 DEF MaySend
<1>5. ClockEdge /\ World
  BY <1>1, <1>4, SysEdgeParts
<1>6. PICK finishing \in SUBSET Running : Clock(v, pins.buf0, finishing)
  BY <1>1, <1>4, SysEdgeParts
<1>7. WholeInv' /\ WorldType'
  BY <1>1, <1>5, WholeInvStep, WorldTypeStep
<1>8. GapKept'
  <2>1. since' = SinceNext(v)
    BY <1>6 DEF Clock, Logic
  <2>2. since' = 2 \/ (v.valid /\ v.opcode \in Ops)
    BY <1>3, <2>1 DEF SinceNext
  <2>3. adapter'.valid = v.valid /\ adapter'.opcode = v.opcode
    BY <1>1, <1>5, <1>6, CalmWord
  <2>4. QED
    BY <2>2, <2>3 DEF GapKept, PendingOp
<1>9. QED
  BY <1>2, <1>4, <1>5, <1>6, <1>7, <1>8

(* With an instruction to execute, its triple and those of the rest.       *)
LEMMA NextInstruction ==
  ASSUME NEW p \in Knowledge, Knowing(p), todo # << >>
  PROVE  /\ Head(todo) \in Instructions
         /\ \E k \in Knowledge, q \in Knowledge :
              Takes(Head(todo), p, k) /\ Calm(q) /\ Leads(Tail(todo), k, q)
BY LeadsFirst DEF Knowing


-----------------------------------------------------------------------------
(* The driver's steps keep the invariant.  First those that send no word.  *)

LEMMA QuietKnown ==
  ASSUME MinGap = 2, SysInv, SysEdge(NoWord), host' = host,
         NEW k \in Knowledge, NEW q \in Knowledge, Right(k), Calm(q), Leads(todo', k, q)
  PROVE  SysInv' /\ ClockEdge
<1>1. WholeInv' /\ WorldType' /\ GapKept' /\ Right(k)' /\ ClockEdge
  BY QuietEdge
<1>2. Known'
  BY <1>1 DEF Known, Knowing
<1>3. QED
  BY <1>1, <1>2 DEF SysInv

LEMMA PollStep ==
  ASSUME MinGap = 2, SysInv, DriverPoll
  PROVE  SysInv' /\ ClockEdge
<1> DEFINE x == Head(todo)
<1>1. todo # << >> /\ x.do = "poll" /\ SysEdge(NoWord) /\ host' = host
      /\ todo' = IF adapter.busy = x.busy THEN Tail(todo) ELSE todo
  BY DEF DriverPoll, Doing
<1>2. PICK p \in Knowledge : Knowing(p)
  BY DEF SysInv, Known
<1>3. Right(p)
  BY <1>2 DEF Knowing
<1>4. CASE adapter.busy = x.busy
  <2>1. x \in Instructions /\ \E k \in Knowledge, q \in Knowledge :
          Takes(x, p, k) /\ Calm(q) /\ Leads(Tail(todo), k, q)
    BY <1>1, <1>2, NextInstruction
  <2>2. PICK k \in Knowledge, q \in Knowledge :
          Takes(x, p, k) /\ Calm(q) /\ Leads(Tail(todo), k, q)
    BY <2>1
  <2> HIDE DEF x
  <2>3. TakesPoll(x, p, k)
    BY <1>1, <2>2 DEF Takes, TakesOperand, TakesSetup, TakesOperation, TakesSleep, TakesCheck,
      TakesVerdict, TakesRest
  <2>4. x.busy \in BOOLEAN
    BY <1>1, <2>1 DEF Instructions
  <2>5. Right(k)
    <3>1. CASE x.busy
      BY <1>3, <1>4, <2>3, <3>1, SeenRight DEF TakesPoll
    <3>2. CASE ~x.busy
      <4>1. p.at = "seen" /\ k = Ended(p)
        BY <2>3, <3>2 DEF TakesPoll
      <4>2. ~PendingOp /\ ~Busy
        BY <1>3, <1>4, <3>2, <4>1 DEF Right
      <4>3. QED
        BY <1>3, <4>1, <4>2, EndedRight
    <3>3. QED
      BY <3>1, <3>2
  <2>6. todo' = Tail(todo)
    BY <1>1, <1>4
  <2>7. QED
    BY <1>1, <2>2, <2>5, <2>6, QuietKnown
<1>5. CASE adapter.busy # x.busy
  BY <1>1, <1>2, <1>3, <1>5, QuietKnown DEF Knowing
<1>6. QED
  BY <1>4, <1>5

LEMMA SleepStep ==
  ASSUME MinGap = 2, SysInv, DriverSleep
  PROVE  SysInv' /\ ClockEdge
<1> DEFINE x == Head(todo)
<1>1. todo # << >> /\ x.do = "sleep" /\ SysEdge(NoWord) /\ host' = host
      /\ todo' = Tail(todo) /\ ~PendingOp /\ ~Busy
  BY DEF DriverSleep, Doing
<1>2. PICK p \in Knowledge : Knowing(p)
  BY DEF SysInv, Known
<1>3. PICK k \in Knowledge, q \in Knowledge :
        Takes(x, p, k) /\ Calm(q) /\ Leads(Tail(todo), k, q)
  BY <1>1, <1>2, NextInstruction
<1> HIDE DEF x
<1>4. TakesSleep(x, p, k)
  BY <1>1, <1>3 DEF Takes, TakesOperand, TakesSetup, TakesOperation, TakesPoll, TakesCheck,
    TakesVerdict, TakesRest
<1>5. Right(k)
  BY <1>1, <1>2, <1>4, EndedRight DEF TakesSleep, Knowing
<1>6. QED
  BY <1>1, <1>3, <1>5, QuietKnown

(* Asking again brings the firmware back to where it asked.                *)
LEMMA AsksAgain ==
  ASSUME NEW w \in Way, NEW p \in Knowledge, Calm(p), p.op = "none",
         p.addr = WayAddr[w], p.way = {w}, p.told = {w}
  PROVE  Leads(readstatus_70h(w), p, p)
<1> DEFINE x == SetAddr(WayAddr[w])
           y == Cmd("SelectWay", 0)
           z == Cmd("ReadStatus", 0)
           k == Issued(p, "ReadStatus")
<1>1. x \in Instructions /\ y \in Instructions /\ z \in Instructions /\ Usleep \in Instructions
  BY InstructionTypes DEF Setups, Ops, Target
<1>2. TakesOperand(x, p, p)
  <2>1. p = [p EXCEPT !.addr = WayAddr[w]]
    BY DEF Knowledge
  <2>2. QED
    BY <2>1 DEF TakesOperand, SetAddr
<1>3. TakesSetup(y, p, p)
  <2>1. WaysOf[p.addr] = {w}
    OBVIOUS
  <2>2. p = [p EXCEPT !.way = WaysOf[p.addr]]
    BY <2>1 DEF Knowledge
  <2>3. QED
    BY <2>2 DEF TakesSetup, Cmd, Setups
<1>4. TakesOperation(z, p, k)
  BY DEF TakesOperation, Cmd, DriverOps, Ops
<1>5. /\ k \in Knowledge /\ k.at = "issued" /\ k.op = "ReadStatus" /\ k.addr = p.addr
      /\ k.way = p.way /\ k.rested = p.rested
  BY DEF Issued, Knowledge, Ops
<1> HIDE DEF k
<1>6. Ended(k) = p
  <2> DEFINE e == Ended(k)
  <2>1. /\ e.at = "calm" /\ e.op = "none" /\ e.rested = p.rested /\ e.told = {w}
        /\ e.addr = p.addr /\ e.way = p.way /\ e \in Knowledge
    BY <1>5 DEF Ended, Returning, Knowledge
  <2> HIDE DEF e
  <2>2. e = p
    BY <2>1 DEF Knowledge, Calm
  <2>3. QED
    BY <2>2 DEF e
<1>7. TakesSleep(Usleep, k, p)
  BY <1>5, <1>6 DEF TakesSleep, Usleep
<1> HIDE DEF x, y, z
<1>8. Leads(<<x>>, p, p) /\ Leads(<<y>>, p, p)
  BY <1>1, <1>2, <1>3, LeadsOne DEF Takes
<1>9. Leads(<<z>>, p, k) /\ Leads(<<Usleep>>, k, p)
  BY <1>1, <1>4, <1>5, <1>7, LeadsOne DEF Takes
<1>10. Leads(<<x>> \o <<y>>, p, p) /\ Leads(<<z>> \o <<Usleep>>, p, p)
  BY <1>8, <1>9, LeadsOn
<1>11. <<x, y>> = <<x>> \o <<y>> /\ <<z, Usleep>> = <<z>> \o <<Usleep>>
  BY StepsApart
<1>12. Leads(<<x, y>> \o <<z, Usleep>>, p, p)
  BY <1>10, <1>11, LeadsOn
<1>13. QED
  BY <1>12 DEF readstatus_70h, select_way, x, y, z

LEMMA CheckStep ==
  ASSUME MinGap = 2, SysInv, DriverCheck
  PROVE  SysInv' /\ ClockEdge
<1> DEFINE x == Head(todo)
<1>1. todo # << >> /\ x.do = "check" /\ SysEdge(NoWord) /\ host' = host
      /\ todo' = IF status.ready THEN Tail(todo) ELSE readstatus_70h(x.way) \o todo
  BY DEF DriverCheck, Doing
<1>2. PICK p \in Knowledge : Knowing(p)
  BY DEF SysInv, Known
<1>3. PICK q \in Knowledge : Right(p) /\ Calm(q) /\ Leads(todo, p, q)
  BY <1>2 DEF Knowing
<1>4. x \in Instructions /\ \E k \in Knowledge, r \in Knowledge :
        Takes(x, p, k) /\ Calm(r) /\ Leads(Tail(todo), k, r)
  BY <1>1, <1>2, NextInstruction
<1>5. PICK k \in Knowledge, r \in Knowledge :
        Takes(x, p, k) /\ Calm(r) /\ Leads(Tail(todo), k, r)
  BY <1>4
<1> HIDE DEF x
<1>6. TakesCheck(x, p, k)
  BY <1>1, <1>5 DEF Takes, TakesOperand, TakesSetup, TakesOperation, TakesPoll, TakesSleep,
    TakesVerdict, TakesRest
<1>7. x.way \in Way
  BY <1>1, <1>4 DEF Instructions
<1>8. CASE status.ready
  <2>1. Right(k)
    BY <1>3, <1>6, <1>7, <1>8, CheckedRight DEF TakesCheck
  <2>2. QED
    BY <1>1, <1>5, <1>8, <2>1, QuietKnown
<1>9. CASE ~status.ready
  <2>1. Leads(readstatus_70h(x.way), p, p)
    BY <1>6, <1>7, AsksAgain DEF TakesCheck
  <2>2. Leads(todo', p, q)
    BY <1>1, <1>3, <1>9, <2>1, LeadsOn
  <2>3. QED
    BY <1>1, <1>3, <2>2, QuietKnown
<1>10. QED
  BY <1>8, <1>9

LEMMA VerdictAndRestStep ==
  ASSUME MinGap = 2, SysInv, DriverVerdict \/ DriverRest
  PROVE  SysInv' /\ ClockEdge
<1> DEFINE x == Head(todo)
<1>1. todo # << >> /\ x.do \in {"verdict", "rest"} /\ SysEdge(NoWord) /\ host' = host
      /\ todo' = Tail(todo) /\ (x.do = "rest" => Rested(x.way))
  BY DEF DriverVerdict, DriverRest, Doing, Rested
<1>2. PICK p \in Knowledge : Knowing(p)
  BY DEF SysInv, Known
<1>3. x \in Instructions /\ \E k \in Knowledge, q \in Knowledge :
        Takes(x, p, k) /\ Calm(q) /\ Leads(Tail(todo), k, q)
  BY <1>1, <1>2, NextInstruction
<1>4. PICK k \in Knowledge, q \in Knowledge :
        Takes(x, p, k) /\ Calm(q) /\ Leads(Tail(todo), k, q)
  BY <1>3
<1> HIDE DEF x
<1>5. IF x.do = "verdict" THEN TakesVerdict(x, p, k) ELSE TakesRest(x, p, k)
  BY <1>1, <1>4 DEF Takes, TakesOperand, TakesSetup, TakesOperation, TakesPoll, TakesSleep,
    TakesCheck, TakesVerdict, TakesRest
<1>6. x.way \in Way
  BY <1>1, <1>3 DEF Instructions
<1>7. Right(k)
  <2>1. CASE x.do = "verdict"
    BY <1>2, <1>5, <2>1 DEF TakesVerdict, Knowing
  <2>2. CASE x.do = "rest"
    BY <1>1, <1>2, <1>5, <1>6, <2>2, WaitedRight DEF TakesRest, Knowing
  <2>3. QED
    BY <1>1, <2>1, <2>2
<1>8. QED
  BY <1>1, <1>4, <1>7, QuietKnown

LEMMA BetweenStep ==
  ASSUME MinGap = 2, SysInv, Between
  PROVE  SysInv' /\ ClockEdge
<1>1. SysEdge(NoWord) /\ host' = host /\ todo' = todo
  BY DEF Between
<1>2. PICK p \in Knowledge : Knowing(p)
  BY DEF SysInv, Known
<1>3. QED
  BY <1>1, <1>2, QuietKnown DEF Knowing


(* Then those that send one.                                               *)
LEMMA OperandStep ==
  ASSUME MinGap = 2, SysInv, DriverOperand
  PROVE  SysInv' /\ ClockEdge
<1> DEFINE x == Head(todo)
           v == [RegisterWord EXCEPT !.addr = host'.addr, !.len = host'.len]
<1>1. /\ todo # << >> /\ x.do \in {"addr", "len", "dma"} /\ SysEdge(v) /\ todo' = Tail(todo)
      /\ host' = IF x.do = "addr" THEN [host EXCEPT !.addr = x.addr]
                 ELSE IF x.do = "len" THEN [host EXCEPT !.len = x.len] ELSE host
  BY DEF DriverOperand, Doing
<1>2. PICK p \in Knowledge : Knowing(p)
  BY DEF SysInv, Known
<1>3. x \in Instructions /\ \E k \in Knowledge, q \in Knowledge :
        Takes(x, p, k) /\ Calm(q) /\ Leads(Tail(todo), k, q)
  BY <1>1, <1>2, NextInstruction
<1>4. PICK k \in Knowledge, q \in Knowledge :
        Takes(x, p, k) /\ Calm(q) /\ Leads(Tail(todo), k, q)
  BY <1>3
<1> HIDE DEF x
<1>5. TakesOperand(x, p, k)
  BY <1>1, <1>4 DEF Takes, TakesSetup, TakesOperation, TakesPoll, TakesSleep,
    TakesCheck, TakesVerdict, TakesRest
<1>6. Right(p) /\ Calm(p)
  BY <1>2, <1>5 DEF Knowing, TakesOperand
<1>7. host \in [addr : Addr, len : Length] /\ host.addr = p.addr
  BY <1>6 DEF SysInv, WorldType, Right
<1>8. x.do = "addr" => x.addr \in Addr
  BY <1>3 DEF Instructions
<1>9. x.do = "len" => x.len \in Length
  BY <1>3 DEF Instructions
<1>10. host' \in [addr : Addr, len : Length]
  BY <1>1, <1>7, <1>8, <1>9
<1>11. host'.addr = k.addr /\ k.at = p.at /\ k.way = p.way /\ k.rested = p.rested /\ k.told = p.told
  BY <1>1, <1>5, <1>7 DEF TakesOperand, Knowledge
<1>12. v \in Word /\ ~v.valid
  <2>1. host'.addr \in Addr /\ host'.len \in Length /\ host.addr \in Addr /\ host.len \in Length
    BY <1>7, <1>10
  <2>2. RegisterWord \in Word /\ RegisterWord.valid = FALSE
    BY <2>1 DEF RegisterWord, Word, Opcodes, Target
  <2> HIDE DEF RegisterWord
  <2>3. v \in Word
    BY <2>1, <2>2 DEF Word
  <2>4. v.valid = RegisterWord.valid
    BY <2>2 DEF Word
  <2>5. QED
    BY <2>2, <2>3, <2>4
<1> HIDE DEF v
<1>13. /\ WholeInv' /\ WorldType' /\ GapKept' /\ World /\ ClockEdge
       /\ \E finishing \in SUBSET Running : Clock(v, pins.buf0, finishing)
  BY <1>1, <1>6, <1>10, <1>12, WordEdge
<1>14. Right(k)'
  BY <1>6, <1>11, <1>12, <1>13, OperandRight DEF SysInv
<1>15. Known'
  BY <1>1, <1>4, <1>14 DEF Known, Knowing
<1>16. QED
  BY <1>13, <1>15 DEF SysInv

LEMMA CommandIsWord ==
  ASSUME WorldType, Doing("cmd"), Head(todo) \in Instructions
  PROVE  /\ CommandWord \in Word /\ CommandWord.valid /\ CommandWord.opcode = Head(todo).opcode
         /\ CommandWord.addr = host.addr
<1> DEFINE x == Head(todo)
<1>1. x.do = "cmd" /\ x \in Instructions
  BY DEF Doing
<1> HIDE DEF x
<1>2. x.opcode \in Ops \cup Setups /\ x.target \in Target
  BY <1>1 DEF Instructions
<1>3. host \in [addr : Addr, len : Length]
  BY DEF WorldType
<1>4. QED
  BY <1>2, <1>3 DEF CommandWord, RegisterWord, Word, Opcodes, x

LEMMA CommandStep ==
  ASSUME MinGap = 2, SysInv, DriverCommand
  PROVE  SysInv' /\ ClockEdge
<1> DEFINE x == Head(todo)
           v == CommandWord
<1>1. todo # << >> /\ x.do = "cmd" /\ SysEdge(v) /\ todo' = Tail(todo) /\ host' = host
      /\ Doing("cmd")
  BY DEF DriverCommand, Doing
<1>2. PICK p \in Knowledge : Knowing(p)
  BY DEF SysInv, Known
<1>3. x \in Instructions /\ \E k \in Knowledge, q \in Knowledge :
        Takes(x, p, k) /\ Calm(q) /\ Leads(Tail(todo), k, q)
  BY <1>1, <1>2, NextInstruction
<1>4. PICK k \in Knowledge, q \in Knowledge :
        Takes(x, p, k) /\ Calm(q) /\ Leads(Tail(todo), k, q)
  BY <1>3
<1>5. v \in Word /\ v.valid /\ v.opcode = x.opcode /\ v.addr = host.addr
  BY <1>1, <1>3, CommandIsWord DEF SysInv
<1> HIDE DEF x, v
<1>6. TakesSetup(x, p, k) \/ TakesOperation(x, p, k)
  BY <1>1, <1>4 DEF Takes, TakesOperand, TakesPoll, TakesSleep,
    TakesCheck, TakesVerdict, TakesRest
<1>7. Right(p) /\ Calm(p)
  BY <1>2, <1>6 DEF Knowing, TakesSetup, TakesOperation
<1>8. host' \in [addr : Addr, len : Length] /\ WholeInv /\ WorldType
  BY <1>1 DEF SysInv, WorldType
<1>9. /\ WholeInv' /\ WorldType' /\ GapKept' /\ World /\ ClockEdge
  BY <1>1, <1>5, <1>7, <1>8, WordEdge
<1>10. PICK finishing \in SUBSET Running : Clock(v, pins.buf0, finishing)
  BY <1>1, <1>5, <1>7, <1>8, WordEdge
<1>11. Right(k)'
  <2>1. CASE TakesSetup(x, p, k)
    <3>1. /\ k.addr = p.addr /\ k.at = p.at /\ k.rested = p.rested /\ k.told = p.told
          /\ k.way = (IF x.opcode = "SelectWay" THEN WaysOf[p.addr] ELSE p.way)
          /\ x.opcode \in Setups
      BY <2>1 DEF TakesSetup, Knowledge
    <3>2. QED
      BY <1>1, <1>5, <1>7, <1>8, <1>9, <1>10, <3>1, SetupRight
  <2>2. CASE TakesOperation(x, p, k)
    <3>1. PICK w \in Way : p.way = {w} /\ (x.opcode = "ReadStatus" \/ w \in p.rested)
      BY <2>2 DEF TakesOperation
    <3>2. x.opcode \in DriverOps /\ k = Issued(p, x.opcode)
      BY <2>2 DEF TakesOperation
    <3>3. QED
      BY <1>1, <1>5, <1>7, <1>8, <1>9, <1>10, <3>1, <3>2, OperationRight
  <2>3. QED
    BY <1>6, <2>1, <2>2
<1>12. Known'
  BY <1>1, <1>4, <1>11 DEF Known, Knowing
<1>13. QED
  BY <1>9, <1>12 DEF SysInv

(* With nothing left to do the firmware may serve any request.             *)
LEMMA RequestStep ==
  ASSUME MinGap = 2, SysInv, FirmwareRequest
  PROVE  SysInv' /\ ClockEdge
<1>1. todo = << >> /\ SysEdge(NoWord) /\ host' = host
  BY DEF FirmwareRequest
<1>2. PICK r \in Requests, w \in Way : (r \in SelfTests => AtRest) /\ todo' = Serve(r, w)
  BY DEF FirmwareRequest
<1>3. PICK p \in Knowledge, q \in Knowledge : Right(p) /\ Calm(q) /\ Leads(todo, p, q)
  BY DEF SysInv, Known, Knowing
<1>4. Calm(p)
  BY <1>1, <1>3, LeadsNothingLeft
<1> DEFINE k == [p EXCEPT !.op = "none", !.told = {},
                          !.rested = IF r \in SelfTests THEN Way ELSE {}]
<1>5. /\ k \in Knowledge /\ k.at = "calm" /\ k.op = "none" /\ k.addr = p.addr /\ k.way = p.way
      /\ k.told = {} /\ k.rested = (IF r \in SelfTests THEN Way ELSE {})
  BY <1>4 DEF Knowledge, Calm
<1> HIDE DEF k
<1>6. Right(k)
  BY <1>2, <1>3, <1>4, <1>5 DEF Right, Calm, AtRest, Rested
<1>7. \E z \in Resting({}) : Leads(todo', k, z)
  <2>1. CASE r \in SelfTests
    <3>1. k \in Resting(Way)
      BY <1>5, <2>1 DEF Resting, Calm
    <3>2. QED
      BY <1>2, <2>1, <3>1, ServesTests DEF Does
  <2>2. CASE r \notin SelfTests
    <3>1. k \in Resting({}) /\ r \in RequestKinds \ SelfTests
      BY <1>5, <2>2 DEF Resting, Calm
    <3>2. QED
      BY <1>2, <3>1, ServesAsked DEF Does
  <2>3. QED
    BY <2>1, <2>2
<1>8. PICK z \in Knowledge : Calm(z) /\ Leads(todo', k, z)
  BY <1>7 DEF Resting
<1>9. QED
  BY <1>1, <1>5, <1>6, <1>8, QuietKnown


-----------------------------------------------------------------------------
(* The inductive invariant of the closed system.                           *)

LEMMA SysInvInit ==
  ASSUME MinGap = 2, SysInit
  PROVE  SysInv
<1>1. Init /\ WholeInv
  BY WholeInvInit DEF SysInit
<1>2. WorldType
  BY WaysAssumption, LengthAssumption DEF SysInit, WorldType
<1>3. GapKept
  BY <1>1 DEF Init, GapKept
<1> DEFINE p == [at |-> "calm", op |-> "none", addr |-> Addr0, way |-> {}, rested |-> Way,
                 told |-> {}]
<1>4. p \in Knowledge /\ Calm(p) /\ p \in Resting(Way)
  BY WaysAssumption DEF Knowledge, Calm, Resting
<1>5. Right(p)
  <2>1. RegsNext.way = {}
    BY <1>1 DEF Init, RegsNext, Start
  <2>2. host.addr = Addr0 /\ \A w \in Way : Rested(w)
    BY DEF SysInit, Rested
  <2>3. ~PendingOp /\ ~Busy
    BY <1>1 DEF Init, PendingOp, Busy, Active
  <2>4. QED
    BY <2>1, <2>2, <2>3 DEF Right
<1> HIDE DEF p
<1>6. \E q \in Resting(Way) : Leads(Startup, p, q)
  BY <1>4, DoesStartup DEF Does
<1>7. todo = Startup
  BY DEF SysInit
<1>8. Known
  BY <1>4, <1>5, <1>6, <1>7 DEF Known, Knowing, Resting
<1>9. QED
  BY <1>1, <1>2, <1>3, <1>8 DEF SysInv

LEMMA SysInvNext ==
  ASSUME MinGap = 2, SysInv, SysNext
  PROVE  SysInv' /\ ClockEdge
<1>1. CASE DriverStep
  BY <1>1, OperandStep, CommandStep, PollStep, SleepStep, CheckStep, VerdictAndRestStep
     DEF DriverStep
<1>2. CASE FirmwareRequest
  BY <1>2, RequestStep
<1>3. CASE Between
  BY <1>3, BetweenStep
<1>4. QED
  BY <1>1, <1>2, <1>3 DEF SysNext

(* A step that changes nothing.                                            *)
LEMMA SysInvStutter ==
  ASSUME SysInv, UNCHANGED sysvars
  PROVE  SysInv'
<1>1. UNCHANGED <<adapter, regs, fsm, rbp, atom, bus, since, host, todo, status, chip, pins>>
      /\ UNCHANGED vars
  BY DEF sysvars, vars
<1>2. WholeInv'
  BY <1>1, WholeInvStep DEF SysInv
<1>3. WorldType'
  BY <1>1 DEF SysInv, WorldType
<1>4. GapKept'
  BY <1>1 DEF SysInv, GapKept, PendingOp
<1>5. PendingOp' = PendingOp /\ Busy' = Busy /\ RegsNext' = RegsNext
      /\ \A w : Rested(w)' = Rested(w)
  BY <1>1 DEF PendingOp, Busy, Active, RegsNext, Start, Rested
<1>6. \A W, rested : Told(W, rested)' = Told(W, rested)
  BY <1>1 DEF Told, Rested
<1>7. \A o, w, rested : AtWork(o, w, rested)' = AtWork(o, w, rested)
  BY <1>1 DEF AtWork, Underway, Working, Active, Confirmed, After, Before, Filled, Fell, Rose,
    LastStep, Told, Rested, ReadParam
<1>8. \A p : InFlight(p)' = InFlight(p)
  BY <1>1, <1>5, <1>6, <1>7 DEF InFlight
<1>9. \A p : Right(p)' = Right(p)
  BY <1>1, <1>5, <1>6, <1>8 DEF Right
<1>10. Known'
  BY <1>1, <1>9 DEF SysInv, Known, Knowing
<1>11. QED
  BY <1>2, <1>3, <1>4, <1>10 DEF SysInv

LEMMA SysInvariant ==
  ASSUME MinGap = 2
  PROVE  SysSpec => []SysInv
<1>1. SysInit => SysInv
  BY SysInvInit
<1>2. SysInv /\ [SysNext]_sysvars => SysInv'
  BY SysInvNext, SysInvStutter
<1>3. QED
  BY <1>1, <1>2, PTL DEF SysSpec


-----------------------------------------------------------------------------
(* A command word of the driver never meets a busy controller, and keeps   *)
(* the gap the controller asks of its host: polling the busy bit up and    *)
(* then down after an operation (NFC.c) is enough for both.                *)
THEOREM DriverNeverRefused ==
  ASSUME MinGap = 2
  PROVE  SysSpec => []NeverRefused
<1>1. ASSUME SysInv PROVE NeverRefused
  <2>1. SUFFICES ASSUME Doing("cmd") PROVE MaySend(CommandWord) /\ ~Busy
    BY DEF NeverRefused
  <2>2. PICK p \in Knowledge : Knowing(p)
    BY <1>1 DEF SysInv, Known
  <2>3. \E k \in Knowledge : Takes(Head(todo), p, k)
    BY <2>1, <2>2, NextInstruction DEF Doing
  <2>4. Calm(p)
    BY <2>1, <2>3 DEF Doing, Takes, TakesOperand, TakesSetup, TakesOperation, TakesPoll,
      TakesSleep, TakesCheck, TakesVerdict, TakesRest
  <2>5. ~Busy /\ ~PendingOp
    BY <2>2, <2>4 DEF Knowing, Right, Calm
  <2>6. since = 2
    BY <1>1, <2>5 DEF SysInv, GapKept, WholeInv, TypeOK
  <2>7. QED
    BY <2>5, <2>6 DEF MaySend
<1>2. QED
  BY <1>1, SysInvariant, PTL

(* While a chip works on its array nothing but a status read or a reset is *)
(* put on its bus, although the program and erase machines are done before *)
(* the chip is, and the others see R/B through a pipeline three deep.      *)
THEOREM ChipsAtWorkLeftAlone ==
  ASSUME MinGap = 2
  PROVE  SysSpec => []BusyChipLeftAlone
<1>1. ASSUME SysInv PROVE BusyChipLeftAlone
  <2>1. SUFFICES ASSUME NEW k \in Kinds, atom[k].st = "RUN",
                        Owner \notin {"Reset", "ReadStatus"}, NEW v \in atom[k].way
                 PROVE  chip[v].st = "ready"
    BY DEF BusyChipLeftAlone
  <2>2. WholeInv /\ Handshake /\ AtomsCarry /\ Exclusion /\ OneOperation
    BY <1>1 DEF SysInv, WholeInv, RefInv, Exclusion
  <2>3. MuxAsk.cmd = k /\ atom[k].way = MuxWay
    BY <2>1, <2>2 DEF Handshake, AtomFollowsOwner, AtomsCarry
  <2>4. Owner # "Idle"
    BY <2>3 DEF MuxAsk, AskNothing, Ask, Kinds
  <2> DEFINE o == Owner
  <2>5. o \in Ops /\ Active(o) /\ AskOf(o).cmd = k /\ atom[k].way = fsm[o].way
    BY <2>3, <2>4 DEF Owner, MuxAsk, MuxWay, Ops
  <2> HIDE DEF o
  <2>6. PICK p \in Knowledge : Right(p)
    BY <1>1 DEF SysInv, Known, Knowing
  <2>7. Busy /\ ~PendingOp
    BY <2>2, <2>5 DEF Busy, Exclusion, PendingOp, Active
  <2>8. p.op \in DriverOps /\ InFlight(p)
    BY <2>6, <2>7 DEF Right
  <2>9. PICK w \in Way : AtWork(p.op, w, p.rested)
    BY <2>7, <2>8 DEF InFlight
  <2>10. p.op = o
    <3>1. Underway(o) /\ Underway(p.op) /\ p.op \in Ops
      BY <2>5, <2>8, <2>9 DEF AtWork, Underway, Active, DriverOps
    <3>2. QED
      BY <2>2, <2>5, <3>1 DEF OneOperation
  <2>11. Working(o) /\ o \notin {"Reset", "ReadStatus"}
    <3>1. ~(o = "EraseBlock" /\ fsm[o].st = "WaitRBLow")
      BY <2>5 DEF AskOf, EraseBlockAsk, AskNothing, Ask, Kinds
    <3>2. QED
      BY <2>1, <2>5, <3>1 DEF Working, o
  <2>12. v = w
    BY <2>1, <2>5, <2>9, <2>10, <2>11 DEF AtWork
  <2>13. Rested(w)
    <3>1. CASE ~Confirmed(o)
      BY <2>9, <2>10, <2>11, <3>1 DEF AtWork, Before
    <3>2. CASE Confirmed(o)
      <4>1. o = "ReadPage" /\ fsm[o].st = "DATAIssue"
        BY <2>5, <2>8, <2>10, <2>11, <3>2 DEF Confirmed, AskOf, SetFeatureAsk, ProgramPageAsk,
          ReadPageAsk, EraseBlockAsk, AskNothing, Ask, Kinds, DriverOps, Ops
      <4>2. QED
        BY <2>9, <2>10, <2>11, <3>2, <4>1 DEF AtWork, After, Returning
    <3>3. QED
      BY <3>1, <3>2
  <2>14. QED
    BY <2>12, <2>13 DEF Rested
<1>2. QED
  BY <1>1, SysInvariant, PTL

(* A status the firmware acts on, and the verdict it sends the host on an  *)
(* erase, is the status of the chip it asked about, and that chip is ready *)
(* at the moment the firmware acts.                                        *)
THEOREM StatusIsTrue ==
  ASSUME MinGap = 2
  PROVE  SysSpec => []StatusTellsTruth
<1>1. ASSUME SysInv PROVE StatusTellsTruth
  <2> DEFINE x == Head(todo)
  <2>1. SUFFICES ASSUME (Doing("check") /\ status.ready) \/ Doing("verdict")
                 PROVE  status.ready /\ status.way = {x.way} /\ chip[x.way].st = "ready"
    BY DEF StatusTellsTruth
  <2>2. todo # << >> /\ x.do \in {"check", "verdict"} /\ (x.do = "check" => status.ready)
    BY <2>1 DEF Doing
  <2>3. PICK p \in Knowledge : Knowing(p)
    BY <1>1 DEF SysInv, Known
  <2>4. PICK k \in Knowledge : Takes(x, p, k)
    BY <2>2, <2>3, NextInstruction
  <2> HIDE DEF x
  <2>5. TakesCheck(x, p, k) \/ TakesVerdict(x, p, k)
    BY <2>2, <2>4 DEF Takes, TakesOperand, TakesSetup, TakesOperation, TakesPoll, TakesSleep,
      TakesRest
  <2>6. p.told = {x.way} /\ (x.do = "verdict" => x.way \in p.rested)
    BY <2>2, <2>5 DEF TakesCheck, TakesVerdict
  <2>7. Told({x.way}, p.rested)
    BY <2>3, <2>6 DEF Knowing, Right
  <2>8. status.ready
    BY <2>2, <2>6, <2>7 DEF Told
  <2>9. QED
    BY <2>7, <2>8 DEF Told, Rested, x
<1>2. QED
  BY <1>1, SysInvariant, PTL

(* Run by the driver, whatever the chips and the processor's pace, the     *)
(* controller performs one operation after another, each by its own bus    *)
(* sequence: here no hypothesis on the host's words is left.               *)
THEOREM ClosedSystemIsSequencer ==
  ASSUME MinGap = 2
  PROVE  SysSpec => ImplementsSequencer
<1>1. ASSUME SysInv, SysInv', [SysNext]_sysvars
      PROVE  [Sequencer!Next]_<<JobNow, bus>>
  <2>1. [ClockEdge]_vars
    BY <1>1, SysInvNext DEF sysvars
  <2>2. QED
    BY <1>1, <2>1, SequencerStep DEF SysInv
<1>2. SysInit => Sequencer!Init
  BY SequencerInit DEF SysInit
<1>3. QED
  BY <1>1, <1>2, SysInvariant, PTL DEF SysSpec, ImplementsSequencer, Sequencer!Spec
=============================================================================
