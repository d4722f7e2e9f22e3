-------------------------- MODULE RegisterPathProofs --------------------------
(***************************************************************************)
(* Proofs about RegisterPath for every depth of the FIFOs, every two       *)
(* clocks whose periods PeriodAssumption relates, and every set of operand *)
(* values.                                                                 *)
(***************************************************************************)
EXTENDS RegisterPath, SequenceTheorems, TLAPS

USE FifoAssumption, PeriodAssumption, DepthAssumption

(***************************************************************************)
(* Types.                                                                  *)
(***************************************************************************)
Opcode == Ops \cup Setups
RegWord == [cmd : Opcode, addr : Values, len : Values, valid : BOOLEAN]
StatusWord == [busy : BOOLEAN, pulse : Ops \cup {"none"}]
Fifo(Word) ==
  [q : Seq(Word), seen1 : Nat, seen2 : Nat, freed1 : Nat, freed2 : Nat,
   mdata : Word, mvalid : BOOLEAN, out : Word, valid : BOOLEAN]
Registers ==
  [cmd : Opcode, addr : Values, len : Values, ReadPage : Values, ProgramPage : Values,
   axilValid : BOOLEAN, commandValid : BOOLEAN]
Axil ==
  [w : BOOLEAN, ar : BOOLEAN, awready : BOOLEAN, bvalid : BOOLEAN,
   arready : BOOLEAN, rvalid : BOOLEAN, rdata : BOOLEAN]

RegisterWrite ==
  [is : {"write"}, reg : {"cmd"}, val : Opcode, x : Values]
    \cup [is : {"write"}, reg : {"addr", "len"} \cup Ops, val : Values, x : Values]
StatusPoll == [is : {"poll"}, busy : BOOLEAN]

Types ==
  /\ todo \in Seq(RegisterWrite \cup StatusPoll) /\ due \in Seq(RegisterWrite)
  /\ axil \in Axil
  /\ regs \in Registers
  /\ axil_sys \in Fifo(RegWord) /\ sys_axil \in Fifo(StatusWord)
  /\ FifoTypeOK(axil_sys) /\ FifoTypeOK(sys_axil)
  /\ adapter \in [op : Opcode \cup {"none"}, fail : BOOLEAN, busy : BOOLEAN]
  /\ machine \in [st : {"ready", "latch", "wait", "data"}, op : Ops, pulse : Ops \cup {"none"}]
  /\ engine \in [Ops -> {"ready", "start", "run"}] /\ stream \in SUBSET Ops
  /\ skew \in Int /\ -SysPeriod <= skew /\ skew <= AxiPeriod

(***************************************************************************)
(* Time.                                                                   *)
(***************************************************************************)
\* The earliest write into the crossing, seen from the next system edge.
NextWrite == skew + (IF regs.axilValid THEN 0 ELSE AxiPeriod)

RegisterPace ==
  LET n == Len(axil_sys.q) IN
  /\ (n - axil_sys.seen1) * SysPeriod <= NextWrite + SysPeriod
  /\ (n - axil_sys.seen2) * SysPeriod <= NextWrite + 2 * SysPeriod
  /\ n * SysPeriod <= NextWrite + 3 * SysPeriod
  /\ axil_sys.freed1 * SysPeriod <= AxiPeriod - skew
  /\ axil_sys.freed2 * SysPeriod <= 2 * AxiPeriod - skew

StatusPace ==
  LET n == Len(sys_axil.q) IN
  /\ (n - sys_axil.seen1) * SysPeriod <= AxiPeriod - skew
  /\ (n - sys_axil.seen2) * SysPeriod <= 2 * AxiPeriod - skew
  /\ n * SysPeriod <= 3 * AxiPeriod - skew
  /\ sys_axil.freed1 * AxiPeriod <= SysPeriod + skew
  /\ sys_axil.freed2 * AxiPeriod <= 2 * SysPeriod + skew

StatusFlow ==
  LET n == Len(sys_axil.q) IN
  /\ n = sys_axil.seen1 => skew >= AxiPeriod - SysPeriod
  /\ n = sys_axil.seen2 /\ n > 0 => skew >= 2 * AxiPeriod - SysPeriod
  /\ sys_axil.mvalid /\ n = 0 => skew >= 3 * AxiPeriod - SysPeriod
  /\ ~sys_axil.mvalid /\ sys_axil.valid => sys_axil.seen1 > 0
  /\ ~sys_axil.mvalid /\ ~sys_axil.valid /\ sys_axil.seen2 = 0 => sys_axil.mdata.pulse = "none"

(***************************************************************************)
(* The driver's call.                                                      *)
(***************************************************************************)
Script(op, x) ==
  <<Operand("addr", x), Cmd("SelectWay", x), Operand("addr", x), Cmd("SetColumn", x),
    Operand("addr", x), Cmd("SetRow", x), Operand("len", x), Operand(op, x), Cmd(op, x),
    Poll(TRUE), Poll(FALSE)>>

Step == 11 - Len(todo)                                   \* steps of the call done
Rest(op, x) ==
  Step \in 0..11 /\ \A i \in 1..Len(todo) : todo[i] = Script(op, x)[Step + i]

Channel ==
  /\ axil.w => Doing("write", todo)
  /\ axil.awready => axil.w
  /\ regs.axilValid <=> axil.awready
  /\ ~regs.axilValid => ~regs.commandValid
  /\ axil.awready =>
       /\ regs[Head(todo).reg] = Head(todo).val
       /\ regs.commandValid <=> Head(todo).reg = "cmd"
  /\ axil.ar => Doing("poll", todo)
  /\ axil.rvalid => Doing("poll", todo)
  /\ axil.rvalid /\ axil.ar => axil.arready
  /\ axil.arready => axil.rvalid

\* Write i of the call is in its register.
Latched(i) == Step >= i \/ (Step = i - 1 /\ axil.awready)
OperandsSet(op, x) ==
  /\ Latched(1) => regs.addr = x
  /\ Latched(7) => regs.len = x
  /\ Latched(8) => regs[op] = x

(***************************************************************************)
(* The words under way to the adapter.                                     *)
(***************************************************************************)
Carries(word, write) ==
  /\ word.valid <=> write.reg = "cmd"
  /\ write.reg \in {"cmd", "addr", "len"} => word[write.reg] = write.val
  /\ write.reg = "cmd" => word.addr = write.x

Made == IF Step >= 9 THEN 9 ELSE Step                   \* writes of the call made
InOrder(op, x) ==
  /\ Len(due) <= Made
  /\ \A i \in 1..Len(due) : due[i] = Script(op, x)[Made - Len(due) + i]
\* Word by word, oldest first: the output, the memory register, the memory.
InOut == IF axil_sys.valid THEN 1 ELSE 0
InMem == IF axil_sys.mvalid THEN 1 ELSE 0
AllCarried ==
  /\ Len(due) = InOut + InMem + Len(axil_sys.q)
  /\ axil_sys.valid => Carries(axil_sys.out, due[1])
  /\ axil_sys.mvalid => Carries(axil_sys.mdata, due[InOut + 1])
  /\ \A i \in 1..Len(axil_sys.q) : Carries(axil_sys.q[i], due[InOut + InMem + i])

(***************************************************************************)
(* The status on its way back, oldest first.                               *)
(***************************************************************************)
Newest == [busy |-> adapter.busy, pulse |-> machine.pulse]
Places == Len(sys_axil.q) + 3
Line ==
  [i \in 1..Places |->
     IF i = 1 THEN sys_axil.out
     ELSE IF i = 2 THEN sys_axil.mdata
     ELSE IF i = Places THEN Newest ELSE sys_axil.q[i - 2]]

AllBusy(b) == \A i \in 1..Places : Line[i].busy = b
Rises == \A i, j \in 1..Places : i < j /\ Line[i].busy => Line[j].busy
Falls == \A i, j \in 1..Places : i < j /\ Line[j].busy => Line[i].busy
NoPulse == \A i \in 1..Places : Line[i].pulse = "none"

\* Nothing of the call's operation has reached the adapter; it has accepted the
\* operation; the operation runs; it is over and the driver does not know yet.
Before == Step < 9 \/ Step = 11 \/ (Step = 9 /\ due # << >>)
Quiet ==
  /\ Before /\ machine.st = "ready" /\ adapter.op \in Setups \cup {"none"}
  /\ Step = 11 => adapter.op = "none"
Accepted(op) == Step = 9 /\ due = << >> /\ machine.st = "ready" /\ adapter.op = op
Runs(op) ==
  /\ Step \in {9, 10} /\ due = << >> /\ adapter.op = "none"
  /\ machine.st # "ready" /\ machine.op = op
Over == Step = 10 /\ due = << >> /\ machine.st = "ready" /\ adapter.op = "none"

Phase(op) ==
  /\ ~adapter.fail
  /\ Step = 11 => due = << >>
  /\ Quiet \/ Accepted(op) \/ Runs(op) \/ Over

\* The operation has begun; while it runs the driver has its first poll to end.
Started == machine.st # "ready" \/ Step = 10

(* The busy bits under way tell one story: none of them is set before the  *)
(* operation begins, then they rise once, and once the driver has seen one *)
(* that is set they fall once.                                             *)
Rising ==
  /\ machine.st \in {"latch", "wait"} /\ Rises
  /\ machine.st = "latch" => ~adapter.busy
  /\ axil.rvalid /\ axil.rdata => AllBusy(TRUE)
Falling ==
  /\ machine.st # "latch" /\ Falls /\ (Busy => adapter.busy)
  /\ axil.rvalid /\ ~axil.rdata => AllBusy(FALSE) /\ ~Busy
Bits ==
  /\ ~Started => AllBusy(FALSE) /\ (axil.rvalid => ~axil.rdata)
  /\ Step = 9 /\ Started => Rising
  /\ Step = 10 => Falling

\* The pulse that the operation has still to give.
Unborn(op) ==
  \/ Step = 9 /\ (op = "ReadPage" \/ ~Started)
  \/ Step = 10 /\ op = "ReadPage" /\ machine.st = "wait"

(* A program gives its pulse before its busy bit is out, a read while it   *)
(* is: a driver that has seen the bits rise, or fall, is past it.          *)
Pulsed(op) ==
  /\ \A i \in 1..Places :
       /\ Line[i].pulse \in {"none", op}
       /\ Line[i].pulse = op => (Line[i].busy <=> op = "ReadPage")
  /\ ~Started \/ Unborn(op) => NoPulse
  /\ Step = 10 /\ op = "ProgramPage" => NoPulse

(* The pulse is in one place, or in the output register and, read before,  *)
(* in the memory register.                                                 *)
OnePulse(op) ==
  /\ \A i, j \in 1..Places :
       i < j /\ Line[i].pulse = op /\ Line[j].pulse = op => i = 1 /\ j = 2 /\ ~sys_axil.mvalid
  /\ ~sys_axil.mvalid /\ sys_axil.mdata.pulse = op => sys_axil.out.pulse = op

\* A pulse that no engine has answered is still unborn or is at place i.
FreshAt(op, i) ==
  Line[i].pulse = op /\ (i = 1 => sys_axil.valid) /\ (i = 2 => sys_axil.mvalid)
Fresh(op) == \E i \in 1..Places : FreshAt(op, i)
Pending(op) == Unborn(op) \/ Fresh(op)

Owes(op, x) ==
  owed = IF Pending(op) THEN {[dir |-> op, addr |-> x, len |-> x]} ELSE {}

ProgramIdle == engine["ProgramPage"] = "ready" /\ "ProgramPage" \notin stream

(* An engine is ready for its pulse, and busy for as long as a pulse that  *)
(* it has answered stays in the output register.                           *)
Engines(op) ==
  /\ op = "ReadPage" \/ Step < 9 \/ Step = 11 \/ Pending(op) \/ (Started /\ ~Busy) => ProgramIdle
  /\ "ProgramPage" \in stream => engine["ProgramPage"] = "ready"
  /\ Fresh(op) => engine[op] = "ready"
  /\ sys_axil.out.pulse = op /\ ~sys_axil.valid =>
       engine[op] = "start" \/ (engine[op] = "run" /\ sys_axil.mdata.pulse # op)

Course(op, x) ==
  Phase(op) /\ Bits /\ Pulsed(op) /\ OnePulse(op) /\ Owes(op, x) /\ Engines(op)
CallInv(op, x) == Rest(op, x) /\ OperandsSet(op, x) /\ InOrder(op, x) /\ Course(op, x)

InCall == \E op \in Ops, x \in Values : CallInv(op, x)

Inv ==
  Types /\ RegisterPace /\ StatusPace /\ StatusFlow /\ Channel /\ AllCarried /\ InCall

(***************************************************************************)
(* One edge of a FIFO.                                                     *)
(***************************************************************************)

(* A clock of the writer, with a word or without, while there is room.     *)
LEMMA WrittenWord ==
  ASSUME NEW Word, NEW f \in Fifo(Word), FifoTypeOK(f), ~Full(f), NEW w \in Word
  PROVE  LET g == Written(f, <<w>>) IN
         /\ g \in Fifo(Word) /\ FifoTypeOK(g)
         /\ g.q = Append(f.q, w) /\ Len(g.q) = Len(f.q) + 1
         /\ g.seen1 = f.seen1 /\ g.seen2 = f.seen2 /\ g.freed1 = 0 /\ g.freed2 = f.freed1
         /\ g.mdata = f.mdata /\ (g.mvalid <=> f.mvalid) /\ g.out = f.out /\ (g.valid <=> f.valid)
<1>1. f.q \in Seq(Word) /\ Len(f.q) \in Nat
  BY DEF Fifo
<1>2. /\ f.q \o <<w>> = Append(f.q, w) /\ Append(f.q, w) \in Seq(Word)
      /\ Len(Append(f.q, w)) = Len(f.q) + 1
  BY <1>1, AppendIsConcat, AppendProperties
<1> DEFINE q == Append(f.q, w)
           g == [f EXCEPT !.q = q, !.freed2 = f.freed1, !.freed1 = 0]
<1>3. Written(f, <<w>>) = g
  BY <1>2 DEF Written, Fifo
<1>4. q \in Seq(Word) /\ Len(q) = Len(f.q) + 1
  BY <1>2
<1> HIDE DEF q
<1>5. /\ g \in Fifo(Word) /\ g.q = q
      /\ g.seen1 = f.seen1 /\ g.seen2 = f.seen2 /\ g.freed1 = 0 /\ g.freed2 = f.freed1
      /\ g.mdata = f.mdata /\ (g.mvalid <=> f.mvalid) /\ g.out = f.out /\ (g.valid <=> f.valid)
  BY <1>4 DEF Fifo
<1> HIDE DEF g
<1>6. FifoTypeOK(g)
  <2>1. /\ f.seen1 \in Nat /\ f.seen2 \in Nat /\ f.freed1 \in Nat /\ f.freed2 \in Nat
        /\ f.mvalid \in BOOLEAN /\ f.valid \in BOOLEAN /\ g.mvalid \in BOOLEAN /\ g.valid \in BOOLEAN
    BY <1>5 DEF Fifo
  <2>2. Len(f.q) + f.freed2 < FifoDepth
    BY <1>1, <2>1 DEF FifoTypeOK, Full
  <2>3. QED
    BY <1>1, <1>4, <1>5, <2>1, <2>2 DEF FifoTypeOK
<1>7. QED
  BY <1>3, <1>4, <1>5, <1>6 DEF q

(* A clock of the writer that offers no word.                              *)
LEMMA WrittenNothing ==
  ASSUME NEW Word, NEW f \in Fifo(Word), FifoTypeOK(f)
  PROVE  LET g == Written(f, << >>) IN
         /\ g \in Fifo(Word) /\ FifoTypeOK(g)
         /\ g.q = f.q
         /\ g.seen1 = f.seen1 /\ g.seen2 = f.seen2 /\ g.freed1 = 0 /\ g.freed2 = f.freed1
         /\ g.mdata = f.mdata /\ (g.mvalid <=> f.mvalid) /\ g.out = f.out /\ (g.valid <=> f.valid)
<1>1. f.q \in Seq(Word) /\ Len(f.q) \in Nat
  BY DEF Fifo
<1>2. f.q \o << >> = f.q
  BY <1>1, ConcatEmptySeq
<1> DEFINE g == [f EXCEPT !.q = f.q, !.freed2 = f.freed1, !.freed1 = 0]
<1>3. Written(f, << >>) = g
  BY <1>2 DEF Written, Fifo
<1>5. /\ g \in Fifo(Word) /\ g.q = f.q
      /\ g.seen1 = f.seen1 /\ g.seen2 = f.seen2 /\ g.freed1 = 0 /\ g.freed2 = f.freed1
      /\ g.mdata = f.mdata /\ (g.mvalid <=> f.mvalid) /\ g.out = f.out /\ (g.valid <=> f.valid)
  BY <1>1 DEF Fifo
<1> HIDE DEF g
<1>6. FifoTypeOK(g)
  <2>1. /\ f.seen1 \in Nat /\ f.seen2 \in Nat /\ f.freed1 \in Nat /\ f.freed2 \in Nat
        /\ f.mvalid \in BOOLEAN /\ f.valid \in BOOLEAN /\ g.mvalid \in BOOLEAN /\ g.valid \in BOOLEAN
    BY <1>5 DEF Fifo
  <2>3. QED
    BY <1>1, <1>5, <2>1 DEF FifoTypeOK
<1>7. QED
  BY <1>3, <1>5, <1>6

(* A clock of the reader while its synchronised pointer shows a word, and  *)
(* while it shows none.                                                    *)
LEMMA ReadWord ==
  ASSUME NEW Word, NEW f \in Fifo(Word), FifoTypeOK(f), f.seen2 > 0
  PROVE  LET g == ReadOut(f) IN
         /\ g \in Fifo(Word) /\ FifoTypeOK(g)
         /\ Len(f.q) >= 1 /\ f.q[1] \in Word
         /\ g.q = Tail(f.q) /\ Len(g.q) = Len(f.q) - 1
         /\ \A i \in 1..Len(f.q) - 1 : g.q[i] = f.q[i + 1]
         /\ g.seen1 = Len(f.q) - 1 /\ g.seen2 = f.seen1 - 1
         /\ g.freed1 = f.freed1 + 1 /\ g.freed2 = f.freed2 + 1
         /\ g.mdata = f.q[1] /\ g.mvalid /\ g.out = f.mdata /\ (g.valid <=> f.mvalid)
<1>1. /\ f.q \in Seq(Word) /\ Len(f.q) \in Nat
      /\ f.seen1 \in Nat /\ f.seen2 \in Nat /\ f.freed1 \in Nat /\ f.freed2 \in Nat
      /\ f.mvalid \in BOOLEAN /\ f.mdata \in Word
  BY DEF Fifo
<1>2. Len(f.q) >= 1 /\ f.seen1 >= 1 /\ f.q # << >>
  BY <1>1 DEF FifoTypeOK
<1>3. /\ Head(f.q) = f.q[1] /\ f.q[1] \in Word
      /\ Tail(f.q) \in Seq(Word) /\ Len(Tail(f.q)) = Len(f.q) - 1
      /\ \A i \in 1..Len(f.q) - 1 : Tail(f.q)[i] = f.q[i + 1]
  BY <1>1, <1>2, HeadTailProperties
<1>4. SubSeq(f.q, 1 + 1, Len(f.q)) = Tail(f.q)
  BY <1>1, <1>2, TailIsSubSeq
<1> DEFINE q == Tail(f.q)
           w == f.q[1]
           n == Len(f.q)
           g == [f EXCEPT !.q = q, !.seen2 = f.seen1 - 1, !.seen1 = n - 1,
                          !.freed1 = f.freed1 + 1, !.freed2 = f.freed2 + 1,
                          !.mdata = w, !.mvalid = TRUE, !.out = f.mdata, !.valid = f.mvalid]
<1>5. ReadOut(f) = g
  BY <1>3, <1>4 DEF ReadOut, Fifo
<1>6. /\ q \in Seq(Word) /\ Len(q) = n - 1 /\ w \in Word
      /\ n - 1 \in Nat /\ f.seen1 - 1 \in Nat /\ f.freed1 + 1 \in Nat /\ f.freed2 + 1 \in Nat
  BY <1>1, <1>2, <1>3
<1>6a. q = Tail(f.q) /\ w = f.q[1] /\ n = Len(f.q)
  OBVIOUS
<1> HIDE DEF q, w, n
<1>7. /\ g \in Fifo(Word) /\ g.q = q
      /\ g.seen1 = n - 1 /\ g.seen2 = f.seen1 - 1
      /\ g.freed1 = f.freed1 + 1 /\ g.freed2 = f.freed2 + 1
      /\ g.mdata = w /\ g.mvalid /\ g.out = f.mdata /\ (g.valid <=> f.mvalid)
  BY <1>1, <1>6 DEF Fifo
<1> HIDE DEF g
<1>8. FifoTypeOK(g)
  <2>1. g.mvalid \in BOOLEAN /\ g.valid \in BOOLEAN
    BY <1>7 DEF Fifo
  <2>2. /\ f.seen2 <= f.seen1 /\ f.seen1 <= n /\ f.freed1 <= f.freed2
        /\ n + f.freed2 <= FifoDepth /\ n \in Nat
    BY <1>1, <1>6a DEF FifoTypeOK
  <2>3. /\ g.seen2 <= g.seen1 /\ g.seen1 <= Len(g.q)
        /\ g.freed1 <= g.freed2 /\ Len(g.q) + g.freed2 <= FifoDepth
    <3>1. Len(g.q) = n - 1
      BY <1>6, <1>7
    <3>2. QED
      BY <1>1, <1>7, <2>2, <3>1
  <2>4. QED
    BY <2>1, <2>3 DEF FifoTypeOK
<1>9. QED
  BY <1>2, <1>3, <1>5, <1>6, <1>6a, <1>7, <1>8

(* A clock of the reader while its synchronised pointer shows none.        *)
LEMMA ReadNothing ==
  ASSUME NEW Word, NEW f \in Fifo(Word), FifoTypeOK(f), f.seen2 = 0
  PROVE  LET g == ReadOut(f) IN
         /\ g \in Fifo(Word) /\ FifoTypeOK(g)
         /\ g.q = f.q
         /\ g.seen1 = Len(f.q) /\ g.seen2 = f.seen1
         /\ g.freed1 = f.freed1 /\ g.freed2 = f.freed2
         /\ g.mdata = f.mdata /\ ~g.mvalid /\ g.out = f.mdata /\ (g.valid <=> f.mvalid)
<1>1. /\ f.q \in Seq(Word) /\ Len(f.q) \in Nat
      /\ f.seen1 \in Nat /\ f.seen2 \in Nat /\ f.freed1 \in Nat /\ f.freed2 \in Nat
      /\ f.mvalid \in BOOLEAN /\ f.mdata \in Word
  BY DEF Fifo
<1>2. SubSeq(f.q, 0 + 1, Len(f.q)) = f.q
  BY <1>1, SubSeqFull
<1> DEFINE g == [f EXCEPT !.q = f.q, !.seen2 = f.seen1, !.seen1 = Len(f.q),
                          !.freed1 = f.freed1, !.freed2 = f.freed2,
                          !.mdata = f.mdata, !.mvalid = FALSE, !.out = f.mdata, !.valid = f.mvalid]
<1>3. /\ ~(f.seen2 > 0) /\ f.seen1 - 0 = f.seen1 /\ Len(f.q) - 0 = Len(f.q)
      /\ f.freed1 + 0 = f.freed1 /\ f.freed2 + 0 = f.freed2 /\ (0 = 1) = FALSE
  BY <1>1
<1>5. ReadOut(f) = g
  BY <1>2, <1>3, Zenon DEF ReadOut
<1>7. /\ g \in Fifo(Word) /\ g.q = f.q
      /\ g.seen1 = Len(f.q) /\ g.seen2 = f.seen1
      /\ g.freed1 = f.freed1 /\ g.freed2 = f.freed2
      /\ g.mdata = f.mdata /\ ~g.mvalid /\ g.out = f.mdata /\ (g.valid <=> f.mvalid)
  BY <1>1 DEF Fifo
<1> HIDE DEF g
<1>8. FifoTypeOK(g)
  <2>1. g.mvalid \in BOOLEAN /\ g.valid \in BOOLEAN
    BY <1>7 DEF Fifo
  <2>2. QED
    BY <1>1, <1>7, <2>1 DEF FifoTypeOK
<1>9. QED
  BY <1>5, <1>7, <1>8

(***************************************************************************)
(* Time: how far the two sides of a crossing can be apart.                 *)
(***************************************************************************)

(* A common positive factor drops out of an inequality.                    *)
LEMMA Quotient ==
  ASSUME NEW n \in Int, NEW k \in Int, NEW p \in Nat \ {0}, n * p <= k * p
  PROVE  n <= k
<1>1. SUFFICES ASSUME n - k - 1 >= 0
               PROVE  FALSE
  OBVIOUS
<1> DEFINE d == n - k - 1
<1>2. d \in Nat /\ n = k + 1 + d
  BY <1>1
<1> HIDE DEF d
<1>3. n * p = k * p + p + d * p
  BY <1>2
<1>4. d * p \in Nat /\ k * p \in Int /\ n * p \in Int
  BY <1>2
<1>5. QED
  BY <1>3, <1>4

(* Neither crossing is ever full: at most six words and pointers are under *)
(* way to the adapter, at most seven come back.                            *)
LEMMA Room ==
  ASSUME Types, RegisterPace, StatusPace
  PROVE  ~Full(axil_sys) /\ ~Full(sys_axil)
<1> DEFINE A == AxiPeriod
           S == SysPeriod
<1>0. A \in Nat \ {0} /\ S \in Nat \ {0} /\ A <= S /\ S <= 2 * A
  OBVIOUS
<1>0a. AxiPeriod = A /\ SysPeriod = S
  OBVIOUS
<1> HIDE DEF A, S
<1>1. ~Full(axil_sys)
  <2> DEFINE n == Len(axil_sys.q)
             m == axil_sys.freed2
  <2>1. n \in Nat /\ m \in Nat /\ skew \in Int
    BY DEF Types, Fifo
  <2>2. n * S <= NextWrite + 3 * S /\ m * S <= 2 * A - skew
    BY <1>0a DEF RegisterPace
  <2> HIDE DEF n, m
  <2>3. NextWrite \in Int /\ NextWrite <= skew + A
    BY <1>0, <1>0a, <2>1 DEF NextWrite
  <2>4. n * S \in Int /\ m * S \in Int /\ (n + m) * S = n * S + m * S
    BY <1>0, <2>1
  <2>5. (n + m) * S <= 6 * S
    BY <1>0, <2>1, <2>2, <2>3, <2>4
  <2>6. n + m <= 6
    BY <1>0, <2>1, <2>5, Quotient
  <2>7. QED
    BY <2>1, <2>6 DEF Full, n, m
<1>2. ~Full(sys_axil)
  <2> DEFINE n == Len(sys_axil.q)
             m == sys_axil.freed2
  <2>1. n \in Nat /\ m \in Nat /\ skew \in Int
    BY DEF Types, Fifo
  <2>2. n * S <= 3 * A - skew /\ m * A <= 2 * S + skew
    BY <1>0a DEF StatusPace
  <2> HIDE DEF n, m
  <2>3. n * A <= n * S
    <3> DEFINE d == S - A
    <3>1. d \in Nat /\ S = A + d
      BY <1>0
    <3> HIDE DEF d
    <3>2. n * S = n * A + n * d /\ n * d \in Nat /\ n * A \in Int
      BY <1>0, <2>1, <3>1
    <3>3. QED
      BY <3>2
  <2>4. n * S \in Int /\ n * A \in Int /\ m * A \in Int /\ (n + m) * A = n * A + m * A
    BY <1>0, <2>1
  <2>5. (n + m) * A <= 7 * A
    BY <1>0, <2>1, <2>2, <2>3, <2>4
  <2>6. n + m <= 7
    BY <1>0, <2>1, <2>5, Quotient
  <2>7. QED
    BY <2>1, <2>6 DEF Full, n, m
<1>3. QED
  BY <1>1, <1>2

(* What the two crossings are after an edge of either clock.               *)
LEMMA WordType ==
  ASSUME Types
  PROVE  RegisterWord \in RegWord /\ Newest \in StatusWord
  BY DEF Types, Registers, RegWord, RegisterWord, StatusWord, Newest

(* The crossing to the controller at an edge of the AXI clock: it takes    *)
(* the register word when there is one.                                    *)
LEMMA WordsAtA ==
  ASSUME Types, RegisterPace, StatusPace, NEW slow, NEW finish, AEdge(slow, finish)
  PROVE  LET f == axil_sys
             g == axil_sys' IN
         /\ g \in Fifo(RegWord) /\ FifoTypeOK(g)
         /\ regs.axilValid => g.q = Append(f.q, RegisterWord) /\ Len(g.q) = Len(f.q) + 1
         /\ ~regs.axilValid => g.q = f.q
         /\ g.seen1 = f.seen1 /\ g.seen2 = f.seen2 /\ g.freed1 = 0 /\ g.freed2 = f.freed1
         /\ g.mdata = f.mdata /\ (g.mvalid <=> f.mvalid) /\ g.out = f.out /\ (g.valid <=> f.valid)
<1>1. axil_sys \in Fifo(RegWord) /\ FifoTypeOK(axil_sys) /\ ~Full(axil_sys)
  BY Room DEF Types
<1>2. CASE regs.axilValid
  <2>1. axil_sys' = Written(axil_sys, <<RegisterWord>>)
    BY <1>2 DEF AEdge
  <2>2. QED
    BY <1>1, <1>2, <2>1, WordType, WrittenWord
<1>3. CASE ~regs.axilValid
  <2>1. axil_sys' = Written(axil_sys, << >>)
    BY <1>3 DEF AEdge
  <2>2. QED
    BY <1>1, <1>3, <2>1, WrittenNothing
<1>4. QED
  BY <1>2, <1>3

(* ... and at an edge of the system clock: it gives a word when the        *)
(* synchronised pointer shows one.                                         *)
LEMMA WordsAtS ==
  ASSUME Types, NEW go, SEdge(go)
  PROVE  LET f == axil_sys
             g == axil_sys'
             n == Len(axil_sys.q) IN
         /\ g \in Fifo(RegWord) /\ FifoTypeOK(g)
         /\ f.seen2 > 0 =>
              /\ n >= 1 /\ g.q = Tail(f.q) /\ Len(g.q) = n - 1
              /\ \A i \in 1..n - 1 : g.q[i] = f.q[i + 1]
              /\ g.seen1 = n - 1 /\ g.seen2 = f.seen1 - 1
              /\ g.freed1 = f.freed1 + 1 /\ g.freed2 = f.freed2 + 1
              /\ g.mdata = f.q[1] /\ g.mvalid
         /\ ~(f.seen2 > 0) =>
              /\ g.q = f.q /\ g.seen1 = n /\ g.seen2 = f.seen1
              /\ f.seen2 = 0 /\ g.freed1 = f.freed1 /\ g.freed2 = f.freed2
              /\ g.mdata = f.mdata /\ ~g.mvalid
         /\ g.out = f.mdata /\ (g.valid <=> f.mvalid)
<1>1. axil_sys \in Fifo(RegWord) /\ FifoTypeOK(axil_sys) /\ axil_sys' = ReadOut(axil_sys)
  BY DEF Types, SEdge
<1>2. axil_sys.seen2 \in Nat
  BY <1>1 DEF Fifo
<1>3. CASE axil_sys.seen2 > 0
  BY <1>1, <1>3, ReadWord
<1>4. CASE axil_sys.seen2 = 0
  BY <1>1, <1>4, ReadNothing
<1>5. QED
  BY <1>2, <1>3, <1>4

(* The crossing back at an edge of the system clock, where it takes a      *)
(* status word every time.                                                 *)
LEMMA StatusAtS ==
  ASSUME Types, RegisterPace, StatusPace, NEW go, SEdge(go)
  PROVE  LET f == sys_axil
             g == sys_axil' IN
         /\ g \in Fifo(StatusWord) /\ FifoTypeOK(g)
         /\ g.q = Append(f.q, Newest) /\ Len(g.q) = Len(f.q) + 1
         /\ g.seen1 = f.seen1 /\ g.seen2 = f.seen2 /\ g.freed1 = 0 /\ g.freed2 = f.freed1
         /\ g.mdata = f.mdata /\ (g.mvalid <=> f.mvalid) /\ g.out = f.out /\ (g.valid <=> f.valid)
<1>1. sys_axil \in Fifo(StatusWord) /\ FifoTypeOK(sys_axil) /\ ~Full(sys_axil)
  BY Room DEF Types
<1>2. sys_axil' = Written(sys_axil, <<Newest>>)
  BY DEF SEdge, Newest
<1>3. QED
  BY <1>1, <1>2, WordType, WrittenWord

(* ... and at an edge of the AXI clock.                                    *)
LEMMA StatusAtA ==
  ASSUME Types, NEW slow, NEW finish, AEdge(slow, finish)
  PROVE  LET f == sys_axil
             g == sys_axil'
             n == Len(sys_axil.q) IN
         /\ g \in Fifo(StatusWord) /\ FifoTypeOK(g)
         /\ f.seen2 > 0 =>
              /\ n >= 1 /\ g.q = Tail(f.q) /\ Len(g.q) = n - 1
              /\ \A i \in 1..n - 1 : g.q[i] = f.q[i + 1]
              /\ g.seen1 = n - 1 /\ g.seen2 = f.seen1 - 1
              /\ g.freed1 = f.freed1 + 1 /\ g.freed2 = f.freed2 + 1
              /\ g.mdata = f.q[1] /\ g.mvalid
         /\ ~(f.seen2 > 0) =>
              /\ g.q = f.q /\ g.seen1 = n /\ g.seen2 = f.seen1
              /\ f.seen2 = 0 /\ g.freed1 = f.freed1 /\ g.freed2 = f.freed2
              /\ g.mdata = f.mdata /\ ~g.mvalid
         /\ g.out = f.mdata /\ (g.valid <=> f.mvalid)
<1>1. sys_axil \in Fifo(StatusWord) /\ FifoTypeOK(sys_axil) /\ sys_axil' = ReadOut(sys_axil)
  BY DEF Types, AEdge
<1>2. sys_axil.seen2 \in Nat
  BY <1>1 DEF Fifo
<1>3. CASE sys_axil.seen2 > 0
  BY <1>1, <1>3, ReadWord
<1>4. CASE sys_axil.seen2 = 0
  BY <1>1, <1>4, ReadNothing
<1>5. QED
  BY <1>2, <1>3, <1>4

(* Two writes into the crossing are two AXI clocks apart or more.          *)
LEMMA WritesApart ==
  ASSUME Types, Channel, NEW slow, NEW finish, AEdge(slow, finish)
  PROVE  /\ skew <= 0 /\ skew' = skew + AxiPeriod
         /\ NextWrite \in Int
         /\ regs.axilValid => ~regs'.axilValid /\ NextWrite' >= NextWrite + SysPeriod
         /\ NextWrite' >= NextWrite
<1>1. skew \in Int /\ skew <= 0 /\ skew' = skew + AxiPeriod
  BY DEF Types, AEdge
<1>2. regs.axilValid => ~regs'.axilValid
  <2>1. regs.axilValid => ~WrEn(slow)
    BY DEF Channel, WrEn
  <2>2. ~WrEn(slow) => ~regs'.axilValid
    BY DEF AEdge, RegsNext, Types, Registers
  <2>3. QED
    BY <2>1, <2>2
<1>3. NextWrite' = skew' + (IF regs'.axilValid THEN 0 ELSE AxiPeriod)
  BY DEF NextWrite
<1>4. QED
  BY <1>1, <1>2, <1>3 DEF NextWrite

(***************************************************************************)
(* The pace is kept by an edge of the AXI clock.                           *)
(***************************************************************************)
LEMMA RegisterPaceAtA ==
  ASSUME Types, Channel, RegisterPace, StatusPace, NEW slow, NEW finish, AEdge(slow, finish)
  PROVE  RegisterPace'
<1> DEFINE f == axil_sys
           g == axil_sys'
           n == Len(f.q)
           m == Len(g.q)
           P == SysPeriod
           u == (n - f.seen1) * P
           v == (n - f.seen2) * P
           t == n * P
           more == IF regs.axilValid THEN 1 ELSE 0
<1>1. /\ n \in Nat /\ f.seen1 \in Nat /\ f.seen2 \in Nat /\ f.freed1 \in Nat /\ f.freed2 \in Nat
      /\ skew \in Int /\ P \in Nat
  BY DEF Types, Fifo
<1>2. /\ g.seen1 = f.seen1 /\ g.seen2 = f.seen2 /\ g.freed1 = 0 /\ g.freed2 = f.freed1
      /\ regs.axilValid => m = n + 1
      /\ ~regs.axilValid => m = n
  BY WordsAtA
<1>3. /\ u <= NextWrite + P /\ v <= NextWrite + 2 * P /\ t <= NextWrite + 3 * P
      /\ f.freed1 * P <= AxiPeriod - skew
  BY DEF RegisterPace
<1>4. u \in Int /\ v \in Int /\ t \in Int
  <2> HIDE DEF f, n, P
  <2>1. QED
    BY <1>1
<1>5. /\ skew <= 0 /\ skew' = skew + AxiPeriod /\ NextWrite \in Int /\ NextWrite' \in Int
      /\ regs.axilValid => NextWrite' >= NextWrite + P
      /\ NextWrite' >= NextWrite
  <2>1. NextWrite' = skew' + (IF regs'.axilValid THEN 0 ELSE AxiPeriod)
    BY DEF NextWrite
  <2>2. QED
    BY <1>1, <2>1, WritesApart
<1>6. /\ (m - g.seen1) * P <= NextWrite' + P
      /\ (m - g.seen2) * P <= NextWrite' + 2 * P
      /\ m * P <= NextWrite' + 3 * P
  <2>1. CASE regs.axilValid
    <3>1. (m - g.seen1) * P = u + P /\ (m - g.seen2) * P = v + P /\ m * P = t + P
      <4>1. m - g.seen1 = (n - f.seen1) + 1 /\ m - g.seen2 = (n - f.seen2) + 1 /\ m = n + 1
        <5> HIDE DEF f, g, n, m, P
        <5>1. QED
          BY <1>1, <1>2, <2>1
      <4> HIDE DEF f, g, n, m, P
      <4>2. QED
        BY <1>1, <4>1
    <3> HIDE DEF f, g, n, m, P, u, v, t
    <3>2. QED
      BY <1>1, <1>3, <1>4, <1>5, <2>1, <3>1
  <2>2. CASE ~regs.axilValid
    <3>1. (m - g.seen1) * P = u /\ (m - g.seen2) * P = v /\ m * P = t
      BY <1>2, <2>2
    <3> HIDE DEF f, g, n, m, P, u, v, t
    <3>2. QED
      BY <1>1, <1>3, <1>4, <1>5, <2>2, <3>1
  <2>3. QED
    BY <2>1, <2>2
<1>7. g.freed1 * P <= AxiPeriod - skew' /\ g.freed2 * P <= 2 * AxiPeriod - skew'
  <2>1. 0 * P = 0
    BY <1>1
  <2>2. f.freed1 * P \in Int
    BY <1>1
  <2> HIDE DEF f, g, n, m, P
  <2>3. QED
    BY <1>1, <1>2, <1>3, <1>5, <2>1, <2>2
<1>8. QED
  BY <1>6, <1>7 DEF RegisterPace

(***************************************************************************)
(* The pace is kept by an edge of the system clock, and that of the words  *)
(* that come back by both.                                                 *)
(***************************************************************************)
LEMMA RegisterPaceAtS ==
  ASSUME Types, RegisterPace, NEW go, SEdge(go)
  PROVE  RegisterPace'
<1> DEFINE f == axil_sys
           g == axil_sys'
           n == Len(f.q)
           m == Len(g.q)
           P == SysPeriod
           u == (n - f.seen1) * P
           v == (n - f.seen2) * P
           t == n * P
           r1 == f.freed1 * P
           r2 == f.freed2 * P
<1>1. /\ n \in Nat /\ f.seen1 \in Nat /\ f.seen2 \in Nat /\ f.freed1 \in Nat /\ f.freed2 \in Nat
      /\ skew \in Int /\ P \in Nat
  BY DEF Types, Fifo
<1>2. /\ f.seen2 > 0 =>
           /\ m = n - 1 /\ g.seen1 = n - 1 /\ g.seen2 = f.seen1 - 1
           /\ g.freed1 = f.freed1 + 1 /\ g.freed2 = f.freed2 + 1
      /\ ~(f.seen2 > 0) =>
           /\ m = n /\ g.seen1 = n /\ g.seen2 = f.seen1 /\ f.seen2 = 0
           /\ g.freed1 = f.freed1 /\ g.freed2 = f.freed2
  BY WordsAtS
<1>3. /\ u <= NextWrite + P /\ v <= NextWrite + 2 * P /\ t <= NextWrite + 3 * P
      /\ r1 <= AxiPeriod - skew /\ r2 <= 2 * AxiPeriod - skew
  BY DEF RegisterPace
<1>4. u \in Int /\ v \in Int /\ t \in Int /\ r1 \in Int /\ r2 \in Int /\ 0 * P = 0
  <2> HIDE DEF f, n, P
  <2>1. QED
    BY <1>1
<1>5. /\ skew >= 0 /\ skew' = skew - P /\ NextWrite \in Int /\ NextWrite' = NextWrite - P
      /\ NextWrite >= skew
  <2>1. /\ NextWrite' = skew' + (IF regs'.axilValid THEN 0 ELSE AxiPeriod)
        /\ NextWrite = skew + (IF regs.axilValid THEN 0 ELSE AxiPeriod)
    BY DEF NextWrite
  <2>2. regs' = regs /\ skew >= 0 /\ skew' = skew - P
    BY DEF SEdge
  <2> HIDE DEF P
  <2>3. QED
    BY <1>1, <2>1, <2>2
<1>6. CASE f.seen2 > 0
  <2>1. /\ (m - g.seen1) * P = 0 /\ (m - g.seen2) * P = u /\ m * P = t - P
        /\ g.freed1 * P = r1 + P /\ g.freed2 * P = r2 + P
    <3>1. /\ m - g.seen1 = 0 /\ m - g.seen2 = n - f.seen1 /\ m = n - 1
          /\ g.freed1 = f.freed1 + 1 /\ g.freed2 = f.freed2 + 1
      <4> HIDE DEF f, g, n, m, P
      <4>1. QED
        BY <1>1, <1>2, <1>6
    <3> HIDE DEF f, g, n, m, P
    <3>2. (n - 1) * P = n * P - P
      BY <1>1
    <3>3. /\ (f.freed1 + 1) * P = f.freed1 * P + P
          /\ (f.freed2 + 1) * P = f.freed2 * P + P
      BY <1>1
    <3>4. QED
      BY <1>4, <3>1, <3>2, <3>3
  <2> HIDE DEF f, g, n, m, P, u, v, t, r1, r2
  <2>2. /\ (m - g.seen1) * P <= NextWrite' + P
        /\ (m - g.seen2) * P <= NextWrite' + 2 * P
        /\ m * P <= NextWrite' + 3 * P
        /\ g.freed1 * P <= AxiPeriod - skew' /\ g.freed2 * P <= 2 * AxiPeriod - skew'
    BY <1>1, <1>3, <1>4, <1>5, <2>1
  <2>3. QED
    BY <2>2 DEF RegisterPace, f, g, n, m, P
<1>7. CASE ~(f.seen2 > 0)
  <2>1. /\ (m - g.seen1) * P = 0 /\ (m - g.seen2) * P = u /\ m * P = v
        /\ g.freed1 * P = r1 /\ g.freed2 * P = r2
    <3>1. /\ m - g.seen1 = 0 /\ m - g.seen2 = n - f.seen1 /\ m = n - f.seen2
          /\ g.freed1 = f.freed1 /\ g.freed2 = f.freed2
      <4> HIDE DEF f, g, n, m, P
      <4>1. QED
        BY <1>1, <1>2, <1>7
    <3>2. m * P = v
      BY <3>1, Zenon
    <3> HIDE DEF f, g, n, m, P
    <3>3. QED
      BY <1>4, <3>1, <3>2
  <2> HIDE DEF f, g, n, m, P, u, v, t, r1, r2
  <2>2. /\ (m - g.seen1) * P <= NextWrite' + P
        /\ (m - g.seen2) * P <= NextWrite' + 2 * P
        /\ m * P <= NextWrite' + 3 * P
        /\ g.freed1 * P <= AxiPeriod - skew' /\ g.freed2 * P <= 2 * AxiPeriod - skew'
    BY <1>1, <1>3, <1>4, <1>5, <2>1
  <2>3. QED
    BY <2>2 DEF RegisterPace, f, g, n, m, P
<1>8. QED
  BY <1>6, <1>7

(* A status word is written every system clock.                            *)
LEMMA StatusPaceAtS ==
  ASSUME Types, RegisterPace, StatusPace, NEW go, SEdge(go)
  PROVE  StatusPace'
<1> DEFINE f == sys_axil
           g == sys_axil'
           n == Len(f.q)
           m == Len(g.q)
           P == SysPeriod
           A == AxiPeriod
           u == (n - f.seen1) * P
           v == (n - f.seen2) * P
           t == n * P
           r1 == f.freed1 * A
<1>1. /\ n \in Nat /\ f.seen1 \in Nat /\ f.seen2 \in Nat /\ f.freed1 \in Nat /\ f.freed2 \in Nat
      /\ skew \in Int /\ P \in Nat /\ A \in Nat
  BY DEF Types, Fifo
<1>2. /\ g.seen1 = f.seen1 /\ g.seen2 = f.seen2 /\ g.freed1 = 0 /\ g.freed2 = f.freed1
      /\ m = n + 1
  BY StatusAtS
<1>3. /\ u <= A - skew /\ v <= 2 * A - skew /\ t <= 3 * A - skew /\ r1 <= P + skew
  BY DEF StatusPace
<1>4. u \in Int /\ v \in Int /\ t \in Int /\ r1 \in Int /\ 0 * A = 0
  <2> HIDE DEF f, n, P, A
  <2>1. QED
    BY <1>1
<1>5. skew >= 0 /\ skew' = skew - P
  BY DEF SEdge
<1>6. /\ (m - g.seen1) * P = u + P /\ (m - g.seen2) * P = v + P /\ m * P = t + P
      /\ g.freed1 * A = 0 /\ g.freed2 * A = r1
  <2>1. m - g.seen1 = (n - f.seen1) + 1 /\ m - g.seen2 = (n - f.seen2) + 1
    <3> HIDE DEF f, g, n, m, P
    <3>1. QED
      BY <1>1, <1>2
  <2> HIDE DEF f, g, n, m, P, A
  <2>2. QED
    BY <1>1, <1>2, <1>4, <2>1
<1>7. /\ (m - g.seen1) * P <= A - skew'
      /\ (m - g.seen2) * P <= 2 * A - skew'
      /\ m * P <= 3 * A - skew'
      /\ g.freed1 * A <= P + skew' /\ g.freed2 * A <= 2 * P + skew'
  <2> HIDE DEF f, g, n, m, P, A, u, v, t, r1
  <2>1. QED
    BY <1>1, <1>3, <1>4, <1>5, <1>6
<1>8. QED
  BY <1>7 DEF StatusPace

(* ... and read every AXI clock that shows one, which is as often or more. *)
LEMMA StatusPaceAtA ==
  ASSUME Types, StatusPace, NEW slow, NEW finish, AEdge(slow, finish)
  PROVE  StatusPace'
<1> DEFINE f == sys_axil
           g == sys_axil'
           n == Len(f.q)
           m == Len(g.q)
           P == SysPeriod
           A == AxiPeriod
           u == (n - f.seen1) * P
           v == (n - f.seen2) * P
           t == n * P
           r1 == f.freed1 * A
           r2 == f.freed2 * A
<1>1. /\ n \in Nat /\ f.seen1 \in Nat /\ f.seen2 \in Nat /\ f.freed1 \in Nat /\ f.freed2 \in Nat
      /\ skew \in Int /\ P \in Nat /\ A \in Nat /\ A <= P
  BY DEF Types, Fifo
<1>2. /\ f.seen2 > 0 =>
           /\ m = n - 1 /\ g.seen1 = n - 1 /\ g.seen2 = f.seen1 - 1
           /\ g.freed1 = f.freed1 + 1 /\ g.freed2 = f.freed2 + 1
      /\ ~(f.seen2 > 0) =>
           /\ m = n /\ g.seen1 = n /\ g.seen2 = f.seen1 /\ f.seen2 = 0
           /\ g.freed1 = f.freed1 /\ g.freed2 = f.freed2
  BY StatusAtA
<1>3. /\ u <= A - skew /\ v <= 2 * A - skew /\ t <= 3 * A - skew
      /\ r1 <= P + skew /\ r2 <= 2 * P + skew
  BY DEF StatusPace
<1>4. u \in Int /\ v \in Int /\ t \in Int /\ r1 \in Int /\ r2 \in Int /\ 0 * P = 0
  <2> HIDE DEF f, n, P, A
  <2>1. QED
    BY <1>1
<1>5. skew <= 0 /\ skew' = skew + A
  BY DEF AEdge
<1>6. CASE f.seen2 > 0
  <2>1. /\ (m - g.seen1) * P = 0 /\ (m - g.seen2) * P = u /\ m * P = t - P
        /\ g.freed1 * A = r1 + A /\ g.freed2 * A = r2 + A
    <3>1. /\ m - g.seen1 = 0 /\ m - g.seen2 = n - f.seen1 /\ m = n - 1
          /\ g.freed1 = f.freed1 + 1 /\ g.freed2 = f.freed2 + 1
      <4> HIDE DEF f, g, n, m, P, A
      <4>1. QED
        BY <1>1, <1>2, <1>6
    <3> HIDE DEF f, g, n, m, P, A
    <3>2. (n - 1) * P = n * P - P
      BY <1>1
    <3>3. /\ (f.freed1 + 1) * A = f.freed1 * A + A
          /\ (f.freed2 + 1) * A = f.freed2 * A + A
      BY <1>1
    <3>4. QED
      BY <1>4, <3>1, <3>2, <3>3
  <2> HIDE DEF f, g, n, m, P, A, u, v, t, r1, r2
  <2>2. /\ (m - g.seen1) * P <= A - skew'
        /\ (m - g.seen2) * P <= 2 * A - skew'
        /\ m * P <= 3 * A - skew'
        /\ g.freed1 * A <= P + skew' /\ g.freed2 * A <= 2 * P + skew'
    BY <1>1, <1>3, <1>4, <1>5, <2>1
  <2>3. QED
    BY <2>2 DEF StatusPace, f, g, n, m, P, A
<1>7. CASE ~(f.seen2 > 0)
  <2>1. /\ (m - g.seen1) * P = 0 /\ (m - g.seen2) * P = u /\ m * P = v
        /\ g.freed1 * A = r1 /\ g.freed2 * A = r2
    <3>1. /\ m - g.seen1 = 0 /\ m - g.seen2 = n - f.seen1 /\ m = n - f.seen2
          /\ g.freed1 = f.freed1 /\ g.freed2 = f.freed2
      <4> HIDE DEF f, g, n, m, P, A
      <4>1. QED
        BY <1>1, <1>2, <1>7
    <3>2. m * P = v
      BY <3>1, Zenon
    <3> HIDE DEF f, g, n, m, P, A
    <3>3. QED
      BY <1>4, <3>1, <3>2
  <2> HIDE DEF f, g, n, m, P, A, u, v, t, r1, r2
  <2>2. /\ (m - g.seen1) * P <= A - skew'
        /\ (m - g.seen2) * P <= 2 * A - skew'
        /\ m * P <= 3 * A - skew'
        /\ g.freed1 * A <= P + skew' /\ g.freed2 * A <= 2 * P + skew'
    BY <1>1, <1>3, <1>4, <1>5, <2>1
  <2>3. QED
    BY <2>2 DEF StatusPace, f, g, n, m, P, A
<1>8. QED
  BY <1>6, <1>7

(* What an empty crossing back says about the time, after a write.         *)
LEMMA StatusFlowAtS ==
  ASSUME Types, RegisterPace, StatusPace, StatusFlow, NEW go, SEdge(go)
  PROVE  StatusFlow'
<1> DEFINE n == Len(sys_axil.q)
<1>1. /\ n \in Nat /\ sys_axil.seen1 \in Nat /\ sys_axil.seen2 \in Nat
      /\ sys_axil.seen1 <= n /\ sys_axil.seen2 <= sys_axil.seen1
  BY DEF Types, Fifo, FifoTypeOK
<1>2. /\ Len(sys_axil'.q) = n + 1
      /\ sys_axil'.seen1 = sys_axil.seen1 /\ sys_axil'.seen2 = sys_axil.seen2
      /\ sys_axil'.mdata = sys_axil.mdata /\ (sys_axil'.mvalid <=> sys_axil.mvalid)
      /\ (sys_axil'.valid <=> sys_axil.valid)
  BY StatusAtS
<1> HIDE DEF n
<1>3. /\ n + 1 # sys_axil.seen1 /\ n + 1 # sys_axil.seen2 /\ n + 1 # 0
  BY <1>1
<1>4. /\ ~sys_axil.mvalid /\ sys_axil.valid => sys_axil.seen1 > 0
      /\ ~sys_axil.mvalid /\ ~sys_axil.valid /\ sys_axil.seen2 = 0 => sys_axil.mdata.pulse = "none"
  BY DEF StatusFlow
<1>5. QED
  BY <1>2, <1>3, <1>4 DEF StatusFlow

(* ... and after a read.                                                   *)
LEMMA StatusFlowAtA ==
  ASSUME Types, StatusFlow, NEW slow, NEW finish, AEdge(slow, finish)
  PROVE  StatusFlow'
<1> DEFINE f == sys_axil
           g == sys_axil'
           n == Len(f.q)
           m == Len(g.q)
           P == SysPeriod
           A == AxiPeriod
<1>1. /\ n \in Nat /\ f.seen1 \in Nat /\ f.seen2 \in Nat /\ f.seen1 <= n /\ f.seen2 <= f.seen1
      /\ skew \in Int /\ -P <= skew
      /\ P \in Nat /\ A \in Nat \ {0} /\ A <= P /\ P <= 2 * A
  BY DEF Types, Fifo, FifoTypeOK
<1>2. /\ f.seen2 > 0 =>
           /\ m = n - 1 /\ g.seen1 = n - 1 /\ g.seen2 = f.seen1 - 1 /\ g.mvalid
      /\ ~(f.seen2 > 0) =>
           /\ m = n /\ g.seen1 = n /\ g.seen2 = f.seen1 /\ f.seen2 = 0 /\ ~g.mvalid
           /\ g.mdata = f.mdata
      /\ g.valid <=> f.mvalid
  BY StatusAtA
<1>3. /\ n = f.seen1 => skew >= A - P
      /\ n = f.seen2 /\ n > 0 => skew >= 2 * A - P
      /\ f.mvalid /\ n = 0 => skew >= 3 * A - P
      /\ ~f.mvalid /\ f.valid => f.seen1 > 0
      /\ ~f.mvalid /\ ~f.valid /\ f.seen2 = 0 => f.mdata.pulse = "none"
  BY DEF StatusFlow
<1>4. skew <= 0 /\ skew' = skew + A
  BY DEF AEdge
<1> HIDE DEF f, g, n, m, P, A
<1>5. /\ m = g.seen1 => skew' >= A - P
      /\ m = g.seen2 /\ m > 0 => skew' >= 2 * A - P
      /\ g.mvalid /\ m = 0 => skew' >= 3 * A - P
  <2>1. CASE f.seen2 > 0
    BY <1>1, <1>2, <1>3, <1>4, <2>1
  <2>2. CASE ~(f.seen2 > 0)
    BY <1>1, <1>2, <1>3, <1>4, <2>2
  <2>3. QED
    BY <2>1, <2>2
<1>6. ~g.mvalid /\ g.valid => g.seen1 > 0
  BY <1>1, <1>2, <1>3, <1>4
<1>7. ~g.mvalid /\ ~g.valid /\ g.seen2 = 0 => g.mdata.pulse = "none"
  BY <1>1, <1>2, <1>3
<1>8. QED
  BY <1>5, <1>6, <1>7 DEF StatusFlow, f, g, n, m, P, A

(***************************************************************************)
(* The driver's call, a list of eleven steps.                              *)
(***************************************************************************)
ScriptShape(s, op, x) ==
  /\ s \in Seq(RegisterWrite \cup StatusPoll) /\ Len(s) = 11
  /\ \A k \in 1..9 : s[k] \in RegisterWrite /\ s[k].is = "write" /\ s[k].x = x
  /\ \A k \in {1, 3, 5} : s[k].reg = "addr" /\ s[k].val = x
  /\ \A k \in {2, 4, 6} : s[k].reg = "cmd" /\ s[k].val \in Setups
  /\ s[7].reg = "len" /\ s[7].val = x
  /\ s[8].reg = op /\ s[8].val = x
  /\ s[9].reg = "cmd" /\ s[9].val = op
  /\ \A k \in 10..11 : s[k] \in StatusPoll /\ s[k].is = "poll"
  /\ s[10].busy = TRUE /\ s[11].busy = FALSE

(* The steps of the list, one by one, with their types.                    *)
LEMMA ScriptSteps ==
  ASSUME NEW op \in Ops, NEW x \in Values
  PROVE  ScriptShape(Script(op, x), op, x)
<1> DEFINE s == Script(op, x)
<1>1. /\ Operand("addr", x) \in RegisterWrite /\ Operand("len", x) \in RegisterWrite
      /\ Operand(op, x) \in RegisterWrite /\ Cmd(op, x) \in RegisterWrite
      /\ \A setup \in Setups : Cmd(setup, x) \in RegisterWrite
      /\ Poll(TRUE) \in StatusPoll /\ Poll(FALSE) \in StatusPoll
  BY DEF Operand, Cmd, Write, Poll, RegisterWrite, StatusPoll, Ops, Opcode
<1>1a. "SelectWay" \in Setups /\ "SetColumn" \in Setups /\ "SetRow" \in Setups
  BY DEF Setups
<1>2. /\ s[1] = Operand("addr", x) /\ s[2] = Cmd("SelectWay", x)
      /\ s[3] = Operand("addr", x) /\ s[4] = Cmd("SetColumn", x)
      /\ s[5] = Operand("addr", x) /\ s[6] = Cmd("SetRow", x)
      /\ s[7] = Operand("len", x) /\ s[8] = Operand(op, x) /\ s[9] = Cmd(op, x)
      /\ s[10] = Poll(TRUE) /\ s[11] = Poll(FALSE)
      /\ Len(s) = 11
  BY DEF Script
<1>3. s \in Seq(RegisterWrite \cup StatusPoll)
  <2>1. \A a, b, c, d, e, f, g, h, i, j, k \in RegisterWrite \cup StatusPoll :
          <<a, b, c, d, e, f, g, h, i, j, k>> \in Seq(RegisterWrite \cup StatusPoll)
    OBVIOUS
  <2>2. /\ Cmd("SelectWay", x) \in RegisterWrite /\ Cmd("SetColumn", x) \in RegisterWrite
        /\ Cmd("SetRow", x) \in RegisterWrite
    BY <1>1, <1>1a
  <2>3. QED
    BY <1>1, <2>1, <2>2, Zenon DEF Script
<1>4. /\ Operand("addr", x).is = "write" /\ Operand("addr", x).x = x
      /\ Operand("addr", x).reg = "addr" /\ Operand("addr", x).val = x
      /\ Operand("len", x).is = "write" /\ Operand("len", x).x = x
      /\ Operand("len", x).reg = "len" /\ Operand("len", x).val = x
      /\ Operand(op, x).is = "write" /\ Operand(op, x).x = x
      /\ Operand(op, x).reg = op /\ Operand(op, x).val = x
  BY DEF Operand, Write
<1>5. /\ \A setup \in Setups :
           /\ Cmd(setup, x).is = "write" /\ Cmd(setup, x).x = x
           /\ Cmd(setup, x).reg = "cmd" /\ Cmd(setup, x).val = setup
      /\ Cmd(op, x).is = "write" /\ Cmd(op, x).x = x
      /\ Cmd(op, x).reg = "cmd" /\ Cmd(op, x).val = op
  BY DEF Cmd, Write
<1>6. /\ Poll(TRUE).is = "poll" /\ Poll(TRUE).busy = TRUE
      /\ Poll(FALSE).is = "poll" /\ Poll(FALSE).busy = FALSE
  BY DEF Poll
<1> HIDE DEF s
<1>7. /\ \A k \in {1, 3, 5} : s[k] = Operand("addr", x)
      /\ \A k \in {2, 4, 6} : \E setup \in Setups : s[k] = Cmd(setup, x)
  BY <1>1a, <1>2
<1>8. /\ \A k \in {1, 3, 5} : s[k].reg = "addr" /\ s[k].val = x
      /\ \A k \in {2, 4, 6} : s[k].reg = "cmd" /\ s[k].val \in Setups
  BY <1>4, <1>5, <1>7
<1>9. \A k \in 1..9 : s[k] \in RegisterWrite /\ s[k].is = "write" /\ s[k].x = x
  <2>1. \A k \in 1..9 : k \in {1, 3, 5} \/ k \in {2, 4, 6} \/ k = 7 \/ k = 8 \/ k = 9
    OBVIOUS
  <2>2. /\ \A k \in {1, 3, 5} : s[k] \in RegisterWrite /\ s[k].is = "write" /\ s[k].x = x
        /\ \A k \in {2, 4, 6} : s[k] \in RegisterWrite /\ s[k].is = "write" /\ s[k].x = x
    BY <1>1, <1>4, <1>5, <1>7
  <2>3. \A k \in {7, 8, 9} : s[k] \in RegisterWrite /\ s[k].is = "write" /\ s[k].x = x
    BY <1>1, <1>2, <1>4, <1>5
  <2>4. QED
    BY <2>1, <2>2, <2>3
<1>10. \A k \in 10..11 : s[k] \in StatusPoll /\ s[k].is = "poll"
  <2>1. \A k \in 10..11 : k = 10 \/ k = 11
    OBVIOUS
  <2>2. QED
    BY <1>1, <1>2, <1>6, <2>1
<1>11. QED
  BY <1>2, <1>3, <1>4, <1>5, <1>6, <1>8, <1>9, <1>10 DEF s, ScriptShape

(* A sequence that agrees with two others, one after the other, is their   *)
(* concatenation.                                                          *)
LEMMA Joined ==
  ASSUME NEW S, NEW s \in Seq(S), NEW t \in Seq(S), NEW u \in Seq(S), Len(u) = Len(s) + Len(t),
         \A i \in 1..Len(s) : u[i] = s[i], \A i \in 1..Len(t) : u[Len(s) + i] = t[i]
  PROVE  s \o t = u
<1>1. /\ s \o t \in Seq(S) /\ Len(s \o t) = Len(s) + Len(t)
      /\ \A i \in 1..Len(s) + Len(t) :
           (s \o t)[i] = IF i <= Len(s) THEN s[i] ELSE t[i - Len(s)]
  BY ConcatProperties, Zenon
<1>2. Len(s) \in Nat /\ Len(t) \in Nat
  OBVIOUS
<1>3. ASSUME NEW i \in 1..Len(s \o t)
      PROVE  (s \o t)[i] = u[i]
  <2>1. CASE i <= Len(s)
    BY <1>1, <1>2, <2>1
  <2>2. CASE ~(i <= Len(s))
    <3>1. i - Len(s) \in 1..Len(t) /\ i = Len(s) + (i - Len(s)) /\ (s \o t)[i] = t[i - Len(s)]
      BY <1>1, <1>2, <2>2
    <3>2. QED
      BY <3>1
  <2>3. QED
    BY <2>1, <2>2
<1>4. QED
  BY <1>1, <1>3, SeqEqual

(* The driver's Transfer is the list of eleven.                            *)
LEMMA TransferIs ==
  ASSUME NEW op \in Ops, NEW x \in Values
  PROVE  Transfer(op, x) = Script(op, x)
<1> DEFINE S == RegisterWrite \cup StatusPoll
           s1 == Operand("addr", x)
           s2 == Cmd("SelectWay", x)
           s3 == Cmd("SetColumn", x)
           s4 == Cmd("SetRow", x)
           s5 == Operand("len", x)
           s6 == Operand(op, x)
           s7 == Cmd(op, x)
           s8 == Poll(TRUE)
           s9 == Poll(FALSE)
<1>1. /\ s1 \in S /\ s2 \in S /\ s3 \in S /\ s4 \in S /\ s5 \in S /\ s6 \in S /\ s7 \in S
      /\ s8 \in S /\ s9 \in S
  BY DEF Operand, Cmd, Write, Poll, RegisterWrite, StatusPoll, Ops, Opcode, Setups
<1> HIDE DEF S, s1, s2, s3, s4, s5, s6, s7, s8, s9
<1> DEFINE a == <<s1, s2>>
           b == <<s1, s3>>
           c == <<s1, s4>>
           d == <<s5, s6, s7>>
           e == <<s8, s9>>
           ab == <<s1, s2, s1, s3>>
           ac == <<s1, s2, s1, s3, s1, s4>>
           ad == <<s1, s2, s1, s3, s1, s4, s5, s6, s7>>
           ae == <<s1, s2, s1, s3, s1, s4, s5, s6, s7, s8, s9>>
<1>2. /\ a \in Seq(S) /\ b \in Seq(S) /\ c \in Seq(S) /\ d \in Seq(S) /\ e \in Seq(S)
      /\ ab \in Seq(S) /\ ac \in Seq(S) /\ ad \in Seq(S) /\ ae \in Seq(S)
  BY <1>1
<1>3. a \o b = ab
  <2>1. Len(ab) = Len(a) + Len(b)
    OBVIOUS
  <2>2. \A i \in 1..Len(a) : ab[i] = a[i]
    OBVIOUS
  <2>3. \A i \in 1..Len(b) : ab[Len(a) + i] = b[i]
    OBVIOUS
  <2> HIDE DEF a, b, ab
  <2>4. QED
    BY <1>2, <2>1, <2>2, <2>3, Joined
<1>4. ab \o c = ac
  <2>1. Len(ac) = Len(ab) + Len(c)
    OBVIOUS
  <2>2. \A i \in 1..Len(ab) : ac[i] = ab[i]
    OBVIOUS
  <2>3. \A i \in 1..Len(c) : ac[Len(ab) + i] = c[i]
    OBVIOUS
  <2> HIDE DEF ab, c, ac
  <2>4. QED
    BY <1>2, <2>1, <2>2, <2>3, Joined
<1>5. ac \o d = ad
  <2>1. Len(ad) = Len(ac) + Len(d)
    OBVIOUS
  <2>2. \A i \in 1..Len(ac) : ad[i] = ac[i]
    OBVIOUS
  <2>3. \A i \in 1..Len(d) : ad[Len(ac) + i] = d[i]
    OBVIOUS
  <2> HIDE DEF ac, d, ad
  <2>4. QED
    BY <1>2, <2>1, <2>2, <2>3, Joined
<1>6. ad \o e = ae
  <2>1. Len(ae) = Len(ad) + Len(e)
    OBVIOUS
  <2>2. \A i \in 1..Len(ad) : ae[i] = ad[i]
    OBVIOUS
  <2>3. \A i \in 1..Len(e) : ae[Len(ad) + i] = e[i]
    OBVIOUS
  <2> HIDE DEF ad, e, ae
  <2>4. QED
    BY <1>2, <2>1, <2>2, <2>3, Joined
<1>7. Transfer(op, x) = (((a \o b) \o c) \o d) \o e
  BY Zenon DEF Transfer, select, Await, a, b, c, d, e, s1, s2, s3, s4, s5, s6, s7, s8, s9
<1>8. ae = Script(op, x)
  BY DEF Script, ae, s1, s2, s3, s4, s5, s6, s7, s8, s9
<1>9. QED
  BY <1>3, <1>4, <1>5, <1>6, <1>7, <1>8, Zenon

(* A call of the driver is a page read or a page program.                  *)
LEMMA CallsAre ==
  ASSUME NEW t \in Calls
  PROVE  \E op \in Ops, x \in Values : t = Script(op, x)
  BY TransferIs DEF Calls, readpage_00h_30h, progpage_80h_10h, Ops

(***************************************************************************)
(* How the driver gets on at an edge of the AXI clock.                     *)
(***************************************************************************)
Moves(slow) == Taken \/ (Answered(slow) /\ axil.rdata = Head(todo).busy)

(* The step of the driver that is under way, read off the steps it has     *)
(* done.                                                                   *)
LEMMA HeadIs ==
  ASSUME Types, NEW op \in Ops, NEW x \in Values, Rest(op, x)
  PROVE  /\ Step \in 0..11 /\ Len(todo) = 11 - Step /\ (todo = << >> <=> Step = 11)
         /\ Step < 11 => Head(todo) = Script(op, x)[Step + 1]
         /\ Doing("write", todo) <=> Step < 9
         /\ Doing("poll", todo) <=> Step \in 9..10
         /\ Step < 9 => Head(todo) \in RegisterWrite
<1>0. ScriptShape(Script(op, x), op, x)
  BY ScriptSteps, Zenon
<1>1. todo \in Seq(RegisterWrite \cup StatusPoll) /\ Len(todo) \in Nat
  BY DEF Types
<1>2. Step \in 0..11 /\ Len(todo) = 11 - Step /\ (todo = << >> <=> Step = 11)
  BY <1>1, EmptySeq DEF Rest, Step
<1>3. Step < 11 => Head(todo) = Script(op, x)[Step + 1] /\ todo # << >>
  <2>1. Len(todo) >= 1 => Head(todo) = todo[1]
    BY <1>1
  <2>2. QED
    BY <1>2, <2>1 DEF Rest
<1>4. Step < 9 => Head(todo) \in RegisterWrite /\ Head(todo).is = "write"
  <2>1. Step < 9 => Step + 1 \in 1..9
    BY <1>2
  <2>2. QED
    BY <1>0, <1>2, <1>3, <2>1 DEF ScriptShape
<1>5. Step \in 9..10 => Head(todo).is = "poll"
  <2>1. Step \in 9..10 => Step + 1 \in 10..11
    BY <1>2
  <2>2. QED
    BY <1>0, <1>2, <1>3, <2>1 DEF ScriptShape
<1>6. QED
  BY <1>2, <1>3, <1>4, <1>5 DEF Doing

(* The driver makes a step at a time, of a call that stays the same.       *)
LEMMA Progress ==
  ASSUME Types, Channel, NEW op \in Ops, NEW x \in Values, Rest(op, x),
         NEW slow, NEW finish, AEdge(slow, finish)
  PROVE  /\ Taken => Step < 9
         /\ Moves(slow) => Step < 11 /\ TodoNext(slow) = Tail(todo)
         /\ ~Moves(slow) => TodoNext(slow) = todo
         /\ Step < 11 => todo' = TodoNext(slow)
         /\ Moves(slow) => Step' = Step + 1
         /\ ~Moves(slow) /\ (Step < 11 \/ todo' = << >>) => todo' = todo /\ Step' = Step
         /\ Step < 11 \/ todo' = << >> => Rest(op, x)'
<1>1. todo \in Seq(RegisterWrite \cup StatusPoll) /\ Len(todo) \in Nat
  BY DEF Types
<1>2. Taken => Step < 9
  BY HeadIs DEF Taken, Channel
<1>3. Moves(slow) => Step < 11
  BY <1>2, HeadIs DEF Moves, Answered, Channel
<1>4. Step < 11 <=> todo # << >>
  BY HeadIs
<1>5. /\ Moves(slow) => TodoNext(slow) = Tail(todo)
      /\ ~Moves(slow) => TodoNext(slow) = todo
  BY DEF TodoNext, Moves
<1>6. Step < 11 => todo' = TodoNext(slow)
  BY <1>4 DEF AEdge
<1>7. Moves(slow) => Step' = Step + 1 /\ Rest(op, x)'
  <2>1. HAVE Moves(slow)
  <2>2. todo' = Tail(todo) /\ todo # << >>
    BY <1>3, <1>4, <1>5, <1>6, <2>1
  <2>3. Len(todo') = Len(todo) - 1 /\ \A i \in 1..Len(todo') : todo'[i] = todo[i + 1]
    BY <1>1, <2>2, HeadTailProperties
  <2>4. Step' = Step + 1
    BY <1>1, <2>3 DEF Step
  <2>5. Step \in 0..10 /\ \A i \in 1..Len(todo) : todo[i] = Script(op, x)[Step + i]
    BY <1>3, <2>1 DEF Rest
  <2>6. \A i \in 1..Len(todo') : todo'[i] = Script(op, x)[Step' + i]
    <3>1. TAKE i \in 1..Len(todo')
    <3>2. i + 1 \in 1..Len(todo) /\ Step' + i = Step + (i + 1)
      BY <1>1, <2>3, <2>4, <2>5
    <3>3. QED
      BY <2>3, <2>5, <3>2
  <2>7. QED
    BY <2>4, <2>5, <2>6 DEF Rest
<1>8. ~Moves(slow) /\ (Step < 11 \/ todo' = << >>) => todo' = todo /\ Step' = Step /\ Rest(op, x)'
  <2>1. ~Moves(slow) /\ (Step < 11 \/ todo' = << >>) => todo' = todo
    BY <1>4, <1>5, <1>6
  <2>2. QED
    BY <2>1 DEF Step, Rest
<1>9. QED
  BY <1>2, <1>3, <1>5, <1>6, <1>7, <1>8

(* A call begun: its first step is still to be made.                       *)
LEMMA NewCall ==
  ASSUME Types, NEW op \in Ops, NEW x \in Values, todo' = Script(op, x)
  PROVE  Step' = 0 /\ Rest(op, x)'
<1>0. ScriptShape(Script(op, x), op, x)
  BY ScriptSteps, Zenon
<1>1. Len(todo') = 11
  BY <1>0 DEF ScriptShape
<1>2. Step' = 0
  BY <1>1 DEF Step
<1>3. \A i \in 1..Len(todo') : todo'[i] = Script(op, x)[Step' + i]
  BY <1>1, <1>2
<1>4. QED
  BY <1>2, <1>3 DEF Rest

(***************************************************************************)
(* The registers and the channel at an edge of the AXI clock.              *)
(***************************************************************************)
RegNames == {"addr", "cmd", "len", "ReadPage", "ProgramPage"}

(* A write changes the register it is for and no other.                    *)
LEMMA RegsAtA ==
  ASSUME Types, Channel, NEW op \in Ops, NEW x \in Values, Rest(op, x),
         NEW slow, NEW finish, AEdge(slow, finish)
  PROVE  /\ regs' \in Registers
         /\ WrEn(slow) =>
              /\ Step < 9 /\ ~Moves(slow) /\ Head(todo).reg \in RegNames
              /\ regs'[Head(todo).reg] = Head(todo).val
              /\ \A r \in RegNames \ {Head(todo).reg} : regs'[r] = regs[r]
              /\ regs'.axilValid /\ (regs'.commandValid <=> Head(todo).reg = "cmd")
         /\ ~WrEn(slow) =>
              /\ \A r \in RegNames : regs'[r] = regs[r]
              /\ ~regs'.axilValid /\ ~regs'.commandValid
<1> DEFINE h == Head(todo)
<1>1. regs \in Registers
  BY DEF Types
<1>2. CASE WrEn(slow)
  <2>1. axil.w /\ ~axil.awready
    BY <1>2 DEF WrEn
  <2>2. Step < 9 /\ h \in RegisterWrite /\ ~regs.axilValid /\ ~regs.commandValid
    BY <2>1, HeadIs DEF Channel
  <2>3. ~Moves(slow)
    <3>1. ~Taken
      BY <2>1 DEF Taken
    <3>2. ~axil.rvalid
      BY <2>2, HeadIs DEF Channel
    <3>3. QED
      BY <3>1, <3>2 DEF Moves, Answered
  <2>4. /\ h.reg = "cmd" => h.val \in Opcode
        /\ h.reg # "cmd" => h.val \in Values
        /\ h.reg \in RegNames
    BY <2>2 DEF RegisterWrite, RegNames, Ops
  <2>5. regs' = [regs EXCEPT ![h.reg] = h.val, !.axilValid = TRUE,
                             !.commandValid = regs.commandValid \/ h.reg = "cmd"]
    <3>1. regs' = RegsNext(slow)
      BY DEF AEdge
    <3>2. QED
      BY <1>1, <1>2, <2>4, <3>1 DEF RegsNext, Registers, RegNames
  <2> HIDE DEF h
  <2>6. \A r \in RegNames : h.reg = r =>
          /\ regs' \in Registers
          /\ regs'[r] = h.val
          /\ \A s \in RegNames \ {r} : regs'[s] = regs[s]
          /\ regs'.axilValid /\ (regs'.commandValid <=> r = "cmd")
    <3>1. CASE h.reg = "cmd"
      BY <1>1, <2>2, <2>4, <2>5, <3>1 DEF Registers, RegNames
    <3>2. CASE h.reg = "addr"
      BY <1>1, <2>2, <2>4, <2>5, <3>2 DEF Registers, RegNames
    <3>3. CASE h.reg = "len"
      BY <1>1, <2>2, <2>4, <2>5, <3>3 DEF Registers, RegNames
    <3>4. CASE h.reg = "ReadPage"
      BY <1>1, <2>2, <2>4, <2>5, <3>4 DEF Registers, RegNames
    <3>5. CASE h.reg = "ProgramPage"
      BY <1>1, <2>2, <2>4, <2>5, <3>5 DEF Registers, RegNames
    <3>6. QED
      BY <2>4, <3>1, <3>2, <3>3, <3>4, <3>5 DEF RegNames
  <2>7. QED
    BY <1>2, <2>2, <2>3, <2>4, <2>6 DEF h
<1>3. CASE ~WrEn(slow)
  <2>1. regs' = [regs EXCEPT !.axilValid = FALSE, !.commandValid = FALSE]
    BY <1>3 DEF AEdge, RegsNext
  <2>2. QED
    BY <1>1, <1>3, <2>1 DEF Registers, RegNames
<1>4. QED
  BY <1>2, <1>3

(* The channels after an edge, field by field.                             *)
LEMMA AxilAtA ==
  ASSUME NEW slow, NEW finish, AEdge(slow, finish)
  PROVE  /\ axil'.w <=> (axil.w /\ ~Taken)
                          \/ (Doing("write", TodoNext(slow)) /\ "w" \notin slow)
         /\ axil'.ar <=> (axil.ar /\ ~axil.arready)
                          \/ (Doing("poll", todo) /\ ~axil.bvalid /\ ~axil.rvalid
                               /\ "ar" \notin slow)
         /\ axil'.awready <=> WrEn(slow)
         /\ axil'.arready <=> RdEn(slow)
         /\ axil'.rvalid <=> RdEn(slow) \/ (axil.rvalid /\ "r" \in slow)
         /\ RdEn(slow) => axil'.rdata = sys_axil.out.busy
         /\ ~RdEn(slow) => axil'.rdata = axil.rdata
         /\ Types => axil' \in Axil
<1>1. axil' = AxilNext(slow)
  BY DEF AEdge
<1>2. Types => sys_axil.out.busy \in BOOLEAN /\ axil.rdata \in BOOLEAN
  BY DEF Types, Fifo, StatusWord, Axil
<1> DEFINE w == (axil.w /\ ~Taken) \/ (Doing("write", TodoNext(slow)) /\ "w" \notin slow)
           ar == (axil.ar /\ ~axil.arready)
                    \/ (Doing("poll", todo) /\ ~axil.bvalid /\ ~axil.rvalid /\ "ar" \notin slow)
           aw == WrEn(slow)
           bv == WrEn(slow) \/ (axil.bvalid /\ "b" \in slow)
           rd == RdEn(slow)
           rv == RdEn(slow) \/ (axil.rvalid /\ "r" \in slow)
           data == IF RdEn(slow) THEN sys_axil.out.busy ELSE axil.rdata
<1>3. axil' = [w |-> w, ar |-> ar, awready |-> aw, bvalid |-> bv, arready |-> rd,
               rvalid |-> rv, rdata |-> data]
  BY <1>1, Zenon DEF AxilNext
<1>4. w \in BOOLEAN /\ ar \in BOOLEAN /\ aw \in BOOLEAN /\ bv \in BOOLEAN /\ rd \in BOOLEAN
      /\ rv \in BOOLEAN /\ (Types => data \in BOOLEAN)
  <2>1. aw \in BOOLEAN /\ rd \in BOOLEAN /\ bv \in BOOLEAN /\ rv \in BOOLEAN
    BY Zenon DEF WrEn, RdEn
  <2>2. w \in BOOLEAN /\ ar \in BOOLEAN
    BY Zenon
  <2>3. QED
    BY <1>2, <2>1, <2>2
<1>5. RdEn(slow) => data = sys_axil.out.busy
  OBVIOUS
<1>6. ~RdEn(slow) => data = axil.rdata
  OBVIOUS
<1> HIDE DEF w, ar, aw, bv, rd, rv, data
<1>7. Types => axil' \in Axil
  BY <1>3, <1>4 DEF Axil
<1>8. /\ (axil'.w <=> w) /\ (axil'.ar <=> ar) /\ (axil'.awready <=> aw) /\ (axil'.arready <=> rd)
      /\ (axil'.rvalid <=> rv) /\ axil'.rdata = data
  BY <1>3, <1>4
<1>9. QED
  BY <1>5, <1>6, <1>7, <1>8, Zenon DEF w, ar, aw, bv, rd, rv

(* A step of the driver leaves no read of the status behind.               *)
LEMMA MoveClears ==
  ASSUME Types, Channel, NEW op \in Ops, NEW x \in Values, Rest(op, x),
         NEW slow, NEW finish, AEdge(slow, finish), Moves(slow)
  PROVE  ~axil'.ar /\ ~axil'.rvalid
<1>1. CASE Taken
  <2>1. ~Doing("poll", todo)
    BY <1>1, Progress, HeadIs
  <2>2. ~axil.ar /\ ~axil.rvalid
    BY <2>1 DEF Channel
  <2>3. QED
    BY <2>1, <2>2, AxilAtA DEF RdEn
<1>2. CASE Answered(slow)
  <2>1. axil.rvalid /\ "r" \notin slow /\ (axil.ar => axil.arready)
    BY <1>2 DEF Answered, Channel
  <2>2. ~RdEn(slow)
    BY <2>1 DEF RdEn
  <2>3. QED
    BY <2>1, <2>2, AxilAtA
<1>3. QED
  BY <1>1, <1>2 DEF Moves

(* The master holds what it offers, and has one access at a time.          *)
LEMMA ChannelAtA ==
  ASSUME Types, Channel, NEW op \in Ops, NEW x \in Values, Rest(op, x),
         NEW slow, NEW finish, AEdge(slow, finish)
  PROVE  Channel'
<1>1. axil.w => Doing("write", todo) /\ Step < 9
  BY HeadIs DEF Channel
<1>2. axil.ar \/ axil.rvalid => Doing("poll", todo) /\ Step \in 9..10
  BY HeadIs DEF Channel
<1>3. axil'.w => Doing("write", todo')
  <2>1. CASE axil.w /\ ~Taken
    <3>1. ~Moves(slow) /\ Step < 11
      BY <1>1, <1>2, <2>1, HeadIs DEF Moves, Answered
    <3>2. todo' = todo
      BY <3>1, Progress
    <3>3. QED
      BY <1>1, <2>1, <3>2
  <2>2. CASE Doing("write", TodoNext(slow))
    <3>1. CASE Step < 11
      BY <2>2, <3>1, Progress
    <3>2. CASE ~(Step < 11)
      <4>1. TodoNext(slow) = todo /\ ~Doing("write", todo)
        BY <3>2, Progress, HeadIs
      <4>2. QED
        BY <2>2, <4>1
    <3>3. QED
      BY <3>1, <3>2
  <2>3. QED
    BY <2>1, <2>2, AxilAtA
<1>4. axil'.awready => axil'.w
  BY AxilAtA DEF WrEn, Taken
<1>5. /\ regs'.axilValid <=> axil'.awready
      /\ ~regs'.axilValid => ~regs'.commandValid
  BY AxilAtA, RegsAtA
<1>6. axil'.awready =>
        /\ regs'[Head(todo').reg] = Head(todo').val
        /\ regs'.commandValid <=> Head(todo').reg = "cmd"
  <2>1. HAVE axil'.awready
  <2>2. WrEn(slow)
    BY <2>1, AxilAtA
  <2>3. Step < 9 /\ ~Moves(slow)
    BY <2>2, RegsAtA
  <2>4. todo' = todo
    <3>1. Step < 11
      BY <2>3, HeadIs
    <3>2. QED
      BY <2>3, <3>1, Progress
  <2>5. QED
    BY <2>2, <2>4, RegsAtA
<1>7. Moves(slow) => ~axil'.ar /\ ~axil'.rvalid
  BY MoveClears
<1>8. axil'.ar \/ axil'.rvalid => Doing("poll", todo')
  <2>1. HAVE axil'.ar \/ axil'.rvalid
  <2>2. ~Moves(slow)
    BY <1>7, <2>1
  <2>3. Doing("poll", todo) /\ Step < 11
    BY <1>2, <2>1, AxilAtA, HeadIs DEF RdEn
  <2>4. todo' = todo
    BY <2>2, <2>3, Progress
  <2>5. QED
    BY <2>3, <2>4
<1>9. /\ axil'.rvalid /\ axil'.ar => axil'.arready
      /\ axil'.arready => axil'.rvalid
  BY AxilAtA DEF RdEn, Channel
<1>10. QED
  BY <1>3, <1>4, <1>5, <1>6, <1>8, <1>9 DEF Channel

(* The operands of the steps made are in their registers.                  *)
LEMMA OperandsAtA ==
  ASSUME Types, Channel, NEW op \in Ops, NEW x \in Values, Rest(op, x), OperandsSet(op, x),
         NEW slow, NEW finish, AEdge(slow, finish), Step < 11 \/ todo' = << >>
  PROVE  OperandsSet(op, x)'
<1> DEFINE s == Script(op, x)
<1>0. ScriptShape(s, op, x)
  BY ScriptSteps, Zenon
<1>1. Step \in 0..11 /\ (Step < 9 => Head(todo) = s[Step + 1])
  BY HeadIs
<1>2. /\ Step \in 0..11
      /\ Step >= 1 \/ (Step = 0 /\ axil.awready) => regs.addr = x
      /\ Step >= 7 \/ (Step = 6 /\ axil.awready) => regs.len = x
      /\ Step >= 8 \/ (Step = 7 /\ axil.awready) => regs[op] = x
  BY <1>1 DEF OperandsSet, Latched
<1>3. /\ \A k \in {1, 3, 5} : s[k].reg = "addr" /\ s[k].val = x
      /\ \A k \in {2, 4, 6, 9} : s[k].reg = "cmd"
      /\ s[7].reg = "len" /\ s[7].val = x /\ s[8].reg = op /\ s[8].val = x
  BY <1>0 DEF ScriptShape
<1>4. "addr" \in RegNames /\ "len" \in RegNames /\ op \in RegNames
  BY DEF RegNames, Ops
<1> HIDE DEF s
<1>5. CASE WrEn(slow)
  <2>1. /\ Step < 9 /\ ~Moves(slow)
        /\ regs'[Head(todo).reg] = Head(todo).val
        /\ \A r \in RegNames \ {Head(todo).reg} : regs'[r] = regs[r]
    BY <1>5, RegsAtA
  <2>2. Step' = Step /\ Step \in 0..8
    BY <1>1, <2>1, Progress
  <2>3. /\ Step >= 0 => regs'.addr = x
        /\ Step >= 6 => regs'.len = x
        /\ Step >= 7 => regs'[op] = x
    <3>0. op # "addr" /\ op # "len" /\ op # "cmd"
      BY DEF Ops
    <3>1. CASE Step \in {0, 2, 4}
      <4>1. Head(todo).reg = "addr" /\ Head(todo).val = x
        BY <1>1, <1>3, <3>1
      <4>2. QED
        BY <2>1, <3>1, <4>1
    <3>2. CASE Step \in {1, 3, 5, 8}
      <4>1. Head(todo).reg = "cmd"
        BY <1>1, <1>3, <3>2
      <4>2. regs'.addr = regs.addr /\ regs'.len = regs.len /\ regs'[op] = regs[op]
        BY <1>4, <2>1, <3>0, <4>1
      <4>3. QED
        BY <1>2, <3>2, <4>2
    <3>3. CASE Step = 6
      <4>1. Head(todo) = s[7]
        BY <1>1, <3>3
      <4>2. QED
        BY <1>2, <1>3, <1>4, <2>1, <3>3, <4>1
    <3>4. CASE Step = 7
      <4>1. Head(todo) = s[8]
        BY <1>1, <3>4
      <4>2. QED
        BY <1>2, <1>3, <1>4, <2>1, <3>0, <3>4, <4>1
    <3>5. QED
      BY <2>2, <3>1, <3>2, <3>3, <3>4
  <2>4. QED
    BY <2>2, <2>3 DEF OperandsSet, Latched
<1>6. CASE ~WrEn(slow)
  <2>1. regs'.addr = regs.addr /\ regs'.len = regs.len /\ regs'[op] = regs[op]
    BY <1>4, <1>6, RegsAtA
  <2>2. ~axil'.awready
    BY <1>6, AxilAtA
  <2>3. \/ Step' = Step
        \/ Step' = Step + 1 /\ (axil.awready \/ Step >= 9)
    <3>1. CASE Taken
      BY <3>1, Progress DEF Moves, Taken
    <3>2. CASE ~Taken /\ Moves(slow)
      <4>1. axil.rvalid
        BY <3>2 DEF Moves, Answered
      <4>2. Step >= 9
        BY <4>1, <1>1, HeadIs DEF Channel
      <4>3. QED
        BY <3>2, <4>2, Progress
    <3>3. CASE ~Moves(slow)
      BY <3>3, Progress
    <3>4. QED
      BY <3>1, <3>2, <3>3
  <2>4. /\ Step' >= 1 => regs.addr = x
        /\ Step' >= 7 => regs.len = x
        /\ Step' >= 8 => regs[op] = x
    BY <1>2, <2>3
  <2>5. QED
    BY <2>1, <2>2, <2>4 DEF OperandsSet, Latched
<1>7. QED
  BY <1>5, <1>6

(* A call that begins has no operand latched.                              *)
LEMMA OperandsOfNewCall ==
  ASSUME Types, Channel, NEW op \in Ops, NEW x \in Values, todo = << >>,
         NEW slow, NEW finish, AEdge(slow, finish), todo' = Script(op, x)
  PROVE  OperandsSet(op, x)' /\ Step' = 0 /\ Rest(op, x)' /\ ~Taken
<1>1. Step' = 0 /\ Rest(op, x)'
  BY NewCall
<1>2. ~axil.w /\ ~axil.awready
  BY DEF Channel, Doing
<1>3. ~axil'.awready
  BY <1>2, AxilAtA DEF WrEn
<1>4. QED
  BY <1>1, <1>2, <1>3 DEF OperandsSet, Latched, Taken

(***************************************************************************)
(* Types.                                                                  *)
(***************************************************************************)
LEMMA TypesAtA ==
  ASSUME Types, RegisterPace, StatusPace, Channel,
         NEW op \in Ops, NEW x \in Values, Rest(op, x),
         NEW slow, NEW finish \in SUBSET MayFinish, AEdge(slow, finish)
  PROVE  Types'
<1>1. todo' \in Seq(RegisterWrite \cup StatusPoll)
  <2>1. CASE todo = << >>
    <3>1. CASE todo' \in Calls
      <4>1. PICK o \in Ops, y \in Values : todo' = Script(o, y)
        BY <3>1, CallsAre
      <4>2. QED
        BY <4>1, ScriptSteps, Zenon DEF ScriptShape
    <3>2. CASE todo' = << >>
      BY <3>2
    <3>3. QED
      BY <2>1, <3>1, <3>2 DEF AEdge
  <2>2. CASE todo # << >>
    <3>1. todo' \in {todo, Tail(todo)}
      BY <2>2 DEF AEdge, TodoNext
    <3>2. QED
      BY <2>2, <3>1, HeadTailProperties DEF Types
  <2>3. QED
    BY <2>1, <2>2
<1>2. due' \in Seq(RegisterWrite)
  <2>1. CASE Taken
    <3>1. Head(todo) \in RegisterWrite /\ due' = Append(due, Head(todo))
      BY <2>1, Progress, HeadIs DEF AEdge
    <3>2. QED
      BY <3>1, AppendProperties DEF Types
  <2>2. CASE ~Taken
    BY <2>2 DEF AEdge, Types
  <2>3. QED
    BY <2>1, <2>2
<1>3. axil' \in Axil /\ regs' \in Registers
  BY AxilAtA, RegsAtA
<1>4. axil_sys' \in Fifo(RegWord) /\ FifoTypeOK(axil_sys')
  BY WordsAtA
<1>5. sys_axil' \in Fifo(StatusWord) /\ FifoTypeOK(sys_axil')
  BY StatusAtA
<1>6. engine' \in [Ops -> {"ready", "start", "run"}]
  <2>1. \A d \in Ops : EngineNext(d, finish) \in {"ready", "start", "run"}
    BY DEF EngineNext, Types
  <2>2. QED
    BY <2>1 DEF AEdge
<1>7. stream' \in SUBSET Ops
  BY DEF AEdge, Types, Ops
<1>8. skew' \in Int /\ -SysPeriod <= skew' /\ skew' <= AxiPeriod
  BY DEF AEdge, Types
<1>9. UNCHANGED <<adapter, machine>>
  BY DEF AEdge
<1>10. QED
  BY <1>1, <1>2, <1>3, <1>4, <1>5, <1>6, <1>7, <1>8, <1>9 DEF Types, FifoTypeOK

(* An edge of the system clock keeps the types.                            *)
LEMMA TypesAtS ==
  ASSUME Types, RegisterPace, StatusPace, NEW go \in BOOLEAN, SEdge(go)
  PROVE  Types'
<1>1. due' \in Seq(RegisterWrite)
  BY HeadTailProperties DEF SEdge, Types
<1>2. axil_sys' \in Fifo(RegWord) /\ FifoTypeOK(axil_sys')
  BY WordsAtS
<1>3. sys_axil' \in Fifo(StatusWord) /\ FifoTypeOK(sys_axil')
  BY StatusAtS
<1>4. adapter' \in [op : Opcode \cup {"none"}, fail : BOOLEAN, busy : BOOLEAN]
  <2>1. /\ axil_sys.out.cmd \in Opcode /\ axil_sys.valid \in BOOLEAN
        /\ axil_sys.out.valid \in BOOLEAN /\ adapter.fail \in BOOLEAN
    BY DEF Types, Fifo, RegWord
  <2>2. QED
    BY <2>1 DEF SEdge, AdapterNext, Busy
<1>5. machine' \in [st : {"ready", "latch", "wait", "data"}, op : Ops, pulse : Ops \cup {"none"}]
  <2>1. machine' = MachineNext(go) /\ machine \in [st : {"ready", "latch", "wait", "data"}, op : Ops, pulse : Ops \cup {"none"}]
    BY DEF SEdge, Types
  <2>2. CASE ~Busy /\ adapter.op \in Ops
    BY <2>1, <2>2 DEF MachineNext
  <2>3. CASE ~(~Busy /\ adapter.op \in Ops)
    <3>1. machine'.st \in {"ready", "latch", "wait", "data"} /\ machine'.op = machine.op
          /\ machine'.pulse \in Ops \cup {"none"}
          /\ machine' = [st |-> machine'.st, op |-> machine'.op, pulse |-> machine'.pulse]
      <4>1. CASE machine.st = "latch"
        BY <2>1, <2>3, <4>1 DEF MachineNext
      <4>2. CASE machine.st = "wait" /\ go
        BY <2>1, <2>3, <4>2 DEF MachineNext
      <4>3. CASE machine.st = "data" /\ go
        BY <2>1, <2>3, <4>3 DEF MachineNext
      <4>4. CASE machine.st = "ready" \/ (machine.st # "latch" /\ ~go)
        BY <2>1, <2>3, <4>4 DEF MachineNext
      <4>5. QED
        BY <2>1, <4>1, <4>2, <4>3, <4>4
    <3>2. QED
      BY <2>1, <3>1
  <2>4. QED
    BY <2>2, <2>3
<1>6. stream' \in SUBSET Ops
  BY DEF SEdge, Types, Ops
<1>7. skew' \in Int /\ -SysPeriod <= skew' /\ skew' <= AxiPeriod
  BY DEF SEdge, Types
<1>8. UNCHANGED <<todo, axil, regs, engine>>
  BY DEF SEdge
<1>9. QED
  BY <1>1, <1>2, <1>3, <1>4, <1>5, <1>6, <1>7, <1>8 DEF Types, FifoTypeOK

(***************************************************************************)
(* The words on their way to the adapter.                                  *)
(***************************************************************************)
LEMMA WordCarries ==
  ASSUME Types, Channel, NEW op \in Ops, NEW x \in Values, Rest(op, x), OperandsSet(op, x), Taken
  PROVE  Carries(RegisterWord, Head(todo))
<1> DEFINE s == Script(op, x)
           h == Head(todo)
<1>0. ScriptShape(s, op, x)
  BY ScriptSteps, Zenon
<1>1. axil.awready /\ axil.w /\ Step < 9 /\ Step \in 0..11 /\ h = s[Step + 1]
  BY HeadIs DEF Taken, Channel
<1>2. /\ regs[h.reg] = h.val /\ (regs.commandValid <=> h.reg = "cmd")
  BY <1>1 DEF Channel
<1>3. /\ RegisterWord.cmd = regs.cmd /\ RegisterWord.addr = regs.addr
      /\ RegisterWord.len = regs.len /\ (RegisterWord.valid <=> regs.commandValid)
  BY DEF RegisterWord
<1>4. regs.addr = x
  BY <1>1 DEF OperandsSet, Latched
<1>5. h.x = x
  <2>1. Step + 1 \in 1..9
    BY <1>1
  <2>2. QED
    BY <1>0, <1>1, <2>1 DEF ScriptShape
<1> HIDE DEF h
<1>6. h.reg \in {"cmd", "addr", "len"} => RegisterWord[h.reg] = h.val
  <2>1. CASE h.reg = "cmd"
    BY <1>2, <1>3, <2>1
  <2>2. CASE h.reg = "addr"
    BY <1>2, <1>3, <2>2
  <2>3. CASE h.reg = "len"
    BY <1>2, <1>3, <2>3
  <2>4. QED
    BY <2>1, <2>2, <2>3
<1>7. QED
  BY <1>2, <1>3, <1>4, <1>5, <1>6 DEF Carries, h

(* The words under way stay those of the writes that are due when one more *)
(* is made.                                                                *)
LEMMA CarriedAtA ==
  ASSUME Types, RegisterPace, StatusPace, Channel, AllCarried,
         NEW op \in Ops, NEW x \in Values, Rest(op, x), OperandsSet(op, x),
         NEW slow, NEW finish, AEdge(slow, finish)
  PROVE  AllCarried'
<1> DEFINE f == axil_sys
           g == axil_sys'
           n == Len(f.q)
<1>1. n \in Nat /\ due \in Seq(RegisterWrite) /\ Len(due) \in Nat
      /\ f.valid \in BOOLEAN /\ f.mvalid \in BOOLEAN /\ f.q \in Seq(RegWord)
  BY DEF Types, Fifo
<1>2. /\ g.mdata = f.mdata /\ (g.mvalid <=> f.mvalid) /\ g.out = f.out /\ (g.valid <=> f.valid)
      /\ regs.axilValid => g.q = Append(f.q, RegisterWord)
      /\ ~regs.axilValid => g.q = f.q
  BY WordsAtA
<1>3. InOut' = InOut /\ InMem' = InMem /\ InOut \in {0, 1} /\ InMem \in {0, 1}
  <2>1. InOut' = (IF g.valid THEN 1 ELSE 0) /\ InMem' = (IF g.mvalid THEN 1 ELSE 0)
    BY DEF InOut, InMem
  <2>2. QED
    BY <1>2, <2>1 DEF InOut, InMem
<1>4. /\ Len(due) = InOut + InMem + n
      /\ f.valid => Carries(f.out, due[1])
      /\ f.mvalid => Carries(f.mdata, due[InOut + 1])
      /\ \A i \in 1..n : Carries(f.q[i], due[InOut + InMem + i])
  BY DEF AllCarried
<1>5. /\ f.valid => InOut = 1
      /\ f.mvalid => InMem = 1
  BY DEF InOut, InMem
<1>6. CASE Taken
  <2>1. regs.axilValid
    BY <1>6 DEF Taken, Channel
  <2>2. Head(todo) \in RegisterWrite /\ due' = Append(due, Head(todo))
    BY <1>6, Progress, HeadIs DEF AEdge
  <2>3. /\ Len(due') = Len(due) + 1 /\ due'[Len(due) + 1] = Head(todo)
        /\ \A i \in 1..Len(due) : due'[i] = due[i]
    BY <1>1, <2>2, AppendProperties
  <2>4. /\ Len(g.q) = n + 1 /\ g.q[n + 1] = RegisterWord /\ \A i \in 1..n : g.q[i] = f.q[i]
    BY <1>1, <1>2, <2>1, WordType, AppendProperties
  <2>5. Carries(RegisterWord, Head(todo))
    BY <1>6, WordCarries
  <2> HIDE DEF f, g, n
  <2>6. Len(due') = InOut' + InMem' + Len(g.q)
    BY <1>1, <1>3, <1>4, <2>3, <2>4
  <2>7. g.valid => Carries(g.out, due'[1])
    <3>1. HAVE g.valid
    <3>2. 1 \in 1..Len(due)
      BY <1>1, <1>2, <1>3, <1>4, <1>5, <3>1
    <3>3. QED
      BY <1>2, <1>4, <2>3, <3>1, <3>2
  <2>8. g.mvalid => Carries(g.mdata, due'[InOut' + 1])
    <3>1. HAVE g.mvalid
    <3>2. InOut + 1 \in 1..Len(due)
      BY <1>1, <1>2, <1>3, <1>4, <1>5, <3>1
    <3>3. QED
      BY <1>2, <1>3, <1>4, <2>3, <3>1, <3>2
  <2>9. ASSUME NEW i \in 1..Len(g.q)
        PROVE  Carries(g.q[i], due'[InOut' + InMem' + i])
    <3>1. CASE i = n + 1
      <4>1. InOut' + InMem' + i = Len(due) + 1
        BY <1>1, <1>3, <1>4, <3>1
      <4>2. QED
        BY <2>3, <2>4, <2>5, <3>1, <4>1
    <3>2. CASE i # n + 1
      <4>1. i \in 1..n /\ InOut + InMem + i \in 1..Len(due) /\ InOut' + InMem' + i = InOut + InMem + i
        BY <1>1, <1>3, <1>4, <2>4, <3>2
      <4>2. QED
        BY <1>4, <2>3, <2>4, <4>1
    <3>3. QED
      BY <3>1, <3>2
  <2>10. QED
    BY <2>6, <2>7, <2>8, <2>9 DEF AllCarried, g
<1>7. CASE ~Taken
  <2>1. ~regs.axilValid
    BY <1>7 DEF Taken, Channel
  <2>2. due' = due /\ g.q = f.q
    BY <1>2, <1>7, <2>1 DEF AEdge
  <2>3. QED
    BY <1>2, <1>3, <1>4, <2>2 DEF AllCarried
<1>8. QED
  BY <1>6, <1>7

(* ... and when one arrives: it is the oldest.                             *)
LEMMA CarriedAtS ==
  ASSUME Types, AllCarried, NEW go, SEdge(go)
  PROVE  /\ AllCarried'
         /\ axil_sys.valid => due # << >> /\ Carries(axil_sys.out, Head(due)) /\ due' = Tail(due)
         /\ ~axil_sys.valid => due' = due
<1> DEFINE f == axil_sys
           g == axil_sys'
           n == Len(f.q)
<1>1. n \in Nat /\ due \in Seq(RegisterWrite) /\ Len(due) \in Nat
      /\ f.valid \in BOOLEAN /\ f.mvalid \in BOOLEAN /\ f.q \in Seq(RegWord)
  BY DEF Types, Fifo
<1>2. /\ f.seen2 > 0 =>
           /\ n >= 1 /\ Len(g.q) = n - 1
           /\ \A i \in 1..n - 1 : g.q[i] = f.q[i + 1]
           /\ g.mdata = f.q[1] /\ g.mvalid
      /\ ~(f.seen2 > 0) => g.q = f.q /\ Len(g.q) = n /\ ~g.mvalid
      /\ g.out = f.mdata /\ (g.valid <=> f.mvalid)
  BY WordsAtS
<1>3. /\ Len(due) = InOut + InMem + n
      /\ f.valid => Carries(f.out, due[1])
      /\ f.mvalid => Carries(f.mdata, due[InOut + 1])
      /\ \A i \in 1..n : Carries(f.q[i], due[InOut + InMem + i])
  BY DEF AllCarried
<1>4. /\ InOut \in {0, 1} /\ InMem \in {0, 1} /\ (f.valid <=> InOut = 1) /\ (f.mvalid <=> InMem = 1)
  BY DEF InOut, InMem
<1>5. InOut' = InMem /\ InMem' = (IF g.mvalid THEN 1 ELSE 0)
  <2>1. InOut' = (IF g.valid THEN 1 ELSE 0) /\ InMem' = (IF g.mvalid THEN 1 ELSE 0)
    BY DEF InOut, InMem
  <2>2. QED
    BY <1>2, <2>1 DEF InMem
<1>6. f.valid => due # << >> /\ Head(due) = due[1] /\ due' = Tail(due)
  <2>1. HAVE f.valid
  <2>2. Len(due) >= 1
    BY <1>1, <1>3, <1>4, <2>1
  <2>3. due # << >> /\ Head(due) = due[1]
    BY <1>1, <2>2
  <2>4. QED
    BY <2>1, <2>3 DEF SEdge
<1>7. ~f.valid => due' = due
  BY DEF SEdge
<1>8. /\ Len(due') = Len(due) - InOut
      /\ \A i \in 1..Len(due') : due'[i] = due[i + InOut]
  <2>1. CASE f.valid
    BY <1>1, <1>4, <1>6, <2>1, HeadTailProperties
  <2>2. CASE ~f.valid
    <3>1. InOut = 0 /\ due' = due
      BY <1>4, <1>7, <2>2
    <3>2. QED
      BY <1>1, <3>1
  <2>3. QED
    BY <2>1, <2>2
<1> HIDE DEF f, g, n
<1>9. AllCarried'
  <2>1. g.valid => Carries(g.out, due'[1])
    <3>1. HAVE g.valid
    <3>2. 1 \in 1..Len(due') /\ f.mvalid
      BY <1>1, <1>2, <1>3, <1>4, <1>8, <3>1
    <3>3. due'[1] = due[InOut + 1]
      BY <1>4, <1>8, <3>2
    <3>4. QED
      BY <1>2, <1>3, <3>2, <3>3
  <2>2. CASE f.seen2 > 0
    <3>0. InMem' = 1
      BY <1>2, <1>5, <2>2
    <3>1. Len(due') = InOut' + InMem' + Len(g.q)
      <4>1. Len(due') = InMem + n
        BY <1>1, <1>3, <1>4, <1>8
      <4>2. Len(g.q) = n - 1
        BY <1>2, <2>2
      <4>3. QED
        BY <1>1, <1>4, <1>5, <3>0, <4>1, <4>2
    <3>2. Carries(g.mdata, due'[InOut' + 1])
      <4>1. InMem + 1 \in 1..Len(due') /\ 1 \in 1..n /\ InMem + 1 + InOut = InOut + InMem + 1
        BY <1>1, <1>2, <1>3, <1>4, <1>8, <2>2
      <4>2. due'[InMem + 1] = due[InOut + InMem + 1]
        BY <1>8, <4>1
      <4>3. Carries(f.q[1], due[InOut + InMem + 1])
        BY <1>3, <4>1
      <4>4. QED
        BY <1>2, <1>5, <2>2, <4>2, <4>3
    <3>3. ASSUME NEW i \in 1..Len(g.q)
          PROVE  Carries(g.q[i], due'[InOut' + InMem' + i])
      <4>0. i \in 1..n - 1
        BY <1>2, <2>2
      <4>1. /\ InMem + 1 + i \in 1..Len(due') /\ i + 1 \in 1..n
            /\ InMem + 1 + i + InOut = InOut + InMem + (i + 1)
            /\ InOut' + InMem' + i = InMem + 1 + i
        <5>1. Len(due') = InMem + n
          BY <1>1, <1>3, <1>4, <1>8
        <5>2. QED
          BY <1>1, <1>4, <1>5, <3>0, <4>0, <5>1
      <4>2. due'[InMem + 1 + i] = due[InOut + InMem + (i + 1)]
        BY <1>8, <4>1
      <4>3. QED
        BY <1>2, <1>3, <2>2, <4>1, <4>2
    <3>4. QED
      BY <2>1, <3>1, <3>2, <3>3 DEF AllCarried, g
  <2>3. CASE ~(f.seen2 > 0)
    <3>0. InMem' = 0 /\ ~g.mvalid /\ g.q = f.q /\ Len(g.q) = n
      BY <1>2, <1>5, <2>3
    <3>1. Len(due') = InOut' + InMem' + Len(g.q)
      BY <1>1, <1>3, <1>4, <1>5, <1>8, <3>0
    <3>3. ASSUME NEW i \in 1..Len(g.q)
          PROVE  Carries(g.q[i], due'[InOut' + InMem' + i])
      <4>1. /\ InMem + i \in 1..Len(due') /\ i \in 1..n
            /\ InMem + i + InOut = InOut + InMem + i
            /\ InOut' + InMem' + i = InMem + i
        BY <1>1, <1>3, <1>4, <1>5, <1>8, <3>0
      <4>2. due'[InMem + i] = due[InOut + InMem + i]
        BY <1>8, <4>1
      <4>3. QED
        BY <1>3, <3>0, <4>1, <4>2
    <3>4. QED
      BY <2>1, <3>0, <3>1, <3>3 DEF AllCarried, g
  <2>4. QED
    BY <2>2, <2>3
<1>10. f.valid => Carries(f.out, Head(due))
  BY <1>3, <1>6
<1>11. QED
  BY <1>6, <1>7, <1>9, <1>10 DEF f

(* The writes due are the last ones made, in the order of the list.        *)
LEMMA InOrderAtA ==
  ASSUME Types, Channel, NEW op \in Ops, NEW x \in Values, Rest(op, x), InOrder(op, x),
         NEW slow, NEW finish, AEdge(slow, finish), Step < 11 \/ todo' = << >>
  PROVE  InOrder(op, x)'
<1>1. due \in Seq(RegisterWrite) /\ Len(due) \in Nat /\ Step \in 0..11
  BY HeadIs DEF Types
<1>2. Len(due) <= Made /\ \A i \in 1..Len(due) : due[i] = Script(op, x)[Made - Len(due) + i]
  BY DEF InOrder
<1>3. Made \in 0..9 /\ (Step < 9 => Made = Step)
  BY <1>1 DEF Made
<1>4. Made' = IF Step' >= 9 THEN 9 ELSE Step'
  BY DEF Made
<1>5. CASE Taken
  <2>1. Step < 9 /\ Step' = Step + 1 /\ Head(todo) = Script(op, x)[Step + 1]
        /\ Head(todo) \in RegisterWrite
    BY <1>5, <1>1, Progress, HeadIs DEF Moves
  <2>2. Made' = Made + 1 /\ Head(todo) = Script(op, x)[Made + 1]
    BY <1>1, <1>3, <1>4, <2>1
  <2>3. due' = Append(due, Head(todo))
    BY <1>5 DEF AEdge
  <2>4. /\ Len(due') = Len(due) + 1 /\ due'[Len(due) + 1] = Head(todo)
        /\ \A i \in 1..Len(due) : due'[i] = due[i]
    BY <1>1, <2>1, <2>3, AppendProperties
  <2>5. ASSUME NEW i \in 1..Len(due')
        PROVE  due'[i] = Script(op, x)[Made' - Len(due') + i]
    <3>1. CASE i = Len(due) + 1
      <4>1. Made' - Len(due') + i = Made + 1
        BY <1>1, <1>3, <2>2, <2>4, <3>1
      <4>2. QED
        BY <2>2, <2>4, <3>1, <4>1
    <3>2. CASE i # Len(due) + 1
      <4>1. i \in 1..Len(due) /\ Made' - Len(due') + i = Made - Len(due) + i
        BY <1>1, <1>3, <2>2, <2>4, <3>2
      <4>2. QED
        BY <1>2, <2>4, <4>1
    <3>3. QED
      BY <3>1, <3>2
  <2>6. Len(due') <= Made'
    BY <1>1, <1>2, <1>3, <2>2, <2>4
  <2>7. QED
    BY <2>5, <2>6 DEF InOrder
<1>6. CASE ~Taken
  <2>1. due' = due
    BY <1>6 DEF AEdge
  <2>2. Step' = Step \/ (Step' = Step + 1 /\ Step >= 9)
    <3>1. CASE Moves(slow)
      <4>1. axil.rvalid
        BY <1>6, <3>1 DEF Moves, Answered
      <4>2. Step >= 9
        BY <4>1, <1>1, HeadIs DEF Channel
      <4>3. QED
        BY <3>1, <4>2, Progress
    <3>2. CASE ~Moves(slow)
      BY <3>2, Progress
    <3>3. QED
      BY <3>1, <3>2
  <2>3. Made' = Made
    <3>1. CASE Step < 9
      BY <1>1, <1>3, <1>4, <2>2, <3>1
    <3>2. CASE ~(Step < 9)
      <4>1. Made = 9 /\ Step' >= 9
        BY <1>1, <2>2, <3>2 DEF Made
      <4>2. QED
        BY <1>4, <4>1
    <3>3. QED
      BY <3>1, <3>2
  <2>4. QED
    BY <1>2, <2>1, <2>3 DEF InOrder
<1>7. QED
  BY <1>5, <1>6

(* ... and stay so when the oldest arrives.                                *)
LEMMA InOrderAtS ==
  ASSUME Types, AllCarried, NEW op \in Ops, NEW x \in Values, Rest(op, x), InOrder(op, x),
         NEW go, SEdge(go)
  PROVE  InOrder(op, x)'
<1>1. due \in Seq(RegisterWrite) /\ Len(due) \in Nat /\ Step \in 0..11
  BY HeadIs DEF Types
<1>2. Len(due) <= Made /\ \A i \in 1..Len(due) : due[i] = Script(op, x)[Made - Len(due) + i]
  BY DEF InOrder
<1>3. Made \in 0..9 /\ Made' = Made
  BY <1>1 DEF Made, Step, SEdge
<1>4. CASE axil_sys.valid
  <2>1. due # << >> /\ due' = Tail(due)
    BY <1>4, CarriedAtS
  <2>2. Len(due') = Len(due) - 1 /\ \A i \in 1..Len(due') : due'[i] = due[i + 1]
    BY <1>1, <2>1, HeadTailProperties
  <2>3. ASSUME NEW i \in 1..Len(due')
        PROVE  due'[i] = Script(op, x)[Made' - Len(due') + i]
    <3>1. i + 1 \in 1..Len(due) /\ Made' - Len(due') + i = Made - Len(due) + (i + 1)
      BY <1>1, <1>3, <2>2
    <3>2. QED
      BY <1>2, <2>2, <3>1
  <2>4. Len(due') <= Made'
    BY <1>1, <1>2, <1>3, <2>2
  <2>5. QED
    BY <2>3, <2>4 DEF InOrder
<1>5. CASE ~axil_sys.valid
  <2>1. due' = due
    BY <1>5, CarriedAtS
  <2>2. QED
    BY <1>2, <1>3, <2>1 DEF InOrder
<1>6. QED
  BY <1>4, <1>5

(***************************************************************************)
(* The status on its way back.                                             *)
(***************************************************************************)
LEMMA LineIs ==
  ASSUME Types
  PROVE  /\ Places \in Nat /\ Places >= 3
         /\ Line[1] = sys_axil.out /\ Line[2] = sys_axil.mdata /\ Line[Places] = Newest
         /\ \A i \in 1..Len(sys_axil.q) : Line[i + 2] = sys_axil.q[i]
         /\ \A i \in 1..Places : Line[i] \in StatusWord
<1> DEFINE n == Len(sys_axil.q)
<1>1. n \in Nat /\ Places = n + 3 /\ sys_axil.q \in Seq(StatusWord)
      /\ sys_axil.out \in StatusWord /\ sys_axil.mdata \in StatusWord
  BY DEF Types, Fifo, Places
<1>2. Newest \in StatusWord
  BY WordType
<1>3. \A i \in 1..n : sys_axil.q[i] \in StatusWord
  BY <1>1, ElementOfSeq
<1> HIDE DEF n
<1>4. Line[1] = sys_axil.out /\ Line[2] = sys_axil.mdata /\ Line[Places] = Newest
  BY <1>1 DEF Line
<1>5. ASSUME NEW i \in 1..n
      PROVE  Line[i + 2] = sys_axil.q[i]
  <2>1. i + 2 \in 1..Places /\ i + 2 # 1 /\ i + 2 # 2 /\ i + 2 # Places /\ (i + 2) - 2 = i
    BY <1>1
  <2>2. QED
    BY <2>1 DEF Line
<1>6. ASSUME NEW i \in 1..Places
      PROVE  Line[i] \in StatusWord
  <2>1. CASE i \in {1, 2, Places}
    BY <1>1, <1>2, <1>4, <2>1
  <2>2. CASE i \notin {1, 2, Places}
    <3>1. i - 2 \in 1..n /\ (i - 2) + 2 = i
      BY <1>1, <2>2
    <3>2. QED
      BY <1>3, <1>5, <3>1
  <2>3. QED
    BY <2>1, <2>2
<1>7. QED
  BY <1>1, <1>4, <1>5, <1>6 DEF n

\* The place a word had before an edge of the AXI clock.
From(i) == IF sys_axil.seen2 > 0 THEN i + 1 ELSE IF i = 1 THEN 2 ELSE i

(* An edge of the AXI clock moves the line up by a place, or all but its   *)
(* head waits.                                                             *)
LEMMA LineAtA ==
  ASSUME Types, NEW slow, NEW finish, AEdge(slow, finish)
  PROVE  /\ Places' = IF sys_axil.seen2 > 0 THEN Places - 1 ELSE Places
         /\ \A i \in 1..Places' : From(i) \in 2..Places /\ Line'[i] = Line[From(i)]
<1> DEFINE n == Len(sys_axil.q)
           m == Len(sys_axil'.q)
<1>1. n \in Nat /\ Places = n + 3 /\ Places' = m + 3
  BY DEF Types, Fifo, Places
<1>2. /\ Line[1] = sys_axil.out /\ Line[2] = sys_axil.mdata /\ Line[Places] = Newest
      /\ \A i \in 1..n : Line[i + 2] = sys_axil.q[i]
  BY LineIs
<1>3. Newest' = Newest
  BY DEF AEdge, Newest
<1>4. Line' = [i \in 1..Places' |->
                 IF i = 1 THEN sys_axil'.out
                 ELSE IF i = 2 THEN sys_axil'.mdata
                 ELSE IF i = Places' THEN Newest' ELSE sys_axil'.q[i - 2]]
  BY DEF Line
<1>5. /\ sys_axil.seen2 > 0 =>
           /\ n >= 1 /\ m = n - 1
           /\ \A i \in 1..n - 1 : sys_axil'.q[i] = sys_axil.q[i + 1]
           /\ sys_axil'.mdata = sys_axil.q[1]
      /\ ~(sys_axil.seen2 > 0) =>
           sys_axil'.q = sys_axil.q /\ m = n /\ sys_axil'.mdata = sys_axil.mdata
      /\ sys_axil'.out = sys_axil.mdata
  BY StatusAtA
<1> HIDE DEF n, m
<1>6. CASE sys_axil.seen2 > 0
  <2>1. ASSUME NEW i \in 1..Places'
        PROVE  From(i) \in 2..Places /\ Line'[i] = Line[From(i)]
    <3>1. From(i) = i + 1 /\ i + 1 \in 2..Places
      BY <1>1, <1>5, <1>6 DEF From
    <3>2. CASE i = 1
      BY <1>2, <1>4, <1>5, <3>1, <3>2
    <3>3. CASE i = 2
      <4>1. 1 \in 1..n /\ 1 + 2 = i + 1 /\ i # 1
        BY <1>1, <1>5, <1>6, <3>3
      <4>2. Line[i + 1] = sys_axil.q[1]
        BY <1>2, <4>1
      <4>3. Line'[i] = sys_axil'.mdata
        BY <1>4, <3>3
      <4>4. QED
        BY <1>5, <1>6, <3>1, <4>2, <4>3
    <3>4. CASE i = Places' /\ i # 2
      <4>1. i + 1 = Places /\ i # 1
        BY <1>1, <1>5, <1>6, <3>4
      <4>2. Line'[i] = Newest'
        BY <1>4, <3>4, <4>1
      <4>3. QED
        BY <1>2, <1>3, <3>1, <4>1, <4>2
    <3>5. CASE i # 1 /\ i # 2 /\ i # Places'
      <4>1. i - 2 \in 1..n - 1 /\ (i - 2) + 1 \in 1..n /\ ((i - 2) + 1) + 2 = i + 1
        BY <1>1, <1>5, <1>6, <3>5
      <4>2. Line'[i] = sys_axil'.q[i - 2]
        BY <1>4, <3>5
      <4>3. sys_axil'.q[i - 2] = sys_axil.q[(i - 2) + 1]
        BY <1>5, <1>6, <4>1
      <4>4. Line[((i - 2) + 1) + 2] = sys_axil.q[(i - 2) + 1]
        BY <1>2, <4>1
      <4>5. QED
        BY <3>1, <4>1, <4>2, <4>3, <4>4
    <3>6. QED
      BY <3>2, <3>3, <3>4, <3>5
  <2>2. QED
    BY <1>1, <1>5, <1>6, <2>1
<1>7. CASE ~(sys_axil.seen2 > 0)
  <2>0. Places' = Places
    BY <1>1, <1>5, <1>7
  <2>1. ASSUME NEW i \in 1..Places'
        PROVE  From(i) \in 2..Places /\ Line'[i] = Line[From(i)]
    <3>1. From(i) = (IF i = 1 THEN 2 ELSE i) /\ From(i) \in 2..Places
      BY <1>1, <1>7, <2>0 DEF From
    <3>2. CASE i = 1
      BY <1>2, <1>4, <1>5, <3>1, <3>2
    <3>3. CASE i = 2
      <4>1. Line'[i] = sys_axil'.mdata
        BY <1>4, <3>3
      <4>2. QED
        BY <1>2, <1>5, <1>7, <3>1, <3>3, <4>1
    <3>4. CASE i = Places' /\ i # 2 /\ i # 1
      <4>2. Line'[i] = Newest'
        BY <1>4, <3>4
      <4>3. QED
        BY <1>2, <1>3, <2>0, <3>1, <3>4, <4>2
    <3>5. CASE i # 1 /\ i # 2 /\ i # Places'
      <4>1. i - 2 \in 1..n /\ (i - 2) + 2 = i
        BY <1>1, <2>0, <3>5
      <4>2. Line'[i] = sys_axil'.q[i - 2]
        BY <1>4, <3>5
      <4>3. Line[(i - 2) + 2] = sys_axil.q[i - 2]
        BY <1>2, <4>1
      <4>4. QED
        BY <1>5, <1>7, <3>1, <3>5, <4>1, <4>2, <4>3
    <3>6. QED
      BY <3>2, <3>3, <3>4, <3>5
  <2>2. QED
    BY <1>7, <2>0, <2>1
<1>8. QED
  BY <1>6, <1>7

(* An edge of the system clock adds a place at the end of the line.        *)
LEMMA LineAtS ==
  ASSUME Types, RegisterPace, StatusPace, NEW go, SEdge(go)
  PROVE  /\ Places' = Places + 1
         /\ \A i \in 1..Places : Line'[i] = Line[i]
         /\ Line'[Places + 1].busy = Busy /\ Line'[Places + 1].pulse = machine'.pulse
<1> DEFINE n == Len(sys_axil.q)
           m == Len(sys_axil'.q)
<1>1. n \in Nat /\ Places = n + 3 /\ Places' = m + 3 /\ sys_axil.q \in Seq(StatusWord)
      /\ Newest \in StatusWord
  BY WordType DEF Types, Fifo, Places
<1>2. /\ Line[1] = sys_axil.out /\ Line[2] = sys_axil.mdata /\ Line[Places] = Newest
      /\ \A i \in 1..n : Line[i + 2] = sys_axil.q[i]
  BY LineIs
<1>3. Line' = [i \in 1..Places' |->
                 IF i = 1 THEN sys_axil'.out
                 ELSE IF i = 2 THEN sys_axil'.mdata
                 ELSE IF i = Places' THEN Newest' ELSE sys_axil'.q[i - 2]]
  BY DEF Line
<1>4. /\ sys_axil'.q = Append(sys_axil.q, Newest) /\ m = n + 1
      /\ sys_axil'.mdata = sys_axil.mdata /\ sys_axil'.out = sys_axil.out
  BY StatusAtS
<1>5. sys_axil'.q[n + 1] = Newest /\ \A i \in 1..n : sys_axil'.q[i] = sys_axil.q[i]
  BY <1>1, <1>4, AppendProperties
<1>6. Newest'.busy = Busy /\ Newest'.pulse = machine'.pulse
  BY DEF Newest, SEdge, AdapterNext
<1> HIDE DEF n, m
<1>7. Places' = Places + 1
  BY <1>1, <1>4
<1>8. ASSUME NEW i \in 1..Places
      PROVE  Line'[i] = Line[i]
  <2>1. i \in 1..Places' /\ i # Places'
    BY <1>1, <1>7
  <2>2. CASE i = 1
    BY <1>2, <1>3, <1>4, <2>1, <2>2
  <2>3. CASE i = 2
    <3>1. Line'[i] = sys_axil'.mdata
      BY <1>3, <2>1, <2>3
    <3>2. QED
      BY <1>2, <1>4, <2>3, <3>1
  <2>4. CASE i # 1 /\ i # 2
    <3>1. Line'[i] = sys_axil'.q[i - 2]
      BY <1>3, <2>1, <2>4
    <3>2. CASE i = Places
      <4>1. i - 2 = n + 1
        BY <1>1, <3>2
      <4>2. QED
        BY <1>2, <1>5, <3>1, <3>2, <4>1
    <3>3. CASE i # Places
      <4>1. i - 2 \in 1..n /\ (i - 2) + 2 = i
        BY <1>1, <2>4, <3>3
      <4>2. Line[(i - 2) + 2] = sys_axil.q[i - 2] /\ sys_axil'.q[i - 2] = sys_axil.q[i - 2]
        BY <1>2, <1>5, <4>1
      <4>3. QED
        BY <3>1, <4>1, <4>2
    <3>4. QED
      BY <3>2, <3>3
  <2>5. QED
    BY <2>2, <2>3, <2>4
<1>9. Line'[Places + 1] = Newest'
  <2>1. Places + 1 \in 1..Places' /\ Places + 1 # 1 /\ Places + 1 # 2 /\ Places + 1 = Places'
    BY <1>1, <1>7
  <2>2. QED
    BY <1>3, <2>1
<1>10. QED
  BY <1>6, <1>7, <1>8, <1>9

(***************************************************************************)
(* The course of a call at an edge of the AXI clock that begins no new     *)
(* call.                                                                   *)
(***************************************************************************)
InCourse(op, x) ==
  /\ op \in Ops /\ x \in Values
  /\ Types /\ StatusFlow /\ Channel /\ Rest(op, x) /\ OperandsSet(op, x) /\ Course(op, x)
SameCall(slow, finish) ==
  finish \in SUBSET MayFinish /\ AEdge(slow, finish) /\ (Step < 11 \/ todo' = << >>)

(* What the driver does at the edge: nothing, a write, the end of its      *)
(* first poll or that of its second.                                       *)
Waits == Step' = Step /\ due' = due /\ Owed = {}
Writes(op, x) ==
  /\ Step < 9 /\ Step' = Step + 1
  /\ due' # << >>
  /\ Owed = IF Step = 8 THEN {[dir |-> op, addr |-> x, len |-> x]} ELSE {}
SeesBusy ==
  /\ Step = 9 /\ Step' = 10 /\ due' = due /\ Owed = {}
  /\ axil.rvalid /\ axil.rdata /\ ~axil'.rvalid
SeesReady ==
  /\ Step = 10 /\ Step' = 11 /\ due' = due /\ Owed = {}
  /\ axil.rvalid /\ ~axil.rdata /\ ~axil'.rvalid
DriverDoes(op, x) ==
  \/ Waits
  \/ Writes(op, x)
  \/ SeesBusy
  \/ SeesReady

(* The driver does one of these four at the edge.                          *)
LEMMA DriverAtA ==
  ASSUME Types, Channel, NEW op \in Ops, NEW x \in Values, Rest(op, x),
         NEW slow, NEW finish, AEdge(slow, finish), Step < 11 \/ todo' = << >>
  PROVE  DriverDoes(op, x)
<1> DEFINE s == Script(op, x)
           h == Head(todo)
<1>0. ScriptShape(s, op, x)
  BY ScriptSteps, Zenon
<1>1. Step \in 0..11 /\ (Step < 11 => h = s[Step + 1])
  BY HeadIs
<1>2. due \in Seq(RegisterWrite)
  BY DEF Types
<1>3. due' = IF Taken THEN Append(due, h) ELSE due
  BY DEF AEdge
<1>4. Owed = IF Taken /\ h.reg = "cmd" /\ h.val \in Ops
             THEN {[dir |-> h.val, addr |-> h.x, len |-> h.x]} ELSE {}
  BY DEF Owed
<1>5. CASE ~Moves(slow)
  <2>1. ~Taken
    BY <1>5 DEF Moves
  <2>2. Step' = Step
    BY <1>5, Progress
  <2>3. QED
    BY <1>3, <1>4, <2>1, <2>2 DEF DriverDoes, Waits
<1>6. CASE Taken
  <2>1. Step < 9 /\ Step' = Step + 1 /\ h \in RegisterWrite
    BY <1>6, Progress, HeadIs DEF Moves
  <2>2. due' # << >>
    BY <1>2, <1>3, <1>6, <2>1, AppendProperties
  <2>3. h = s[Step + 1] /\ Step + 1 \in 1..9
    BY <1>1, <2>1
  <2>4. h.x = x
    BY <1>0, <2>3 DEF ScriptShape
  <2>5. Owed = IF Step = 8 THEN {[dir |-> op, addr |-> x, len |-> x]} ELSE {}
    <3>1. CASE Step = 8
      <4>1. h.reg = "cmd" /\ h.val = op
        BY <1>0, <2>3, <3>1 DEF ScriptShape
      <4>2. QED
        BY <1>4, <1>6, <2>4, <3>1, <4>1
    <3>2. CASE Step \in {1, 3, 5}
      <4>1. Step + 1 \in {2, 4, 6}
        BY <3>2
      <4>2. h.val \in Setups
        BY <1>0, <2>3, <4>1 DEF ScriptShape
      <4>3. h.val \notin Ops
        BY <4>2 DEF Setups, Ops
      <4>4. QED
        BY <1>4, <3>2, <4>3
    <3>3. CASE Step \in {0, 2, 4, 6, 7}
      <4>1. h = s[1] \/ h = s[3] \/ h = s[5] \/ h = s[7] \/ h = s[8]
        BY <2>3, <3>3
      <4>2. h.reg # "cmd"
        BY <1>0, <4>1 DEF ScriptShape, Ops
      <4>3. QED
        BY <1>4, <3>3, <4>2
    <3>4. QED
      BY <1>1, <2>1, <3>1, <3>2, <3>3
  <2>6. QED
    BY <2>1, <2>2, <2>5 DEF DriverDoes, Writes
<1>7. CASE Moves(slow) /\ ~Taken
  <2>1. axil.rvalid /\ axil.rdata = h.busy
    BY <1>7 DEF Moves, Answered
  <2>2. Step \in 9..10 /\ h = s[Step + 1]
    BY <1>1, <2>1, HeadIs DEF Channel
  <2>3. Step' = Step + 1 /\ ~axil'.rvalid
    BY <1>7, Progress, MoveClears
  <2>4. due' = due /\ Owed = {}
    BY <1>3, <1>4, <1>7
  <2>5. CASE Step = 9
    <3>1. h.busy = TRUE
      BY <1>0, <2>2, <2>5 DEF ScriptShape
    <3>2. QED
      BY <2>1, <2>3, <2>4, <2>5, <3>1 DEF DriverDoes, SeesBusy, SeesReady
  <2>6. CASE Step = 10
    <3>1. h.busy = FALSE
      BY <1>0, <2>2, <2>6 DEF ScriptShape
    <3>2. QED
      BY <2>1, <2>3, <2>4, <2>6, <3>1 DEF DriverDoes, SeesBusy, SeesReady
  <2>7. QED
    BY <2>2, <2>5, <2>6
<1>8. QED
  BY <1>5, <1>6, <1>7

(* The line moves on, in order.                                            *)
LEMMA LineKept ==
  ASSUME Types, NEW slow, NEW finish, AEdge(slow, finish)
  PROVE  /\ \A b \in BOOLEAN : AllBusy(b) => AllBusy(b)'
         /\ Rises => Rises'
         /\ Falls => Falls'
         /\ NoPulse => NoPulse'
<1>1. /\ Places \in Nat /\ Places' \in Nat
      /\ \A i \in 1..Places' : From(i) \in 1..Places /\ Line'[i] = Line[From(i)]
  BY LineIs, LineAtA
<1>2. \A i, j \in 1..Places' : i < j => From(i) < From(j) \/ From(i) = From(j)
  BY <1>1 DEF From
<1>3. \A b \in BOOLEAN : AllBusy(b) => AllBusy(b)'
  BY <1>1 DEF AllBusy
<1>4. NoPulse => NoPulse'
  BY <1>1 DEF NoPulse
<1>5. ASSUME Rises PROVE Rises'
  <2>1. ASSUME NEW i \in 1..Places', NEW j \in 1..Places', i < j, Line'[i].busy
        PROVE  Line'[j].busy
    <3>1. Line[From(i)].busy /\ From(i) \in 1..Places /\ From(j) \in 1..Places
          /\ Line'[j] = Line[From(j)]
      BY <1>1, <2>1
    <3>2. QED
      BY <1>2, <1>5, <2>1, <3>1 DEF Rises
  <2>2. QED
    BY <2>1 DEF Rises
<1>6. ASSUME Falls PROVE Falls'
  <2>1. ASSUME NEW i \in 1..Places', NEW j \in 1..Places', i < j, Line'[j].busy
        PROVE  Line'[i].busy
    <3>1. Line[From(j)].busy /\ From(i) \in 1..Places /\ From(j) \in 1..Places
          /\ Line'[i] = Line[From(i)]
      BY <1>1, <2>1
    <3>2. QED
      BY <1>2, <1>6, <2>1, <3>1 DEF Falls
  <2>2. QED
    BY <2>1 DEF Falls
<1>7. QED
  BY <1>3, <1>4, <1>5, <1>6

(* The phase of the call fits the driver's step: it sees its operation     *)
(* busy only while it runs, and ready only when it is over.                *)
LEMMA PhaseAtA ==
  ASSUME NEW op, NEW x, InCourse(op, x), NEW slow, NEW finish, SameCall(slow, finish)
  PROVE  /\ Phase(op)'
         /\ Writes(op, x) => ~Started
         /\ SeesBusy => Started /\ Runs(op) /\ AllBusy(TRUE) /\ machine.st = "wait"
         /\ SeesReady => Over /\ AllBusy(FALSE)
         /\ machine' = machine /\ adapter' = adapter
<1>1. /\ op \in Ops /\ x \in Values /\ Types /\ Channel /\ Rest(op, x) /\ Phase(op) /\ Bits
      /\ AEdge(slow, finish) /\ (Step < 11 \/ todo' = << >>)
  BY DEF InCourse, SameCall, Course
<1>2. Step \in 0..11 /\ DriverDoes(op, x)
  BY <1>1, DriverAtA, HeadIs
<1>3. machine' = machine /\ adapter' = adapter
  BY <1>1 DEF AEdge
<1>4. /\ ~adapter.fail /\ (Step = 11 => due = << >>)
      /\ Quiet \/ Accepted(op) \/ Runs(op) \/ Over
  BY <1>1 DEF Phase
<1>5. Writes(op, x) => ~Started
  BY <1>2, <1>4 DEF Writes, Quiet, Accepted, Runs, Over, Started
<1>6. ASSUME SeesBusy
      PROVE  Started /\ Runs(op) /\ AllBusy(TRUE) /\ machine.st = "wait"
  <2>1. axil.rvalid /\ axil.rdata
    BY <1>6 DEF SeesBusy, SeesReady
  <2>2. Started
    BY <1>1, <2>1 DEF Bits
  <2>3. Runs(op)
    BY <1>4, <1>6, <2>2 DEF Started, Quiet, Accepted, Over, SeesBusy
  <2>4. Rising
    BY <1>1, <1>6, <2>2 DEF Bits, SeesBusy
  <2>5. AllBusy(TRUE)
    BY <2>1, <2>4 DEF Rising
  <2>6. adapter.busy = TRUE
    <3>1. Places \in 1..Places /\ Line[Places] = Newest
      BY <1>1, LineIs
    <3>2. Newest.busy = TRUE
      BY <2>5, <3>1 DEF AllBusy
    <3>3. QED
      BY <3>2 DEF Newest
  <2>7. QED
    BY <2>2, <2>3, <2>4, <2>5, <2>6 DEF Rising
<1>7. ASSUME SeesReady
      PROVE  Over /\ AllBusy(FALSE)
  <2>1. axil.rvalid /\ ~axil.rdata
    BY <1>7 DEF SeesBusy, SeesReady
  <2>2. AllBusy(FALSE) /\ ~Busy
    BY <1>1, <1>7, <2>1 DEF Bits, Falling, SeesReady
  <2>3. Step = 10 /\ machine.st = "ready"
    BY <1>7, <2>2 DEF Busy, SeesReady
  <2>4. Over
    BY <1>4, <2>3 DEF Quiet, Accepted, Runs, Before
  <2>5. QED
    BY <2>2, <2>4
<1>8. Phase(op)'
  <2>1. CASE Waits
    BY <1>3, <1>4, <2>1 DEF Waits, Phase, Quiet, Accepted, Runs, Over, Before
  <2>2. CASE Writes(op, x)
    <3>1. Quiet /\ Step' \in 1..9 /\ due' # << >>
      BY <1>2, <1>4, <2>2 DEF Writes, Accepted, Runs, Over
    <3>2. QED
      BY <1>3, <1>4, <3>1 DEF Phase, Quiet, Before
  <2>3. CASE SeesBusy
    <3>1. Runs(op) /\ Step' = 10 /\ due' = due
      BY <1>6, <2>3 DEF SeesBusy, SeesReady
    <3>2. QED
      BY <1>3, <1>4, <3>1 DEF Phase, Runs
  <2>4. CASE SeesReady
    <3>1. Over /\ Step' = 11 /\ due' = due
      BY <1>7, <2>4 DEF SeesBusy, SeesReady
    <3>2. QED
      BY <1>3, <1>4, <3>1 DEF Phase, Over, Quiet, Before
  <2>5. QED
    BY <1>2, <2>1, <2>2, <2>3, <2>4 DEF DriverDoes
<1>9. QED
  BY <1>3, <1>5, <1>6, <1>7, <1>8

(* The busy bits under way keep their story while the driver takes one     *)
(* off.                                                                    *)
LEMMA BitsAtA ==
  ASSUME NEW op, NEW x, InCourse(op, x), NEW slow, NEW finish, SameCall(slow, finish)
  PROVE  Bits'
<1>1. /\ op \in Ops /\ x \in Values /\ Types /\ Channel /\ Rest(op, x) /\ Phase(op) /\ Bits
      /\ AEdge(slow, finish) /\ (Step < 11 \/ todo' = << >>)
  BY DEF InCourse, SameCall, Course
<1>2. Step \in 0..11 /\ DriverDoes(op, x)
  BY <1>1, DriverAtA, HeadIs
<1>3. /\ machine' = machine /\ adapter' = adapter
      /\ Writes(op, x) => ~Started
      /\ SeesBusy => Started /\ Runs(op) /\ AllBusy(TRUE) /\ machine.st = "wait"
      /\ SeesReady => Over /\ AllBusy(FALSE)
  BY PhaseAtA
<1>4. /\ AllBusy(TRUE) => AllBusy(TRUE)'
      /\ AllBusy(FALSE) => AllBusy(FALSE)'
      /\ Rises => Rises'
      /\ Falls => Falls'
  BY <1>1, LineKept
<1>5. /\ 1 \in 1..Places /\ Places \in 1..Places
      /\ Line[1] = sys_axil.out /\ Line[Places].busy = adapter.busy
      /\ sys_axil.out.busy \in BOOLEAN /\ Places \in Nat /\ Places >= 3
  BY <1>1, LineIs DEF Newest, StatusWord
\* What a read that is answered at this edge says.
<1>6. axil'.rvalid =>
        axil'.rdata = Line[1].busy \/ (axil.rvalid /\ axil'.rdata = axil.rdata)
  BY <1>1, <1>5, AxilAtA
<1>7. ~Started' => AllBusy(FALSE)' /\ (axil'.rvalid => ~axil'.rdata)
  <2>1. HAVE ~Started'
  <2>2. CASE ~Started
    <3>1. AllBusy(FALSE) /\ (axil.rvalid => ~axil.rdata)
      BY <1>1, <2>2 DEF Bits
    <3>2. ~Line[1].busy
      BY <1>5, <3>1 DEF AllBusy
    <3>3. QED
      BY <1>4, <1>6, <3>1, <3>2
  <2>3. CASE Started
    <3>1. SeesReady
      BY <1>2, <1>3, <2>1, <2>3 DEF Started, DriverDoes, Waits, SeesBusy, SeesReady
    <3>2. QED
      BY <1>3, <1>4, <3>1 DEF SeesBusy, SeesReady
  <2>4. QED
    BY <2>2, <2>3
<1>8. Step' = 9 /\ Started' => Rising'
  <2>1. HAVE Step' = 9 /\ Started'
  <2>2. Step = 9 /\ Started
    BY <1>2, <1>3, <2>1 DEF Started, DriverDoes, Waits, Writes, SeesBusy, SeesReady
  <2>3. Rising
    BY <1>1, <2>2 DEF Bits
  <2>4. Line[1].busy => AllBusy(TRUE)
    <3>1. ASSUME Line[1].busy, NEW i \in 1..Places
          PROVE  Line[i].busy = TRUE
      <4>1. Line[i].busy \in BOOLEAN
        BY <1>1, LineIs DEF StatusWord
      <4>2. Line[i].busy
        <5>1. i = 1 \/ 1 < i
          BY <1>5
        <5>2. QED
          BY <1>5, <2>3, <3>1, <5>1 DEF Rising, Rises
      <4>3. QED
        BY <4>1, <4>2
    <3>2. QED
      BY <3>1 DEF AllBusy
  <2>5. axil'.rvalid /\ axil'.rdata => AllBusy(TRUE)
    BY <1>6, <2>3, <2>4 DEF Rising
  <2>6. QED
    BY <1>3, <1>4, <2>3, <2>5 DEF Rising
<1>9. Step' = 10 => Falling'
  <2>1. HAVE Step' = 10
  <2>2. CASE Step = 9
    <3>0. SeesBusy
      BY <1>2, <2>1, <2>2 DEF DriverDoes, Waits, Writes, SeesReady
    <3>1. SeesBusy /\ AllBusy(TRUE) /\ machine.st = "wait"
      BY <1>3, <3>0, Zenon
    <3>2. AllBusy(TRUE)' /\ ~axil'.rvalid
      BY <1>4, <3>1 DEF SeesBusy, SeesReady
    <3>3. adapter.busy
      BY <1>5, <3>1 DEF AllBusy
    <3>4. Falls'
      BY <3>2 DEF AllBusy, Falls
    <3>5. QED
      BY <1>3, <3>1, <3>2, <3>3, <3>4 DEF Falling
  <2>3. CASE Step = 10
    <3>1. Falling
      BY <1>1, <2>3 DEF Bits
    <3>2. ~Line[1].busy => AllBusy(FALSE) /\ ~Busy
      <4>1. ASSUME ~Line[1].busy, NEW i \in 1..Places
            PROVE  Line[i].busy = FALSE
        <5>1. Line[i].busy \in BOOLEAN
          BY <1>1, LineIs DEF StatusWord
        <5>2. ~Line[i].busy
          <6>1. i = 1 \/ 1 < i
            BY <1>5
          <6>2. QED
            BY <1>5, <3>1, <4>1, <6>1 DEF Falling, Falls
        <5>3. QED
          BY <5>1, <5>2
      <4>2. QED
        BY <1>5, <3>1, <4>1 DEF AllBusy, Falling
    <3>3. axil'.rvalid /\ ~axil'.rdata => AllBusy(FALSE) /\ ~Busy
      BY <1>6, <3>1, <3>2 DEF Falling
    <3>4. QED
      BY <1>3, <1>4, <3>1, <3>3 DEF Falling, Busy
  <2>4. QED
    BY <1>2, <2>1, <2>2, <2>3 DEF DriverDoes, Waits, Writes, SeesBusy, SeesReady
<1>10. QED
  BY <1>7, <1>8, <1>9 DEF Bits

(* Pulses move on with the line; an operation's becomes due with the write *)
(* of its command.                                                         *)
LEMMA PulsesAtA ==
  ASSUME NEW op, NEW x, InCourse(op, x), NEW slow, NEW finish, SameCall(slow, finish)
  PROVE  /\ Pulsed(op)' /\ OnePulse(op)'
         /\ Unborn(op)' <=> Unborn(op) \/ (Writes(op, x) /\ Step = 8)
<1>1. /\ op \in Ops /\ x \in Values /\ Types /\ Channel /\ Rest(op, x) /\ Phase(op) /\ Bits
      /\ Pulsed(op) /\ OnePulse(op)
      /\ AEdge(slow, finish) /\ (Step < 11 \/ todo' = << >>)
  BY DEF InCourse, SameCall, Course
<1>2. Step \in 0..11 /\ DriverDoes(op, x)
  BY <1>1, DriverAtA, HeadIs
<1>3. /\ machine' = machine
      /\ Writes(op, x) => ~Started
      /\ SeesBusy => Started /\ AllBusy(TRUE) /\ machine.st = "wait"
      /\ SeesReady => Over /\ AllBusy(FALSE)
  BY PhaseAtA
<1>4. /\ \A i \in 1..Places :
           /\ Line[i].pulse \in {"none", op}
           /\ Line[i].pulse = op => (Line[i].busy <=> op = "ReadPage")
      /\ ~Started \/ Unborn(op) => NoPulse
      /\ Step = 10 /\ op = "ProgramPage" => NoPulse
  BY <1>1 DEF Pulsed
<1>5. /\ Places \in Nat /\ Places' \in Nat
      /\ \A i \in 1..Places' : From(i) \in 2..Places /\ From(i) \in 1..Places /\ Line'[i] = Line[From(i)]
  BY <1>1, LineIs, LineAtA
<1>6. NoPulse => NoPulse'
  BY <1>1, LineKept
<1>7. Unborn(op)' <=> Unborn(op) \/ (Writes(op, x) /\ Step = 8)
  <2>1. /\ Unborn(op)' <=>
             \/ Step' = 9 /\ (op = "ReadPage" \/ ~Started')
             \/ Step' = 10 /\ op = "ReadPage" /\ machine'.st = "wait"
        /\ Started' <=> machine'.st # "ready" \/ Step' = 10
    BY DEF Unborn, Started
  <2>2. CASE Waits
    BY <1>3, <2>1, <2>2 DEF Waits, Writes, Unborn, Started
  <2>3. CASE Writes(op, x)
    BY <1>2, <1>3, <2>1, <2>3 DEF Writes, Unborn, Started
  <2>4. CASE SeesBusy
    BY <1>3, <2>1, <2>4 DEF SeesBusy, Writes, Unborn
  <2>5. CASE SeesReady
    <3>1. Over /\ Step = 10 /\ Step' = 11
      BY <1>3, <2>5, Zenon DEF SeesReady
    <3>2. QED
      BY <2>1, <3>1 DEF Writes, Unborn, Over
  <2>6. QED
    BY <1>2, <2>2, <2>3, <2>4, <2>5 DEF DriverDoes
<1>8. Pulsed(op)'
  <2>1. \A i \in 1..Places' :
           /\ Line'[i].pulse \in {"none", op}
           /\ Line'[i].pulse = op => (Line'[i].busy <=> op = "ReadPage")
    BY <1>4, <1>5
  <2>2. ~Started' \/ Unborn(op)' => NoPulse
    <3>1. CASE ~Started \/ Unborn(op)
      BY <1>4, <3>1
    <3>2. CASE Started /\ ~Unborn(op)
      <4>1. HAVE ~Started' \/ Unborn(op)'
      <4>2. ~Started'
        BY <1>3, <1>7, <3>2, <4>1
      <4>3. SeesReady
        BY <1>2, <1>3, <3>2, <4>2 DEF DriverDoes, Waits, SeesBusy, SeesReady, Started
      <4>4. AllBusy(FALSE) /\ Step = 10
        BY <1>3, <4>3 DEF SeesReady
      <4>5. CASE op = "ProgramPage"
        BY <1>4, <4>4, <4>5
      <4>6. CASE op = "ReadPage"
        BY <1>4, <4>4, <4>6 DEF AllBusy, NoPulse
      <4>7. QED
        BY <1>1, <4>5, <4>6 DEF Ops
    <3>3. QED
      BY <3>1, <3>2
  <2>3. Step' = 10 /\ op = "ProgramPage" => NoPulse
    <3>1. HAVE Step' = 10 /\ op = "ProgramPage"
    <3>2. CASE Step = 10
      BY <1>4, <3>1, <3>2
    <3>3. CASE Step # 10
      <4>1. SeesBusy
        BY <1>2, <3>1, <3>3 DEF DriverDoes, Waits, Writes, SeesReady
      <4>2. AllBusy(TRUE)
        BY <1>3, <4>1
      <4>3. QED
        BY <1>4, <3>1, <4>2 DEF AllBusy, NoPulse
    <3>4. QED
      BY <3>2, <3>3
  <2>4. QED
    BY <1>6, <2>1, <2>2, <2>3 DEF Pulsed
<1>9. OnePulse(op)'
  <2>1. ASSUME NEW i \in 1..Places', NEW j \in 1..Places', i < j,
               Line'[i].pulse = op, Line'[j].pulse = op
        PROVE  i = 1 /\ j = 2 /\ ~sys_axil'.mvalid
    <3>1. /\ From(i) \in 2..Places /\ From(j) \in 2..Places
          /\ From(i) \in 1..Places /\ From(j) \in 1..Places
          /\ Line[From(i)].pulse = op /\ Line[From(j)].pulse = op
      BY <1>5, <2>1
    <3>2. ~(From(i) < From(j))
      BY <1>1, <3>1 DEF OnePulse
    <3>3. ~(sys_axil.seen2 > 0) /\ i = 1 /\ j = 2
      BY <1>5, <2>1, <3>1, <3>2 DEF From
    <3>4. QED
      BY <1>1, <3>3, StatusAtA
  <2>2. ~sys_axil'.mvalid /\ sys_axil'.mdata.pulse = op => sys_axil'.out.pulse = op
    BY <1>1, StatusAtA
  <2>3. QED
    BY <2>1, <2>2 DEF OnePulse
<1>10. QED
  BY <1>7, <1>8, <1>9

(* An engine takes a descriptor when, and only when, the pulse comes to    *)
(* the output register, and it is the descriptor that is owed.             *)
LEMMA TakesIs ==
  ASSUME NEW op, NEW x, InCourse(op, x)
  PROVE  /\ \A d \in Ops : Takes(d) <=> d = op /\ FreshAt(op, 1)
         /\ FreshAt(op, 1) => Fresh(op) /\ Descriptor(op) \in owed
                                /\ Descriptor(op) = [dir |-> op, addr |-> x, len |-> x]
         /\ Fresh(op) => Started /\ ~Unborn(op) /\ Step \in {9, 10}
<1> DEFINE desc == [dir |-> op, addr |-> x, len |-> x]
<1>1. /\ op \in Ops /\ x \in Values /\ Types /\ OperandsSet(op, x) /\ Phase(op)
      /\ Pulsed(op) /\ Engines(op) /\ Owes(op, x)
  BY DEF InCourse, Course
<1>2. Line[1] = sys_axil.out /\ 1 \in 1..Places
  BY <1>1, LineIs
<1>3. FreshAt(op, 1) => Fresh(op)
  BY <1>2 DEF Fresh
<1>4. ASSUME NEW d \in Ops
      PROVE  Takes(d) <=> d = op /\ FreshAt(op, 1)
  <2>1. Takes(d) => d = op
    BY <1>1, <1>2, <1>4 DEF Takes, Pulsed, Ops
  <2>2. Takes(op) => FreshAt(op, 1)
    BY <1>1, <1>2 DEF Takes, Engines, FreshAt
  <2>3. FreshAt(op, 1) => Takes(op)
    BY <1>1, <1>2, <1>3 DEF Takes, Engines, FreshAt
  <2>4. QED
    BY <2>1, <2>2, <2>3
<1>5. Fresh(op) => Started /\ ~Unborn(op) /\ Step \in {9, 10}
  <2>1. HAVE Fresh(op)
  <2>2. ~NoPulse
    BY <1>1, <2>1 DEF Fresh, FreshAt, NoPulse, Ops
  <2>3. Started /\ ~Unborn(op)
    BY <1>1, <2>2 DEF Pulsed
  <2>4. QED
    BY <1>1, <2>3 DEF Phase, Started, Quiet, Accepted, Runs, Over
<1>6. FreshAt(op, 1) => Descriptor(op) = desc
  <2>1. FreshAt(op, 1) => Latched(7) /\ Latched(8)
    BY <1>3, <1>5 DEF Latched
  <2>2. QED
    BY <1>1, <2>1 DEF OperandsSet, Descriptor
<1>7. FreshAt(op, 1) => Descriptor(op) \in owed
  BY <1>1, <1>3, <1>6 DEF Owes, Pending
<1>8. QED
  BY <1>3, <1>4, <1>5, <1>6, <1>7

(* What the edge does to a pulse that no engine has answered: it stays so, *)
(* unless it is in the output register, where an engine is ready for it.   *)
LEMMA FreshAtA ==
  ASSUME NEW op, NEW x, InCourse(op, x), NEW slow, NEW finish, AEdge(slow, finish)
  PROVE  Fresh(op)' <=> Fresh(op) /\ ~FreshAt(op, 1)
<1>1. /\ op \in Ops /\ x \in Values /\ Types /\ Channel /\ Rest(op, x) /\ Phase(op)
      /\ Pulsed(op) /\ OnePulse(op) /\ Engines(op)
      /\ AEdge(slow, finish)
  BY DEF InCourse, Course
<1>2. /\ Places \in Nat /\ Places >= 3 /\ Line[1] = sys_axil.out /\ Line[2] = sys_axil.mdata
      /\ 1 \in 1..Places
  BY <1>1, LineIs
<1>3. /\ Places' = IF sys_axil.seen2 > 0 THEN Places - 1 ELSE Places
      /\ \A i \in 1..Places' : From(i) \in 2..Places /\ Line'[i] = Line[From(i)]
  BY <1>1, LineAtA
<1>4. /\ sys_axil'.mvalid <=> sys_axil.seen2 > 0
      /\ sys_axil'.valid <=> sys_axil.mvalid
  BY <1>1, StatusAtA
<1>5. ASSUME NEW i \in 1..Places', FreshAt(op, i)'
      PROVE  From(i) \in 2..Places /\ FreshAt(op, From(i))
  <2>1. /\ From(i) \in 2..Places /\ Line[From(i)].pulse = op
        /\ i = 1 => sys_axil.mvalid
        /\ i = 2 => sys_axil.seen2 > 0
    BY <1>3, <1>4, <1>5 DEF FreshAt
  <2>2. From(i) = 2 => sys_axil.mvalid
    BY <2>1 DEF From
  <2>3. QED
    BY <2>1, <2>2 DEF FreshAt
<1>6. ASSUME NEW j \in 2..Places, FreshAt(op, j)
      PROVE  Fresh(op)'
  <2>1. Line[j].pulse = op /\ (j = 2 => sys_axil.mvalid)
    BY <1>6 DEF FreshAt
  <2>2. PICK i \in 1..Places' : From(i) = j /\ (i = 1 => j = 2) /\ (i = 2 => sys_axil.seen2 > 0)
    <3>1. CASE sys_axil.seen2 > 0
      <4>1. j - 1 \in 1..Places' /\ From(j - 1) = j /\ (j - 1 = 1 => j = 2)
        BY <1>2, <1>3, <3>1 DEF From
      <4>2. QED
        BY <3>1, <4>1
    <3>2. CASE ~(sys_axil.seen2 > 0) /\ j = 2
      <4>1. 1 \in 1..Places' /\ From(1) = j
        BY <1>2, <1>3, <3>2 DEF From
      <4>2. QED
        BY <3>2, <4>1
    <3>3. CASE ~(sys_axil.seen2 > 0) /\ j # 2
      <4>1. j \in 1..Places' /\ From(j) = j /\ j # 1
        BY <1>2, <1>3, <3>3 DEF From
      <4>2. QED
        BY <3>3, <4>1
    <3>4. QED
      BY <3>1, <3>2, <3>3
  <2>3. FreshAt(op, i)'
    BY <1>3, <1>4, <2>1, <2>2 DEF FreshAt
  <2>4. QED
    BY <2>3 DEF Fresh
<1>7. ASSUME FreshAt(op, 1), NEW j \in 2..Places
      PROVE  ~FreshAt(op, j)
  <2>1. ASSUME FreshAt(op, j) PROVE FALSE
    <3>1. Line[1].pulse = op /\ Line[j].pulse = op /\ 1 < j /\ j \in 1..Places
      BY <1>7, <1>2, <2>1 DEF FreshAt
    <3>2. j = 2 /\ ~sys_axil.mvalid
      BY <1>1, <1>2, <3>1 DEF OnePulse
    <3>3. QED
      BY <2>1, <3>2 DEF FreshAt
  <2>2. QED
    BY <2>1
<1>8. Fresh(op)' <=> Fresh(op) /\ ~FreshAt(op, 1)
  <2>1. ASSUME Fresh(op)' PROVE Fresh(op) /\ ~FreshAt(op, 1)
    <3>1. PICK i \in 1..Places' : FreshAt(op, i)'
      BY <2>1 DEF Fresh
    <3>2. From(i) \in 2..Places /\ FreshAt(op, From(i)) /\ From(i) \in 1..Places
      BY <1>2, <1>5, <3>1
    <3>3. QED
      BY <1>7, <3>2 DEF Fresh
  <2>2. ASSUME Fresh(op), ~FreshAt(op, 1) PROVE Fresh(op)'
    <3>1. PICK j \in 1..Places : FreshAt(op, j)
      BY <2>2 DEF Fresh
    <3>2. j # 1
      BY <2>2, <3>1
    <3>3. j \in 2..Places
      BY <1>2, <3>2
    <3>4. QED
      BY <1>6, <3>1, <3>3
  <2>3. QED
    BY <2>1, <2>2
<1>9. QED
  BY <1>8

(* The descriptor is owed from the write of the command to the pulse's     *)
(* arrival.                                                                *)
LEMMA OwesAtA ==
  ASSUME NEW op, NEW x, InCourse(op, x), NEW slow, NEW finish, SameCall(slow, finish)
  PROVE  /\ Owes(op, x)'
         /\ Pending(op)' <=>
              (Pending(op) /\ ~FreshAt(op, 1)) \/ (Writes(op, x) /\ Step = 8)
<1> DEFINE desc == [dir |-> op, addr |-> x, len |-> x]
<1>1. /\ op \in Ops /\ x \in Values /\ Types /\ Channel /\ Rest(op, x) /\ OperandsSet(op, x)
      /\ Owes(op, x) /\ AEdge(slow, finish) /\ (Step < 11 \/ todo' = << >>)
  BY DEF InCourse, SameCall, Course
<1>2. Step \in 0..11 /\ DriverDoes(op, x)
  BY <1>1, DriverAtA, HeadIs
<1>3. /\ \A d \in Ops : Takes(d) <=> d = op /\ FreshAt(op, 1)
      /\ Fresh(op)' <=> Fresh(op) /\ ~FreshAt(op, 1)
      /\ Fresh(op) => Started /\ ~Unborn(op) /\ Step \in {9, 10}
  BY <1>1, FreshAtA, TakesIs
<1>4. Unborn(op)' <=> Unborn(op) \/ (Writes(op, x) /\ Step = 8)
  BY PulsesAtA
<1>5. FreshAt(op, 1) => Fresh(op) /\ Descriptor(op) = desc
  BY TakesIs
<1>6. Writes(op, x) /\ Step = 8 => ~Fresh(op) /\ ~Unborn(op)
  BY <1>3 DEF Unborn
<1>7. Pending(op)' <=> (Pending(op) /\ ~FreshAt(op, 1)) \/ (Writes(op, x) /\ Step = 8)
  BY <1>3, <1>4, <1>5, <1>6 DEF Pending
<1>8. owed = IF Pending(op) THEN {desc} ELSE {}
  BY <1>1 DEF Owes
<1>9. Owed = IF Writes(op, x) /\ Step = 8 THEN {desc} ELSE {}
  BY <1>2 DEF DriverDoes, Waits, Writes, SeesBusy, SeesReady
<1>10. {Descriptor(d) : d \in {e \in Ops : Takes(e)}} = IF FreshAt(op, 1) THEN {desc} ELSE {}
  <2>1. {e \in Ops : Takes(e)} = IF FreshAt(op, 1) THEN {op} ELSE {}
    BY <1>1, <1>3
  <2>2. QED
    BY <1>5, <2>1
<1>11. owed' = (owed \cup Owed) \ {Descriptor(d) : d \in {e \in Ops : Takes(e)}}
  BY <1>1 DEF AEdge
<1>12. Owes(op, x)'
  <2>1. owed' = IF Pending(op)' THEN {desc} ELSE {}
    <3>1. CASE FreshAt(op, 1)
      <4>1. ~Pending(op)'
        BY <1>5, <1>6, <1>7, <3>1
      <4>2. Owed = {} /\ owed = {desc}
        BY <1>5, <1>6, <1>8, <1>9, <3>1 DEF Pending
      <4>3. QED
        BY <1>10, <1>11, <3>1, <4>1, <4>2
    <3>2. CASE ~FreshAt(op, 1)
      <4>1. owed' = owed \cup Owed
        BY <1>10, <1>11, <3>2
      <4>2. QED
        BY <1>7, <1>8, <1>9, <3>2, <4>1
    <3>3. QED
      BY <3>1, <3>2
  <2>2. QED
    BY <2>1 DEF Owes
<1>13. QED
  BY <1>7, <1>12

(* The engines are as the pulses under way need them.                      *)
LEMMA EnginesAtA ==
  ASSUME NEW op, NEW x, InCourse(op, x), NEW slow, NEW finish, SameCall(slow, finish)
  PROVE  Engines(op)'
<1>1. /\ op \in Ops /\ x \in Values /\ Types /\ StatusFlow /\ Channel /\ Rest(op, x)
      /\ Pulsed(op) /\ OnePulse(op) /\ Phase(op) /\ Engines(op)
      /\ finish \in SUBSET MayFinish /\ AEdge(slow, finish) /\ (Step < 11 \/ todo' = << >>)
  BY DEF InCourse, SameCall, Course
<1>2. Step \in 0..11 /\ DriverDoes(op, x)
  BY <1>1, DriverAtA, HeadIs
<1>3. /\ \A d \in Ops : Takes(d) <=> d = op /\ FreshAt(op, 1)
      /\ Fresh(op)' <=> Fresh(op) /\ ~FreshAt(op, 1)
      /\ Fresh(op) => Started /\ ~Unborn(op) /\ Step \in {9, 10}
  BY <1>1, FreshAtA, TakesIs
<1>4. /\ Pending(op)' <=>
           (Pending(op) /\ ~FreshAt(op, 1)) \/ (Writes(op, x) /\ Step = 8)
  BY OwesAtA
<1>5. /\ 1 \in 1..Places /\ Places \in Nat /\ Places >= 3
      /\ Line[1] = sys_axil.out /\ Line[2] = sys_axil.mdata
  BY <1>1, LineIs
<1>6. FreshAt(op, 1) => Fresh(op) /\ Pending(op)
  BY <1>5 DEF Fresh, Pending
<1>7. /\ machine' = machine
      /\ SeesBusy => machine.st = "wait"
      /\ SeesReady => Over
  BY PhaseAtA
<1>8. /\ op = "ReadPage" \/ Step < 9 \/ Step = 11 \/ Pending(op) \/ (Started /\ ~Busy) => ProgramIdle
      /\ "ProgramPage" \in stream => engine["ProgramPage"] = "ready"
      /\ Fresh(op) => engine[op] = "ready"
      /\ sys_axil.out.pulse = op /\ ~sys_axil.valid =>
           engine[op] = "start" \/ (engine[op] = "run" /\ sys_axil.mdata.pulse # op)
  BY <1>1 DEF Engines
<1>9. /\ \A d \in Ops : engine'[d] = EngineNext(d, finish)
      /\ stream' = (stream \cup (finish \cap {"ProgramPage"})) \ (finish \cap {"ReadPage"})
      /\ \A d \in finish : d \in Ops /\ engine[d] = "run"
  BY <1>1 DEF AEdge, MayFinish
\* An engine that is ready and takes nothing stays so.
<1>10. ASSUME NEW d \in Ops, engine[d] = "ready", ~Takes(d)
       PROVE  engine'[d] = "ready" /\ d \notin finish
  BY <1>9, <1>10 DEF EngineNext
<1>11. ProgramIdle /\ ~Takes("ProgramPage") => ProgramIdle'
  BY <1>9, <1>10 DEF ProgramIdle, Ops
<1>12. op = "ReadPage" \/ Step' < 9 \/ Step' = 11 \/ Pending(op)' \/ (Started' /\ ~Busy')
         => ProgramIdle'
  <2>1. HAVE op = "ReadPage" \/ Step' < 9 \/ Step' = 11 \/ Pending(op)' \/ (Started' /\ ~Busy')
  <2>2. CASE op = "ReadPage"
    BY <1>3, <1>8, <1>11, <2>2 DEF Ops
  <2>3. CASE op = "ProgramPage"
    <3>1. CASE Pending(op)'
      <4>1. ~FreshAt(op, 1) /\ (Pending(op) \/ Step < 9)
        BY <1>3, <1>4, <1>6, <3>1
      <4>2. QED
        BY <1>3, <1>8, <1>11, <4>1 DEF Ops
    <3>2. CASE Step' < 9
      <4>1. Step < 9
        BY <1>2, <3>2 DEF DriverDoes, Waits, Writes, SeesBusy, SeesReady
      <4>2. ~FreshAt(op, 1)
        BY <1>3, <1>6, <4>1
      <4>3. QED
        BY <1>3, <1>8, <1>11, <4>1, <4>2 DEF Ops
    <3>3. CASE Step' = 11
      <4>1. Step = 11 \/ (Step = 10 /\ Started /\ ~Busy)
        BY <1>2, <1>7, <3>3 DEF DriverDoes, Waits, Writes, SeesBusy, SeesReady, Over, Started, Busy
      <4>2. ~FreshAt(op, 1)
        <5>1. Step = 10 => NoPulse
          BY <1>1, <2>3 DEF Pulsed
        <5>2. QED
          BY <1>3, <1>5, <1>6, <2>3, <4>1, <5>1 DEF NoPulse, FreshAt
      <4>3. QED
        BY <1>3, <1>8, <1>11, <4>1, <4>2 DEF Ops
    <3>4. CASE Started' /\ ~Busy'
      <4>1. ~Busy /\ machine.st = "ready" /\ Step' = 10
        BY <1>7, <3>4 DEF Busy, Started
      <4>2. Step = 10 /\ Started
        BY <1>2, <1>7, <4>1 DEF DriverDoes, Waits, Writes, SeesBusy, SeesReady, Started
      <4>3. ~FreshAt(op, 1)
        <5>1. NoPulse
          BY <1>1, <2>3, <4>2 DEF Pulsed
        <5>2. QED
          BY <1>5, <2>3, <5>1 DEF NoPulse, FreshAt
      <4>4. QED
        BY <1>3, <1>8, <1>11, <4>1, <4>2, <4>3 DEF Ops
    <3>5. QED
      BY <2>1, <2>3, <3>1, <3>2, <3>3, <3>4
  <2>4. QED
    BY <1>1, <2>2, <2>3 DEF Ops
<1>13. "ProgramPage" \in stream' => engine'["ProgramPage"] = "ready"
  <2>1. HAVE "ProgramPage" \in stream'
  <2>2. CASE "ProgramPage" \in finish
    BY <1>9, <2>2 DEF EngineNext, Takes, Ops
  <2>3. CASE "ProgramPage" \notin finish
    <3>1. "ProgramPage" \in stream /\ engine["ProgramPage"] = "ready"
      BY <1>8, <1>9, <2>1, <2>3
    <3>2. ~Takes("ProgramPage")
      BY <1>3, <1>6, <1>8, <3>1 DEF ProgramIdle, Ops
    <3>3. QED
      BY <1>10, <3>1, <3>2 DEF Ops
  <2>4. QED
    BY <2>2, <2>3
<1>14. Fresh(op)' => engine'[op] = "ready"
  BY <1>1, <1>3, <1>8, <1>10
<1>15. sys_axil'.out.pulse = op /\ ~sys_axil'.valid =>
         engine'[op] = "start" \/ (engine'[op] = "run" /\ sys_axil'.mdata.pulse # op)
  <2>1. HAVE sys_axil'.out.pulse = op /\ ~sys_axil'.valid
  <2>2. sys_axil.mdata.pulse = op /\ ~sys_axil.mvalid
    BY <1>1, <2>1, StatusAtA
  <2>3. sys_axil.out.pulse = op
    BY <1>1, <2>2 DEF OnePulse
  <2>4. CASE sys_axil.valid
    <3>1. Takes(op)
      BY <1>1, <1>3, <1>5, <2>3, <2>4 DEF FreshAt
    <3>2. QED
      BY <1>1, <1>9, <3>1 DEF EngineNext, Takes
  <2>5. CASE ~sys_axil.valid
    <3>1. engine[op] = "start"
      BY <1>8, <2>2, <2>3, <2>5
    <3>2. engine'[op] = "run"
      BY <1>1, <1>9, <3>1 DEF EngineNext, Takes
    <3>3. sys_axil.seen2 > 0
      <4>1. sys_axil.seen2 # 0
        BY <1>1, <2>2, <2>5 DEF StatusFlow, Ops
      <4>2. QED
        BY <1>1, <4>1 DEF Types, Fifo
    <3>4. sys_axil'.mdata = Line[3] /\ 3 \in 1..Places /\ 2 \in 1..Places
      <4>1. Len(sys_axil.q) >= 1 /\ sys_axil'.mdata = sys_axil.q[1]
        BY <1>1, <3>3, StatusAtA
      <4>2. 1 \in 1..Len(sys_axil.q)
        BY <1>1, <4>1 DEF Types, Fifo
      <4>3. QED
        BY <1>1, <1>5, <4>1, <4>2, LineIs
    <3>5. Line[3].pulse # op
      BY <1>1, <1>5, <2>2, <3>4 DEF OnePulse
    <3>6. QED
      BY <3>2, <3>4, <3>5
  <2>6. QED
    BY <2>4, <2>5
<1>16. QED
  BY <1>12, <1>13, <1>14, <1>15 DEF Engines

(* An edge of the AXI clock keeps the course of the call.                  *)
LEMMA CourseAtA ==
  ASSUME NEW op, NEW x, InCourse(op, x), NEW slow, NEW finish, SameCall(slow, finish)
  PROVE  Course(op, x)'
BY PhaseAtA, BitsAtA, PulsesAtA, OwesAtA, EnginesAtA DEF Course

(* A new call finds everything as the last one leaves it: at rest.         *)
LEMMA NewCallAtA ==
  ASSUME NEW op, NEW x, InCourse(op, x), todo = << >>,
         NEW slow, NEW finish \in SUBSET MayFinish, AEdge(slow, finish),
         NEW o \in Ops, NEW y \in Values, todo' = Script(o, y)
  PROVE  CallInv(o, y)'
<1>1. /\ op \in Ops /\ x \in Values /\ Types /\ StatusFlow /\ Channel /\ Rest(op, x)
      /\ Phase(op) /\ Bits /\ Pulsed(op) /\ Owes(op, x) /\ Engines(op)
  BY DEF InCourse, Course
<1>2. Step = 11
  BY <1>1, HeadIs
<1>3. Step' = 0 /\ Rest(o, y)' /\ OperandsSet(o, y)' /\ ~Taken
  BY <1>1, OperandsOfNewCall
<1>4. /\ ~adapter.fail /\ due = << >> /\ machine.st = "ready" /\ adapter.op = "none"
  BY <1>1, <1>2 DEF Phase, Quiet, Accepted, Runs, Over
<1>5. /\ machine' = machine /\ adapter' = adapter
      /\ due' = IF Taken THEN Append(due, Head(todo)) ELSE due
      /\ engine' = [d \in Ops |-> EngineNext(d, finish)]
      /\ stream' = (stream \cup (finish \cap {"ProgramPage"})) \ (finish \cap {"ReadPage"})
      /\ owed' = (owed \cup Owed) \ {Descriptor(d) : d \in {e \in Ops : Takes(e)}}
  BY DEF AEdge
<1>6. ~Started /\ ~Started'
  BY <1>2, <1>3, <1>4, <1>5 DEF Started
<1>7. /\ AllBusy(FALSE)' /\ NoPulse /\ NoPulse'
  <2>1. AllBusy(FALSE) /\ NoPulse
    BY <1>1, <1>6 DEF Bits, Pulsed
  <2>2. QED
    BY <1>1, <2>1, LineKept
<1>8. ~axil'.rvalid
  BY <1>1, AxilAtA DEF Channel, Doing, RdEn
<1>9. ~Fresh(op) /\ \A d \in Ops : ~Takes(d)
  <2>1. ~Fresh(op)
    BY <1>1, <1>7 DEF Fresh, FreshAt, NoPulse, Ops
  <2>2. ~FreshAt(op, 1)
    BY <1>1, <2>1, LineIs DEF Fresh
  <2>3. QED
    BY <2>1, <2>2, TakesIs
<1>10. /\ 1 \in 1..Places' /\ 2 \in 1..Places'
       /\ Line'[1] = sys_axil'.out /\ Line'[2] = sys_axil'.mdata
  <2>1. Len(sys_axil'.q) \in Nat /\ Places' = Len(sys_axil'.q) + 3
    BY <1>1, StatusAtA DEF Places, Fifo
  <2>2. Line' = [i \in 1..Places' |->
                   IF i = 1 THEN sys_axil'.out
                   ELSE IF i = 2 THEN sys_axil'.mdata
                   ELSE IF i = Places' THEN Newest' ELSE sys_axil'.q[i - 2]]
    BY DEF Line
  <2>3. QED
    BY <2>1, <2>2
<1>11. InOrder(o, y)'
  BY <1>3, <1>4, <1>5 DEF InOrder, Made
<1>12. Phase(o)'
  BY <1>3, <1>4, <1>5 DEF Phase, Quiet, Before
<1>13. Bits'
  <2>1. Step' # 9 /\ Step' # 10
    BY <1>3
  <2>2. QED
    BY <1>6, <1>7, <1>8, <2>1, Zenon DEF Bits
<1>14. Pulsed(o)' /\ OnePulse(o)' /\ ~Unborn(o)' /\ ~Fresh(o)'
  BY <1>3, <1>7, <1>10 DEF Pulsed, OnePulse, Unborn, Fresh, FreshAt, NoPulse, Ops
<1>15. Owes(o, y)'
  <2>1. ~Unborn(op)
    BY <1>2 DEF Unborn
  <2>2. owed = {}
    BY <1>1, <1>9, <2>1 DEF Owes, Pending
  <2>3. Owed = {}
    BY <1>3 DEF Owed
  <2>4. owed' = {}
    BY <1>5, <2>2, <2>3
  <2>5. QED
    BY <1>14, <2>4 DEF Owes, Pending
<1>16. Engines(o)'
  <2>1. ProgramIdle
    BY <1>1, <1>2 DEF Engines
  <2>2. "ProgramPage" \notin finish
    BY <2>1 DEF MayFinish, ProgramIdle
  <2>3. engine'["ProgramPage"] = "ready"
    BY <1>5, <1>9, <2>1, <2>2 DEF EngineNext, ProgramIdle, Ops
  <2>4. ProgramIdle'
    BY <1>5, <2>1, <2>2, <2>3 DEF ProgramIdle
  <2>5. sys_axil'.out.pulse # o
    BY <1>7, <1>10 DEF NoPulse, Ops
  <2>6. QED
    BY <1>14, <2>4, <2>5 DEF Engines, ProgramIdle
<1>17. QED
  BY <1>3, <1>11, <1>12, <1>13, <1>14, <1>15, <1>16 DEF CallInv, Course

(***************************************************************************)
(* The course of a call at an edge of the system clock.                    *)
(***************************************************************************)
SystemEdge(op, x, go) ==
  /\ InCourse(op, x) /\ RegisterPace /\ StatusPace /\ AllCarried /\ InOrder(op, x)
  /\ go \in BOOLEAN /\ SEdge(go)

(* What the command machines do at the edge.                               *)
Pulses(op, kind) == machine'.pulse = IF op = kind THEN op ELSE "none"
Keeps(op) ==
  /\ machine'.st = machine.st /\ machine.st # "latch" /\ machine'.pulse = "none"
  /\ \/ Quiet /\ (Quiet' \/ Accepted(op)')
     \/ Runs(op) /\ Runs(op)'
     \/ Over /\ Over'
Begins(op) ==
  /\ Accepted(op) /\ Runs(op)' /\ machine'.st = "latch" /\ Pulses(op, "ProgramPage")
Issues(op) ==
  /\ Runs(op) /\ Runs(op)' /\ machine.st = "latch" /\ machine'.st = "wait"
  /\ machine'.pulse = "none"
GoesOn(op) ==
  /\ Runs(op) /\ Runs(op)' /\ Step = 10 /\ MayGo
  /\ machine.st = "wait" /\ machine'.st = "data" /\ Pulses(op, "ReadPage")
Finishes(op) ==
  /\ Runs(op) /\ Over' /\ Step = 10 /\ MayGo
  /\ machine.st = "data" /\ machine'.st = "ready" /\ machine'.pulse = "none"
MachineDoes(op) ==
  Keeps(op) \/ Begins(op) \/ Issues(op) \/ GoesOn(op) \/ Finishes(op)

(* The word that arrives is one of the call's, and its last one is that of *)
(* the operation.                                                          *)
LEMMA ArrivalAtS ==
  ASSUME NEW op, NEW x, NEW go, SystemEdge(op, x, go)
  PROVE  /\ axil_sys.valid =>
              /\ due # << >> /\ Quiet /\ Step \in 0..9
              /\ Step = 9 /\ due' = << >> => axil_sys.out.valid /\ axil_sys.out.cmd = op
              /\ axil_sys.out.valid =>
                   axil_sys.out.cmd \in Setups \/ (Step = 9 /\ due' = << >> /\ axil_sys.out.cmd = op)
         /\ ~axil_sys.valid => due' = due
<1> DEFINE s == Script(op, x)
           word == axil_sys.out
<1>1. /\ op \in Ops /\ x \in Values /\ Types /\ AllCarried /\ Rest(op, x) /\ InOrder(op, x)
      /\ Phase(op) /\ SEdge(go)
  BY DEF SystemEdge, InCourse, Course
<1>2. ScriptShape(s, op, x)
  BY <1>1, ScriptSteps, Zenon
<1>3. Step \in 0..11 /\ due \in Seq(RegisterWrite) /\ Len(due) \in Nat
  BY <1>1, HeadIs DEF Types
<1>4. /\ axil_sys.valid => due # << >> /\ Carries(word, Head(due)) /\ due' = Tail(due)
      /\ ~axil_sys.valid => due' = due
  BY <1>1, CarriedAtS
<1>5. ASSUME axil_sys.valid
      PROVE  /\ due # << >> /\ Quiet /\ Step \in 0..9
             /\ Step = 9 /\ due' = << >> => word.valid /\ word.cmd = op
             /\ word.valid =>
                  word.cmd \in Setups \/ (Step = 9 /\ due' = << >> /\ word.cmd = op)
  <2>1. Quiet /\ Step \in 0..9
    BY <1>1, <1>3, <1>4, <1>5 DEF Phase, Quiet, Accepted, Runs, Over, Before
  <2>2. Made = Step
    BY <2>1 DEF Made
  <2>3. Len(due) >= 1 /\ Len(due') = Len(due) - 1 /\ (due' = << >> <=> Len(due) = 1)
    <3>1. due # << >> /\ due' = Tail(due)
      BY <1>4, <1>5
    <3>2. due' \in Seq(RegisterWrite) /\ Len(due') = Len(due) - 1
      BY <1>3, <3>1, HeadTailProperties
    <3>3. Len(due) # 0 /\ (due' = << >> <=> Len(due') = 0)
      BY <1>3, <3>1, <3>2, EmptySeq
    <3>4. QED
      BY <1>3, <3>2, <3>3
  <2>4. PICK k \in 1..9 : k = Step - Len(due) + 1
    <3>1. Len(due) <= Step /\ Step <= 9
      BY <1>1, <2>1, <2>2 DEF InOrder
    <3>2. Step - Len(due) + 1 \in 1..9
      BY <1>3, <2>3, <3>1
    <3>3. QED
      BY <3>2
  <2>5. Head(due) = s[k]
    BY <1>1, <1>3, <2>2, <2>3, <2>4 DEF InOrder
  <2>6. /\ word.valid <=> s[k].reg = "cmd"
        /\ s[k].reg = "cmd" => word.cmd = s[k].val
    BY <1>4, <1>5, <2>5 DEF Carries
  <2>7. k = 9 <=> Step = 9 /\ due' = << >>
    BY <1>3, <2>1, <2>3, <2>4
  <2>8. CASE k = 9
    <3>1. s[k].reg = "cmd" /\ s[k].val = op
      BY <1>2, <2>8 DEF ScriptShape
    <3>2. QED
      BY <1>4, <1>5, <2>1, <2>6, <2>7, <2>8, <3>1
  <2>9. CASE k \in {2, 4, 6}
    <3>1. s[k].reg = "cmd" /\ s[k].val \in Setups
      BY <1>2, <2>9 DEF ScriptShape
    <3>2. k # 9
      BY <2>9
    <3>3. QED
      BY <1>4, <1>5, <2>1, <2>6, <2>7, <3>1, <3>2
  <2>10. CASE k \in {1, 3, 5, 7, 8}
    <3>1. s[k].reg # "cmd" /\ k # 9
      BY <1>1, <1>2, <2>10 DEF ScriptShape, Ops
    <3>2. QED
      BY <1>4, <1>5, <2>1, <2>6, <2>7, <3>1
  <2>11. QED
    BY <2>4, <2>8, <2>9, <2>10
<1>6. QED
  BY <1>4, <1>5

(* The machines do one of these at the edge, and the call's phase fits.    *)
LEMMA MachineAtS ==
  ASSUME NEW op, NEW x, NEW go, SystemEdge(op, x, go)
  PROVE  /\ MachineDoes(op) /\ Phase(op)' /\ Step' = Step
         /\ adapter'.busy = Busy
<1>1. /\ op \in Ops /\ x \in Values /\ Types /\ Rest(op, x) /\ Phase(op)
      /\ go \in BOOLEAN /\ SEdge(go)
  BY DEF SystemEdge, InCourse, Course
<1>2. Step \in 0..11 /\ Step' = Step /\ (Step = 9 => Doing("poll", todo) /\ Head(todo).busy)
  <2>1. ScriptShape(Script(op, x), op, x)
    BY <1>1, ScriptSteps, Zenon
  <2>2. Step \in 0..11 /\ (Step = 9 => Doing("poll", todo) /\ Head(todo) = Script(op, x)[10])
    BY <1>1, HeadIs
  <2>3. Script(op, x)[10].busy = TRUE
    BY <2>1 DEF ScriptShape
  <2>4. Step' = Step
    BY <1>1 DEF SEdge, Step
  <2>5. QED
    BY <2>2, <2>3, <2>4
<1>3. /\ axil_sys.valid =>
           /\ due # << >> /\ Quiet /\ Step \in 0..9
           /\ Step = 9 /\ due' = << >> => axil_sys.out.valid /\ axil_sys.out.cmd = op
           /\ axil_sys.out.valid =>
                axil_sys.out.cmd \in Setups \/ (Step = 9 /\ due' = << >> /\ axil_sys.out.cmd = op)
      /\ ~axil_sys.valid => due' = due
  BY ArrivalAtS
<1>4. /\ adapter'.op =
           IF axil_sys.valid /\ axil_sys.out.valid /\ ~Busy THEN axil_sys.out.cmd ELSE "none"
      /\ adapter'.fail <=>
           IF axil_sys.valid THEN axil_sys.out.valid /\ Busy ELSE adapter.fail
      /\ adapter'.busy = Busy
  BY <1>1 DEF SEdge, AdapterNext, Types, Fifo, RegWord
<1>5. /\ machine' = MachineNext(go) /\ (go => MayGo)
      /\ machine.st \in {"ready", "latch", "wait", "data"} /\ machine.op \in Ops
  BY <1>1 DEF SEdge, Types
<1>6. /\ ~adapter.fail /\ (Step = 11 => due = << >>)
      /\ Quiet \/ Accepted(op) \/ Runs(op) \/ Over
  BY <1>1 DEF Phase
<1>7. MayGo => Step # 9
  BY <1>2 DEF MayGo
<1>8. CASE Quiet
  <2>1. ~Busy /\ adapter.op \notin Ops /\ machine.st = "ready"
    BY <1>8 DEF Quiet, Busy, Ops, Setups
  <2>2. machine'.st = "ready" /\ machine'.pulse = "none"
    BY <1>5, <2>1 DEF MachineNext, Busy, Ops
  <2>3. ~adapter'.fail
    BY <1>4, <1>6, <2>1
  <2>4. Quiet' \/ Accepted(op)'
    BY <1>2, <1>3, <1>4, <1>6, <1>8, <2>1, <2>2 DEF Quiet, Accepted, Before
  <2>5. Step' = 11 => due' = << >>
    BY <1>2, <1>3, <1>6
  <2>6. QED
    BY <1>2, <1>4, <1>8, <2>1, <2>2, <2>3, <2>4, <2>5 DEF MachineDoes, Keeps, Phase
<1>9. CASE Accepted(op)
  <2>1. /\ ~Busy /\ adapter.op = op /\ Step = 9 /\ due = << >>
    BY <1>9 DEF Accepted, Busy
  <2>2. machine'.st = "latch" /\ machine'.op = op /\ Pulses(op, "ProgramPage")
    BY <1>1, <1>5, <2>1 DEF MachineNext, Pulses, Busy
  <2>3. adapter'.op = "none" /\ ~adapter'.fail /\ due' = << >>
    BY <1>3, <1>4, <1>6, <2>1
  <2>4. Runs(op)'
    BY <1>2, <2>1, <2>2, <2>3 DEF Runs
  <2>5. QED
    BY <1>2, <1>4, <1>9, <2>1, <2>2, <2>3, <2>4 DEF MachineDoes, Begins, Phase
<1>10. CASE Runs(op)
  <2>1. Busy /\ Step \in {9, 10} /\ due = << >> /\ machine.op = op
    BY <1>10 DEF Runs, Busy
  <2>2. adapter'.op = "none" /\ ~adapter'.fail /\ due' = << >>
    BY <1>3, <1>4, <1>6, <2>1
  <2>3. CASE machine.st = "latch"
    <3>1. machine'.st = "wait" /\ machine'.op = op /\ machine'.pulse = "none"
      BY <1>1, <1>5, <2>1, <2>3 DEF MachineNext, Ops
    <3>2. Runs(op)'
      BY <1>2, <2>1, <2>2, <3>1 DEF Runs
    <3>3. QED
      BY <1>2, <1>4, <1>10, <2>1, <2>2, <2>3, <3>1, <3>2 DEF MachineDoes, Issues, Phase
  <2>4. CASE machine.st = "wait" /\ go
    <3>1. machine'.st = "data" /\ machine'.op = op /\ Pulses(op, "ReadPage")
      BY <1>1, <1>5, <2>1, <2>4 DEF MachineNext, Pulses
    <3>2. MayGo /\ Step = 10
      BY <1>5, <1>7, <2>1, <2>4
    <3>3. Runs(op)'
      BY <1>2, <2>1, <2>2, <3>1 DEF Runs
    <3>4. QED
      BY <1>2, <1>4, <1>10, <2>2, <2>4, <3>1, <3>2, <3>3 DEF MachineDoes, GoesOn, Phase
  <2>5. CASE machine.st = "data" /\ go
    <3>1. machine'.st = "ready" /\ machine'.pulse = "none"
      BY <1>1, <1>5, <2>1, <2>5 DEF MachineNext, Ops
    <3>2. MayGo /\ Step = 10
      BY <1>5, <1>7, <2>1, <2>5
    <3>3. Over'
      BY <1>2, <2>1, <2>2, <3>1, <3>2 DEF Over
    <3>4. QED
      BY <1>2, <1>4, <1>10, <2>2, <2>5, <3>1, <3>2, <3>3 DEF MachineDoes, Finishes, Phase
  <2>6. CASE machine.st \in {"wait", "data"} /\ ~go
    <3>1. machine'.st = machine.st /\ machine'.op = op /\ machine'.pulse = "none"
      BY <1>1, <1>5, <2>1, <2>6 DEF MachineNext, Ops
    <3>2. Runs(op)'
      BY <1>2, <2>1, <2>2, <2>6, <3>1 DEF Runs
    <3>3. QED
      BY <1>2, <1>4, <1>10, <2>1, <2>2, <2>6, <3>1, <3>2 DEF MachineDoes, Keeps, Phase
  <2>7. QED
    BY <1>1, <1>5, <2>1, <2>3, <2>4, <2>5, <2>6 DEF Busy
<1>11. CASE Over
  <2>1. ~Busy /\ adapter.op \notin Ops /\ machine.st = "ready" /\ Step = 10 /\ due = << >>
    BY <1>11 DEF Over, Busy, Ops
  <2>2. machine'.st = "ready" /\ machine'.pulse = "none"
    BY <1>5, <2>1 DEF MachineNext, Busy, Ops
  <2>3. adapter'.op = "none" /\ ~adapter'.fail /\ due' = << >>
    BY <1>3, <1>4, <1>6, <2>1
  <2>4. Over'
    BY <1>2, <2>1, <2>2, <2>3 DEF Over
  <2>5. QED
    BY <1>2, <1>4, <1>11, <2>1, <2>2, <2>3, <2>4 DEF MachineDoes, Keeps, Phase
<1>12. QED
  BY <1>6, <1>8, <1>9, <1>10, <1>11

(* A new busy bit at the end of the line continues the story.              *)
LEMMA BitsAtS ==
  ASSUME NEW op, NEW x, NEW go, SystemEdge(op, x, go)
  PROVE  Bits'
<1>1. /\ op \in Ops /\ x \in Values /\ Types /\ RegisterPace /\ StatusPace /\ Rest(op, x)
      /\ Bits /\ SEdge(go) /\ go \in BOOLEAN
  BY DEF SystemEdge, InCourse, Course
<1>2. MachineDoes(op) /\ Step' = Step /\ adapter'.busy = Busy
  BY MachineAtS
<1>3. axil' = axil
  BY <1>1 DEF SEdge
<1>4. /\ Places \in Nat /\ Places >= 3 /\ Line[Places].busy = adapter.busy
      /\ \A i \in 1..Places : Line[i].busy \in BOOLEAN
  BY <1>1, LineIs DEF Newest, StatusWord
<1>5. /\ Places' = Places + 1
      /\ \A i \in 1..Places : Line'[i] = Line[i]
      /\ Line'[Places + 1].busy = Busy
  BY <1>1, LineAtS
<1>6. ASSUME NEW i \in 1..Places'
      PROVE  (i \in 1..Places /\ Line'[i] = Line[i]) \/ (i = Places + 1 /\ Line'[i].busy = Busy)
  BY <1>4, <1>5
<1>7. /\ AllBusy(FALSE) /\ ~Busy => AllBusy(FALSE)'
      /\ AllBusy(TRUE) /\ Busy => AllBusy(TRUE)'
  BY <1>6 DEF AllBusy
<1>8. ASSUME Rises, AllBusy(FALSE) \/ Busy
      PROVE  Rises'
  <2>1. ASSUME NEW i \in 1..Places', NEW j \in 1..Places', i < j, Line'[i].busy
        PROVE  Line'[j].busy
    <3>1. i \in 1..Places /\ Line[i].busy
      BY <1>4, <1>5, <1>6, <2>1
    <3>2. CASE j \in 1..Places
      BY <1>5, <1>8, <2>1, <3>1, <3>2 DEF Rises
    <3>3. CASE j = Places + 1
      BY <1>5, <1>8, <3>1, <3>3 DEF AllBusy
    <3>4. QED
      BY <1>6, <3>2, <3>3
  <2>2. QED
    BY <2>1 DEF Rises
<1>9. ASSUME Falls, Busy => adapter.busy
      PROVE  Falls'
  <2>1. ASSUME NEW i \in 1..Places', NEW j \in 1..Places', i < j, Line'[j].busy
        PROVE  Line'[i].busy
    <3>1. i \in 1..Places /\ Line'[i] = Line[i]
      BY <1>4, <1>5, <1>6, <2>1
    <3>2. CASE j \in 1..Places
      BY <1>5, <1>9, <2>1, <3>1, <3>2 DEF Falls
    <3>3. CASE j = Places + 1
      <4>1. Line[Places].busy /\ Places \in 1..Places
        BY <1>4, <1>5, <1>9, <2>1, <3>3
      <4>2. i = Places \/ i < Places
        BY <1>4, <3>1
      <4>3. QED
        BY <1>9, <3>1, <4>1, <4>2 DEF Falls
    <3>4. QED
      BY <1>6, <3>2, <3>3
  <2>2. QED
    BY <2>1 DEF Falls
<1>10. ~Started' => AllBusy(FALSE)' /\ (axil'.rvalid => ~axil'.rdata)
  <2>1. HAVE ~Started'
  <2>2. machine'.st = "ready" /\ Step # 10
    BY <1>2, <2>1 DEF Started
  <2>3. ~Started /\ ~Busy
    BY <1>2, <2>2 DEF MachineDoes, Keeps, Begins, Issues, GoesOn, Finishes, Started, Busy
  <2>4. AllBusy(FALSE) /\ (axil.rvalid => ~axil.rdata)
    BY <1>1, <2>3 DEF Bits
  <2>5. QED
    BY <1>3, <1>7, <2>3, <2>4
<1>11. Step' = 9 /\ Started' => Rising'
  <2>1. HAVE Step' = 9 /\ Started'
  <2>2. CASE Begins(op)
    <3>1. ~Started /\ ~Busy /\ machine'.st = "latch"
      BY <1>2, <2>1, <2>2 DEF Begins, Accepted, Started, Busy
    <3>2. AllBusy(FALSE) /\ (axil.rvalid => ~axil.rdata)
      BY <1>1, <3>1 DEF Bits
    <3>3. Rises
      BY <3>2 DEF AllBusy, Rises
    <3>4. Rises'
      BY <1>8, <3>2, <3>3
    <3>5. QED
      BY <1>2, <1>3, <3>1, <3>2, <3>4 DEF Rising
  <2>3. CASE ~Begins(op)
    <3>1. Started /\ Busy /\ machine'.st = "wait"
      <4>1. Step = 9
        BY <1>2, <2>1
      <4>2. CASE Issues(op)
        BY <4>2 DEF Issues, Started, Busy
      <4>3. CASE Keeps(op)
        <5>1. Started /\ Busy /\ machine'.st = machine.st /\ machine.st # "latch"
          BY <2>1, <4>1, <4>3, <1>2 DEF Keeps, Started, Busy
        <5>2. machine.st \in {"latch", "wait"}
          BY <1>1, <4>1, <5>1 DEF Bits, Rising
        <5>3. QED
          BY <5>1, <5>2
      <4>4. QED
        BY <1>2, <2>3, <4>1, <4>2, <4>3 DEF MachineDoes, GoesOn, Finishes
    <3>2. Rising
      BY <1>1, <1>2, <2>1, <3>1 DEF Bits
    <3>3. Rises'
      BY <1>8, <3>1, <3>2 DEF Rising
    <3>4. QED
      BY <1>3, <1>7, <3>1, <3>2, <3>3 DEF Rising
  <2>4. QED
    BY <2>2, <2>3
<1>12. Step' = 10 => Falling'
  <2>1. HAVE Step' = 10
  <2>2. Falling
    BY <1>1, <1>2, <2>1 DEF Bits
  <2>3. machine'.st # "latch" /\ (Busy' => Busy)
    BY <1>2, <2>1, <2>2
       DEF MachineDoes, Keeps, Begins, Issues, GoesOn, Finishes, Accepted, Falling, Busy
  <2>4. Falls'
    BY <1>9, <2>2 DEF Falling
  <2>5. axil'.rvalid /\ ~axil'.rdata => AllBusy(FALSE)' /\ ~Busy'
    BY <1>3, <1>7, <2>2, <2>3 DEF Falling
  <2>6. QED
    BY <1>2, <2>3, <2>4, <2>5 DEF Falling
<1>13. QED
  BY <1>10, <1>11, <1>12 DEF Bits

(* A pulse is given once, while it is unborn.                              *)
LEMMA BirthAtS ==
  ASSUME NEW op, NEW x, NEW go, SystemEdge(op, x, go)
  PROVE  /\ machine'.pulse \in {op, "none"}
         /\ machine'.pulse = op =>
              /\ Unborn(op) /\ ~Unborn(op)' /\ Started' /\ NoPulse
              /\ op = "ReadPage" => Busy /\ engine[op] = "ready"
              /\ op = "ProgramPage" => ~Busy /\ Step = 9
         /\ machine'.pulse # op => (Unborn(op)' <=> Unborn(op))
<1>1. /\ op \in Ops /\ Pulsed(op) /\ Bits /\ Phase(op)
  BY DEF SystemEdge, InCourse, Course
<1>2. MachineDoes(op) /\ Step' = Step
  BY MachineAtS
<1>3. /\ Unborn(op)' <=>
           \/ Step = 9 /\ (op = "ReadPage" \/ ~Started')
           \/ Step = 10 /\ op = "ReadPage" /\ machine'.st = "wait"
      /\ Started' <=> machine'.st # "ready" \/ Step = 10
  BY <1>2 DEF Unborn, Started
<1>4. Step = 10 => machine.st # "latch"
  BY <1>1 DEF Bits, Falling
<1>5. CASE Keeps(op)
  BY <1>1, <1>3, <1>5 DEF Keeps, Unborn, Started, Ops
<1>6. CASE Begins(op)
  <2>1. ~Started /\ Step = 9 /\ ~Busy
    BY <1>6 DEF Begins, Accepted, Started, Busy
  <2>2. NoPulse
    BY <1>1, <2>1 DEF Pulsed
  <2>3. Unborn(op)
    BY <2>1 DEF Unborn
  <2>4. Started' /\ (op = "ProgramPage" => ~Unborn(op)') /\ (op = "ReadPage" => Unborn(op)')
    BY <1>3, <1>6, <2>1 DEF Begins
  <2>5. QED
    BY <1>1, <1>6, <2>1, <2>2, <2>3, <2>4 DEF Begins, Pulses, Ops
<1>7. CASE Issues(op)
  BY <1>1, <1>3, <1>4, <1>7 DEF Issues, Unborn, Started, Ops
<1>8. CASE GoesOn(op)
  <2>1. Step = 10 /\ Busy /\ Started' /\ ~Unborn(op)' /\ (Unborn(op) <=> op = "ReadPage")
    BY <1>3, <1>8 DEF GoesOn, Unborn, Busy
  <2>2. Unborn(op) => NoPulse
    BY <1>1 DEF Pulsed
  <2>3. op = "ReadPage" => engine[op] = "ready"
    BY <1>8 DEF GoesOn, Runs, MayGo
  <2>4. QED
    BY <1>1, <1>8, <2>1, <2>2, <2>3 DEF GoesOn, Pulses, Ops
<1>9. CASE Finishes(op)
  BY <1>1, <1>3, <1>9 DEF Finishes, Unborn, Ops
<1>10. QED
  BY <1>2, <1>5, <1>6, <1>7, <1>8, <1>9 DEF MachineDoes

(* A pulse joins the line only when none is on it.                         *)
LEMMA PulsesAtS ==
  ASSUME NEW op, NEW x, NEW go, SystemEdge(op, x, go)
  PROVE  /\ Pulsed(op)' /\ OnePulse(op)'
         /\ Fresh(op)' <=> Fresh(op) \/ machine'.pulse = op
<1>1. /\ op \in Ops /\ x \in Values /\ Types /\ RegisterPace /\ StatusPace /\ Rest(op, x)
      /\ Pulsed(op) /\ OnePulse(op) /\ SEdge(go) /\ go \in BOOLEAN
  BY DEF SystemEdge, InCourse, Course
<1>2. MachineDoes(op) /\ Step' = Step
  BY MachineAtS
<1>3. /\ machine'.pulse \in {op, "none"}
      /\ machine'.pulse = op =>
           /\ Unborn(op) /\ ~Unborn(op)' /\ Started' /\ NoPulse
           /\ op = "ReadPage" => Busy /\ engine[op] = "ready"
           /\ op = "ProgramPage" => ~Busy /\ Step = 9
      /\ machine'.pulse # op => (Unborn(op)' <=> Unborn(op))
  BY BirthAtS
<1>4. /\ Places \in Nat /\ Places >= 3
      /\ Places' = Places + 1
      /\ \A i \in 1..Places : Line'[i] = Line[i]
      /\ Line'[Places + 1].busy = Busy /\ Line'[Places + 1].pulse = machine'.pulse
  BY <1>1, LineIs, LineAtS
<1>5. ASSUME NEW i \in 1..Places'
      PROVE  \/ i \in 1..Places /\ Line'[i] = Line[i]
             \/ i = Places + 1 /\ Line'[i].busy = Busy /\ Line'[i].pulse = machine'.pulse
  BY <1>4
<1>6. /\ sys_axil'.mdata = sys_axil.mdata /\ (sys_axil'.mvalid <=> sys_axil.mvalid)
      /\ sys_axil'.out = sys_axil.out /\ (sys_axil'.valid <=> sys_axil.valid)
  BY <1>1, StatusAtS
<1>7. machine'.pulse = "none" /\ NoPulse => NoPulse'
  BY <1>5 DEF NoPulse
<1>8. Pulsed(op)'
  <2>1. ASSUME NEW i \in 1..Places'
        PROVE  /\ Line'[i].pulse \in {"none", op}
               /\ Line'[i].pulse = op => (Line'[i].busy <=> op = "ReadPage")
    BY <1>1, <1>3, <1>5 DEF Pulsed, Ops
  <2>2. ~Started' => ~Started /\ machine'.pulse = "none"
    <3>1. HAVE ~Started'
    <3>2. machine'.pulse = "none"
      BY <1>3, <3>1
    <3>3. ~Started
      BY <1>2, <3>1 DEF MachineDoes, Keeps, Begins, Issues, GoesOn, Finishes, Started
    <3>4. QED
      BY <3>2, <3>3
  <2>3. Unborn(op)' => Unborn(op) /\ machine'.pulse = "none"
    BY <1>3
  <2>4. ~Started' \/ Unborn(op)' => NoPulse'
    BY <1>1, <1>7, <2>2, <2>3 DEF Pulsed
  <2>5. Step' = 10 /\ op = "ProgramPage" => NoPulse'
    BY <1>1, <1>2, <1>3, <1>7 DEF Pulsed
  <2>6. QED
    BY <2>1, <2>4, <2>5 DEF Pulsed
<1>9. OnePulse(op)'
  <2>1. ASSUME NEW i \in 1..Places', NEW j \in 1..Places', i < j,
               Line'[i].pulse = op, Line'[j].pulse = op
        PROVE  i = 1 /\ j = 2 /\ ~sys_axil'.mvalid
    <3>1. i \in 1..Places /\ Line[i].pulse = op
      BY <1>4, <1>5, <2>1
    <3>2. j \in 1..Places /\ Line[j].pulse = op
      BY <1>1, <1>3, <1>5, <2>1, <3>1 DEF NoPulse, Ops
    <3>3. QED
      BY <1>1, <1>6, <2>1, <3>1, <3>2 DEF OnePulse
  <2>2. ~sys_axil'.mvalid /\ sys_axil'.mdata.pulse = op => sys_axil'.out.pulse = op
    BY <1>1, <1>6 DEF OnePulse
  <2>3. QED
    BY <2>1, <2>2 DEF OnePulse
<1>10. Fresh(op)' <=> Fresh(op) \/ machine'.pulse = op
  <2>1. ASSUME Fresh(op)' PROVE Fresh(op) \/ machine'.pulse = op
    <3>1. PICK i \in 1..Places' : FreshAt(op, i)'
      BY <2>1 DEF Fresh
    <3>2. CASE i \in 1..Places
      <4>1. FreshAt(op, i)
        BY <1>4, <1>6, <3>1, <3>2 DEF FreshAt
      <4>2. QED
        BY <3>2, <4>1 DEF Fresh
    <3>3. CASE i = Places + 1
      BY <1>4, <3>1, <3>3 DEF FreshAt
    <3>4. QED
      BY <1>5, <3>2, <3>3
  <2>2. ASSUME Fresh(op) PROVE Fresh(op)'
    <3>1. PICK i \in 1..Places : FreshAt(op, i)
      BY <2>2 DEF Fresh
    <3>2. i \in 1..Places' /\ FreshAt(op, i)'
      BY <1>4, <1>6, <3>1 DEF FreshAt
    <3>3. QED
      BY <3>2 DEF Fresh
  <2>3. ASSUME machine'.pulse = op PROVE Fresh(op)'
    <3>1. PICK p \in 1..Places' : p = Places + 1
      BY <1>4
    <3>2. p # 1 /\ p # 2 /\ Line'[p].pulse = op
      BY <1>4, <2>3, <3>1
    <3>3. FreshAt(op, p)'
      BY <3>2 DEF FreshAt
    <3>4. QED
      BY <3>3 DEF Fresh
  <2>4. QED
    BY <2>1, <2>2, <2>3
<1>11. QED
  BY <1>8, <1>9, <1>10

(* An edge of the system clock keeps the course of the call.               *)
LEMMA CourseAtS ==
  ASSUME NEW op, NEW x, NEW go, SystemEdge(op, x, go)
  PROVE  Course(op, x)'
<1>1. /\ op \in Ops /\ Types /\ RegisterPace /\ StatusPace
      /\ Owes(op, x) /\ Engines(op) /\ Bits /\ SEdge(go)
  BY DEF SystemEdge, InCourse, Course
<1>2. MachineDoes(op) /\ Phase(op)' /\ Step' = Step
  BY MachineAtS
<1>3. /\ machine'.pulse = op =>
           /\ Unborn(op) /\ ~Unborn(op)' /\ Started' /\ NoPulse
           /\ op = "ReadPage" => Busy /\ engine[op] = "ready"
           /\ op = "ProgramPage" => ~Busy /\ Step = 9
      /\ machine'.pulse # op => (Unborn(op)' <=> Unborn(op))
  BY BirthAtS
<1>4. /\ Pulsed(op)' /\ OnePulse(op)'
      /\ Fresh(op)' <=> Fresh(op) \/ machine'.pulse = op
  BY PulsesAtS
<1>5. /\ owed' = owed /\ engine' = engine
      /\ stream' = (stream \cup {d \in {"ReadPage"} : Ends(d)}) \ {d \in {"ProgramPage"} : Ends(d)}
  BY <1>1 DEF SEdge
<1>6. Pending(op)' <=> Pending(op)
  BY <1>3, <1>4 DEF Pending
<1>7. Owes(op, x)'
  BY <1>1, <1>5, <1>6 DEF Owes
<1>8. ProgramIdle => ProgramIdle'
  BY <1>5 DEF ProgramIdle
<1>9. Engines(op)'
  <2>1. /\ op = "ReadPage" \/ Step < 9 \/ Step = 11 \/ Pending(op) \/ (Started /\ ~Busy) => ProgramIdle
        /\ "ProgramPage" \in stream => engine["ProgramPage"] = "ready"
        /\ Fresh(op) => engine[op] = "ready"
        /\ sys_axil.out.pulse = op /\ ~sys_axil.valid =>
             engine[op] = "start" \/ (engine[op] = "run" /\ sys_axil.mdata.pulse # op)
    BY <1>1 DEF Engines
  <2>2. Started' /\ ~Busy' => ProgramIdle'
    <3>1. HAVE Started' /\ ~Busy'
    <3>2. machine'.st = "ready" /\ Step = 10
      BY <1>2, <3>1 DEF Started, Busy
    <3>3. CASE Finishes(op)
      <4>1. machine.op = op /\ machine.st = "data" /\ MayGo
        BY <3>3 DEF Finishes, Runs
      <4>2. CASE op = "ReadPage"
        BY <1>8, <2>1, <4>2
      <4>3. CASE op = "ProgramPage"
        <5>1. "ProgramPage" \in stream
          BY <4>1, <4>3 DEF MayGo
        <5>2. Ends("ProgramPage")
          BY <3>2, <4>1, <4>3 DEF Ends
        <5>3. QED
          BY <1>5, <2>1, <5>1, <5>2 DEF ProgramIdle
      <4>4. QED
        BY <1>1, <4>2, <4>3 DEF Ops
    <3>4. CASE Keeps(op)
      BY <1>8, <2>1, <3>2, <3>4 DEF Keeps, Started, Busy
    <3>5. QED
      BY <1>2, <3>2, <3>3, <3>4 DEF MachineDoes, Begins, Issues, GoesOn
  <2>3. op = "ReadPage" \/ Step' < 9 \/ Step' = 11 \/ Pending(op)' \/ (Started' /\ ~Busy')
          => ProgramIdle'
    BY <1>2, <1>6, <1>8, <2>1, <2>2
  <2>4. "ProgramPage" \in stream' => engine'["ProgramPage"] = "ready"
    BY <1>5, <2>1
  <2>5. Fresh(op)' => engine'[op] = "ready"
    BY <1>1, <1>3, <1>4, <1>5, <2>1 DEF Pending, ProgramIdle, Ops
  <2>6. sys_axil'.out.pulse = op /\ ~sys_axil'.valid =>
          engine'[op] = "start" \/ (engine'[op] = "run" /\ sys_axil'.mdata.pulse # op)
    BY <1>1, <1>5, <2>1, StatusAtS
  <2>7. QED
    BY <2>3, <2>4, <2>5, <2>6 DEF Engines
<1>10. Bits'
  BY BitsAtS
<1>11. QED
  BY <1>2, <1>4, <1>7, <1>9, <1>10 DEF Course

(***************************************************************************)
(* The invariant is one.                                                   *)
(***************************************************************************)
LEMMA InvAtInit ==
  Init => Inv
<1> SUFFICES ASSUME Init PROVE Inv
  OBVIOUS
<1> DEFINE st == [busy |-> FALSE, pulse |-> "none"]
<1>1. PICK x \in Values :
        regs = [cmd |-> "SelectWay", addr |-> x, len |-> x, ReadPage |-> x, ProgramPage |-> x,
                axilValid |-> FALSE, commandValid |-> FALSE]
  BY DEF Init
<1>2. /\ todo = << >> /\ due = << >> /\ owed = {} /\ stream = {} /\ skew = 0
      /\ axil = [w |-> FALSE, ar |-> FALSE, awready |-> FALSE, bvalid |-> FALSE,
                 arready |-> FALSE, rvalid |-> FALSE, rdata |-> FALSE]
      /\ axil_sys = Empty(RegisterWord) /\ sys_axil = Empty(st)
      /\ adapter = [op |-> "none", fail |-> FALSE, busy |-> FALSE]
      /\ machine = [st |-> "ready", op |-> "ReadPage", pulse |-> "none"]
      /\ engine = [d \in Ops |-> "ready"]
  BY DEF Init
<1>3. /\ axil_sys.q = << >> /\ axil_sys.seen1 = 0 /\ axil_sys.seen2 = 0
      /\ axil_sys.freed1 = 0 /\ axil_sys.freed2 = 0 /\ ~axil_sys.mvalid /\ ~axil_sys.valid
      /\ sys_axil.q = << >> /\ sys_axil.seen1 = 0 /\ sys_axil.seen2 = 0
      /\ sys_axil.freed1 = 0 /\ sys_axil.freed2 = 0 /\ ~sys_axil.mvalid /\ ~sys_axil.valid
      /\ sys_axil.out = st /\ sys_axil.mdata = st
  BY <1>2 DEF Empty
<1>4. RegisterWord \in RegWord /\ st \in StatusWord /\ regs \in Registers
  BY <1>1 DEF RegisterWord, RegWord, Opcode, Setups, StatusWord, Registers
<1>5. axil_sys \in Fifo(RegWord) /\ sys_axil \in Fifo(StatusWord)
  BY <1>2, <1>4 DEF Empty, Fifo
<1>6. Types
  <2>1. FifoTypeOK(axil_sys) /\ FifoTypeOK(sys_axil)
    BY <1>3, <1>5 DEF FifoTypeOK, Fifo
  <2>2. axil \in Axil /\ machine \in [st : {"ready", "latch", "wait", "data"}, op : Ops, pulse : Ops \cup {"none"}]
        /\ adapter \in [op : Opcode \cup {"none"}, fail : BOOLEAN, busy : BOOLEAN]
    BY <1>2 DEF Axil, Ops
  <2>3. todo \in Seq(RegisterWrite \cup StatusPoll) /\ due \in Seq(RegisterWrite)
    BY <1>2
  <2>4. engine \in [Ops -> {"ready", "start", "run"}] /\ stream \in SUBSET Ops
        /\ skew \in Int /\ -SysPeriod <= skew /\ skew <= AxiPeriod
    BY <1>2
  <2>5. QED
    BY <1>4, <1>5, <2>1, <2>2, <2>3, <2>4 DEF Types
<1>7. Step = 11 /\ Len(todo) = 0
  BY <1>2 DEF Step
<1>8. RegisterPace /\ StatusPace /\ StatusFlow
  <2>1. Len(axil_sys.q) = 0 /\ Len(sys_axil.q) = 0 /\ skew = 0
    BY <1>2, <1>3
  <2>2. NextWrite = AxiPeriod
    BY <1>1, <2>1 DEF NextWrite
  <2>3. 0 * SysPeriod = 0 /\ (0 - 0) * SysPeriod = 0 /\ 0 * AxiPeriod = 0
    OBVIOUS
  <2>4. RegisterPace
    BY <1>3, <2>1, <2>2, <2>3 DEF RegisterPace
  <2>5. StatusPace
    BY <1>3, <2>1, <2>3 DEF StatusPace
  <2>6. StatusFlow
    BY <1>3, <2>1 DEF StatusFlow
  <2>7. QED
    BY <2>4, <2>5, <2>6
<1>9. Channel
  BY <1>1, <1>2 DEF Channel
<1>10. AllCarried
  BY <1>2, <1>3 DEF AllCarried, InOut, InMem
<1>11. CallInv("ReadPage", x)
  <2>1. Rest("ReadPage", x) /\ OperandsSet("ReadPage", x) /\ InOrder("ReadPage", x)
    BY <1>1, <1>2, <1>7 DEF Rest, OperandsSet, InOrder, Made
  <2>2. /\ Places = 3 /\ \A i \in 1..Places : Line[i] = st
    BY <1>2, <1>3 DEF Places, Line, Newest
  <2>3. AllBusy(FALSE) /\ NoPulse
    BY <2>2 DEF AllBusy, NoPulse
  <2>4. ~Started /\ Quiet /\ ~Unborn("ReadPage")
    BY <1>2, <1>7 DEF Started, Quiet, Before, Unborn
  <2>5. Phase("ReadPage")
    BY <1>2, <2>4 DEF Phase
  <2>6. Bits
    <3>1. ~axil.rvalid /\ Step # 10 /\ Step # 9
      BY <1>2, <1>7
    <3>2. QED
      BY <2>3, <2>4, <3>1, Zenon DEF Bits
  <2>7. Pulsed("ReadPage")
    BY <1>7, <2>3 DEF Pulsed, NoPulse
  <2>8. ~Fresh("ReadPage") /\ OnePulse("ReadPage")
    BY <1>3, <2>3 DEF Fresh, FreshAt, OnePulse, NoPulse
  <2>9. Owes("ReadPage", x)
    BY <1>2, <2>4, <2>8 DEF Owes, Pending
  <2>10. Engines("ReadPage")
    BY <1>2, <1>3, <2>8 DEF Engines, ProgramIdle, Ops
  <2>11. QED
    BY <2>1, <2>5, <2>6, <2>7, <2>8, <2>9, <2>10 DEF CallInv, Course
<1>12. QED
  BY <1>6, <1>8, <1>9, <1>10, <1>11 DEF Inv, InCall, Ops

(* An edge of the AXI clock keeps the invariant.                           *)
LEMMA InvAtA ==
  ASSUME Inv, NEW slow, NEW finish \in SUBSET MayFinish, AEdge(slow, finish)
  PROVE  Inv'
<1>1. PICK op \in Ops, x \in Values : CallInv(op, x)
  BY DEF Inv, InCall
<1>2. /\ Types /\ RegisterPace /\ StatusPace /\ StatusFlow /\ Channel /\ AllCarried
      /\ Rest(op, x) /\ OperandsSet(op, x) /\ InOrder(op, x) /\ Course(op, x)
  BY <1>1 DEF Inv, CallInv
<1>3. InCourse(op, x)
  BY <1>2 DEF InCourse
<1>4. Types' /\ RegisterPace' /\ StatusPace' /\ StatusFlow' /\ Channel' /\ AllCarried'
  BY <1>2, TypesAtA, RegisterPaceAtA, StatusPaceAtA, StatusFlowAtA, ChannelAtA, CarriedAtA
<1>5. InCall'
  <2>1. CASE Step < 11 \/ todo' = << >>
    <3>1. SameCall(slow, finish)
      BY <2>1 DEF SameCall
    <3>2. Course(op, x)'
      BY <1>3, <3>1, CourseAtA
    <3>3. Rest(op, x)' /\ OperandsSet(op, x)' /\ InOrder(op, x)'
      BY <1>2, <2>1, Progress, OperandsAtA, InOrderAtA
    <3>4. QED
      BY <3>2, <3>3 DEF InCall, CallInv
  <2>2. CASE ~(Step < 11 \/ todo' = << >>)
    <3>1. todo = << >>
      BY <1>2, <2>2, HeadIs
    <3>2. todo' \in Calls
      BY <2>2, <3>1 DEF AEdge
    <3>3. PICK o \in Ops, y \in Values : todo' = Script(o, y)
      BY <3>2, CallsAre
    <3>4. CallInv(o, y)'
      BY <1>3, <3>1, <3>3, NewCallAtA
    <3>5. QED
      BY <3>4 DEF InCall
  <2>3. QED
    BY <2>1, <2>2
<1>6. QED
  BY <1>4, <1>5 DEF Inv

(* An edge of the system clock keeps it.                                   *)
LEMMA InvAtS ==
  ASSUME Inv, NEW go \in BOOLEAN, SEdge(go)
  PROVE  Inv'
<1>1. PICK op \in Ops, x \in Values : CallInv(op, x)
  BY DEF Inv, InCall
<1>2. /\ Types /\ RegisterPace /\ StatusPace /\ StatusFlow /\ Channel /\ AllCarried
      /\ Rest(op, x) /\ OperandsSet(op, x) /\ InOrder(op, x) /\ Course(op, x)
  BY <1>1 DEF Inv, CallInv
<1>3. SystemEdge(op, x, go)
  BY <1>2 DEF SystemEdge, InCourse
<1>4. Types' /\ RegisterPace' /\ StatusPace' /\ StatusFlow' /\ AllCarried'
  BY <1>2, TypesAtS, RegisterPaceAtS, StatusPaceAtS, StatusFlowAtS, CarriedAtS
<1>5. todo' = todo /\ axil' = axil /\ regs' = regs
  BY DEF SEdge
<1>6. Channel'
  BY <1>2, <1>5 DEF Channel
<1>7. Rest(op, x)' /\ OperandsSet(op, x)'
  BY <1>2, <1>5 DEF Rest, OperandsSet, Latched, Step
<1>8. InOrder(op, x)' /\ Course(op, x)'
  BY <1>2, <1>3, InOrderAtS, CourseAtS
<1>9. InCall'
  BY <1>7, <1>8 DEF InCall, CallInv
<1>10. QED
  BY <1>4, <1>6, <1>9 DEF Inv

(* So does a step that changes nothing.                                    *)
LEMMA InvStutters ==
  ASSUME Inv, UNCHANGED vars
  PROVE  Inv'
<1>1. PICK op \in Ops, x \in Values : CallInv(op, x)
  BY DEF Inv, InCall
<1>2. /\ todo' = todo /\ axil' = axil /\ regs' = regs /\ axil_sys' = axil_sys
      /\ sys_axil' = sys_axil /\ adapter' = adapter /\ machine' = machine /\ engine' = engine
      /\ stream' = stream /\ skew' = skew /\ due' = due /\ owed' = owed
  BY DEF vars
<1>3. Types'
  BY <1>2 DEF Inv, Types
<1>4. RegisterPace' /\ StatusPace' /\ StatusFlow'
  BY <1>2 DEF Inv, RegisterPace, StatusPace, StatusFlow, NextWrite
<1>5. Channel'
  BY <1>2 DEF Inv, Channel
<1>6. AllCarried'
  BY <1>2 DEF Inv, AllCarried, InOut, InMem
<1>7. /\ Step' = Step /\ Places' = Places /\ Newest' = Newest
      /\ \A d \in Ops : Fresh(d)' <=> Fresh(d)
      /\ Started' <=> Started
      /\ Line' = Line
  BY <1>2 DEF Step, Places, Newest, Started, Line, Fresh, FreshAt
<1>8. Rest(op, x)' /\ OperandsSet(op, x)' /\ InOrder(op, x)'
  BY <1>1, <1>2 DEF CallInv, Rest, OperandsSet, Latched, InOrder, Made, Step
<1>9. Phase(op)'
  BY <1>1, <1>2, <1>7 DEF CallInv, Course, Phase, Quiet, Accepted, Runs, Over, Before
<1>10. Bits'
  BY <1>1, <1>2, <1>7
     DEF CallInv, Course, Bits, Rising, Falling, Rises, Falls, AllBusy, Busy
<1>11. Pulsed(op)' /\ OnePulse(op)'
  BY <1>1, <1>2, <1>7 DEF CallInv, Course, Pulsed, OnePulse, Unborn, NoPulse
<1>12. (Pending(op)' <=> Pending(op)) /\ Owes(op, x)'
  BY <1>1, <1>2, <1>7 DEF CallInv, Course, Owes, Pending, Unborn
<1>13. Engines(op)'
  BY <1>1, <1>2, <1>7, <1>12 DEF CallInv, Course, Engines, ProgramIdle, Busy
<1>14. InCall'
  BY <1>8, <1>9, <1>10, <1>11, <1>12, <1>13 DEF InCall, CallInv, Course
<1>15. QED
  BY <1>3, <1>4, <1>5, <1>6, <1>14 DEF Inv

(* The invariant holds in every state of every behaviour.                  *)
LEMMA InvHolds ==
  Spec => []Inv
<1>1. Inv /\ [Next]_vars => Inv'
  BY InvAtA, InvAtS, InvStutters DEF Next, AStep, SStep
<1>2. QED
  BY InvAtInit, <1>1, PTL DEF Spec

(***************************************************************************)
(* The theorems.                                                           *)
(***************************************************************************)

(* Every register, every word in the crossings and every state of the      *)
(* machines has its type, whatever the periods and the depth.              *)
THEOREM RegisterTypes == Spec => []RegisterTypeOK
<1>1. Inv => RegisterTypeOK
  <2>1. SUFFICES ASSUME Inv PROVE RegisterTypeOK
    OBVIOUS
  <2>2. QED
    BY <2>1 DEF Inv, Types, RegisterTypeOK, Opcode
<1>2. QED
  BY <1>1, InvHolds, PTL

(* The crossings are never full (NandFlashController_Top_AXI.v leaves the  *)
(* ready of their writers open): with a depth of eight and clocks within a *)
(* factor of two no register word and no status word is ever dropped.      *)
THEOREM CrossingsNeverFull == Spec => []NeverFull
<1>1. Inv => NeverFull
  BY Room DEF Inv, NeverFull
<1>2. QED
  BY <1>1, InvHolds, PTL

(* Every register write reaches the adapter, in order and with the         *)
(* operands the driver wrote for it.                                       *)
THEOREM RegisterWordsArrive == Spec => []WordsArrive
<1>1. Inv => WordsArrive
  <2>1. SUFFICES ASSUME Inv, axil_sys.valid
                 PROVE  due # << >> /\ Carries(axil_sys.out, Head(due))
    BY DEF WordsArrive, Carries
  <2>2. Types /\ AllCarried
    BY <2>1 DEF Inv
  <2>3. /\ due \in Seq(RegisterWrite) /\ Len(axil_sys.q) \in Nat
        /\ Len(due) = InOut + InMem + Len(axil_sys.q) /\ Carries(axil_sys.out, due[1])
    BY <2>1, <2>2 DEF Types, Fifo, AllCarried
  <2>4. Len(due) # 0
    <3> DEFINE n == Len(axil_sys.q)
               k == Len(due)
    <3>1. InOut = 1 /\ InMem \in {0, 1}
      BY <2>1 DEF InOut, InMem
    <3>2. n \in Nat /\ k = 1 + InMem + n
      BY <2>3, <3>1
    <3> HIDE DEF n, k
    <3>3. k # 0
      BY <3>1, <3>2
    <3>4. QED
      BY <3>3 DEF k
  <2>5. due # << >>
    BY <2>3, <2>4
  <2>6. QED
    BY <2>3, <2>5
<1>2. QED
  BY <1>1, InvHolds, PTL

(* A call of the driver that has returned has left the controller idle:    *)
(* the busy bits that its two polls saw rise and fall were its own.        *)
THEOREM PollsTellTruth == Spec => []PollTruth
<1>1. Inv => PollTruth
  <2>1. SUFFICES ASSUME Inv, todo = << >>
                 PROVE  ~Busy /\ adapter.op = "none" /\ ~adapter.fail /\ due = << >> /\ owed = {}
    BY DEF PollTruth
  <2>2. PICK op \in Ops, x \in Values : CallInv(op, x)
    BY <2>1 DEF Inv, InCall
  <2>3. InCourse(op, x) /\ Types /\ Rest(op, x)
    BY <2>1, <2>2 DEF Inv, CallInv, InCourse
  <2>4. Step = 11
    BY <2>1, <2>3, HeadIs
  <2>5. Phase(op) /\ Owes(op, x)
    BY <2>2 DEF CallInv, Course
  <2>6. ~Busy /\ adapter.op = "none" /\ ~adapter.fail /\ due = << >>
    BY <2>4, <2>5 DEF Phase, Quiet, Accepted, Runs, Over, Busy
  <2>7. ~Fresh(op) /\ ~Unborn(op)
    BY <2>3, <2>4, TakesIs DEF Unborn
  <2>8. QED
    BY <2>5, <2>6, <2>7 DEF Owes, Pending
<1>2. QED
  BY <1>1, InvHolds, PTL

(* An engine takes a descriptor only for the operation under way, once,    *)
(* and with the address and the length the driver gave that operation.     *)
THEOREM DescriptorsAreRight == Spec => []DescriptorsRight
<1>1. Inv => DescriptorsRight
  <2>1. SUFFICES ASSUME Inv, NEW d \in Ops, Takes(d)
                 PROVE  Descriptor(d) \in owed
    BY DEF DescriptorsRight
  <2>2. PICK op \in Ops, x \in Values : CallInv(op, x)
    BY <2>1 DEF Inv, InCall
  <2>3. InCourse(op, x)
    BY <2>1, <2>2 DEF Inv, CallInv, InCourse
  <2>4. QED
    BY <2>1, <2>3, TakesIs
<1>2. QED
  BY <1>1, InvHolds, PTL
=============================================================================
