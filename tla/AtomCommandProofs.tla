------------------------- MODULE AtomCommandProofs -------------------------
(***************************************************************************)
(* The latch atoms keep their port contract, for every set of ways and     *)
(* bytes and every set of operands AskAssumption lets in.                  *)
(***************************************************************************)
EXTENDS AtomCommand, SequenceTheorems, TLAPS

Latches == [byte : Byte, cle : BOOLEAN, way : SUBSET Way]

Regs == [st : {"RESET", "READY", "LATCH", "SETUP", "OST"}, k : 0..MaxBytes,
         ready : BOOLEAN, last : BOOLEAN, way : SUBSET Way, num : 0..4, cle : BOOLEAN,
         ca : [1..MaxBytes -> Byte], ce : SUBSET Way, we : BOOLEAN, latch : BOOLEAN,
         dq : Byte, dc : Nat, tc : 0..9]

TypeOK ==
  /\ mode \in Modes
  /\ r \in Regs
  /\ put \in Seq(Latches)

(* Before its first byte an atom has put nothing out.                      *)
Before ==
  r.st # "OST" =>
    /\ put = << >> /\ ~r.last /\ r.we /\ r.dc = 0
    /\ r.st # "SETUP" \/ mode = "sync" => r.tc = 0

(* The synchronous atom puts byte k out as the timer leaves 0, and raises  *)
(* LastStep at the end of the last one.                                    *)
SyncCount ==
  r.st = "OST" /\ mode = "sync" =>
    /\ r.k \in 1..MaxBytes /\ r.dc = r.k - 1 /\ r.dc <= r.num /\ r.tc <= 2
    /\ r.last <=> r.tc = 2 /\ r.dc = r.num
    /\ Len(put) = IF r.tc = 0 THEN r.k - 1 ELSE r.k

(* The asynchronous atom puts byte k out as WE rises, and raises LastStep  *)
(* one clock into a byte that it does not put out.                         *)
AsyncCount ==
  r.st = "OST" /\ mode = "async" =>
    /\ r.k \in 1..MaxBytes /\ r.dc = r.k /\ r.k <= r.num + 1
    /\ r.last <=> r.k = r.num + 1
    /\ r.last => r.tc = 0
    /\ r.we <=> r.tc \notin 1..5
    /\ Len(put) = IF r.tc <= 5 THEN r.k - 1 ELSE r.k

AsyncNum == mode = "async" /\ InHand => r.num >= 1

Inv == TypeOK /\ Before /\ SyncCount /\ AsyncCount /\ AsyncNum

(* The operands an atom is started with.                                   *)
LEMMA AskType ==
  ASSUME mode \in Modes, NEW ask \in Asks[mode]
  PROVE  /\ ask.num \in 0..4 /\ (mode = "async" => ask.num >= 1)
         /\ ask.cle \in BOOLEAN /\ ask.way \in SUBSET Way
         /\ ask.ca \in [1..MaxBytes -> Byte]
<1>1. ask \in Ask
  BY AskAssumption
<1>2. ask.num \in (IF mode = "sync" THEN 0..4 ELSE 1..4)
  BY AskAssumption DEF Modes
<1>3. QED
  BY <1>1, <1>2 DEF Ask, Modes

(* An edge either keeps or clears what has been put out, or adds the byte  *)
(* on the bus.                                                             *)
LEMMA PutNext ==
  ASSUME Inv, NEW start \in BOOLEAN, NEW ask \in Asks[mode], Edge(start, ask),
         r'.dq \in Byte, r'.cle \in BOOLEAN, r'.ce \in SUBSET Way
  PROVE  LET gives == r'.latch /\ (mode = "async" => ~r.we /\ r'.we)
             b == [byte |-> r'.dq, cle |-> r'.cle, way |-> r'.ce] IN
         /\ put' \in Seq(Latches)
         /\ r'.st = "READY" => put' = << >>
         /\ r'.st # "READY" /\ ~gives => put' = put
         /\ r'.st # "READY" /\ gives => put' = Append(put, b) /\ Len(put') = Len(put) + 1
<1> DEFINE b == [byte |-> r'.dq, cle |-> r'.cle, way |-> r'.ce]
<1>1. put \in Seq(Latches) /\ b \in Latches
  BY DEF Inv, TypeOK, Latches
<1>2. put \o << >> = put
  BY <1>1, ConcatEmptySeq
<1> HIDE DEF b
<1>3. put \o <<b>> = Append(put, b) /\ Append(put, b) \in Seq(Latches)
      /\ Len(Append(put, b)) = Len(put) + 1
  BY <1>1, AppendIsConcat, AppendProperties
<1>4. QED
  BY <1>1, <1>2, <1>3 DEF Edge, Given, b

(* What the state machine chooses, state by state.                         *)
LEMMA NextStates ==
  ASSUME Inv, NEW start \in BOOLEAN
  PROVE  LET n == NextState(start) IN
         /\ n.st = "LATCH" => r.st = "READY"
         /\ n.st = "SETUP" => \/ r.st = "LATCH"
                              \/ r.st = "SETUP" /\ mode = "async" /\ ~TimerDone
         /\ n.st = "OST" =>
              \/ r.st = "SETUP" /\ n.k = 1 /\ (mode = "async" => TimerDone)
              \/ r.st = "OST" /\ ~r.last /\ TimerDone /\ r.k # MaxBytes /\ n.k = r.k + 1
              \/ r.st = "OST" /\ ~r.last /\ ~TimerDone /\ n.k = r.k
         /\ n.st = "READY" =>
              \/ r.st \in {"RESET", "READY"}
              \/ r.st = "OST" /\ (r.last \/ (TimerDone /\ r.k = MaxBytes))
         /\ n.st \in {"READY", "LATCH", "SETUP", "OST"}
<1>1. r.st \in {"RESET", "READY", "LATCH", "SETUP", "OST"} /\ r.last \in BOOLEAN
  BY DEF Inv, TypeOK, Regs
<1>2. CASE r.st = "OST"
  <2>1. CASE r.last
    BY <1>2, <2>1 DEF NextState, To
  <2>2. CASE ~r.last /\ TimerDone
    BY <1>2, <2>2 DEF NextState, To
  <2>3. CASE ~r.last /\ ~TimerDone
    BY <1>2, <2>3 DEF NextState, To
  <2>4. QED
    BY <1>1, <2>1, <2>2, <2>3
<1>3. CASE r.st = "SETUP"
  BY <1>3 DEF NextState, To, Inv, TypeOK, Modes
<1>4. CASE r.st \in {"RESET", "READY", "LATCH"}
  BY <1>4 DEF NextState, To
<1>5. QED
  BY <1>1, <1>2, <1>3, <1>4

(* The timer stays within the mode's count.                                *)
LEMMA Timer ==
  ASSUME Inv
  PROVE  Tick \in 0..9 /\ (TimerDone => Tick = 0) /\ (~TimerDone => Tick = r.tc + 1)
<1>1. mode \in Modes /\ r.st \in {"RESET", "READY", "LATCH", "SETUP", "OST"} /\ r.tc \in 0..9
  BY DEF Inv, TypeOK, Regs
<1>2. mode = "sync" => r.tc \in 0..2
  BY <1>1 DEF Inv, Before, SyncCount
<1>3. QED
  BY <1>1, <1>2 DEF Tick, TimerDone, Modes

(* Assignments that keep the registers in their ranges.                    *)
ToSetup(a, ce, latch, tc) == [a EXCEPT !.st = "SETUP", !.ce = ce, !.latch = latch, !.tc = tc]
ToByte(a, k, ce, last, dq, latch, we, dc, tc) ==
  [a EXCEPT !.st = "OST", !.k = k, !.ce = ce, !.last = last, !.dq = dq,
            !.latch = latch, !.we = we, !.dc = dc, !.tc = tc]

LEMMA SetupType ==
  ASSUME NEW a \in Regs, NEW ce \in SUBSET Way, NEW latch \in BOOLEAN, NEW tc \in 0..9
  PROVE  LET b == ToSetup(a, ce, latch, tc) IN
         /\ b \in Regs /\ b.st = "SETUP" /\ b.tc = tc /\ b.latch = latch
         /\ b.last = a.last /\ b.we = a.we /\ b.dc = a.dc /\ b.num = a.num
         /\ b.cle = a.cle /\ b.ca = a.ca /\ b.way = a.way
  BY DEF Regs, ToSetup

LEMMA ByteType ==
  ASSUME NEW a \in Regs, NEW k \in 0..MaxBytes, NEW ce \in SUBSET Way, NEW last \in BOOLEAN,
         NEW dq \in Byte, NEW latch \in BOOLEAN, NEW we \in BOOLEAN, NEW dc \in Nat,
         NEW tc \in 0..9
  PROVE  LET b == ToByte(a, k, ce, last, dq, latch, we, dc, tc) IN
         /\ b \in Regs /\ b.st = "OST" /\ b.k = k /\ b.ce = ce /\ b.last = last /\ b.dq = dq
         /\ b.latch = latch /\ b.we = we /\ b.dc = dc /\ b.tc = tc
         /\ b.num = a.num /\ b.cle = a.cle /\ b.ca = a.ca /\ b.way = a.way
<1> DEFINE b == ToByte(a, k, ce, last, dq, latch, we, dc, tc)
           b1 == [a EXCEPT !.st = "OST", !.k = k, !.ce = ce, !.last = last]
           b2 == [b1 EXCEPT !.dq = dq, !.latch = latch, !.we = we]
<1>1. /\ b1 \in Regs /\ b1.st = "OST" /\ b1.k = k /\ b1.ce = ce /\ b1.last = last
      /\ b1.num = a.num /\ b1.cle = a.cle /\ b1.ca = a.ca /\ b1.way = a.way
  BY DEF Regs
<1>2. b = [b2 EXCEPT !.dc = dc, !.tc = tc]
  BY DEF ToByte
<1> HIDE DEF b1, b
<1>3. /\ b2 \in Regs /\ b2.st = "OST" /\ b2.k = k /\ b2.ce = ce /\ b2.last = last
      /\ b2.dq = dq /\ b2.latch = latch /\ b2.we = we
      /\ b2.num = a.num /\ b2.cle = a.cle /\ b2.ca = a.ca /\ b2.way = a.way
  BY <1>1 DEF Regs
<1> HIDE DEF b2
<1>4. /\ b \in Regs /\ b.st = "OST" /\ b.k = k /\ b.ce = ce /\ b.last = last /\ b.dq = dq
      /\ b.latch = latch /\ b.we = we /\ b.dc = dc /\ b.tc = tc
      /\ b.num = a.num /\ b.cle = a.cle /\ b.ca = a.ca /\ b.way = a.way
  BY <1>2, <1>3 DEF Regs
<1>5. QED
  BY <1>4 DEF b

LEMMA IdleType == Idle \in Regs
  BY ByteAssumption DEF Idle, Regs, NoBytes, MaxBytes

(* A step that leaves an atom READY.                                       *)
LEMMA ReadyKeeps ==
  ASSUME Inv, NEW start \in BOOLEAN, NEW ask \in Asks[mode], Edge(start, ask),
         NextState(start).st = "READY"
  PROVE  Inv'
<1>1. r' = Idle /\ mode' = mode
  BY DEF Edge, Registers
<1>2. r'.st = "READY" /\ ~r'.last /\ r'.we /\ r'.dc = 0 /\ r'.tc = 0 /\ put' = << >>
  BY <1>1 DEF Edge, Idle
<1>3. TypeOK'
  BY <1>1, <1>2, IdleType DEF Inv, TypeOK, Regs
<1>4. QED
  BY <1>2, <1>3 DEF Inv, Before, SyncCount, AsyncCount, AsyncNum, InHand

(* A step that takes the operands.                                         *)
LEMMA LatchKeeps ==
  ASSUME Inv, NEW start \in BOOLEAN, NEW ask \in Asks[mode], Edge(start, ask),
         NextState(start).st = "LATCH"
  PROVE  Inv'
<1>1. r.st = "READY" /\ put = << >>
  BY NextStates DEF Inv, Before
<1>2. mode' = mode
      /\ r' = [Idle EXCEPT !.st = "LATCH", !.ready = FALSE, !.way = ask.way, !.num = ask.num,
                           !.cle = ask.cle, !.ca = ask.ca]
  BY DEF Edge, Registers
<1>3. r'.st = "LATCH" /\ ~r'.last /\ r'.we /\ r'.dc = 0 /\ r'.tc = 0 /\ ~r'.latch
      /\ r'.num = ask.num
  BY <1>2 DEF Idle
<1>4. put' = << >>
  BY <1>1, <1>3 DEF Edge, Given
<1>5. r' \in Regs
  BY <1>2, IdleType, AskType DEF Inv, TypeOK, Regs, Idle
<1>6. TypeOK'
  BY <1>2, <1>4, <1>5 DEF Inv, TypeOK, Regs
<1>7. QED
  BY <1>2, <1>3, <1>4, <1>6, AskType
  DEF Inv, TypeOK, Before, SyncCount, AsyncCount, AsyncNum, InHand

(* A step into or through the set-up time.                                 *)
LEMMA SetupStep ==
  ASSUME Inv, NEW start \in BOOLEAN, NEW ask \in Asks[mode], Edge(start, ask),
         NextState(start).st = "SETUP"
  PROVE  /\ r.st \in {"LATCH", "SETUP"} /\ put = << >> /\ ~r.last /\ r.we /\ r.dc = 0
         /\ mode' = mode /\ put' = << >>
         /\ r' \in Regs /\ r'.st = "SETUP" /\ ~r'.last /\ r'.we /\ r'.dc = 0
         /\ r'.num = r.num /\ r'.cle = r.cle /\ r'.ca = r.ca /\ r'.way = r.way
         /\ mode = "sync" => r'.tc = 0
<1>1. r.st \in {"LATCH", "SETUP"} /\ put = << >> /\ ~r.last /\ r.we /\ r.dc = 0
  BY NextStates DEF Inv, Before
<1>2. mode' = mode
      /\ r' = [r EXCEPT !.st = "SETUP", !.ce = r.way, !.latch = (mode = "async"),
                        !.tc = IF mode = "sync" THEN 0 ELSE Tick]
  BY DEF Edge, Registers
<1> DEFINE l == mode = "async"
           t == IF mode = "sync" THEN 0 ELSE Tick
<1>3. r \in Regs /\ r.way \in SUBSET Way /\ l \in BOOLEAN /\ t \in 0..9
  BY Timer DEF Inv, TypeOK, Regs
<1>4. r' = ToSetup(r, r.way, l, t)
  BY <1>2 DEF ToSetup
<1>5. mode = "sync" => t = 0 /\ ~l
  OBVIOUS
<1> HIDE DEF l, t
<1>6. /\ r' \in Regs /\ r'.st = "SETUP" /\ r'.tc = t /\ r'.latch = l
      /\ r'.last = r.last /\ r'.we = r.we /\ r'.dc = r.dc
      /\ r'.num = r.num /\ r'.cle = r.cle /\ r'.ca = r.ca /\ r'.way = r.way
  BY <1>3, <1>4, SetupType
<1>7. put' = << >>
  BY <1>1, <1>5, <1>6 DEF Edge, Given, Inv, TypeOK, Modes
<1>8. QED
  BY <1>1, <1>2, <1>5, <1>6, <1>7

LEMMA SetupKeeps ==
  ASSUME Inv, NEW start \in BOOLEAN, NEW ask \in Asks[mode], Edge(start, ask),
         NextState(start).st = "SETUP"
  PROVE  Inv'
<1>1. TypeOK'
  BY SetupStep DEF Inv, TypeOK
<1>2. QED
  BY <1>1, SetupStep DEF Inv, TypeOK, Before, SyncCount, AsyncCount, AsyncNum, InHand

(* What a step within the bytes does to the registers.                     *)
LEMMA ByteStep ==
  ASSUME Inv, NEW start \in BOOLEAN, NEW ask \in Asks[mode], Edge(start, ask),
         NextState(start).st = "OST"
  PROVE  /\ r.st \in {"SETUP", "OST"} /\ mode' = mode
         /\ r.st = "SETUP" =>
              NextState(start).k = 1 /\ (mode = "async" => TimerDone)
         /\ r.st = "OST" =>
              /\ ~r.last
              /\ NextState(start).k = IF TimerDone THEN r.k + 1 ELSE r.k
              /\ TimerDone => r.k # MaxBytes
         /\ r' \in Regs /\ r'.st = "OST" /\ r'.k = NextState(start).k
         /\ r'.last = LastNow /\ r'.num = r.num /\ r'.cle = r.cle /\ r'.way = r.way
         /\ r'.ca = r.ca /\ r'.ce = r.way /\ r'.dq = r.ca[r'.k]
         /\ r'.latch = (mode = "async" \/ r.tc = 0)
         /\ r'.we = (mode = "sync" \/ r.tc > 4)
         /\ r'.dc = IF TimerDone THEN r.dc + 1 ELSE r.dc
         /\ r'.tc = Tick
<1>1. /\ r.st \in {"SETUP", "OST"} /\ mode' = mode
      /\ r.st = "SETUP" => NextState(start).k = 1 /\ (mode = "async" => TimerDone)
      /\ r.st = "OST" => /\ ~r.last
                         /\ NextState(start).k = IF TimerDone THEN r.k + 1 ELSE r.k
                         /\ TimerDone => r.k # MaxBytes
  BY NextStates DEF Edge
<1>2. NextState(start).k \in 1..MaxBytes
  BY <1>1 DEF Inv, TypeOK, Regs, SyncCount, AsyncCount, Modes, MaxBytes
<1>3. r' = [r EXCEPT !.st = "OST", !.k = NextState(start).k, !.ce = r.way, !.last = LastNow,
                    !.dq = r.ca[NextState(start).k],
                    !.latch = (mode = "async" \/ r.tc = 0),
                    !.we = (mode = "sync" \/ r.tc > 4),
                    !.dc = IF TimerDone THEN r.dc + 1 ELSE r.dc,
                    !.tc = Tick]
  BY DEF Edge, Registers
<1> DEFINE n == NextState(start).k
           l == mode = "async" \/ r.tc = 0
           w == mode = "sync" \/ r.tc > 4
           d == IF TimerDone THEN r.dc + 1 ELSE r.dc
<1>4. LastNow \in BOOLEAN /\ Tick \in 0..9 /\ l \in BOOLEAN /\ w \in BOOLEAN
  BY Timer DEF LastNow, TimerDone, AllBytes
<1>5. d \in Nat /\ r.way \in SUBSET Way /\ n \in 0..MaxBytes /\ r.ca[n] \in Byte /\ r \in Regs
  <2>1. r.dc \in Nat /\ r.way \in SUBSET Way /\ r.ca \in [1..MaxBytes -> Byte] /\ r \in Regs
    BY DEF Inv, TypeOK, Regs
  <2>2. n \in 0..MaxBytes /\ r.ca[n] \in Byte
    BY <1>2, <2>1 DEF MaxBytes
  <2>3. QED
    BY <2>1, <2>2 DEF TimerDone
<1>6. r' = ToByte(r, n, r.way, LastNow, r.ca[n], l, w, d, Tick)
  BY <1>3 DEF ToByte
<1> HIDE DEF n, l, w, d
<1>7. /\ r' \in Regs /\ r'.st = "OST" /\ r'.k = n /\ r'.last = LastNow /\ r'.num = r.num
      /\ r'.cle = r.cle /\ r'.way = r.way /\ r'.ca = r.ca /\ r'.ce = r.way
      /\ r'.dq = r.ca[n] /\ r'.latch = l /\ r'.we = w /\ r'.dc = d /\ r'.tc = Tick
  BY <1>4, <1>5, <1>6, ByteType
<1>8. QED
  BY <1>1, <1>7 DEF n, l, w, d

(* What the registers hold within the set-up time and the bytes.           *)
LEMMA Fields ==
  ASSUME Inv
  PROVE  /\ mode \in {"sync", "async"} /\ put \in Seq(Latches) /\ Len(put) \in Nat
         /\ r.dc \in Nat /\ r.tc \in 0..9 /\ r.num \in 0..4 /\ r.k \in 0..MaxBytes
         /\ r.last \in BOOLEAN /\ r.we \in BOOLEAN /\ r.latch \in BOOLEAN
<1>1. put \in Seq(Latches) => Len(put) \in Nat
  BY LenProperties
<1>2. QED
  BY <1>1 DEF Inv, TypeOK, Regs, Modes

(* A step into or through the bytes.                                       *)
LEMMA ByteKeeps ==
  ASSUME Inv, NEW start \in BOOLEAN, NEW ask \in Asks[mode], Edge(start, ask),
         NextState(start).st = "OST"
  PROVE  Inv'
<1> DEFINE gives == r'.latch /\ (mode = "async" => ~r.we /\ r'.we)
<1>1. /\ put' \in Seq(Latches)
      /\ Len(put') = IF gives THEN Len(put) + 1 ELSE Len(put)
  BY ByteStep, PutNext DEF Regs
<1>2. TypeOK' /\ Before' /\ AsyncNum'
  BY <1>1, ByteStep DEF Inv, TypeOK, Before, AsyncNum, InHand
<1>3. SyncCount'
  <2> SUFFICES ASSUME mode = "sync"
               PROVE  SyncCount'
    BY ByteStep DEF SyncCount
  <2>1. gives <=> r.tc = 0
    BY ByteStep
  <2>2. TimerDone <=> r.tc = 2
    BY DEF TimerDone
  <2>3. r'.last <=> r.dc = r.num /\ r.tc = 1
    BY ByteStep DEF LastNow, AllBytes
  <2> HIDE DEF gives
  <2>4. CASE r.st = "SETUP"
    <3>1. r.tc = 0 /\ r.dc = 0 /\ Len(put) = 0
      BY <2>4 DEF Inv, Before
    <3>2. r'.k = 1 /\ r'.dc = 0 /\ r'.tc = 1 /\ ~r'.last /\ Len(put') = 1 /\ r'.num = r.num
      BY <1>1, <2>1, <2>2, <2>3, <2>4, <3>1, ByteStep, Timer
    <3>3. QED
      BY <3>2, Fields DEF SyncCount, MaxBytes
  <2>5. CASE r.st = "OST"
    <3>1. /\ r.k \in 1..MaxBytes /\ r.dc = r.k - 1 /\ r.dc <= r.num /\ r.tc \in 0..2
          /\ ~(r.tc = 2 /\ r.dc = r.num)
          /\ Len(put) = IF r.tc = 0 THEN r.k - 1 ELSE r.k
      BY <2>5, ByteStep, Fields DEF Inv, SyncCount
    <3>2. /\ r'.k = IF r.tc = 2 THEN r.k + 1 ELSE r.k
          /\ r'.tc = IF r.tc = 2 THEN 0 ELSE r.tc + 1
          /\ r'.dc = IF r.tc = 2 THEN r.dc + 1 ELSE r.dc
          /\ r.tc = 2 => r.k # MaxBytes
          /\ r'.num = r.num
      <4>1. CASE r.tc = 2
        BY <2>2, <2>5, <4>1, ByteStep, Timer
      <4>2. CASE r.tc # 2
        BY <2>2, <2>5, <4>2, ByteStep, Timer
      <4>3. QED
        BY <4>1, <4>2
    <3>3. /\ r'.k \in 1..MaxBytes /\ r'.dc = r'.k - 1 /\ r'.dc <= r'.num /\ r'.tc <= 2
      <4>1. r.num \in Nat
        BY Fields
      <4>2. CASE r.tc = 2
        BY <3>1, <3>2, <4>1, <4>2 DEF MaxBytes
      <4>3. CASE r.tc # 2
        BY <3>1, <3>2, <4>1, <4>3 DEF MaxBytes
      <4>4. QED
        BY <4>2, <4>3
    <3>4. r'.last <=> r'.tc = 2 /\ r'.dc = r'.num
      BY <2>3, <3>1, <3>2
    <3>5. Len(put') = IF r'.tc = 0 THEN r'.k - 1 ELSE r'.k
      BY <1>1, <2>1, <3>1, <3>2 DEF MaxBytes
    <3>6. QED
      BY <3>3, <3>4, <3>5 DEF SyncCount
  <2>6. QED
    BY <2>4, <2>5, ByteStep
<1>4. AsyncCount'
  <2> SUFFICES ASSUME mode = "async"
               PROVE  AsyncCount'
    BY ByteStep DEF AsyncCount
  <2>1. gives <=> ~r.we /\ r.tc > 4
    BY ByteStep
  <2>2. TimerDone <=> r.tc = 9
    BY DEF TimerDone
  <2>3. r'.last <=> r.dc = r.num /\ r.tc = 9
    BY <2>2, ByteStep DEF LastNow, AllBytes
  <2>4. r.num >= 1 /\ r'.num = r.num /\ (r'.we <=> r.tc > 4)
    BY ByteStep DEF Inv, AsyncNum, InHand
  <2> HIDE DEF gives
  <2>5. CASE r.st = "SETUP"
    <3>1. r.tc = 9 /\ r.dc = 0 /\ r.we /\ Len(put) = 0
      BY <2>2, <2>5, ByteStep DEF Inv, Before
    <3>2. r'.k = 1 /\ r'.dc = 1 /\ r'.tc = 0 /\ Len(put') = 0
      BY <1>1, <2>1, <2>2, <2>5, <3>1, ByteStep, Timer
    <3>3. QED
      BY <2>3, <2>4, <3>1, <3>2, Fields DEF AsyncCount, MaxBytes
  <2>6. CASE r.st = "OST"
    <3>1. /\ r.k \in 1..MaxBytes /\ r.dc = r.k /\ r.k <= r.num
          /\ r.we <=> r.tc \notin 1..5
          /\ Len(put) = IF r.tc <= 5 THEN r.k - 1 ELSE r.k
      BY <2>6, ByteStep, Fields DEF Inv, AsyncCount
    <3>2. /\ r'.k = IF r.tc = 9 THEN r.k + 1 ELSE r.k
          /\ r'.tc = IF r.tc = 9 THEN 0 ELSE r.tc + 1
          /\ r'.dc = IF r.tc = 9 THEN r.dc + 1 ELSE r.dc
          /\ r.tc = 9 => r.k # MaxBytes
      <4>1. CASE r.tc = 9
        BY <2>2, <2>6, <4>1, ByteStep, Timer
      <4>2. CASE r.tc # 9
        BY <2>2, <2>6, <4>2, ByteStep, Timer
      <4>3. QED
        BY <4>1, <4>2
    <3>3. /\ r'.k \in 1..MaxBytes /\ r'.dc = r'.k /\ r'.k <= r'.num + 1
      BY <2>4, <3>1, <3>2, Fields DEF MaxBytes
    <3>4. (r'.last <=> r'.k = r'.num + 1) /\ (r'.last => r'.tc = 0)
      BY <2>3, <2>4, <3>1, <3>2, Fields DEF MaxBytes
    <3>5. r'.we <=> r'.tc \notin 1..5
      BY <2>4, <3>2, Fields
    <3>6. Len(put') = IF r'.tc <= 5 THEN r'.k - 1 ELSE r'.k
      BY <1>1, <2>1, <3>1, <3>2, Fields DEF MaxBytes
    <3>7. QED
      BY <3>3, <3>4, <3>5, <3>6 DEF AsyncCount
  <2>7. QED
    BY <2>5, <2>6, ByteStep
<1>5. QED
  BY <1>2, <1>3, <1>4 DEF Inv

(* Every edge keeps the invariant.                                         *)
LEMMA EdgeKeeps ==
  ASSUME Inv, NEW start \in BOOLEAN, NEW ask \in Asks[mode], Edge(start, ask)
  PROVE  Inv'
  BY ReadyKeeps, LatchKeeps, SetupKeeps, ByteKeeps, NextStates

LEMMA Invariant == LatchSpec => []Inv
<1>1. LatchInit => Inv
  <2> SUFFICES ASSUME LatchInit
               PROVE  Inv
    OBVIOUS
  <2>1. r \in Regs /\ r.st = "RESET" /\ ~r.last /\ r.we /\ r.dc = 0 /\ r.tc = 0
    BY IdleType DEF LatchInit, Idle, Regs
  <2>2. QED
    BY <2>1 DEF LatchInit, Inv, TypeOK, Before, SyncCount, AsyncCount, AsyncNum, InHand
<1>2. Inv /\ [LatchNext]_latchvars => Inv'
  <2> SUFFICES ASSUME Inv, [LatchNext]_latchvars
               PROVE  Inv'
    OBVIOUS
  <2>1. CASE LatchNext
    BY <2>1, EdgeKeeps DEF LatchNext, Wait, Started
  <2>2. CASE UNCHANGED latchvars
    BY <2>2 DEF latchvars, Inv, TypeOK, Before, SyncCount, AsyncCount, AsyncNum, InHand
  <2>3. QED
    BY <2>1, <2>2
<1>3. QED
  BY <1>1, <1>2, PTL DEF LatchSpec

(* The job in hand is a job, and as long as it says.                       *)
LEMMA JobType ==
  ASSUME Inv, InHand
  PROVE  /\ JobOf \in Jobs /\ JobOf # NoJob
         /\ Len(JobOf.bytes) = Count(r.num) /\ Count(r.num) \in 1..MaxBytes
         /\ \A i \in 1..Count(r.num) : JobOf.bytes[i] = r.ca[i]
<1>1. Count(r.num) \in 1..MaxBytes
  BY Fields DEF Inv, AsyncNum, Count, MaxBytes
<1>2. /\ r.ca \in [1..MaxBytes -> Byte] /\ r.cle \in BOOLEAN /\ r.way \in SUBSET Way
  BY DEF Inv, TypeOK, Regs
<1> DEFINE n == Count(r.num)
           bytes == [i \in 1..n |-> r.ca[i]]
<1>3. bytes \in [1..n -> Byte] /\ n \in Nat
  BY <1>1, <1>2 DEF MaxBytes
<1>4. Len(bytes) = n
  BY <1>3, LenProperties
<1>5. JobOf = [bytes |-> bytes, cle |-> r.cle, way |-> r.way]
  BY DEF JobOf
<1>6. JobOf # NoJob
  BY <1>5 DEF NoJob
<1>7. bytes \in UNION {[1..m -> Byte] : m \in 1..MaxBytes}
  BY <1>1, <1>3
<1> HIDE DEF bytes
<1>8. JobOf \in Jobs /\ JobOf.bytes = bytes
  BY <1>2, <1>5, <1>7 DEF Jobs
<1>9. QED
  BY <1>1, <1>4, <1>6, <1>8 DEF bytes

-----------------------------------------------------------------------------
\* The steps the port contract allows, without its fairness.
PortSteps == Port!Init /\ [][Port!Next]_Port!ports

(* The same after a step.                                                  *)
LEMMA JobTypeNext == (Inv /\ InHand)' => (JobOf \in Jobs)'
<1>1. Inv /\ InHand => JobOf \in Jobs
  BY JobType
<1>2. QED
  BY <1>1, PTL

LEMMA ReadyPort ==
  ASSUME Inv, NEW start \in BOOLEAN, NEW ask \in Asks[mode], Edge(start, ask),
         NextState(start).st = "READY"
  PROVE  Port!Release \/ UNCHANGED Port!ports
<1>1. r'.st = "READY" /\ ~r'.last /\ put' = << >>
  BY DEF Edge, Registers, Idle
<1>2. r'.last = FALSE
  BY <1>1, ReadyKeeps DEF Inv, TypeOK, Regs
<1>3. CASE r.st \in {"RESET", "READY"}
  <2>1. put = << >> /\ r.last = FALSE
    BY <1>3, Fields DEF Inv, Before
  <2>2. QED
    BY <1>1, <1>2, <1>3, <2>1 DEF Port!ports, InHand
<1>4. CASE r.st = "OST"
  <2>1. r.last
    <3>1. r.last \/ (TimerDone /\ r.k = MaxBytes)
      BY <1>4, NextStates
    <3>2. CASE mode = "sync"
      BY <1>4, <3>1, <3>2, Fields DEF Inv, SyncCount, TimerDone, MaxBytes
    <3>3. CASE mode = "async"
      BY <1>4, <3>1, <3>3, Fields DEF Inv, AsyncCount, MaxBytes
    <3>4. QED
      BY <3>2, <3>3, Fields
  <2>2. QED
    BY <1>1, <1>2, <2>1 DEF Port!Release, InHand
<1>5. QED
  BY <1>3, <1>4, NextStates

LEMMA LatchPort ==
  ASSUME Inv, NEW start \in BOOLEAN, NEW ask \in Asks[mode], Edge(start, ask),
         NextState(start).st = "LATCH"
  PROVE  Port!Take
<1>1. r.st = "READY" /\ put = << >> /\ r.last = FALSE
  BY NextStates, Fields DEF Inv, Before
<1>2. Inv' /\ r'.st = "LATCH"
  BY LatchKeeps DEF Edge, Registers, Idle
<1>3. put' = << >> /\ r'.last = FALSE
  BY <1>2 DEF Inv, TypeOK, Regs, Before
<1>4. InHand' /\ ~InHand
  BY <1>1, <1>2 DEF InHand
<1>5. JobOf' \in Jobs
  BY <1>2, <1>4, JobTypeNext
<1>6. QED
  BY <1>1, <1>3, <1>4, <1>5 DEF Port!Take

LEMMA SetupPort ==
  ASSUME Inv, NEW start \in BOOLEAN, NEW ask \in Asks[mode], Edge(start, ask),
         NextState(start).st = "SETUP"
  PROVE  UNCHANGED Port!ports
<1>1. put' = put /\ r'.last = r.last
  BY SetupStep, SetupKeeps, Fields DEF Inv, TypeOK, Regs
<1>2. InHand /\ InHand' /\ JobOf' = JobOf
  BY SetupStep DEF InHand, JobOf, Count
<1>3. QED
  BY <1>1, <1>2 DEF Port!ports

LEMMA BytePort ==
  ASSUME Inv, NEW start \in BOOLEAN, NEW ask \in Asks[mode], Edge(start, ask),
         NextState(start).st = "OST"
  PROVE  Port!Put \/ Port!Finish \/ UNCHANGED Port!ports
<1> DEFINE gives == r'.latch /\ (mode = "async" => ~r.we /\ r'.we)
           b == [byte |-> r.ca[r'.k], cle |-> r.cle, way |-> r.way]
<1>1. /\ ~gives => put' = put
      /\ gives => put' = Append(put, b)
  BY ByteStep, PutNext DEF Regs
<1>2. /\ InHand /\ InHand' /\ JobOf' = JobOf
      /\ JobOf.cle = r.cle /\ JobOf.way = r.way
  BY ByteStep DEF InHand, JobOf, Count
<1>3. r.last = FALSE /\ r'.last \in BOOLEAN
  BY ByteStep, Fields DEF Inv, Before, Regs
<1>4. gives => ~r'.last /\ r'.k = Len(put) + 1 /\ Len(put) < Count(r.num)
  <2> SUFFICES ASSUME gives
               PROVE  ~r'.last /\ r'.k = Len(put) + 1 /\ Len(put) < Count(r.num)
    OBVIOUS
  <2>1. CASE mode = "sync"
    <3>1. r.tc = 0 /\ ~r'.last /\ ~TimerDone
      <4>1. r.tc = 0
        BY <2>1, ByteStep
      <4>2. ~TimerDone /\ LastNow = FALSE
        BY <2>1, <4>1 DEF LastNow, TimerDone
      <4>3. QED
        BY <4>1, <4>2, ByteStep
    <3>2. r.st = "SETUP" => Len(put) = 0 /\ r'.k = 1
      BY ByteStep DEF Inv, Before
    <3>3. r.st = "OST" => Len(put) = r.k - 1 /\ r'.k = r.k /\ r.k - 1 <= r.num
      BY <2>1, <3>1, ByteStep DEF Inv, SyncCount
    <3>4. Count(r.num) = r.num + 1
      BY <2>1 DEF Count
    <3> HIDE DEF gives
    <3>5. CASE r.st = "SETUP"
      BY <3>1, <3>2, <3>4, <3>5, Fields
    <3>6. CASE r.st = "OST"
      BY <3>1, <3>3, <3>4, <3>6, Fields DEF MaxBytes
    <3>7. QED
      BY <3>5, <3>6, ByteStep
  <2>2. CASE mode = "async"
    <3>1. ~r.we /\ r.tc > 4
      BY <2>2, ByteStep
    <3>2. r.st = "OST"
      BY <3>1, ByteStep DEF Inv, Before
    <3>3. r.tc = 5 /\ Len(put) = r.k - 1 /\ r.k <= r.num /\ r.k \in 1..MaxBytes
      BY <2>2, <3>1, <3>2, ByteStep, Fields DEF Inv, AsyncCount
    <3>4. ~TimerDone /\ ~r'.last /\ r'.k = r.k
      <4>1. ~TimerDone
        BY <2>2, <3>3 DEF TimerDone
      <4>2. LastNow = FALSE
        BY <2>2, <4>1 DEF LastNow
      <4>3. QED
        BY <3>2, <4>1, <4>2, ByteStep
    <3>5. QED
      BY <2>2, <3>3, <3>4, Fields DEF Count, MaxBytes
  <2>3. QED
    BY <2>1, <2>2, Fields
<1>5. r'.last => Len(put) = Count(r.num)
  <2> SUFFICES ASSUME r'.last
               PROVE  Len(put) = Count(r.num)
    OBVIOUS
  <2>1. AllBytes /\ IF mode = "sync" THEN r.tc = 1 ELSE TimerDone
    BY ByteStep DEF LastNow
  <2>2. CASE mode = "sync"
    <3>1. r.st = "OST"
      BY <2>1, <2>2, ByteStep DEF Inv, Before
    <3>2. QED
      BY <2>1, <2>2, <3>1, Fields DEF Inv, SyncCount, AllBytes, Count, MaxBytes
  <2>3. CASE mode = "async"
    <3>1. r.st = "OST"
      <4>1. r.num >= 1
        BY <2>3, ByteStep DEF Inv, AsyncNum, InHand
      <4>2. r.dc >= 1
        BY <2>1, <4>1 DEF AllBytes
      <4>3. QED
        BY <4>2, ByteStep DEF Inv, Before
    <3>2. QED
      BY <2>1, <2>3, <3>1, Fields DEF Inv, AsyncCount, AllBytes, TimerDone, Count, MaxBytes
  <2>4. QED
    BY <2>2, <2>3, Fields
<1>6. CASE gives
  <2>1. /\ put' = Append(put, [byte |-> JobOf.bytes[Len(put) + 1], cle |-> JobOf.cle,
                              way |-> JobOf.way])
        /\ Len(put) < Len(JobOf.bytes)
    BY <1>1, <1>2, <1>4, <1>6, JobType, Fields DEF MaxBytes
  <2>2. QED
    BY <1>2, <1>3, <1>4, <1>6, <2>1, JobType DEF Port!Put
<1>7. CASE ~gives /\ r'.last
  BY <1>1, <1>2, <1>3, <1>5, <1>7, JobType DEF Port!Finish
<1>8. CASE ~gives /\ ~r'.last
  BY <1>1, <1>2, <1>3, <1>8 DEF Port!ports
<1>9. QED
  BY <1>6, <1>7, <1>8

(* For every set of ways and bytes, every step of a latch atom, in either  *)
(* mode and whatever it is asked, is a step the port contract allows: the  *)
(* chips it was told to address get exactly the bytes asked for, in order  *)
(* and each once, and LastStep comes after the last of them.               *)
THEOREM LatchKeepsPort == LatchSpec => PortSteps
<1>1. LatchInit => Port!Init
  BY DEF LatchInit, Idle, Port!Init, InHand
<1>2. Inv /\ [LatchNext]_latchvars => [Port!Next]_Port!ports
  <2> SUFFICES ASSUME Inv, [LatchNext]_latchvars
               PROVE  Port!Next \/ UNCHANGED Port!ports
    OBVIOUS
  <2>1. ASSUME NEW start \in BOOLEAN, NEW ask \in Asks[mode], Edge(start, ask)
        PROVE  Port!Next \/ UNCHANGED Port!ports
    BY <2>1, NextStates, ReadyPort, LatchPort, SetupPort, BytePort DEF Port!Next
  <2>2. CASE LatchNext
    BY <2>1, <2>2 DEF LatchNext, Wait, Started
  <2>3. CASE UNCHANGED latchvars
    BY <2>3 DEF latchvars, Port!ports, InHand, JobOf, Count
  <2>4. QED
    BY <2>2, <2>3
<1>3. QED
  BY <1>1, <1>2, Invariant, PTL DEF LatchSpec, PortSteps
=============================================================================
