--------------------------- MODULE ReadDataProofs ---------------------------
(***************************************************************************)
(* Proofs about ReadData for every set of words, every script, every depth *)
(* of the FIFOs and every lag of the block FIFO's EMPTY that is in time:   *)
(* the wait of a status read outlasts it, and so does the time between two *)
(* commands.                                                               *)
(*                                                                         *)
(* As long as the read FIFO is never full, nothing between the pins and    *)
(* the read FIFO ever waits: a word is at a place that follows from the    *)
(* clocks since the command's first strobe.  And the read FIFO is never    *)
(* full, because a DMA that keeps up leaves it room.                       *)
(***************************************************************************)
EXTENDS ReadData, Integers, SequenceTheorems, TLAPS

(***************************************************************************)
(* The lags that are in time.                                              *)
(***************************************************************************)
FlagsInTime == \A lag \in FlagDelays : lag <= 5 /\ lag + 6 <= MinGap

(***************************************************************************)
(* The invariant, in parts.  t counts the clocks since the first strobe of *)
(* the command, its own included, and u those since the first word of the  *)
(* command reached the block FIFO.                                         *)
(***************************************************************************)
Beat == [data : Datum, last : BOOLEAN]

Ops == {"none", "ReadPage", "GetFeature", "ReadStatus"}

Atoms ==
  [st : {"RESET", "READY", "LATCH", "tDQSS", "OST00", "OST01", "OST02"},
   last : BOOLEAN, num : Nat, dc : Nat, tc : 0..4]

Fifos == [q : Seq(Beat), read : Beat \cup {None}, out : Beat \cup {None}]

Types ==
  /\ script \in Seq(Item)
  /\ command \in [op : Ops, phase : {"ready", "latches", "data", "wait", "end"},
                   words : Seq(Datum), timer : 0..WaitClocks]
  /\ gap \in 0..MinGap
  /\ atom \in Atoms
  /\ line \in Seq(Datum \cup {None})
  /\ rfifo \in Fifos
  /\ caught \in Seq(Datum) /\ taken \in Seq(Beat) /\ asked \in Seq(Beat)

\* The machines and the atom, by the clocks since the first strobe.
Status == command.op = "ReadStatus"
Words == Len(command.words)

Control(t) ==
  /\ command.op = "none" => command.phase = "ready" /\ Words = 0 /\ t = 0
  /\ command.op # "none" => Words >= 1
  /\ Status => Words = 1
  /\ command.phase = "latches" => t = 0
  /\ command.phase = "wait" => Status /\ command.timer >= 1 /\ t = Words + 4 + command.timer
  /\ command.phase # "wait" => command.timer = 0
  /\ command.phase # "ready" => gap = 0
  /\ command.phase = "end" => t = Words + (IF Status THEN 17 ELSE 5)
  /\ command.phase = "ready" /\ command.op # "none" => t >= Words + gap + (IF Status THEN 18 ELSE 6)

Atom(t) ==
  /\ command.phase # "data" => atom.st \in {"RESET", "READY"}
  /\ command.phase = "data" /\ atom.st \notin {"OST01", "OST02"} => t = 0
  /\ atom.st \in {"RESET", "READY"} => atom.num = 0 /\ atom.dc = 0 /\ atom.tc = 0
  /\ atom.st \notin {"RESET", "READY"} => atom.num = 2 * Words
  /\ atom.st \in {"LATCH", "OST00", "OST01"} => atom.tc = 0
  /\ atom.st \in {"LATCH", "tDQSS", "OST00"} => atom.dc = 0
  /\ atom.st = "tDQSS" => atom.tc \in 1..3
  /\ atom.st = "OST01" => t \in 1..Words /\ atom.dc = 2 * t
  /\ atom.st = "OST02" => atom.dc = 2 * Words /\ atom.tc >= 1 /\ t = Words + atom.tc
  /\ atom.last <=> atom.st = "OST02" /\ atom.tc = 4

\* The phases a machine may go to, and the count after a clock.
Onward(phase) ==
  \/ command.phase = "latches" /\ phase \in {"latches", "data"}
  \/ command.phase = "ready" /\ phase = "ready"
  \/ command.phase = "data" /\ ~atom.last /\ phase = "data"
  \/ command.phase = "data" /\ atom.last /\ phase = IF Status THEN "wait" ELSE "end"
  \/ command.phase = "wait" /\ phase = IF WaitOver THEN "end" ELSE "wait"
  \/ command.phase = "end" /\ phase = "ready"

Tick(t) == IF Strobes \/ t > 0 THEN t + 1 ELSE 0

\* The word of that number, of the words w: in a register, in a FIFO, as a
\* beat of the stream.
Slot(w, i) == IF i \in 1..Len(w) THEN w[i] ELSE None
One(w, i) == IF i \in 1..Len(w) THEN <<w[i]>> ELSE << >>
BeatOf(w, i) == [data |-> w[i], last |-> i = Len(w)]
BeatSlot(w, i) == IF i \in 1..Len(w) THEN BeatOf(w, i) ELSE None
BeatOne(w, i) == IF i \in 1..Len(w) THEN <<BeatOf(w, i)>> ELSE << >>

\* Where the words are, u clocks after the first of them reached the block FIFO.
LineAt(l, u, w) == l = [j \in 1..Len(l) |-> Slot(w, u + j)]
BlockAt(b, u, w) ==
  /\ b.q = One(w, u - 1) \o One(w, u)
  /\ u - 2 \in 1..Len(w) => b.out = w[u - 2]
PiAt(p, u, w) ==
  /\ p.valid <=> u \in 2..Len(w) + 3
  /\ p.m1 <=> u \in 3..Len(w) + 4
  /\ p.m2 <=> u \in 3..Len(w) + 3
  /\ p.m3 <=> u \in 4..Len(w) + 4
  /\ p.m4 <=> u \in 4..Len(w) + 3
  /\ p.last \in BOOLEAN /\ (p.last <=> u \in Len(w) + 3..Len(w) + 4)
  /\ u - 3 \in 1..Len(w) => p.data = w[u - 3]
FifoAt(f, u, w) ==
  f = [q |-> BeatOne(w, u - 4), read |-> BeatSlot(w, u - 5), out |-> BeatSlot(w, u - 6)]

PipeAt(l, b, p, f, u, w) == LineAt(l, u, w) /\ BlockAt(b, u, w) /\ PiAt(p, u, w) /\ FifoAt(f, u, w)

Pipe(t) ==
  /\ Len(line) - Samples \in FlagDelays
  /\ chip = SubSeq(command.words, t + 1, Words)
  /\ PipeAt(line, block, pi, afifo, t - Len(line), command.words)

\* What the read FIFO holds, in order, and the beats of the words that have
\* not come out of the atom's FIFO.
Held(f) == Offered(f) \o (IF f.read = None THEN << >> ELSE <<f.read>>) \o f.q
ToCome(w, u) == SubSeq(Packet(w), IF u < 7 THEN 1 ELSE u - 6, Len(w))

Stream(t) ==
  /\ Len(rfifo.q) < Depth
  /\ asked = (taken \o Held(rfifo)) \o
               (IF Status THEN << >> ELSE ToCome(command.words, t - Len(line)))

Seen(t) == Status => caught = IF t - Len(line) <= 7 THEN << >> ELSE command.words

At(t) == Control(t) /\ Atom(t) /\ Pipe(t) /\ Stream(t) /\ Seen(t)

ReadInv == Types /\ \E t \in Nat : At(t)


(***************************************************************************)
(* The library and the constants.                                          *)
(***************************************************************************)

(* No beat of the stream is the absence of one.                            *)
LEMMA BeatIsSome == None \notin Beat
<1>1. ASSUME NEW b \in Beat PROVE b # None
  <2>1. DOMAIN b = {"data", "last"} /\ DOMAIN None = {"none"}
    BY DEF Beat, None
  <2>2. "last" \in DOMAIN b /\ "last" \notin DOMAIN None
    BY <2>1
  <2>3. QED
    BY <2>2
<1>2. QED
  BY <1>1

(* What a script's orders carry.                                           *)
LEMMA ItemFields ==
  ASSUME NEW i \in Item
  PROVE  /\ i.op \in Ops \ {"none"} /\ i.words \in Seq(Datum) /\ Len(i.words) >= 1
         /\ i.op = "ReadStatus" => Len(i.words) = 1
<1>1. CASE i \in [op : {"ReadPage", "GetFeature"}, words : Seq(Datum) \ {<< >>}]
  <2>1. i.op \in {"ReadPage", "GetFeature"} /\ i.words \in Seq(Datum) /\ i.words # << >>
    BY <1>1
  <2>2. QED
    BY <2>1, EmptySeq DEF Ops
<1>2. CASE i \in [op : {"ReadStatus"}, words : {<<d>> : d \in Datum}]
  <2>1. PICK d \in Datum : i.op = "ReadStatus" /\ i.words = <<d>>
    BY <1>2
  <2>2. QED
    BY <2>1 DEF Ops
<1>3. QED
  BY <1>1, <1>2 DEF Item


(***************************************************************************)
(* The FIFOs.                                                              *)
(***************************************************************************)

(* What a register shows, as a sequence.                                   *)
LEMMA ShownIsSeq ==
  ASSUME NEW b \in Beat \cup {None}
  PROVE  (IF b = None THEN << >> ELSE <<b>>) \in Seq(Beat)
<1>1. CASE b = None
  BY <1>1, EmptySeq
<1>2. CASE b # None
  BY <1>2
<1>3. QED
  BY <1>1, <1>2

(* What a FIFO holds, part by part.                                        *)
LEMMA HeldIsSeq ==
  ASSUME NEW f \in Fifos
  PROVE  /\ f.q \in Seq(Beat) /\ Offered(f) \in Seq(Beat) /\ Held(f) \in Seq(Beat)
         /\ Len(Held(f)) = (IF f.out = None THEN 0 ELSE 1) + (IF f.read = None THEN 0 ELSE 1) + Len(f.q)
<1> DEFINE r == IF f.read = None THEN << >> ELSE <<f.read>>
<1>1. f.q \in Seq(Beat) /\ f.read \in Beat \cup {None} /\ f.out \in Beat \cup {None}
  BY DEF Fifos
<1>2. Offered(f) \in Seq(Beat) /\ r \in Seq(Beat)
  BY <1>1, ShownIsSeq DEF Offered
<1>3. /\ Len(Offered(f)) = IF f.out = None THEN 0 ELSE 1
      /\ Len(r) = IF f.read = None THEN 0 ELSE 1
  BY DEF Offered
<1>4. Held(f) = (Offered(f) \o r) \o f.q
  BY DEF Held
<1> HIDE DEF r
<1>5. Offered(f) \o r \in Seq(Beat) /\ Len(Offered(f) \o r) = Len(Offered(f)) + Len(r)
  BY <1>2, ConcatProperties
<1>6. Held(f) \in Seq(Beat) /\ Len(Held(f)) = Len(Offered(f) \o r) + Len(f.q)
  BY <1>1, <1>4, <1>5, ConcatProperties
<1>7. Len(Held(f)) = Len(Offered(f)) + Len(r) + Len(f.q)
  BY <1>5, <1>6
<1> HIDE DEF Held, Offered
<1>9. QED
  BY <1>1, <1>2, <1>3, <1>6, <1>7

(* Beats in a row may be grouped either way.                               *)
LEMMA Associates == \A a, b, c \in Seq(Beat) : (a \o b) \o c = a \o (b \o c)
BY ConcatAssociative

(* Five sequences in a row, grouped in two ways.                           *)
LEMMA Regrouped ==
  \A a, b, c, d, e \in Seq(Beat) :
    ((a \o b) \o (c \o d)) \o e = a \o ((b \o c) \o (d \o e))
<1> TAKE a, b, c, d, e \in Seq(Beat)
<1> DEFINE cd == c \o d
           de == d \o e
           bcd == b \o cd
           cde == c \o de
<1>1. cd \in Seq(Beat) /\ de \in Seq(Beat)
  BY ConcatProperties
<1>2. cd \o e = cde
  BY ConcatAssociative
<1> HIDE DEF cd, de
<1>3. bcd \in Seq(Beat)
  BY <1>1, ConcatProperties
<1>4. cde = c \o de /\ bcd = b \o cd
  OBVIOUS
<1> HIDE DEF bcd, cde
<1>5. (a \o b) \o cd = a \o (b \o cd)
  BY <1>1, ConcatAssociative, SMTT(40)
<1>6. (a \o bcd) \o e = a \o (bcd \o e)
  BY <1>3, ConcatAssociative, SMTT(40)
<1>7. (b \o cd) \o e = b \o (cd \o e)
  BY <1>1, ConcatAssociative, SMTT(40)
<1>8. (b \o c) \o de = b \o (c \o de)
  BY <1>1, ConcatAssociative, SMTT(40)
<1>9. ((a \o b) \o cd) \o e = a \o ((b \o c) \o de)
  BY <1>2, <1>4, <1>5, <1>6, <1>7, <1>8
<1>10. QED
  BY <1>9 DEF cd, de

(* A FIFO that is offered a word and can take it loses nothing, keeps the  *)
(* order and gives what it showed when it was taken.  One that holds fewer *)
(* than Depth words when nothing is taken is not full after either.        *)
LEMMA FifoKeeps ==
  ASSUME NEW f \in Fifos, NEW offer \in Seq(Beat), Len(offer) <= 1, NEW ready \in BOOLEAN,
         FifoReady(f), ~ready => Len(Held(f)) < Depth
  PROVE  LET g == FifoAfter(f, offer, ready) IN
         /\ g \in Fifos /\ Len(g.q) < Depth
         /\ Held(f) \o offer = (IF ready THEN Offered(f) ELSE << >>) \o Held(g)
<1> DEFINE store == ready \/ f.out = None
           reads == (store \/ f.read = None) /\ f.q # << >>
           rest == IF reads THEN Tail(f.q) ELSE f.q
           g == FifoAfter(f, offer, ready)
           shown(b) == IF b = None THEN << >> ELSE <<b>>
<1>1. f.q \in Seq(Beat) /\ f.read \in Beat \cup {None} /\ f.out \in Beat \cup {None}
  BY DEF Fifos
<1>2. g = [q |-> rest \o offer,
           read |-> IF reads THEN Head(f.q) ELSE IF store THEN None ELSE f.read,
           out |-> IF store THEN f.read ELSE f.out]
  BY DEF FifoAfter
<1>3. reads => /\ Head(f.q) \in Beat /\ rest \in Seq(Beat) /\ Len(rest) = Len(f.q) - 1
               /\ f.q = <<Head(f.q)>> \o rest
  <2> SUFFICES ASSUME reads PROVE /\ Head(f.q) \in Beat /\ rest \in Seq(Beat)
                                  /\ Len(rest) = Len(f.q) - 1
                                  /\ f.q = <<Head(f.q)>> \o rest
    OBVIOUS
  <2>1. rest = Tail(f.q) /\ f.q # << >>
    OBVIOUS
  <2>2. Head(f.q) \in Beat /\ Tail(f.q) \in Seq(Beat) /\ Len(Tail(f.q)) = Len(f.q) - 1
    BY <1>1, <2>1, HeadTailProperties
  <2>3. f.q = <<Head(f.q)>> \o Tail(f.q)
    BY <1>1, <2>1
  <2>4. QED
    BY <2>1, <2>2, <2>3
<1>4. ~reads => rest = f.q
  OBVIOUS
<1>5. rest \in Seq(Beat)
  BY <1>1, <1>3, <1>4
<1>6. rest \o offer \in Seq(Beat) /\ Len(rest \o offer) = Len(rest) + Len(offer)
  BY <1>5, ConcatProperties
<1>7. g \in Fifos
  <2>1. (IF reads THEN Head(f.q) ELSE IF store THEN None ELSE f.read) \in Beat \cup {None}
    BY <1>1, <1>3
  <2>2. (IF store THEN f.read ELSE f.out) \in Beat \cup {None}
    BY <1>1
  <2> HIDE DEF rest, reads, store, g
  <2>3. QED
    BY <1>2, <1>6, <2>1, <2>2 DEF Fifos
<1>8. Len(g.q) < Depth
  <2>1. g.q = rest \o offer
    BY <1>2
  <2>2. Len(f.q) \in Nat /\ Len(offer) \in Nat /\ Len(f.q) < Depth /\ Len(rest) \in Nat
    BY <1>1, <1>5, LenProperties DEF FifoReady
  <2>3. CASE reads
    <3>1. Len(rest) = Len(f.q) - 1
      BY <1>3, <2>3
    <3> HIDE DEF rest, reads, g
    <3>2. QED
      BY <1>6, <2>1, <2>2, <3>1, ReadDepthAssumption
  <2>4. CASE f.q = << >>
    <3>1. Len(rest) = 0
      BY <1>4, <2>4
    <3> HIDE DEF rest, reads, g
    <3>2. QED
      BY <1>6, <2>1, <2>2, <3>1, ReadDepthAssumption
  <2>5. CASE ~reads /\ f.q # << >>
    <3>1. ~ready /\ f.out # None /\ f.read # None /\ rest = f.q
      BY <2>5
    <3>2. Len(Held(f)) = 1 + 1 + Len(f.q)
      <4>1. Len(Held(f)) = (IF f.out = None THEN 0 ELSE 1) + (IF f.read = None THEN 0 ELSE 1) + Len(f.q)
        BY HeldIsSeq
      <4> HIDE DEF rest, reads, store, g
      <4>2. QED
        BY <2>2, <3>1, <4>1
    <3> HIDE DEF rest, reads, g
    <3>3. QED
      BY <1>6, <2>1, <2>2, <3>1, <3>2, ReadDepthAssumption
  <2>6. QED
    BY <2>3, <2>4, <2>5
<1>9. Held(f) \o offer = (IF ready THEN Offered(f) ELSE << >>) \o Held(g)
  <2>1. /\ Held(f) = (shown(f.out) \o shown(f.read)) \o f.q
        /\ Held(g) = (shown(g.out) \o shown(g.read)) \o g.q
        /\ Offered(f) = shown(f.out)
    BY DEF Held, Offered
  <2>2. shown(f.out) \in Seq(Beat) /\ shown(f.read) \in Seq(Beat) /\ shown(None) = << >>
    BY <1>1, ShownIsSeq
  <2>3. reads => Head(f.q) # None /\ shown(Head(f.q)) = <<Head(f.q)>>
    BY <1>3, BeatIsSome
  <2>4. /\ g.q = rest \o offer
        /\ g.read = IF reads THEN Head(f.q) ELSE IF store THEN None ELSE f.read
        /\ g.out = IF store THEN f.read ELSE f.out
    BY <1>2
  <2>5. shown(Head(f.q)) \in Seq(Beat) \/ ~reads
    BY <1>3, <2>3
  <2> DEFINE o == shown(f.out)
             r == shown(f.read)
             h == shown(Head(f.q))
  <2>6. CASE reads /\ store
    <3>1. g.read = Head(f.q) /\ g.out = f.read
      BY <2>4, <2>6
    <3>2. Held(g) = (r \o h) \o (rest \o offer)
      BY <2>1, <2>4, <3>1
    <3>3. f.q = h \o rest
      BY <1>3, <2>3, <2>6
    <3>4. (IF ready THEN Offered(f) ELSE << >>) = o
      BY <2>1, <2>2, <2>6
    <3>5. h \in Seq(Beat) /\ o \in Seq(Beat) /\ r \in Seq(Beat)
      BY <2>2, <2>5, <2>6
    <3> HIDE DEF o, r, h, rest, reads, store, g
    <3>6. ((o \o r) \o (h \o rest)) \o offer = o \o ((r \o h) \o (rest \o offer))
      <4> DEFINE P(a, b, c, d, e) ==
                   ((a \o b) \o (c \o d)) \o e = a \o ((b \o c) \o (d \o e))
      <4>1. \A a, b, c, d, e \in Seq(Beat) : P(a, b, c, d, e)
        BY Regrouped, Zenon
      <4> HIDE DEF P
      <4>2. P(o, r, h, rest, offer)
        BY <1>5, <3>5, <4>1
      <4>3. QED
        BY <4>2 DEF P
    <3>7. QED
      BY <2>1, <3>2, <3>3, <3>4, <3>6 DEF o, r
  <2>7. CASE reads /\ ~store
    <3>1. g.read = Head(f.q) /\ g.out = f.out /\ f.read = None /\ ~ready
      BY <2>4, <2>7
    <3>2. Held(g) = (o \o h) \o (rest \o offer) /\ Held(f) = (o \o << >>) \o f.q
      BY <2>1, <2>4, <3>1
    <3>3. f.q = h \o rest
      BY <1>3, <2>3, <2>7
    <3>5. h \in Seq(Beat) /\ o \in Seq(Beat)
      BY <2>2, <2>5, <2>7
    <3> HIDE DEF o, r, h, rest, reads, store, g
    <3>6. ((o \o << >>) \o (h \o rest)) \o offer = << >> \o ((o \o h) \o (rest \o offer))
      <4>1. o \o << >> = o
        BY <3>5, ConcatEmptySeq
      <4>2. (o \o (h \o rest)) \o offer = (o \o h) \o (rest \o offer)
        BY <1>5, <3>5
      <4>3. (o \o h) \o (rest \o offer) \in Seq(Beat)
        BY <1>5, <3>5
      <4>4. << >> \o ((o \o h) \o (rest \o offer)) = (o \o h) \o (rest \o offer)
        BY <4>3, ConcatEmptySeq
      <4>5. QED
        BY <4>1, <4>2, <4>4
    <3>7. QED
      BY <2>1, <3>1, <3>2, <3>3, <3>6
  <2>8. CASE ~reads /\ store
    <3>1. g.read = None /\ g.out = f.read /\ f.q = << >> /\ rest = << >>
      BY <2>4, <2>8
    <3>2. Held(g) = (r \o << >>) \o (<< >> \o offer) /\ Held(f) = (o \o r) \o << >>
      BY <2>1, <2>2, <2>4, <3>1
    <3>4. (IF ready THEN Offered(f) ELSE << >>) = o
      BY <2>1, <2>2, <2>8
    <3>5. o \in Seq(Beat) /\ r \in Seq(Beat)
      BY <2>2
    <3> HIDE DEF o, r, h, rest, reads, store, g
    <3>6. ((o \o r) \o << >>) \o offer = o \o ((r \o << >>) \o (<< >> \o offer))
      BY <3>5
    <3>7. QED
      BY <3>2, <3>4, <3>6
  <2>9. CASE ~reads /\ ~store
    <3>1. g.read = f.read /\ g.out = f.out /\ rest = f.q /\ ~ready
      BY <2>4, <2>9
    <3>2. Held(g) = (o \o r) \o (f.q \o offer) /\ Held(f) = (o \o r) \o f.q
      BY <2>1, <2>4, <3>1
    <3>5. o \in Seq(Beat) /\ r \in Seq(Beat)
      BY <2>2
    <3> HIDE DEF o, r, h, rest, reads, store, g
    <3>6. ((o \o r) \o f.q) \o offer = << >> \o ((o \o r) \o (f.q \o offer))
      <4>1. o \o r \in Seq(Beat) /\ f.q \o offer \in Seq(Beat)
        BY <1>1, <3>5, ConcatProperties
      <4>2. (o \o r) \o (f.q \o offer) \in Seq(Beat)
        BY <4>1, ConcatProperties
      <4>3. ((o \o r) \o f.q) \o offer = (o \o r) \o (f.q \o offer)
        <5> DEFINE s == o \o r
                   t == f.q
        <5>1. s \in Seq(Beat) /\ t \in Seq(Beat)
          BY <1>1, <4>1
        <5> HIDE DEF s, t
        <5>2. (s \o t) \o offer = s \o (t \o offer)
          BY <5>1, ConcatAssociative
        <5>3. QED
          BY <5>2 DEF s, t
      <4>4. QED
        BY <4>2, <4>3, ConcatEmptySeq
    <3>7. QED
      BY <3>1, <3>2, <3>6
  <2>10. QED
    BY <2>6, <2>7, <2>8, <2>9
<1>10. QED
  BY <1>7, <1>8, <1>9


(***************************************************************************)
(* The pipe between the pins and the read FIFO.                            *)
(***************************************************************************)

(* The words and the beats have their kinds.                               *)
LEMMA WordKinds ==
  ASSUME NEW w \in Seq(Datum), NEW i \in Int
  PROVE  /\ Slot(w, i) \in Datum \cup {None} /\ One(w, i) \in Seq(Datum)
         /\ BeatSlot(w, i) \in Beat \cup {None} /\ BeatOne(w, i) \in Seq(Beat)
         /\ One(w, i) = << >> \/ (One(w, i) # << >> /\ Head(One(w, i)) = w[i] /\ Tail(One(w, i)) = << >>)
         /\ i \in 1..Len(w) => /\ w[i] \in Datum /\ Slot(w, i) # None
                               /\ BeatOf(w, i) \in Beat /\ BeatOf(w, i) # None
<1>1. CASE i \in 1..Len(w)
  <2>1. w[i] \in Datum
    BY <1>1, ElementOfSeq
  <2>2. BeatOf(w, i) \in Beat
    BY <2>1 DEF BeatOf, Beat
  <2>3. BeatOf(w, i) # None /\ w[i] # None
    BY <2>1, <2>2, BeatIsSome, NoneAssumption
  <2>4. /\ Slot(w, i) = w[i] /\ One(w, i) = <<w[i]>>
        /\ BeatSlot(w, i) = BeatOf(w, i) /\ BeatOne(w, i) = <<BeatOf(w, i)>>
    BY <1>1 DEF Slot, One, BeatSlot, BeatOne
  <2>5. <<w[i]>> \in Seq(Datum) /\ <<BeatOf(w, i)>> \in Seq(Beat)
    BY <2>1, <2>2
  <2>6. <<w[i]>> # << >> /\ Head(<<w[i]>>) = w[i] /\ Tail(<<w[i]>>) = << >>
    OBVIOUS
  <2>7. QED
    BY <2>1, <2>2, <2>3, <2>4, <2>5, <2>6
<1>2. CASE i \notin 1..Len(w)
  <2>1. /\ Slot(w, i) = None /\ One(w, i) = << >>
        /\ BeatSlot(w, i) = None /\ BeatOne(w, i) = << >>
    BY <1>2 DEF Slot, One, BeatSlot, BeatOne
  <2>2. << >> \in Seq(Datum) /\ << >> \in Seq(Beat)
    BY EmptySeq
  <2>3. QED
    BY <1>2, <2>1, <2>2
<1>3. QED
  BY <1>1, <1>2

(* One clock moves the line on and takes the newest word in.               *)
LEMMA LineMoves ==
  ASSUME NEW w \in Seq(Datum), NEW u \in Int, NEW l \in Seq(Datum \cup {None}), Len(l) >= 1,
         LineAt(l, u, w), NEW x, x = Slot(w, u + Len(l) + 1)
  PROVE  /\ LineAt(Append(Tail(l), x), u + 1, w)
         /\ Append(Tail(l), x) \in Seq(Datum \cup {None}) /\ Len(Append(Tail(l), x)) = Len(l)
         /\ Head(l) = Slot(w, u + 1)
<1> DEFINE S == Datum \cup {None}
           n == Len(l)
           m == Append(Tail(l), x)
           r == [j \in 1..n |-> Slot(w, u + 1 + j)]
<1>1. n \in Nat /\ n >= 1 /\ l # << >>
  BY EmptySeq, LenProperties
<1>2. Tail(l) \in Seq(S) /\ Len(Tail(l)) = n - 1 /\ \A i \in 1..n - 1 : Tail(l)[i] = l[i + 1]
  BY <1>1, HeadTailProperties
<1>3. x \in S
  BY <1>1, WordKinds
<1>4. m \in Seq(S) /\ Len(m) = n
  BY <1>1, <1>2, <1>3, AppendProperties
<1>5. \A i \in 1..n - 1 : m[i] = Tail(l)[i]
  BY <1>2, <1>3, AppendProperties
<1>6. m[n] = x
  BY <1>1, <1>2, <1>3, AppendProperties
<1>7. \A i \in 1..n : l[i] = Slot(w, u + i)
  BY DEF LineAt
<1>8. ASSUME NEW i \in 1..n PROVE m[i] = Slot(w, u + 1 + i)
  <2>1. CASE i = n
    <3>1. u + n + 1 = u + 1 + i
      BY <1>1, <2>1
    <3>2. QED
      BY <1>6, <2>1, <3>1
  <2>2. CASE i # n
    <3>1. i \in 1..n - 1 /\ i + 1 \in 1..n /\ u + (i + 1) = u + 1 + i
      BY <1>1, <2>2
    <3>2. m[i] = l[i + 1]
      BY <1>2, <1>5, <3>1
    <3>3. l[i + 1] = Slot(w, u + (i + 1))
      BY <1>7, <3>1
    <3>4. QED
      BY <3>1, <3>2, <3>3
  <2>3. QED
    BY <2>1, <2>2
<1>9. m = [j \in 1..n |-> m[j]]
  BY <1>4, LenProperties
<1>10. [j \in 1..n |-> m[j]] = r
  BY <1>8
<1>11. Head(l) = Slot(w, u + 1)
  <2>1. Head(l) = l[1] /\ 1 \in 1..n
    BY <1>1
  <2>2. QED
    BY <1>7, <2>1
<1>12. QED
  BY <1>4, <1>9, <1>10, <1>11 DEF LineAt


(* The register that shows a word, read as a sequence.                     *)
LEMMA ShownWord ==
  ASSUME NEW w \in Seq(Datum), NEW i \in Int
  PROVE  (IF Slot(w, i) = None THEN << >> ELSE <<Slot(w, i)>>) = One(w, i)
<1>1. CASE i \in 1..Len(w)
  BY <1>1, WordKinds DEF Slot, One
<1>2. CASE i \notin 1..Len(w)
  BY <1>2 DEF Slot, One
<1>3. QED
  BY <1>1, <1>2

(* The block FIFO's reader sees words while the first two are in it.       *)
LEMMA BlockShows ==
  ASSUME NEW w \in Seq(Datum), NEW u \in Int, Len(w) >= 1 \/ u < 0, BlockAt(block, u, w)
  PROVE  /\ Empty <=> u \notin 1..Len(w) + 1
         /\ Head(block.q) = w[u - 1] \/ u \notin 2..Len(w) + 1
         /\ Tail(block.q) = One(w, u) \/ u \notin 2..Len(w) + 1
<1> DEFINE n == Len(w)
<1>1. n \in Nat
  BY LenProperties
<1>2. block.q = One(w, u - 1) \o One(w, u)
  BY DEF BlockAt
<1>3. One(w, u - 1) \in Seq(Datum) /\ One(w, u) \in Seq(Datum)
  BY WordKinds
<1>4. Empty <=> u - 1 \notin 1..n /\ u \notin 1..n
  <2>1. \A i \in Int : One(w, i) = << >> <=> i \notin 1..n
    BY DEF One
  <2>2. Empty <=> One(w, u - 1) = << >> /\ One(w, u) = << >>
    BY <1>2, <1>3, ConcatEqualIffEmpty DEF Empty
  <2> HIDE DEF n
  <2>3. QED
    BY <2>1, <2>2
<1>5. CASE u \in 2..n + 1
  <2>1. u - 1 \in 1..n
    BY <1>1, <1>5
  <2>2. One(w, u - 1) = <<w[u - 1]>> /\ w[u - 1] \in Datum
    BY <2>1, WordKinds DEF One
  <2> HIDE DEF n
  <2>3. block.q = <<w[u - 1]>> \o One(w, u)
    BY <1>2, <2>2
  <2>4. Head(block.q) = w[u - 1] /\ Tail(block.q) = One(w, u)
    BY <1>3, <2>2, <2>3
  <2>5. QED
    BY <1>1, <1>4, <1>5, <2>1, <2>4 DEF n
<1>6. CASE u \notin 2..n + 1
  <2>1. Empty <=> u \notin 1..n + 1
    <3>1. n >= 1 \/ u < 0
      OBVIOUS
    <3> HIDE DEF n
    <3>2. QED
      BY <1>1, <1>4, <3>1
  <2>2. QED
    BY <1>6, <2>1
<1>7. QED
  BY <1>5, <1>6

(* One clock of the block FIFO, which has taken the word after the last    *)
(* one it knew of.                                                         *)
LEMMA BlockMoves ==
  ASSUME NEW w \in Seq(Datum), NEW u \in Int, Len(w) >= 1 \/ u < 0,
         BlockAt(block, u, w), PiAt(pi, u, w), FifoReady(afifo), NEW b,
         b = [q |-> (IF Moves /\ ~Empty THEN Tail(block.q) ELSE block.q) \o One(w, u + 1),
              out |-> IF Moves /\ ~Empty THEN Head(block.q) ELSE block.out]
  PROVE  BlockAt(b, u + 1, w)
<1> DEFINE n == Len(w)
<1>1. n \in Nat
  BY LenProperties
<1>2. Moves /\ ~Empty <=> u \in 2..n + 1
  <2>1. Moves <=> u \in 2..n + 3
    BY DEF Moves, PiAt
  <2>2. Empty <=> u \notin 1..n + 1
    BY BlockShows
  <2> HIDE DEF n
  <2>3. QED
    BY <1>1, <2>1, <2>2
<1>3. b.q = One(w, (u + 1) - 1) \o One(w, u + 1)
  <2>1. (u + 1) - 1 = u
    OBVIOUS
  <2>2. CASE u \in 2..n + 1
    <3>1. Tail(block.q) = One(w, u)
      BY <2>2, BlockShows
    <3>2. QED
      BY <1>2, <2>1, <2>2, <3>1
  <2>3. CASE u \notin 2..n + 1
    <3>1. One(w, u - 1) = << >>
      <4>1. u - 1 \notin 1..n
        BY <1>1, <2>3
      <4>2. QED
        BY <4>1 DEF One
    <3>2. block.q = One(w, u)
      BY <3>1, WordKinds, ConcatEmptySeq DEF BlockAt
    <3>3. QED
      BY <1>2, <2>1, <2>3, <3>2
  <2>4. QED
    BY <2>2, <2>3
<1>4. (u + 1) - 2 \in 1..n => b.out = w[(u + 1) - 2]
  <2>1. (u + 1) - 2 = u - 1 /\ (u - 1 \in 1..n => u \in 2..n + 1)
    BY <1>1
  <2>2. u \in 2..n + 1 => b.out = w[u - 1]
    BY <1>2, BlockShows
  <2>3. QED
    BY <2>1, <2>2
<1>5. QED
  BY <1>3, <1>4 DEF BlockAt

(* One clock of the physical input's own registers.                        *)
LEMMA PiMoves ==
  ASSUME NEW w \in Seq(Datum), NEW u \in Int, Len(w) >= 1 \/ u < 0,
         BlockAt(block, u, w), PiAt(pi, u, w), FifoReady(afifo)
  PROVE  PiAt(PiAfter, u + 1, w)
<1> DEFINE n == Len(w)
<1>1. n \in Nat /\ (n >= 1 \/ u < 0)
  BY LenProperties
<1>2. Empty <=> u \notin 1..n + 1
  BY BlockShows
<1>3. /\ pi.valid <=> u \in 2..n + 3
      /\ pi.m1 <=> u \in 3..n + 4
      /\ pi.m2 <=> u \in 3..n + 3
      /\ pi.m3 <=> u \in 4..n + 4
      /\ pi.m4 <=> u \in 4..n + 3
      /\ pi.last <=> u \in n + 3..n + 4
      /\ u - 3 \in 1..n => pi.data = w[u - 3]
  BY DEF PiAt
<1>4. Moves <=> u \in 2..n + 3
  BY <1>3 DEF Moves
<1>5. u - 2 \in 1..n => block.out = w[u - 2]
  BY DEF BlockAt
<1> DEFINE ends == Moves /\ pi.last
<1>6. ends <=> u = n + 3
  <2> HIDE DEF n
  <2>1. QED
    BY <1>1, <1>3, <1>4
<1>7. /\ PiAfter.valid <=> ~ends /\ (pi.valid \/ ~Empty)
      /\ PiAfter.m1 <=> pi.valid
      /\ PiAfter.m2 <=> (pi.valid /\ ~pi.m1) \/ (pi.m2 /\ ~ends)
      /\ PiAfter.m3 <=> pi.m2
      /\ PiAfter.m4 <=> (pi.m2 /\ ~pi.m3) \/ (pi.m4 /\ ~ends)
      /\ PiAfter.last \in BOOLEAN /\ (PiAfter.last <=> Moves /\ Empty)
      /\ PiAfter.data = IF pi.m2 THEN block.out ELSE None
  BY DEF PiAfter
<1> HIDE DEF n, ends
<1>8. PiAfter.valid <=> u + 1 \in 2..n + 3
  BY <1>1, <1>2, <1>3, <1>6, <1>7
<1>9. PiAfter.m1 <=> u + 1 \in 3..n + 4
  BY <1>1, <1>3, <1>7
<1>10. PiAfter.m2 <=> u + 1 \in 3..n + 3
  BY <1>1, <1>3, <1>6, <1>7
<1>11. PiAfter.m3 <=> u + 1 \in 4..n + 4
  BY <1>1, <1>3, <1>7
<1>12. PiAfter.m4 <=> u + 1 \in 4..n + 3
  BY <1>1, <1>3, <1>6, <1>7
<1>13. PiAfter.last \in BOOLEAN /\ (PiAfter.last <=> u + 1 \in n + 3..n + 4)
  BY <1>1, <1>2, <1>4, <1>7
<1>14. (u + 1) - 3 \in 1..n => PiAfter.data = w[(u + 1) - 3]
  <2>1. (u + 1) - 3 = u - 2 /\ (u - 2 \in 1..n => u \in 3..n + 3)
    BY <1>1
  <2>2. u - 2 \in 1..n => PiAfter.data = block.out
    BY <1>3, <1>7, <2>1
  <2>3. QED
    BY <1>5, <2>1, <2>2
<1>15. QED
  BY <1>8, <1>9, <1>10, <1>11, <1>12, <1>13, <1>14 DEF PiAt, n

(* One clock of the atom's FIFO: it holds one word and never waits.        *)
LEMMA FifoMoves ==
  ASSUME NEW w \in Seq(Datum), NEW u \in Int, Len(w) >= 1 \/ u < 0,
         PiAt(pi, u, w), FifoAt(afifo, u, w)
  PROVE  /\ FifoReady(afifo)
         /\ FifoAt(FifoAfter(afifo, IF pi.m4 THEN <<[data |-> pi.data, last |-> pi.last]>> ELSE << >>, TRUE),
                   u + 1, w)
<1> DEFINE n == Len(w)
           offer == IF pi.m4 THEN <<[data |-> pi.data, last |-> pi.last]>> ELSE << >>
           g == FifoAfter(afifo, offer, TRUE)
<1>1. n \in Nat /\ (n >= 1 \/ u < 0)
  BY LenProperties
<1>2. /\ afifo.q = BeatOne(w, u - 4)
      /\ afifo.read = BeatSlot(w, u - 5)
      /\ afifo.out = BeatSlot(w, u - 6)
  BY DEF FifoAt
<1>3. FifoReady(afifo)
  <2>1. Len(BeatOne(w, u - 4)) <= 1
    BY DEF BeatOne
  <2>2. Len(BeatOne(w, u - 4)) \in Nat
    BY WordKinds, LenProperties
  <2>3. QED
    BY <1>2, <2>1, <2>2, ReadDepthAssumption DEF FifoReady
<1>4. offer = BeatOne(w, (u + 1) - 4)
  <2>1. (u + 1) - 4 = u - 3
    OBVIOUS
  <2>2. CASE u - 3 \in 1..n
    <3>1. pi.data = w[u - 3] /\ pi.m4
      BY <1>1, <2>2 DEF PiAt
    <3>2. pi.last <=> u - 3 = n
      <4>1. pi.last <=> u \in n + 3..n + 4
        BY DEF PiAt
      <4> HIDE DEF n
      <4>2. QED
        BY <1>1, <2>2, <4>1
    <3>3. [data |-> pi.data, last |-> pi.last] = BeatOf(w, u - 3)
      <4>1. pi.last = (u - 3 = n)
        BY <3>2 DEF PiAt
      <4>2. QED
        BY <3>1, <4>1 DEF BeatOf
    <3>4. offer = <<BeatOf(w, u - 3)>>
      BY <3>1, <3>3
    <3> HIDE DEF offer
    <3>5. QED
      BY <2>1, <2>2, <3>4 DEF BeatOne
  <2>3. CASE u - 3 \notin 1..n
    <3>1. ~pi.m4
      <4>1. pi.m4 <=> u \in 4..n + 3
        BY DEF PiAt
      <4> HIDE DEF n
      <4>2. QED
        BY <1>1, <2>3, <4>1
    <3>2. QED
      BY <2>1, <2>3, <3>1 DEF BeatOne
  <2>4. QED
    BY <2>2, <2>3
<1>5. g = [q |-> BeatOne(w, u - 3), read |-> BeatSlot(w, u - 4), out |-> BeatSlot(w, u - 5)]
  <2>1. g = [q |-> (IF afifo.q # << >> THEN Tail(afifo.q) ELSE afifo.q)
                     \o (IF FifoReady(afifo) THEN offer ELSE << >>),
             read |-> IF afifo.q # << >> THEN Head(afifo.q) ELSE None,
             out |-> afifo.read]
    BY DEF FifoAfter
  <2>2. (IF afifo.q # << >> THEN Tail(afifo.q) ELSE afifo.q) = << >>
    BY <1>2 DEF BeatOne
  <2>3. (IF afifo.q # << >> THEN Head(afifo.q) ELSE None) = BeatSlot(w, u - 4)
    BY <1>2 DEF BeatOne, BeatSlot
  <2>4. << >> \o offer = BeatOne(w, u - 3)
    <3>1. (u + 1) - 4 = u - 3
      OBVIOUS
    <3>2. offer \in Seq(Beat)
      <4> HIDE DEF offer
      <4>1. u - 3 \in Int /\ offer = BeatOne(w, u - 3)
        BY <1>4, <3>1
      <4>2. QED
        BY <4>1, WordKinds
    <3>3. QED
      BY <1>4, <3>1, <3>2, ConcatEmptySeq
  <2>5. QED
    BY <1>2, <1>3, <2>1, <2>2, <2>3, <2>4
<1>6. QED
  <2>1. (u + 1) - 4 = u - 3 /\ (u + 1) - 5 = u - 4 /\ (u + 1) - 6 = u - 5
    OBVIOUS
  <2>2. FifoAt(g, u + 1, w)
    <3> HIDE DEF g
    <3>1. QED
      BY <1>5, <2>1 DEF FifoAt
  <2>3. QED
    BY <1>3, <2>2


(* A pipe that holds nothing looks the same at all times when it does: of  *)
(* the words of any command, before the first and after the last.          *)
LEMMA NothingInThePipe ==
  ASSUME NEW l, Len(l) \in Nat, NEW b, NEW p, NEW f,
         NEW u \in Int, NEW w \in Seq(Datum), u <= 0 - Len(l) \/ u >= Len(w) + 7,
         NEW v \in Int, NEW x \in Seq(Datum), v <= 0 - Len(l) \/ v >= Len(x) + 7,
         PipeAt(l, b, p, f, u, w)
  PROVE  PipeAt(l, b, p, f, v, x)
<1>1. Len(w) \in Nat /\ Len(x) \in Nat
  BY LenProperties
<1>2. /\ \A i \in -6..Len(l) : u + i \notin 1..Len(w)
      /\ \A i \in -6..Len(l) : v + i \notin 1..Len(x)
  BY <1>1
<1>3. \A i \in 1..Len(l) : Slot(w, u + i) = None /\ Slot(x, v + i) = None
  <2>1. ASSUME NEW i \in 1..Len(l) PROVE Slot(w, u + i) = None /\ Slot(x, v + i) = None
    <3>1. i \in -6..Len(l)
      OBVIOUS
    <3>2. QED
      BY <1>2, <3>1 DEF Slot
  <2>2. QED
    BY <2>1
<1>4. LineAt(l, v, x)
  <2>1. l = [i \in 1..Len(l) |-> Slot(w, u + i)]
    BY DEF PipeAt, LineAt
  <2>2. [i \in 1..Len(l) |-> Slot(w, u + i)] = [i \in 1..Len(l) |-> Slot(x, v + i)]
    BY <1>3
  <2>3. QED
    BY <2>1, <2>2 DEF LineAt
<1>5. /\ u \notin 1..Len(w) /\ u - 1 \notin 1..Len(w) /\ u - 2 \notin 1..Len(w)
      /\ u - 4 \notin 1..Len(w) /\ u - 5 \notin 1..Len(w) /\ u - 6 \notin 1..Len(w)
      /\ v \notin 1..Len(x) /\ v - 1 \notin 1..Len(x) /\ v - 2 \notin 1..Len(x) /\ v - 3 \notin 1..Len(x)
      /\ v - 4 \notin 1..Len(x) /\ v - 5 \notin 1..Len(x) /\ v - 6 \notin 1..Len(x)
  BY <1>1
<1>6. BlockAt(b, v, x)
  BY <1>5 DEF PipeAt, BlockAt, One
<1>7. PiAt(p, v, x)
  <2>1. /\ u \notin 2..Len(w) + 3 /\ u \notin 3..Len(w) + 4 /\ u \notin 3..Len(w) + 3
        /\ u \notin 4..Len(w) + 4 /\ u \notin 4..Len(w) + 3 /\ u \notin Len(w) + 3..Len(w) + 4
    BY <1>1
  <2>2. /\ v \notin 2..Len(x) + 3 /\ v \notin 3..Len(x) + 4 /\ v \notin 3..Len(x) + 3
        /\ v \notin 4..Len(x) + 4 /\ v \notin 4..Len(x) + 3 /\ v \notin Len(x) + 3..Len(x) + 4
    BY <1>1
  <2>3. PiAt(p, u, w)
    BY DEF PipeAt
  <2>4. QED
    BY <1>5, <2>1, <2>2, <2>3, Zenon DEF PiAt
<1>8. FifoAt(f, v, x)
  BY <1>5 DEF PipeAt, FifoAt, BeatOne, BeatSlot
<1>9. QED
  BY <1>4, <1>6, <1>7, <1>8 DEF PipeAt

(* One clock of the whole pipe, while the read FIFO takes what comes.      *)
LEMMA PipeMoves ==
  ASSUME NEW w \in Seq(Datum), NEW u \in Int, Len(w) >= 1 \/ u < 0, NEW takes,
         line \in Seq(Datum \cup {None}), Len(line) >= 1,
         PipeAt(line, block, pi, afifo, u, w), FifoReady(rfifo), Input, Split(takes),
         (IF Strobes THEN Head(chip) ELSE None) = Slot(w, u + Len(line) + 1)
  PROVE  /\ PipeAt(line', block', pi', afifo', u + 1, w)
         /\ line' \in Seq(Datum \cup {None}) /\ Len(line') = Len(line)
<1>1. LineAt(line, u, w) /\ BlockAt(block, u, w) /\ PiAt(pi, u, w) /\ FifoAt(afifo, u, w)
  BY DEF PipeAt
<1>2. /\ LineAt(line', u + 1, w) /\ line' \in Seq(Datum \cup {None}) /\ Len(line') = Len(line)
      /\ Head(line) = Slot(w, u + 1)
  <2>1. line' = Append(Tail(line), IF Strobes THEN Head(chip) ELSE None)
    BY DEF Input
  <2>2. QED
    BY <1>1, <2>1, LineMoves
<1>3. FifoReady(afifo) /\ FifoAt(afifo', u + 1, w)
  BY <1>1, FifoMoves DEF Split
<1>4. BlockAt(block', u + 1, w)
  <2>1. (IF Head(line) = None THEN << >> ELSE <<Head(line)>>) = One(w, u + 1)
    BY <1>2, ShownWord
  <2>2. block' = [q |-> (IF Moves /\ ~Empty THEN Tail(block.q) ELSE block.q) \o One(w, u + 1),
                  out |-> IF Moves /\ ~Empty THEN Head(block.q) ELSE block.out]
    BY <2>1 DEF Input
  <2>3. QED
    BY <1>1, <1>3, <2>2, BlockMoves
<1>5. PiAt(pi', u + 1, w)
  BY <1>1, <1>3, PiMoves DEF Input
<1>6. QED
  BY <1>2, <1>3, <1>4, <1>5 DEF PipeAt


(***************************************************************************)
(* The machines and the atom.                                              *)
(***************************************************************************)

(* The registers of the atom have their kinds.                             *)
LEMMA AtomFields ==
  Types => /\ atom \in Atoms
           /\ atom.st \in {"RESET", "READY", "LATCH", "tDQSS", "OST00", "OST01", "OST02"}
           /\ atom.last \in BOOLEAN /\ atom.num \in Nat /\ atom.dc \in Nat /\ atom.tc \in 0..4
BY DEF Types, Atoms

(* So have those of the machine at work.                                   *)
LEMMA CommandFields ==
  Types => /\ command.op \in Ops /\ command.phase \in {"ready", "latches", "data", "wait", "end"}
           /\ command.words \in Seq(Datum) /\ command.timer \in 0..12 /\ Words \in Nat
<1>1. ASSUME Types
      PROVE  /\ command.op \in Ops /\ command.phase \in {"ready", "latches", "data", "wait", "end"}
             /\ command.words \in Seq(Datum) /\ command.timer \in 0..12
  BY <1>1 DEF Types, WaitClocks
<1>2. QED
  BY <1>1, LenProperties DEF Words

(* A machine that is not asked moves on to one of its phases.              *)
LEMMA MachinesMove ==
  ASSUME Types, Latched \/ Runs
  PROVE  \E phase \in {"ready", "latches", "data", "wait", "end"} : Onward(phase) /\ Moved(phase)
<1>1. CASE Latched
  BY <1>1 DEF Latched, Onward
<1>2. CASE Runs
  <2>1. CASE command.phase \in {"ready", "latches"}
    <3>1. Moved(command.phase)
      BY <1>2, <2>1 DEF Runs, Commanded
    <3>2. QED
      BY <2>1, <3>1 DEF Onward
  <2>2. CASE command.phase = "data" /\ ~atom.last
    <3>1. Moved("data")
      BY <1>2, <2>2 DEF Runs, Commanded
    <3>2. QED
      BY <2>2, <3>1 DEF Onward
  <2>3. CASE command.phase = "data" /\ atom.last
    <3>1. Moved(IF Status THEN "wait" ELSE "end")
      BY <1>2, <2>3 DEF Runs, Commanded, Status
    <3>2. QED
      BY <2>3, <3>1 DEF Onward
  <2>4. CASE command.phase = "wait"
    <3>1. Moved(IF WaitOver THEN "end" ELSE "wait")
      BY <1>2, <2>4 DEF Runs, Commanded
    <3>2. QED
      BY <2>4, <3>1 DEF Onward
  <2>5. CASE command.phase = "end"
    <3>1. Moved("ready")
      BY <1>2, <2>5 DEF Runs, Commanded
    <3>2. QED
      BY <2>5, <3>1 DEF Onward
  <2>6. QED
    BY <2>1, <2>2, <2>3, <2>4, <2>5, CommandFields
<1>3. QED
  BY <1>1, <1>2

(* The fields of the command after such a clock.                           *)
LEMMA MovedFields ==
  ASSUME Types, NEW phase \in {"ready", "latches", "data", "wait", "end"}, Moved(phase)
  PROVE  /\ command'.op = command.op /\ command'.words = command.words /\ command'.phase = phase
         /\ command'.timer = IF phase = "wait" THEN command.timer + 1 ELSE 0
         /\ Words' = Words /\ Status' = Status
BY DEF Types, Moved, Words, Status

(* Where the atom goes.                                                    *)
LEMMA AtomSteps ==
  ASSUME Types, NEW t \in Nat, Control(t), Atom(t), FifoReady(afifo)
  PROVE  /\ atom.st = "RESET" => AtomNext = "READY"
         /\ atom.st = "READY" => AtomNext = IF command.phase = "data" THEN "LATCH" ELSE "READY"
         /\ atom.st = "LATCH" => AtomNext = "tDQSS"
         /\ atom.st = "tDQSS" => AtomNext = IF atom.tc = 3 THEN "OST00" ELSE "tDQSS"
         /\ atom.st = "OST00" => AtomNext = "OST01"
         /\ atom.st = "OST01" => AtomNext = IF t = Words THEN "OST02" ELSE "OST01"
         /\ atom.st = "OST02" => AtomNext = IF atom.last THEN "READY" ELSE "OST02"
<1>1. atom.st \in {"OST01", "OST02"} => (Done <=> atom.st = "OST02" \/ t = Words)
  BY AtomFields, CommandFields DEF Atom, Done
<1>2. QED
  BY <1>1 DEF AtomNext, Commanded, TimerDone

(* It strobes from OST00 until every word of the command is out, so the    *)
(* words have been strobed once the count runs without it.                 *)
LEMMA WhenItStrobes ==
  ASSUME Types, NEW t \in Nat, Control(t), Atom(t), FifoReady(afifo)
  PROVE  /\ Strobes <=> atom.st = "OST00" \/ (atom.st = "OST01" /\ t # Words)
         /\ Strobes => command.phase = "data" /\ t < Words
         /\ ~Strobes /\ t > 0 => t >= Words
         /\ Words = 0 => t = 0
<1>1. Strobes <=> atom.st = "OST00" \/ (atom.st = "OST01" /\ t # Words)
  BY AtomSteps, AtomFields DEF Strobes
<1>2. Words \in Nat
  BY CommandFields
<1>3. atom.st = "OST00" => command.phase = "data" /\ t = 0
  BY DEF Atom
<1>4. atom.st = "OST01" => command.phase = "data" /\ t \in 1..Words
  BY DEF Atom
<1>5. command.phase = "data" => Words >= 1
  BY DEF Control
<1>6. Strobes => command.phase = "data" /\ t < Words
  BY <1>1, <1>2, <1>3, <1>4, <1>5
<1>7. atom.st = "OST02" => t >= Words
  BY <1>2, AtomFields DEF Atom
<1>8. command.phase # "data" /\ t > 0 => t >= Words
  <2>1. gap \in Nat
    BY ReadDepthAssumption DEF Types
  <2>2. QED
    BY <1>2, <2>1, CommandFields DEF Control
<1>9. command.phase = "data" /\ t > 0 => atom.st \in {"OST01", "OST02"}
  BY DEF Atom
<1>10. ~Strobes /\ t > 0 => t >= Words
  BY <1>1, <1>2, <1>7, <1>8, <1>9
<1>11. Words = 0 => t = 0
  BY DEF Control
<1>12. QED
  BY <1>1, <1>6, <1>10, <1>11

(* The count stays a number.                                               *)
LEMMA TickIsNumber ==
  ASSUME NEW t \in Nat
  PROVE  Tick(t) \in Nat
BY DEF Tick


(* One clock of the atom under a machine that moves on.                    *)
LEMMA AtomMoves ==
  ASSUME Types, NEW t \in Nat, Control(t), Atom(t), FifoReady(afifo), atom' = Entered(AtomNext),
         NEW phase \in {"ready", "latches", "data", "wait", "end"}, Onward(phase), Moved(phase),
         NEW k \in Nat, k = Tick(t)
  PROVE  atom' \in Atoms /\ Atom(k)'
<1>1. command'.phase = phase /\ Words' = Words
  BY MovedFields
<1>2. Words \in Nat
  BY CommandFields
<1>3. k = IF Strobes \/ t > 0 THEN t + 1 ELSE 0
  BY DEF Tick
<1>4. Strobes <=> atom.st = "OST00" \/ (atom.st = "OST01" /\ t # Words)
  BY WhenItStrobes
<1>5. atom.st \in {"LATCH", "tDQSS", "OST00", "OST01", "OST02"} => command.phase = "data" /\ Words >= 1
  BY DEF Atom, Control
<1>6. command.phase = "data" => phase = "data" \/ (atom.last /\ phase \in {"wait", "end"})
  BY DEF Onward
<1>7. atom.last <=> atom.st = "OST02" /\ atom.tc = 4
  BY DEF Atom
<1>8. /\ atom.st \in {"RESET", "READY", "LATCH", "tDQSS", "OST00", "OST01", "OST02"}
      /\ atom.last \in BOOLEAN /\ atom.num \in Nat /\ atom.dc \in Nat /\ atom.tc \in 0..4 /\ atom \in Atoms
  BY AtomFields
<1>9. CASE AtomNext = "READY"
  <2>1. atom' = AtomRest
    BY <1>9 DEF Entered
  <2>2. phase = "data" => k = 0
    <3>1. atom.st \in {"RESET", "READY", "OST02"} /\ (atom.st = "OST02" => atom.last)
      BY <1>8, <1>9, AtomSteps
    <3>2. atom.st \in {"RESET", "READY"} /\ command.phase = "data" => t = 0
      BY DEF Atom
    <3>3. phase = "data" => command.phase = "latches" \/ (command.phase = "data" /\ ~atom.last)
      BY DEF Onward
    <3>4. command.phase = "latches" => t = 0
      BY DEF Control
    <3>5. QED
      BY <1>3, <1>4, <3>1, <3>2, <3>3, <3>4
  <2>3. atom' \in Atoms
    BY <2>1 DEF AtomRest, Atoms
  <2>4. /\ atom'.st = "READY" /\ atom'.last = FALSE /\ atom'.num = 0 /\ atom'.dc = 0 /\ atom'.tc = 0
    BY <2>1 DEF AtomRest
  <2>5. QED
    BY <1>1, <2>2, <2>3, <2>4 DEF Atom
<1>10. CASE AtomNext = "LATCH"
  <2>1. atom' = [AtomRest EXCEPT !.st = "LATCH", !.num = NumOfData]
    BY <1>10 DEF Entered
  <2>2. NumOfData = 2 * Words /\ 2 * Words \in Nat
    BY <1>2 DEF NumOfData, Words
  <2>3. atom.st = "READY" /\ command.phase = "data"
    BY <1>8, <1>10, AtomSteps
  <2>4. t = 0 /\ k = 0 /\ phase = "data"
    BY <1>3, <1>4, <1>6, <1>7, <2>3 DEF Atom
  <2>5. atom' = [st |-> "LATCH", last |-> FALSE, num |-> 2 * Words, dc |-> 0, tc |-> 0]
    BY <2>1, <2>2 DEF AtomRest
  <2>6. atom' \in Atoms
    BY <2>2, <2>5 DEF Atoms
  <2>7. /\ atom'.st = "LATCH" /\ atom'.last = FALSE /\ atom'.num = 2 * Words
        /\ atom'.dc = 0 /\ atom'.tc = 0
    BY <2>5
  <2>8. QED
    BY <1>1, <2>4, <2>6, <2>7 DEF Atom
<1>11. CASE AtomNext = "tDQSS"
  <2>1. atom' = [atom EXCEPT !.st = "tDQSS", !.tc = IF TimerDone THEN 0 ELSE @ + 1]
    BY <1>11 DEF Entered
  <2>2. atom.st = "LATCH" \/ (atom.st = "tDQSS" /\ atom.tc # 3)
    BY <1>8, <1>11, AtomSteps
  <2>3. atom.num = 2 * Words /\ atom.dc = 0 /\ t = 0 /\ atom.tc \in 0..2
    BY <1>5, <2>2 DEF Atom
  <2>4. k = 0 /\ phase = "data"
    BY <1>3, <1>4, <1>5, <1>6, <1>7, <2>2, <2>3
  <2>5. atom'.st = "tDQSS" /\ atom'.last = atom.last /\ atom'.num = atom.num /\ atom'.dc = atom.dc
    BY <1>8, <2>1 DEF Atoms
  <2>6. atom'.tc = atom.tc + 1
    BY <1>8, <2>1, <2>3 DEF Atoms, TimerDone
  <2>7. atom' \in Atoms
    <3>1. (IF TimerDone THEN 0 ELSE atom.tc + 1) \in 0..4
      BY <2>3
    <3>2. QED
      BY <1>8, <2>1, <3>1 DEF Atoms
  <2>8. ~atom.last
    BY <1>7, <2>2
  <2>9. QED
    BY <1>1, <2>3, <2>4, <2>5, <2>6, <2>7, <2>8 DEF Atom
<1>12. CASE AtomNext = "OST00"
  <2>1. atom' = [atom EXCEPT !.st = "OST00", !.tc = 0]
    BY <1>12 DEF Entered
  <2>2. atom.st = "tDQSS"
    BY <1>8, <1>12, AtomSteps
  <2>3. atom.num = 2 * Words /\ atom.dc = 0 /\ t = 0 /\ ~atom.last
    BY <1>5, <1>7, <2>2 DEF Atom
  <2>4. k = 0 /\ phase = "data"
    BY <1>3, <1>4, <1>5, <1>6, <1>7, <2>2, <2>3
  <2>5. /\ atom'.st = "OST00" /\ atom'.last = atom.last /\ atom'.num = atom.num
        /\ atom'.dc = atom.dc /\ atom'.tc = 0
    BY <1>8, <2>1 DEF Atoms
  <2>6. atom' \in Atoms
    <3>1. 0 \in 0..4
      OBVIOUS
    <3>2. QED
      BY <1>8, <2>1, <3>1 DEF Atoms
  <2>7. QED
    BY <1>1, <2>3, <2>4, <2>5, <2>6 DEF Atom
<1>13. CASE AtomNext = "OST01"
  <2>1. atom' = [atom EXCEPT !.st = "OST01", !.tc = 0, !.dc = @ + 2]
    BY <1>13 DEF Entered
  <2>2. atom.st = "OST00" \/ (atom.st = "OST01" /\ t # Words)
    BY <1>8, <1>13, AtomSteps
  <2>3. atom.num = 2 * Words /\ atom.dc = 2 * t /\ ~atom.last /\ t < Words
    BY <1>2, <1>5, <1>7, <2>2 DEF Atom
  <2>4. k = t + 1 /\ phase = "data"
    BY <1>3, <1>4, <1>5, <1>6, <1>7, <2>2
  <2>5. /\ atom'.st = "OST01" /\ atom'.last = atom.last /\ atom'.num = atom.num
        /\ atom'.dc = atom.dc + 2 /\ atom'.tc = 0
    BY <1>8, <2>1 DEF Atoms
  <2>6. atom' \in Atoms
    <3>1. 0 \in 0..4 /\ atom.dc + 2 \in Nat
      BY <1>8
    <3>2. QED
      BY <1>8, <2>1, <3>1 DEF Atoms
  <2>7. k \in 1..Words /\ atom.dc + 2 = 2 * k
    BY <1>2, <2>3, <2>4
  <2>8. QED
    BY <1>1, <2>3, <2>4, <2>5, <2>6, <2>7 DEF Atom
<1>14. CASE AtomNext = "OST02"
  <2>1. atom' = [atom EXCEPT !.st = "OST02", !.tc = (@ + 1) % 16, !.last = TimerDone /\ Done]
    BY <1>14 DEF Entered
  <2>2. (atom.st = "OST01" /\ t = Words) \/ (atom.st = "OST02" /\ ~atom.last)
    BY <1>8, <1>14, AtomSteps
  <2>3. atom.num = 2 * Words /\ atom.dc = 2 * Words /\ t = Words + atom.tc /\ atom.tc \in 0..3
    BY <1>2, <1>5, <1>7, <1>8, <2>2 DEF Atom
  <2>4. k = Words + (atom.tc + 1) /\ phase = "data"
    BY <1>2, <1>3, <1>4, <1>5, <1>6, <1>7, <2>2, <2>3
  <2>5. (atom.tc + 1) % 16 = atom.tc + 1
    BY <2>3
  <2>6. TimerDone /\ Done <=> atom.tc + 1 = 4
    BY <2>3 DEF TimerDone, Done
  <2>7. /\ atom'.st = "OST02" /\ atom'.num = atom.num /\ atom'.dc = atom.dc
        /\ atom'.tc = atom.tc + 1
    BY <1>8, <2>1, <2>5 DEF Atoms
  <2>8. atom'.last = (TimerDone /\ Done)
    BY <1>8, <2>1 DEF Atoms
  <2>9. atom' \in Atoms
    <3>1. (atom.tc + 1) % 16 \in 0..4
      BY <2>3, <2>5
    <3>2. QED
      BY <1>8, <2>1, <3>1 DEF Atoms
  <2>10. atom'.last <=> atom'.tc = 4
    BY <2>6, <2>7, <2>8
  <2>11. atom'.num = 2 * Words /\ atom'.dc = 2 * Words /\ atom'.tc >= 1 /\ k = Words + atom'.tc
    BY <2>3, <2>4, <2>7
  <2>12. QED
    BY <1>1, <2>4, <2>7, <2>9, <2>10, <2>11 DEF Atom
<1>15. QED
  <2>1. AtomNext \in {"READY", "LATCH", "tDQSS", "OST00", "OST01", "OST02"}
    BY <1>8, AtomSteps
  <2>2. QED
    BY <1>9, <1>10, <1>11, <1>12, <1>13, <1>14, <2>1


(* The count of the phases after such a clock.                             *)
LEMMA ControlMoves ==
  ASSUME Types, NEW t \in Nat, Control(t), Atom(t), FifoReady(afifo),
         NEW phase \in {"ready", "latches", "data", "wait", "end"}, Onward(phase), Moved(phase),
         NEW k \in Nat, k = Tick(t)
  PROVE  Control(k)'
<1>1. /\ command'.op = command.op /\ command'.phase = phase /\ Words' = Words /\ Status' = Status
      /\ command'.timer = IF phase = "wait" THEN command.timer + 1 ELSE 0
  BY MovedFields
<1>2. Words \in Nat /\ command.timer \in 0..12 /\ gap \in Nat /\ gap' \in Nat
  BY CommandFields, ReadDepthAssumption DEF Types, Moved
<1>3. k = IF Strobes \/ t > 0 THEN t + 1 ELSE 0
  BY DEF Tick
<1>4. Strobes => command.phase = "data"
  BY WhenItStrobes
<1>5. gap' = IF command.phase = "ready" /\ gap < MinGap THEN gap + 1 ELSE gap
  BY DEF Moved
<1>6. /\ command.op = "none" => command.phase = "ready" /\ Words = 0 /\ t = 0
      /\ command.op # "none" => Words >= 1
      /\ Status => Words = 1
      /\ command.phase = "latches" => t = 0
      /\ command.phase = "wait" => Status /\ command.timer >= 1 /\ t = Words + 4 + command.timer
      /\ command.phase # "wait" => command.timer = 0
      /\ command.phase # "ready" => gap = 0
      /\ command.phase = "end" => t = Words + (IF Status THEN 17 ELSE 5)
      /\ command.phase = "ready" /\ command.op # "none" => t >= Words + gap + (IF Status THEN 18 ELSE 6)
  BY DEF Control
<1>7. command.op # "none" \/ command.op = "none"
  OBVIOUS
<1>8. /\ command.op = "none" => phase = "ready" /\ k = 0
      /\ phase = "latches" => k = 0
  <2>1. command.op = "none" => phase = "ready" /\ k = 0
    BY <1>3, <1>4, <1>6 DEF Onward
  <2>2. phase = "latches" => command.phase = "latches"
    BY DEF Onward
  <2>3. QED
    BY <1>3, <1>4, <1>6, <2>1, <2>2
<1>9. phase # "ready" => gap' = 0
  <2>1. phase # "ready" => command.phase # "ready"
    BY DEF Onward
  <2>2. QED
    BY <1>5, <1>6, <2>1
<1>10. phase = "wait" => Status /\ command.timer + 1 >= 1 /\ k = Words + 4 + (command.timer + 1)
  <2> SUFFICES ASSUME phase = "wait"
               PROVE  Status /\ command.timer + 1 >= 1 /\ k = Words + 4 + (command.timer + 1)
    OBVIOUS
  <2>1. CASE command.phase = "data" /\ atom.last
    <3>1. Status /\ command.timer = 0
      BY <1>6, <2>1 DEF Onward
    <3>2. t = Words + 4
      BY <2>1 DEF Atom
    <3>3. QED
      BY <1>2, <1>3, <3>1, <3>2
  <2>2. CASE command.phase = "wait"
    BY <1>2, <1>3, <1>6, <2>2
  <2>3. QED
    BY <2>1, <2>2 DEF Onward
<1>11. phase = "end" => k = Words + (IF Status THEN 17 ELSE 5)
  <2> SUFFICES ASSUME phase = "end" PROVE k = Words + (IF Status THEN 17 ELSE 5)
    OBVIOUS
  <2>1. CASE command.phase = "data" /\ atom.last
    <3>1. ~Status
      BY <2>1 DEF Onward
    <3>2. t = Words + 4
      BY <2>1 DEF Atom
    <3>3. QED
      BY <1>2, <1>3, <3>1, <3>2
  <2>2. CASE command.phase = "wait"
    <3>1. command.timer = 12
      BY <2>2 DEF Onward, WaitOver, WaitClocks
    <3>2. QED
      BY <1>2, <1>3, <1>6, <2>2, <3>1
  <2>3. QED
    BY <2>1, <2>2 DEF Onward
<1>12. phase = "ready" /\ command.op # "none" => k >= Words + gap' + (IF Status THEN 18 ELSE 6)
  <2> SUFFICES ASSUME phase = "ready", command.op # "none"
               PROVE  k >= Words + gap' + (IF Status THEN 18 ELSE 6)
    OBVIOUS
  <2>1. CASE command.phase = "ready"
    <3>1. gap' <= gap + 1
      BY <1>2, <1>5
    <3>2. t >= Words + gap + (IF Status THEN 18 ELSE 6)
      BY <1>6, <2>1
    <3>3. k = t + 1
      BY <1>2, <1>3, <3>2
    <3> DEFINE m == IF Status THEN 18 ELSE 6
    <3>4. \A a, b, c, d, e \in Nat : a >= b + c + e /\ d <= c + 1 => a + 1 >= b + d + e
      OBVIOUS
    <3>5. m \in Nat
      OBVIOUS
    <3> HIDE DEF m
    <3>6. t >= Words + gap + m => t + 1 >= Words + gap' + m
      BY <1>2, <3>1, <3>4, <3>5
    <3>7. QED
      BY <3>2, <3>3, <3>6 DEF m
  <2>2. CASE command.phase = "end"
    <3>1. gap' = 0
      BY <1>5, <1>6, <2>2
    <3>2. QED
      BY <1>2, <1>3, <1>6, <2>2, <3>1
  <2>3. QED
    BY <2>1, <2>2 DEF Onward
<1>13. QED
  BY <1>1, <1>6, <1>8, <1>9, <1>10, <1>11, <1>12 DEF Control

(* What an accepted command leaves of the one before.                      *)
LEMMA RequestFields ==
  ASSUME Types, Request
  PROVE  /\ command.phase = "ready" /\ gap = MinGap /\ script # << >>
         /\ Head(script) \in Item /\ script' = Tail(script) /\ script' \in Seq(Item)
         /\ command' = [op |-> Head(script).op, phase |-> "latches", words |-> Head(script).words, timer |-> 0]
         /\ chip' = command'.words
         /\ asked' = IF Status' THEN asked ELSE asked \o Packet(command'.words)
         /\ gap' = 0 /\ caught' = << >>
         /\ command'.op \in Ops \ {"none"} /\ command'.words \in Seq(Datum) /\ Words' >= 1
         /\ Status' => Words' = 1
<1>1. script \in Seq(Item) /\ script # << >>
  BY DEF Types, Request
<1>2. Head(script) \in Item /\ Tail(script) \in Seq(Item)
  BY <1>1, HeadTailProperties
<1>3. /\ command' = [op |-> Head(script).op, phase |-> "latches", words |-> Head(script).words, timer |-> 0]
      /\ chip' = Head(script).words /\ script' = Tail(script) /\ gap' = 0 /\ caught' = << >>
      /\ asked' = IF Head(script).op = "ReadStatus" THEN asked ELSE asked \o Packet(Head(script).words)
      /\ command.phase = "ready" /\ gap = MinGap
  BY DEF Request
<1>4. command'.op = Head(script).op /\ command'.words = Head(script).words
  BY <1>3
<1>5. QED
  BY <1>1, <1>2, <1>3, <1>4, ItemFields DEF Words, Status

(* The atom and the machine after it: both at rest but for the latches.    *)
LEMMA RequestControl ==
  ASSUME Types, NEW t \in Nat, Control(t), Atom(t), FifoReady(afifo), atom' = Entered(AtomNext), Request
  PROVE  atom' \in Atoms /\ Atom(0)' /\ Control(0)'
<1>1. command.phase = "ready"
  BY RequestFields
<1>2. atom.st \in {"RESET", "READY"}
  BY <1>1 DEF Atom
<1>3. atom' = AtomRest
  BY <1>1, <1>2, AtomSteps DEF Entered
<1>4. /\ atom'.st = "READY" /\ atom'.last = FALSE /\ atom'.num = 0 /\ atom'.dc = 0 /\ atom'.tc = 0
  BY <1>3 DEF AtomRest
<1>5. atom' \in Atoms
  BY <1>3 DEF AtomRest, Atoms
<1>6. command'.phase = "latches" /\ command'.timer = 0
  BY RequestFields
<1>7. Atom(0)'
  BY <1>4, <1>6 DEF Atom
<1>8. Control(0)'
  BY <1>6, RequestFields DEF Control
<1>9. QED
  BY <1>5, <1>7, <1>8


(***************************************************************************)
(* The pipe under the machines.                                            *)
(***************************************************************************)

(* The length of the line is a number, at least that of the samples.       *)
LEMMA LineLength ==
  ASSUME Types, Len(line) - Samples \in FlagDelays
  PROVE  Len(line) \in Nat /\ Len(line) >= 6
<1>1. Len(line) \in Nat
  BY LenProperties DEF Types
<1>2. Len(line) - 6 \in Nat
  BY FlagAssumption DEF Samples
<1>3. QED
  BY <1>1, <1>2

(* While a command is at work or none is, every clock moves the pipe, and  *)
(* the chip's next word enters it when the atom strobes.                   *)
LEMMA PipeClock ==
  ASSUME Types, NEW t \in Nat, Control(t), Atom(t), Pipe(t), FifoReady(rfifo),
         NEW takes, Input, Split(takes), NEW k \in Nat, k = Tick(t)
  PROVE  /\ PipeAt(line', block', pi', afifo', k - Len(line), command.words)
         /\ line' \in Seq(Datum \cup {None}) /\ Len(line') = Len(line) /\ Len(line') - Samples \in FlagDelays
         /\ (IF Strobes THEN Tail(chip) ELSE chip) = SubSeq(command.words, k + 1, Words)
<1> DEFINE w == command.words
           l == Len(line)
           u == t - l
           x == IF Strobes THEN Head(chip) ELSE None
<1>1. w \in Seq(Datum) /\ Words = Len(w) /\ Words \in Nat
  BY CommandFields DEF Words
<1>2. l \in Nat /\ l >= 6 /\ line \in Seq(Datum \cup {None})
  BY LineLength DEF Pipe, Types
<1>3. PipeAt(line, block, pi, afifo, u, w) /\ chip = SubSeq(w, t + 1, Words)
  BY DEF Pipe
<1>4. u \in Int /\ (Words >= 1 \/ u < 0)
  <2>1. Words = 0 => t = 0
    BY DEF Control
  <2> HIDE DEF l
  <2>2. QED
    BY <1>1, <1>2, <2>1
<1>5. FifoReady(afifo)
  BY <1>1, <1>3, <1>4, FifoMoves DEF PipeAt
<1>6. /\ Strobes => t < Words
      /\ ~Strobes /\ t > 0 => t >= Words
  BY <1>5, WhenItStrobes
<1>7. CASE Strobes \/ t > 0
  <2>1. k = t + 1 /\ k - l = u + 1 /\ u + l + 1 = t + 1
    <3>1. k = t + 1
      BY <1>7 DEF Tick
    <3> HIDE DEF l
    <3>2. QED
      BY <1>2, <3>1
  <2>2. CASE Strobes
    <3>1. t + 1 \in 1..Words /\ Words \in (t + 1)..Words
      BY <1>1, <1>6, <2>2
    <3>2. Head(chip) = w[t + 1] /\ Tail(chip) = SubSeq(w, (t + 1) + 1, Words)
      BY <1>1, <1>3, <3>1, HeadTailOfSubSeq
    <3>3. x = Slot(w, t + 1)
      BY <1>1, <2>2, <3>1, <3>2 DEF Slot
    <3>4. (IF Strobes THEN Tail(chip) ELSE chip) = SubSeq(w, k + 1, Words)
      BY <2>1, <2>2, <3>2
    <3> HIDE DEF w, u, x, l
    <3>5. x = Slot(w, u + l + 1)
      BY <2>1, <3>3
    <3>6. PipeAt(line', block', pi', afifo', u + 1, w) /\ line' \in Seq(Datum \cup {None}) /\ Len(line') = Len(line)
      <4>1. Len(w) >= 1 \/ u < 0
        BY <1>1, <1>4
      <4>2. Len(line) >= 1 /\ line \in Seq(Datum \cup {None})
        BY <1>2 DEF l
      <4>3. (IF Strobes THEN Head(chip) ELSE None) = Slot(w, u + Len(line) + 1)
        BY <3>5 DEF x, l
      <4>4. QED
        BY <1>1, <1>3, <1>4, <4>1, <4>2, <4>3, PipeMoves
    <3>7. QED
      BY <2>1, <3>4, <3>6 DEF w, l, Pipe
  <2>3. CASE ~Strobes
    <3>1. t >= Words
      BY <1>6, <1>7, <2>3
    <3>2. SubSeq(w, t + 1, Words) = << >> /\ SubSeq(w, (t + 1) + 1, Words) = << >>
      <4>1. Words < t + 1 /\ Words < (t + 1) + 1
        BY <1>1, <3>1
      <4>2. QED
        BY <1>1, <4>1, SubSeqEmpty
    <3>3. x = Slot(w, t + 1)
      BY <1>1, <2>3, <3>1 DEF Slot
    <3>4. (IF Strobes THEN Tail(chip) ELSE chip) = SubSeq(w, k + 1, Words)
      BY <1>3, <2>1, <2>3, <3>2
    <3> HIDE DEF w, u, x, l
    <3>5. x = Slot(w, u + l + 1)
      BY <2>1, <3>3
    <3>6. PipeAt(line', block', pi', afifo', u + 1, w) /\ line' \in Seq(Datum \cup {None}) /\ Len(line') = Len(line)
      <4>1. Len(w) >= 1 \/ u < 0
        BY <1>1, <1>4
      <4>2. Len(line) >= 1 /\ line \in Seq(Datum \cup {None})
        BY <1>2 DEF l
      <4>3. (IF Strobes THEN Head(chip) ELSE None) = Slot(w, u + Len(line) + 1)
        BY <3>5 DEF x, l
      <4>4. QED
        BY <1>1, <1>3, <1>4, <4>1, <4>2, <4>3, PipeMoves
    <3>7. QED
      BY <2>1, <3>4, <3>6 DEF w, l, Pipe
  <2>4. QED
    BY <2>2, <2>3
<1>8. CASE ~Strobes /\ t = 0
  <2> DEFINE v == 0 - l - 1
  <2>1. k = 0 /\ u = 0 - l
    <3>1. k = 0
      BY <1>8 DEF Tick
    <3>2. QED
      BY <1>2, <1>8, <3>1
  <2>2. v \in Int /\ v <= 0 - l /\ v < 0 /\ v + l + 1 = 0 /\ v + 1 = k - l
    <3> HIDE DEF l
    <3>1. QED
      BY <1>2, <2>1
  <2>3. PipeAt(line, block, pi, afifo, v, w)
    <3> HIDE DEF w, v
    <3>1. u <= 0 - Len(line) /\ v <= 0 - Len(line) /\ Len(line) \in Nat
      BY <1>2, <2>1, <2>2
    <3> HIDE DEF u, l
    <3>2. QED
      BY <1>1, <1>3, <1>4, <2>2, <3>1, NothingInThePipe
  <2>4. x = Slot(w, v + l + 1)
    <3>1. 0 \notin 1..Len(w)
      OBVIOUS
    <3> HIDE DEF v, l, w
    <3>2. QED
      BY <1>8, <2>2, <3>1 DEF Slot
  <2>5. PipeAt(line', block', pi', afifo', v + 1, w) /\ line' \in Seq(Datum \cup {None}) /\ Len(line') = Len(line)
    <3> HIDE DEF w, v, l, x
    <3>1. Len(w) >= 1 \/ v < 0
      BY <2>2
    <3>2. Len(line) >= 1 /\ line \in Seq(Datum \cup {None})
      BY <1>2 DEF l
    <3>3. (IF Strobes THEN Head(chip) ELSE None) = Slot(w, v + Len(line) + 1)
      BY <2>4 DEF x, l
    <3>4. QED
      BY <1>1, <2>2, <2>3, <3>1, <3>2, <3>3, PipeMoves
  <2>6. (IF Strobes THEN Tail(chip) ELSE chip) = SubSeq(w, k + 1, Words)
    BY <1>3, <1>8, <2>1
  <2>7. PipeAt(line', block', pi', afifo', k - l, w)
    <3> HIDE DEF w, v, l
    <3>1. QED
      BY <2>2, <2>5
  <2>8. QED
    BY <2>5, <2>6, <2>7 DEF Pipe
<1>9. QED
  <2>1. t > 0 \/ t = 0
    OBVIOUS
  <2>2. QED
    BY <1>7, <1>8, <2>1, Zenon


(* A machine that moves on keeps its command, and so the pipe its count.   *)
LEMMA PipeMovesOn ==
  ASSUME Types, NEW t \in Nat, Control(t), Atom(t), Pipe(t), FifoReady(rfifo),
         NEW phase \in {"ready", "latches", "data", "wait", "end"}, Moved(phase),
         NEW takes, Input, Split(takes), NEW k \in Nat, k = Tick(t)
  PROVE  Pipe(k)' /\ line' \in Seq(Datum \cup {None})
<1>1. command'.words = command.words /\ Words' = Words
  BY MovedFields
<1>2. chip' = IF Strobes THEN Tail(chip) ELSE chip
  BY DEF Moved
<1>3. /\ PipeAt(line', block', pi', afifo', k - Len(line), command.words)
      /\ line' \in Seq(Datum \cup {None}) /\ Len(line') = Len(line) /\ Len(line') - Samples \in FlagDelays
      /\ (IF Strobes THEN Tail(chip) ELSE chip) = SubSeq(command.words, k + 1, Words)
  BY PipeClock
<1>4. QED
  BY <1>1, <1>2, <1>3 DEF Pipe

(* When the next command is accepted, the last one's words have come out   *)
(* of the atom's FIFO, the last of them at the latest with this clock.     *)
LEMMA PipeDrained ==
  ASSUME FlagsInTime, Types, NEW t \in Nat, Control(t), Atom(t), Pipe(t), FifoReady(afifo), Request
  PROVE  \/ t = 0 /\ Tick(t) = 0
         \/ Tick(t) = t + 1 /\ t - Len(line) >= Words + 6
<1>1. command.phase = "ready" /\ gap = MinGap
  BY RequestFields
<1>2. Words \in Nat /\ Len(line) \in Nat
  BY CommandFields, LineLength DEF Pipe
<1>3. ~Strobes
  BY <1>1, WhenItStrobes
<1>4. command.op = "none" => t = 0
  BY DEF Control
<1>5. CASE t = 0
  BY <1>3, <1>5 DEF Tick
<1>6. CASE t > 0
  <2>1. t >= Words + MinGap + (IF Status THEN 18 ELSE 6)
    BY <1>1, <1>4, <1>6 DEF Control
  <2>2. Len(line) - 6 <= 5 /\ (Len(line) - 6) + 6 <= MinGap
    BY DEF FlagsInTime, Pipe, Samples
  <2>3. Len(line) <= MinGap
    BY <1>2, <2>2, ReadDepthAssumption
  <2>4. t >= Words + MinGap + 6
    <3>1. MinGap \in Nat
      BY ReadDepthAssumption
    <3>2. QED
      BY <1>2, <2>1, <3>1
  <2>5. t - Len(line) >= Words + 6
    <3>1. MinGap \in Nat
      BY ReadDepthAssumption
    <3>2. QED
      BY <1>2, <2>3, <2>4, <3>1
  <2>6. QED
    BY <1>6, <2>5 DEF Tick
<1>7. QED
  BY <1>5, <1>6

(* So the next command finds the pipe empty.                               *)
LEMMA PipeOfRequest ==
  ASSUME FlagsInTime, Types, NEW t \in Nat, Control(t), Atom(t), Pipe(t), FifoReady(rfifo),
         FifoReady(afifo), Request, NEW takes, Input, Split(takes)
  PROVE  Pipe(0)' /\ line' \in Seq(Datum \cup {None})
<1> DEFINE k == Tick(t)
           w == command.words
           x == command'.words
<1>1. k \in Nat
  BY TickIsNumber
<1>2. /\ PipeAt(line', block', pi', afifo', k - Len(line), w)
      /\ line' \in Seq(Datum \cup {None}) /\ Len(line') = Len(line) /\ Len(line') - Samples \in FlagDelays
  BY <1>1, PipeClock
<1>3. w \in Seq(Datum) /\ Words = Len(w) /\ x \in Seq(Datum) /\ Words' = Len(x)
  BY CommandFields, RequestFields DEF Words
<1>4. Len(line) \in Nat /\ Len(line) >= 6 /\ Words \in Nat
  BY CommandFields, LineLength DEF Pipe
<1>5. k - Len(line) \in Int /\ (k - Len(line) <= 0 - Len(line) \/ k - Len(line) >= Words + 7)
  <2>1. CASE t = 0 /\ k = 0
    BY <1>4, <2>1
  <2>2. CASE k = t + 1 /\ t - Len(line) >= Words + 6
    <3> HIDE DEF k
    <3>1. QED
      BY <1>4, <2>2
  <2>3. QED
    BY <2>1, <2>2, PipeDrained
<1>6. 0 - Len(line) \in Int /\ 0 - Len(line) <= 0 - Len(line)
  BY <1>4
<1>7. PipeAt(line', block', pi', afifo', 0 - Len(line), x)
  <2> DEFINE u == k - Len(line)
             v == 0 - Len(line)
  <2>1. /\ u \in Int /\ (u <= 0 - Len(line') \/ u >= Len(w) + 7)
        /\ v \in Int /\ (v <= 0 - Len(line') \/ v >= Len(x) + 7)
        /\ Len(line') \in Nat /\ PipeAt(line', block', pi', afifo', u, w)
    BY <1>2, <1>3, <1>4, <1>5, <1>6
  <2> HIDE DEF u, v, w, x
  <2>2. PipeAt(line', block', pi', afifo', v, x)
    BY <1>3, <2>1, NothingInThePipe
  <2>3. QED
    BY <2>2 DEF v
<1>8. chip' = SubSeq(x, 0 + 1, Len(x))
  <2>1. chip' = x
    BY RequestFields
  <2>2. SubSeq(x, 1, Len(x)) = x
    BY <1>3, SubSeqFull
  <2>3. QED
    BY <2>1, <2>2
<1>9. QED
  BY <1>2, <1>3, <1>7, <1>8 DEF Pipe


(***************************************************************************)
(* The stream to the DMA.                                                  *)
(***************************************************************************)

(* The beats of a command's words.                                         *)
LEMMA PacketBeats ==
  ASSUME NEW w \in Seq(Datum)
  PROVE  /\ Packet(w) \in Seq(Beat) /\ Len(Packet(w)) = Len(w)
         /\ \A i \in 1..Len(w) : Packet(w)[i] = BeatOf(w, i)
<1> DEFINE n == Len(w)
<1>1. n \in Nat
  BY LenProperties
<1>2. Packet(w) = [i \in 1..n |-> BeatOf(w, i)]
  BY DEF Packet, BeatOf
<1>3. \A i \in 1..n : BeatOf(w, i) \in Beat
  BY WordKinds
<1> HIDE DEF n
<1>4. Packet(w) \in [1..n -> Beat]
  BY <1>2, <1>3
<1>5. Packet(w) \in Seq(Beat)
  BY <1>1, <1>4, SeqDef
<1>6. Len(Packet(w)) = n
  BY <1>1, <1>4
<1>7. QED
  BY <1>2, <1>5, <1>6 DEF n

(* What is to come, and how it loses its first beat.                       *)
LEMMA ToComeMoves ==
  ASSUME NEW w \in Seq(Datum), NEW u \in Int
  PROVE  /\ ToCome(w, u) \in Seq(Beat)
         /\ ToCome(w, u) = BeatOne(w, u - 6) \o ToCome(w, u + 1)
         /\ Len(ToCome(w, u)) = IF u < 7 THEN Len(w) ELSE IF u - 6 <= Len(w) THEN Len(w) - (u - 6) + 1 ELSE 0
<1> DEFINE n == Len(w)
           s == Packet(w)
           m == IF u < 7 THEN 1 ELSE u - 6
<1>1. n \in Nat /\ m \in Nat \ {0}
  BY LenProperties
<1>2. s \in Seq(Beat) /\ Len(s) = n /\ \A i \in 1..n : s[i] = BeatOf(w, i)
  BY PacketBeats
<1>3. ToCome(w, u) = SubSeq(s, m, n) /\ ToCome(w, u + 1) = SubSeq(s, IF u + 1 < 7 THEN 1 ELSE (u + 1) - 6, n)
  BY DEF ToCome
<1>4. \A i \in m..n : s[i] \in Beat
  <2> HIDE DEF m, n, s
  <2>1. ASSUME NEW i \in m..n PROVE s[i] \in Beat
    <3>1. i \in 1..n
      BY <1>1
    <3>2. QED
      BY <1>2, <3>1, ElementOfSeq
  <2>2. QED
    BY <2>1
<1>5. SubSeq(s, m, n) \in Seq(Beat) /\ Len(SubSeq(s, m, n)) = IF m <= n THEN n - m + 1 ELSE 0
  <2>1. m \in Int /\ n \in Int
    BY <1>1
  <2> HIDE DEF m, n, s
  <2>2. QED
    BY <1>4, <2>1, SubSeqProperties
<1>6. Len(ToCome(w, u)) = IF u < 7 THEN n ELSE IF u - 6 <= n THEN n - (u - 6) + 1 ELSE 0
  <2>1. CASE u < 7
    <3>1. m = 1
      BY <2>1
    <3> HIDE DEF n, m, s
    <3>2. (IF m <= n THEN n - m + 1 ELSE 0) = n
      BY <1>1, <3>1
    <3>3. QED
      BY <1>3, <1>5, <2>1, <3>2
  <2>2. CASE u >= 7
    BY <1>3, <1>5, <2>2
  <2>3. QED
    BY <2>1, <2>2
<1>7. ToCome(w, u) = BeatOne(w, u - 6) \o ToCome(w, u + 1)
  <2>1. CASE u < 7
    <3>1. u - 6 \notin 1..n
      BY <2>1
    <3>2. BeatOne(w, u - 6) = << >>
      BY <3>1 DEF BeatOne
    <3>3. (IF u + 1 < 7 THEN 1 ELSE (u + 1) - 6) = 1 /\ m = 1
      BY <2>1
    <3> HIDE DEF m, n, s
    <3>4. ToCome(w, u + 1) = ToCome(w, u) /\ ToCome(w, u) \in Seq(Beat)
      BY <1>3, <1>5, <3>3
    <3>5. QED
      BY <3>2, <3>4, ConcatEmptySeq
  <2>2. CASE u >= 7 /\ u - 6 <= n
    <3>1. m = u - 6 /\ m \in 1..n /\ n \in m..n /\ (IF u + 1 < 7 THEN 1 ELSE (u + 1) - 6) = m + 1
      BY <1>1, <2>2
    <3>2. BeatOne(w, u - 6) = <<s[m]>>
      <4>1. BeatOne(w, m) = <<BeatOf(w, m)>> /\ s[m] = BeatOf(w, m)
        <5> HIDE DEF m, s
        <5>1. QED
          BY <1>2, <3>1 DEF BeatOne
      <4>2. QED
        BY <3>1, <4>1
    <3> HIDE DEF m, n, s
    <3>3. SubSeq(s, m, n) = <<s[m]>> \o SubSeq(s, m + 1, n)
      BY <1>2, <3>1, SubSeqRecursiveFirst
    <3>4. QED
      BY <1>3, <3>1, <3>2, <3>3
  <2>3. CASE u >= 7 /\ u - 6 > n
    <3>1. u - 6 \notin 1..n /\ m > n /\ m \in Int /\ n \in Int
          /\ (IF u + 1 < 7 THEN 1 ELSE (u + 1) - 6) \in Int /\ (IF u + 1 < 7 THEN 1 ELSE (u + 1) - 6) > n
      BY <1>1, <2>3
    <3>2. BeatOne(w, u - 6) = << >>
      BY <3>1 DEF BeatOne
    <3>3. ToCome(w, u) = << >> /\ ToCome(w, u + 1) = << >>
      <4> HIDE DEF m, n, s
      <4>1. QED
        BY <1>3, <3>1, SubSeqEmpty
    <3>4. << >> \in Seq(Beat)
      BY EmptySeq
    <3>5. QED
      BY <3>2, <3>3, <3>4, ConcatEmptySeq
  <2>4. QED
    BY <1>1, <2>1, <2>2, <2>3
<1>8. QED
  BY <1>3, <1>5, <1>6, <1>7

(* Beats that are before the read FIFO are in it after a clock, behind     *)
(* those that were in it, but for the one the DMA has taken.               *)
LEMMA DmaMoves ==
  ASSUME Types, Len(rfifo.q) < Depth, NEW takes \in BOOLEAN, ~takes => Len(Held(rfifo)) < Depth,
         Split(takes), NEW offer \in Seq(Beat), Len(offer) <= 1, KeptForDma = offer,
         NEW rest \in Seq(Beat), asked = (taken \o Held(rfifo)) \o (offer \o rest)
  PROVE  /\ rfifo' \in Fifos /\ Len(rfifo'.q) < Depth /\ taken' \in Seq(Beat)
         /\ asked = (taken' \o Held(rfifo')) \o rest
<1> DEFINE given == IF takes THEN Offered(rfifo) ELSE << >>
           held == Held(rfifo)
           holds == Held(rfifo')
<1>1. rfifo \in Fifos /\ taken \in Seq(Beat) /\ FifoReady(rfifo)
  BY DEF Types, FifoReady
<1>2. rfifo' = FifoAfter(rfifo, offer, takes)
  BY DEF Split
<1>3. /\ rfifo' \in Fifos /\ Len(rfifo'.q) < Depth
      /\ held \o offer = given \o holds
  BY <1>1, <1>2, FifoKeeps
<1>4. held \in Seq(Beat) /\ given \in Seq(Beat) /\ holds \in Seq(Beat)
  BY <1>1, <1>3, HeldIsSeq, EmptySeq
<1>5. taken' = taken \o given
  BY <1>1, ConcatEmptySeq DEF Split
<1> HIDE DEF held, given, holds
<1>6. taken' \in Seq(Beat)
  BY <1>1, <1>4, <1>5, ConcatProperties
<1>7. asked = (taken \o held) \o (offer \o rest)
  BY DEF held
<1> DEFINE Assoc(a, b, c) == (a \o b) \o c = a \o (b \o c)
<1>8. \A a, b, c \in Seq(Beat) : Assoc(a, b, c)
  <2> TAKE a, b, c \in Seq(Beat)
  <2>1. (a \o b) \o c = a \o (b \o c)
    BY Associates
  <2>2. QED
    BY <2>1
<1>9. taken \o held \in Seq(Beat) /\ held \o offer \in Seq(Beat)
  BY <1>1, <1>4, ConcatProperties
<1> HIDE DEF Assoc
<1>10. /\ Assoc(taken \o held, offer, rest) /\ Assoc(taken, held, offer)
       /\ Assoc(taken, given, holds)
  BY <1>1, <1>4, <1>8, <1>9
<1>11. asked = ((taken \o held) \o offer) \o rest
  BY <1>7, <1>10 DEF Assoc
<1>12. (taken \o held) \o offer = taken \o (given \o holds)
  BY <1>3, <1>10 DEF Assoc
<1>13. taken \o (given \o holds) = taken' \o holds
  BY <1>5, <1>10 DEF Assoc
<1>14. asked = (taken' \o holds) \o rest
  BY <1>11, <1>12, <1>13
<1>15. QED
  BY <1>3, <1>6, <1>14 DEF holds


(* What the status machine leaves for the DMA: everything of the other     *)
(* commands, and nothing of its own, for its byte has come out of the      *)
(* atom's FIFO by the time it is ready.                                    *)
LEMMA WhatIsKept ==
  ASSUME FlagsInTime, Types, NEW t \in Nat, Control(t), Pipe(t)
  PROVE  KeptForDma = IF Status THEN << >> ELSE BeatOne(command.words, t - Len(line) - 6)
<1> DEFINE w == command.words
           u == t - Len(line)
<1>1. Len(line) \in Nat /\ w \in Seq(Datum) /\ Words = Len(w)
  BY CommandFields, LineLength DEF Pipe, Words
<1>2. u - 6 \in Int /\ afifo.out = BeatSlot(w, u - 6)
  BY <1>1 DEF Pipe, PipeAt, FifoAt
<1>3. Offered(afifo) = BeatOne(w, u - 6)
  <2> HIDE DEF u, w
  <2>1. CASE u - 6 \in 1..Len(w)
    <3>1. BeatOf(w, u - 6) # None
      BY <1>1, <1>2, <2>1, WordKinds
    <3>2. QED
      BY <1>2, <2>1, <3>1 DEF Offered, BeatSlot, BeatOne
  <2>2. CASE u - 6 \notin 1..Len(w)
    BY <1>2, <2>2 DEF Offered, BeatSlot, BeatOne
  <2>3. QED
    BY <2>1, <2>2
<1>4. CASE ~Status
  BY <1>3, <1>4 DEF KeptForDma, StatusBusy, Status
<1>5. CASE Status /\ command.phase # "ready"
  BY <1>5 DEF KeptForDma, StatusBusy, Status
<1>6. CASE Status /\ command.phase = "ready"
  <2>1. t >= Words + gap + 18 /\ Words = 1 /\ gap \in Nat
    BY <1>6, ReadDepthAssumption DEF Control, Status, Types
  <2>2. Len(line) <= 11
    <3>1. Len(line) - 6 <= 5
      BY DEF FlagsInTime, Pipe, Samples
    <3>2. QED
      BY <1>1, <3>1
  <2>3. u - 6 \notin 1..Len(w)
    BY <1>1, <2>1, <2>2
  <2>4. BeatOne(w, u - 6) = << >>
    BY <2>3 DEF BeatOne
  <2>5. QED
    BY <1>3, <1>6, <2>4 DEF KeptForDma
<1>7. QED
  BY <1>4, <1>5, <1>6

(* A DMA that may fall behind has room left in the read FIFO.              *)
LEMMA RoomLeft ==
  ASSUME Types, NEW t \in Nat, Control(t), Pipe(t), Stream(t), KeepsUp
  PROVE  Len(Held(rfifo)) < Depth
<1> DEFINE w == command.words
           u == t - Len(line)
           h == Len(Held(rfifo))
           a == Len(taken)
           c == Len(chip)
           r == Len(ToCome(w, u))
<1>1. Len(line) \in Nat /\ Len(line) >= 6 /\ w \in Seq(Datum) /\ Words = Len(w) /\ Words \in Nat /\ u \in Int
  BY CommandFields, LineLength DEF Pipe, Words
<1>2. taken \in Seq(Beat) /\ Held(rfifo) \in Seq(Beat)
  BY HeldIsSeq DEF Types
<1>3. taken \o Held(rfifo) \in Seq(Beat) /\ Len(taken \o Held(rfifo)) = a + h /\ a \in Nat /\ h \in Nat
  BY <1>2, ConcatProperties, LenProperties
<1>4. InFlight < Depth
  BY DEF KeepsUp
<1>5. CASE Status
  <2>1. asked = (taken \o Held(rfifo)) \o << >>
    BY <1>5 DEF Stream
  <2>2. Len(asked) = a + h
    BY <1>3, <2>1, ConcatEmptySeq
  <2>3. InFlight = Len(asked) - a - 0
    BY <1>5 DEF InFlight, Status
  <2> HIDE DEF a, h
  <2>4. QED
    BY <1>3, <1>4, <2>2, <2>3, ReadDepthAssumption DEF h
<1>6. CASE ~Status
  <2>1. asked = (taken \o Held(rfifo)) \o ToCome(w, u)
    BY <1>6 DEF Stream
  <2>2. ToCome(w, u) \in Seq(Beat) /\ r \in Nat
    <3> HIDE DEF u, w
    <3>1. ToCome(w, u) \in Seq(Beat)
      BY <1>1, ToComeMoves
    <3>2. QED
      BY <3>1, LenProperties
  <2>3. Len(asked) = a + h + r
    <3> HIDE DEF a, h
    <3>1. QED
      BY <1>3, <2>1, <2>2, ConcatProperties
  <2>4. c \in Nat /\ c <= r
    <3>1. r = IF u < 7 THEN Words ELSE IF u - 6 <= Words THEN Words - (u - 6) + 1 ELSE 0
      <4> HIDE DEF u, w
      <4>1. QED
        BY <1>1, ToComeMoves
    <3>2. c = IF t + 1 <= Words THEN Words - t ELSE 0
      <4>1. chip = SubSeq(w, t + 1, Words)
        BY DEF Pipe
      <4>2. \A i \in (t + 1)..Words : w[i] \in Datum
        BY <1>1, ElementOfSeq
      <4>3. t + 1 \in Int /\ Words \in Int
        BY <1>1
      <4> HIDE DEF w
      <4>4. Len(chip) = IF t + 1 <= Words THEN Words - (t + 1) + 1 ELSE 0
        BY <4>1, <4>2, <4>3, SubSeqProperties
      <4>5. QED
        BY <1>1, <4>4
    <3>3. u <= t - 6
      BY <1>1
    <3> HIDE DEF u, c, r
    <3>4. QED
      BY <1>1, <3>1, <3>2, <3>3
  <2>5. InFlight = Len(asked) - a - c
    BY <1>6 DEF InFlight, Status
  <2> HIDE DEF a, h, c, r
  <2>6. ((a + h + r) - a) - c < Depth
    BY <1>4, <2>3, <2>5
  <2>7. QED
    BY <1>3, <2>2, <2>4, <2>6, ReadDepthAssumption DEF h
<1>7. QED
  BY <1>5, <1>6


(* One clock of the stream: what comes out of the atom's FIFO is in the    *)
(* read FIFO, and what was to come is shorter by it.                       *)
LEMMA StreamClock ==
  ASSUME FlagsInTime, Types, NEW t \in Nat, Control(t), Pipe(t), Stream(t),
         NEW takes \in BOOLEAN, ~takes => KeepsUp, Split(takes), NEW k \in Nat, k = Tick(t)
  PROVE  /\ rfifo' \in Fifos /\ Len(rfifo'.q) < Depth /\ taken' \in Seq(Beat)
         /\ asked = (taken' \o Held(rfifo')) \o
                      (IF Status THEN << >> ELSE ToCome(command.words, k - Len(line)))
<1> DEFINE w == command.words
           u == t - Len(line)
           v == k - Len(line)
           offer == IF Status THEN << >> ELSE BeatOne(w, u - 6)
           rest == IF Status THEN << >> ELSE ToCome(w, v)
<1>1. Len(line) \in Nat /\ Len(line) >= 6 /\ w \in Seq(Datum) /\ u \in Int /\ v \in Int
  BY CommandFields, LineLength DEF Pipe
<1>2. KeptForDma = offer
  BY WhatIsKept
<1>3. offer \in Seq(Beat) /\ Len(offer) <= 1
  <2>1. CASE Status
    BY <2>1, EmptySeq
  <2>2. CASE ~Status
    <3>1. BeatOne(w, u - 6) \in Seq(Beat)
      <4> HIDE DEF w, u
      <4>1. QED
        BY <1>1, WordKinds
    <3>2. Len(BeatOne(w, u - 6)) <= 1
      BY DEF BeatOne
    <3>3. offer = BeatOne(w, u - 6)
      BY <2>2
    <3>4. QED
      BY <3>1, <3>2, <3>3
  <2>3. QED
    BY <2>1, <2>2
<1>4. rest \in Seq(Beat)
  <2>1. CASE Status
    BY <2>1, EmptySeq
  <2>2. CASE ~Status
    <3>1. rest = ToCome(w, v)
      BY <2>2
    <3> HIDE DEF w, v
    <3>2. QED
      BY <1>1, <3>1, ToComeMoves
  <2>3. QED
    BY <2>1, <2>2
<1>5. ToCome(w, u) = BeatOne(w, u - 6) \o ToCome(w, v)
  <2>1. ToCome(w, u) \in Seq(Beat) /\ ToCome(w, u) = BeatOne(w, u - 6) \o ToCome(w, u + 1)
    <3> HIDE DEF w, u
    <3>1. QED
      BY <1>1, ToComeMoves
  <2>2. CASE k = t + 1
    <3>1. v = u + 1
      BY <1>1, <2>2
    <3>2. QED
      BY <2>1, <3>1
  <2>3. CASE k # t + 1
    <3>1. t = 0 /\ k = 0
      BY <2>3 DEF Tick
    <3>2. v = u /\ u - 6 \notin 1..Len(w)
      BY <1>1, <3>1
    <3>3. BeatOne(w, u - 6) = << >>
      BY <3>2 DEF BeatOne
    <3> HIDE DEF w, u, v
    <3>4. QED
      BY <2>1, <3>2, <3>3, ConcatEmptySeq
  <2>4. QED
    BY <2>2, <2>3
<1>6. asked = (taken \o Held(rfifo)) \o (offer \o rest)
  <2>1. CASE Status
    <3>1. offer \o rest = << >>
      BY <2>1
    <3>2. QED
      BY <2>1, <3>1 DEF Stream
  <2>2. CASE ~Status
    BY <1>5, <2>2 DEF Stream
  <2>3. QED
    BY <2>1, <2>2
<1>7. Len(rfifo.q) < Depth /\ (~takes => Len(Held(rfifo)) < Depth)
  BY RoomLeft DEF Stream
<1> HIDE DEF offer, rest
<1>8. /\ rfifo' \in Fifos /\ Len(rfifo'.q) < Depth /\ taken' \in Seq(Beat)
      /\ asked = (taken' \o Held(rfifo')) \o rest
  BY <1>2, <1>3, <1>4, <1>6, <1>7, DmaMoves
<1>9. QED
  BY <1>8 DEF rest

(* A machine that moves on asks for nothing more.                          *)
LEMMA StreamMovesOn ==
  ASSUME FlagsInTime, Types, NEW t \in Nat, Control(t), Pipe(t), Stream(t),
         NEW takes \in BOOLEAN, ~takes => KeepsUp, Split(takes), NEW k \in Nat, k = Tick(t),
         NEW phase \in {"ready", "latches", "data", "wait", "end"}, Moved(phase), Len(line') = Len(line)
  PROVE  rfifo' \in Fifos /\ taken' \in Seq(Beat) /\ asked' \in Seq(Beat) /\ Stream(k)'
<1>1. command'.words = command.words /\ Status' = Status /\ asked' = asked /\ asked \in Seq(Beat)
  BY MovedFields DEF Moved, Types
<1>2. /\ rfifo' \in Fifos /\ Len(rfifo'.q) < Depth /\ taken' \in Seq(Beat)
      /\ asked = (taken' \o Held(rfifo')) \o
                   (IF Status THEN << >> ELSE ToCome(command.words, k - Len(line)))
  BY StreamClock
<1>3. Held(rfifo)' = Held(rfifo')
  BY DEF Held, Offered
<1>4. QED
  BY <1>1, <1>2, <1>3 DEF Stream

(* A command that is accepted adds its packet to what has all come.        *)
LEMMA StreamOfRequest ==
  ASSUME FlagsInTime, Types, NEW t \in Nat, Control(t), Atom(t), Pipe(t), Stream(t), FifoReady(afifo),
         NEW takes \in BOOLEAN, ~takes => KeepsUp, Split(takes), Request, Len(line') = Len(line)
  PROVE  rfifo' \in Fifos /\ taken' \in Seq(Beat) /\ asked' \in Seq(Beat) /\ Stream(0)'
<1> DEFINE w == command.words
           x == command'.words
           k == Tick(t)
           v == k - Len(line)
           dma == taken' \o Held(rfifo')
<1>1. Len(line) \in Nat /\ Len(line) >= 6 /\ w \in Seq(Datum) /\ Words = Len(w) /\ Words \in Nat
  BY CommandFields, LineLength DEF Pipe, Words
<1>2. k \in Nat
  BY TickIsNumber
<1>3. v \in Int
  BY <1>1, <1>2
<1>4. /\ rfifo' \in Fifos /\ Len(rfifo'.q) < Depth /\ taken' \in Seq(Beat)
      /\ asked = dma \o (IF Status THEN << >> ELSE ToCome(w, v))
  BY <1>2, StreamClock
<1>5. dma \in Seq(Beat)
  <2>1. Held(rfifo') \in Seq(Beat)
    BY <1>4, HeldIsSeq
  <2>2. QED
    BY <1>4, <2>1, ConcatProperties
<1>6. ToCome(w, v) = << >>
  <2>1. ToCome(w, v) \in Seq(Beat)
        /\ Len(ToCome(w, v)) = IF v < 7 THEN Len(w) ELSE IF v - 6 <= Len(w) THEN Len(w) - (v - 6) + 1 ELSE 0
    <3> HIDE DEF w, v
    <3>1. QED
      BY <1>1, <1>3, ToComeMoves
  <2>2. Len(ToCome(w, v)) = 0
    <3>1. CASE t = 0 /\ k = 0
      <4>1. command.phase = "ready" /\ gap \in Nat
        BY RequestFields, ReadDepthAssumption DEF Types
      <4>2. Words = 0
        <5>1. command.op # "none" => Words >= 1 /\ t >= Words + gap + (IF Status THEN 18 ELSE 6)
          BY <4>1 DEF Control
        <5>2. command.op = "none" => Words = 0
          BY DEF Control
        <5>3. t = 0
          BY <3>1
        <5> DEFINE m == IF Status THEN 18 ELSE 6
        <5>4. m \in Nat
          OBVIOUS
        <5> HIDE DEF m, k
        <5>5. Words >= 1 => ~(0 >= Words + gap + m)
          BY <1>1, <4>1, <5>4
        <5>6. QED
          BY <5>1, <5>2, <5>3, <5>5 DEF m
      <4>3. v < 7
        BY <1>1, <3>1
      <4> HIDE DEF w, v
      <4>4. QED
        BY <1>1, <2>1, <4>2, <4>3
    <3>2. CASE k = t + 1 /\ t - Len(line) >= Words + 6
      <4>1. v >= Words + 7
        <5> HIDE DEF k
        <5>1. QED
          BY <1>1, <3>2
      <4>2. ~(v < 7) /\ ~(v - 6 <= Len(w))
        <5> HIDE DEF v, w
        <5>1. QED
          BY <1>1, <1>3, <4>1
      <4> HIDE DEF v, w
      <4>3. QED
        BY <2>1, <4>2
    <3>3. QED
      BY <3>1, <3>2, PipeDrained
  <2> HIDE DEF v, w
  <2>3. QED
    BY <2>1, <2>2, EmptySeq
<1>7. asked = dma
  <2>1. asked = dma \o << >>
    BY <1>4, <1>6
  <2> HIDE DEF dma
  <2>2. QED
    BY <1>5, <2>1, ConcatEmptySeq
<1>8. /\ asked' = IF Status' THEN asked ELSE asked \o Packet(x)
      /\ x \in Seq(Datum)
  BY RequestFields
<1>9. ToCome(x, 0 - Len(line)) = Packet(x) /\ Packet(x) \in Seq(Beat)
  <2>1. ToCome(x, 0 - Len(line)) = SubSeq(Packet(x), 1, Len(x))
    <3>1. 0 - Len(line) < 7
      BY <1>1
    <3> HIDE DEF x
    <3>2. QED
      BY <3>1 DEF ToCome
  <2>2. Packet(x) \in Seq(Beat) /\ Len(Packet(x)) = Len(x)
    BY <1>8, PacketBeats
  <2> HIDE DEF x
  <2>3. SubSeq(Packet(x), 1, Len(Packet(x))) = Packet(x)
    BY <2>2, SubSeqFull
  <2>4. QED
    BY <2>1, <2>2, <2>3
<1>10. asked' = dma \o (IF Status' THEN << >> ELSE ToCome(x, 0 - Len(line)))
  <2>1. CASE Status'
    <3> HIDE DEF dma
    <3>1. QED
      BY <1>5, <1>7, <1>8, <2>1, ConcatEmptySeq
  <2>2. CASE ~Status'
    <3> HIDE DEF dma, x
    <3>1. QED
      BY <1>7, <1>8, <1>9, <2>2
  <2>3. QED
    BY <2>1, <2>2
<1>11. asked' \in Seq(Beat)
  <2> HIDE DEF dma, x
  <2>1. CASE Status'
    BY <1>5, <1>7, <1>8, <2>1
  <2>2. CASE ~Status'
    BY <1>5, <1>7, <1>8, <1>9, <2>2, ConcatProperties
  <2>3. QED
    BY <2>1, <2>2
<1>12. Held(rfifo)' = Held(rfifo')
  BY DEF Held, Offered
<1>13. QED
  BY <1>4, <1>10, <1>11, <1>12 DEF Stream


(***************************************************************************)
(* The status machine's catch.                                             *)
(***************************************************************************)

(* A status read catches its one word in the clock the word comes out.     *)
LEMMA SeenMovesOn ==
  ASSUME FlagsInTime, Types, NEW t \in Nat, Control(t), Pipe(t), Seen(t), NEW k \in Nat, k = Tick(t),
         NEW phase \in {"ready", "latches", "data", "wait", "end"}, Moved(phase), Len(line') = Len(line)
  PROVE  caught' \in Seq(Datum) /\ Seen(k)'
<1> DEFINE w == command.words
           u == t - Len(line)
<1>1. Len(line) \in Nat /\ Len(line) >= 6 /\ w \in Seq(Datum) /\ Words = Len(w) /\ u \in Int
  BY CommandFields, LineLength DEF Pipe, Words
<1>2. command'.words = w /\ Status' = Status
  BY MovedFields
<1>3. caught' = IF Caught THEN Append(caught, afifo.out.data) ELSE caught
  BY DEF Moved
<1>4. afifo.out = BeatSlot(w, u - 6)
  BY DEF Pipe, PipeAt, FifoAt
<1>5. caught' \in Seq(Datum)
  <2>1. CASE Caught
    <3>1. afifo.out # None
      BY <2>1 DEF Caught
    <3>2. afifo.out \in Beat
      <4> HIDE DEF w, u
      <4>1. BeatSlot(w, u - 6) \in Beat \cup {None}
        BY <1>1, WordKinds
      <4>2. QED
        BY <1>4, <3>1, <4>1
    <3>3. afifo.out.data \in Datum
      BY <3>2 DEF Beat
    <3>4. QED
      BY <1>3, <2>1, <3>3, AppendProperties DEF Types
  <2>2. CASE ~Caught
    BY <1>3, <2>2 DEF Types
  <2>3. QED
    BY <2>1, <2>2
<1>6. ASSUME Status PROVE caught' = IF k - Len(line) <= 7 THEN << >> ELSE w
  <2>1. Len(w) = 1 /\ w[1] \in Datum /\ w = <<w[1]>>
    <3>1. Len(w) = 1
      BY <1>1, <1>6 DEF Control
    <3> HIDE DEF w
    <3>2. w[1] \in Datum
      BY <1>1, <3>1, ElementOfSeq
    <3>3. QED
      BY <1>1, <3>1, <3>2
  <2>2. caught = IF u <= 7 THEN << >> ELSE w
    BY <1>6 DEF Seen
  <2>3. k = t + 1 \/ (k = 0 /\ t = 0)
    BY DEF Tick
  <2>4. Caught <=> u = 7
    <3>1. CASE u = 7
      <4>1. u - 6 = 1
        BY <3>1
      <4>2. afifo.out = BeatOf(w, 1)
        <5> HIDE DEF u, w
        <5>1. QED
          BY <1>4, <2>1, <4>1 DEF BeatSlot
      <4>3. BeatOf(w, 1) # None /\ BeatOf(w, 1).last
        <5> HIDE DEF w
        <5>1. BeatOf(w, 1) # None
          <6>1. 1 \in 1..Len(w) /\ 1 \in Int
            BY <2>1
          <6>2. QED
            BY <1>1, <6>1, WordKinds
        <5>2. QED
          BY <2>1, <5>1 DEF BeatOf
      <4>4. command.phase # "ready"
        <5> SUFFICES ASSUME command.phase = "ready" PROVE FALSE
          OBVIOUS
        <5>1. command.op # "none" /\ Words = 1 /\ gap \in Nat
          BY <1>6, ReadDepthAssumption DEF Status, Control, Types
        <5>2. t >= Words + gap + 18
          BY <1>6, <5>1 DEF Control
        <5>3. Len(line) - 6 <= 5
          BY DEF FlagsInTime, Pipe, Samples
        <5>4. t = Len(line) + 7
          BY <1>1, <3>1
        <5> HIDE DEF u
        <5>5. QED
          BY <1>1, <5>1, <5>2, <5>3, <5>4
      <4>5. QED
        BY <1>6, <3>1, <4>2, <4>3, <4>4 DEF Caught, StatusBusy, Status
    <3>2. CASE u # 7
      <4>1. u - 6 \notin 1..Len(w)
        <5> HIDE DEF u, w
        <5>1. QED
          BY <1>1, <2>1, <3>2
      <4>2. afifo.out = None
        BY <1>4, <4>1 DEF BeatSlot
      <4>3. QED
        BY <3>2, <4>2 DEF Caught
    <3>3. QED
      BY <3>1, <3>2
  <2>5. CASE u = 7
    <3>1. k = t + 1
      BY <1>1, <2>3, <2>5
    <3>2. k - Len(line) > 7
      BY <1>1, <2>5, <3>1
    <3>3. u - 6 = 1
      BY <2>5
    <3>4. afifo.out.data = w[1]
      <4> HIDE DEF u, w
      <4>1. QED
        BY <1>4, <2>1, <3>3 DEF BeatSlot, BeatOf
    <3>5. caught' = Append(<< >>, w[1])
      BY <1>3, <2>2, <2>4, <2>5, <3>4
    <3>6. caught' = w
      <4> HIDE DEF w
      <4>1. QED
        BY <2>1, <3>5
    <3>7. ~(k - Len(line) <= 7)
      BY <1>1, <3>1, <3>2
    <3>8. QED
      BY <3>6, <3>7
  <2>6. CASE u < 7
    <3>1. k - Len(line) <= 7
      BY <1>1, <2>3, <2>6
    <3>2. u <= 7 /\ ~Caught
      BY <2>4, <2>6
    <3>3. QED
      BY <1>3, <2>2, <3>1, <3>2
  <2>7. CASE u > 7
    <3>1. k = t + 1
      BY <1>1, <2>3, <2>7
    <3>2. ~(k - Len(line) <= 7) /\ ~(u <= 7) /\ ~Caught
      BY <1>1, <2>4, <2>7, <3>1
    <3>3. QED
      BY <1>3, <2>2, <3>2
  <2>8. QED
    <3> HIDE DEF u
    <3>1. QED
      BY <1>1, <2>5, <2>6, <2>7
<1>7. QED
  BY <1>2, <1>5, <1>6 DEF Seen


(***************************************************************************)
(* The invariant.                                                          *)
(***************************************************************************)

(* A step is a clock in which a command is accepted or a machine moves on. *)
LEMMA AStepIsAClock ==
  ASSUME Next
  PROVE  \E takes \in BOOLEAN : /\ ~takes => KeepsUp
                                /\ atom' = Entered(AtomNext) /\ Input /\ Split(takes)
                                /\ Request \/ Latched \/ Runs
<1>1. CASE Asks
  BY <1>1 DEF Asks, Edge
<1>2. CASE Latches
  BY <1>2 DEF Latches, Edge
<1>3. CASE Takes
  BY <1>3 DEF Takes, Edge
<1>4. CASE Stalls
  BY <1>4 DEF Stalls, Edge
<1>5. QED
  BY <1>1, <1>2, <1>3, <1>4 DEF Next

(* The atom's FIFO has room in every state of the invariant.               *)
LEMMA AtomFifoReady ==
  ASSUME Types, NEW t \in Nat, Control(t), Pipe(t)
  PROVE  FifoReady(afifo)
<1> DEFINE w == command.words
           u == t - Len(line)
<1>1. w \in Seq(Datum) /\ Words = Len(w) /\ Words \in Nat /\ Len(line) \in Nat /\ Len(line) >= 6
  BY CommandFields, LineLength DEF Pipe, Words
<1>2. PiAt(pi, u, w) /\ FifoAt(afifo, u, w)
  BY DEF Pipe, PipeAt
<1>3. Len(w) >= 1 \/ u < 0
  <2>1. Words = 0 => t = 0
    BY DEF Control
  <2>2. QED
    BY <1>1, <2>1
<1>4. u \in Int
  BY <1>1
<1> HIDE DEF w, u
<1>5. QED
  BY <1>1, <1>2, <1>3, <1>4, FifoMoves

(* At the start nothing is in the pipe and nothing has been asked for.     *)
LEMMA InvInit == Init => ReadInv
<1> SUFFICES ASSUME Init PROVE ReadInv
  OBVIOUS
<1>1. script \in Seq(Item)
  BY ReadScriptAssumption DEF Init
<1>2. command = [op |-> "none", phase |-> "ready", words |-> << >>, timer |-> 0]
  BY DEF Init
<1>3. Words = 0 /\ ~Status /\ command.words = << >> /\ << >> \in Seq(Datum)
  BY <1>2, EmptySeq DEF Words, Status
<1>4. PICK lag \in FlagDelays : line = [i \in 1..Samples + lag |-> None]
  BY DEF Init
<1>5. lag \in Nat
  BY FlagAssumption
<1>6. /\ Len(line) = 6 + lag /\ line \in Seq(Datum \cup {None})
      /\ line = [i \in 1..Len(line) |-> None]
  <2> DEFINE n == 6 + lag
  <2>1. n \in Nat /\ line = [i \in 1..n |-> None]
    BY <1>4, <1>5 DEF Samples
  <2> HIDE DEF n
  <2>2. line \in [1..n -> Datum \cup {None}]
    BY <2>1
  <2>3. line \in Seq(Datum \cup {None})
    BY <2>1, <2>2, SeqDef
  <2>4. Len(line) = n
    BY <2>1, <2>2
  <2>5. QED
    BY <2>1, <2>3, <2>4 DEF n
<1>7. rfifo = NewFifo /\ afifo = NewFifo /\ NewFifo \in Fifos /\ NewFifo.q = << >>
  BY EmptySeq DEF Init, NewFifo, Fifos
<1>8. taken = << >> /\ asked = << >> /\ caught = << >> /\ << >> \in Seq(Beat)
  BY EmptySeq DEF Init
<1>9. Types
  <2>1. command \in [op : Ops, phase : {"ready", "latches", "data", "wait", "end"},
                     words : Seq(Datum), timer : 0..WaitClocks]
    BY <1>2, <1>3 DEF Ops, WaitClocks
  <2>2. gap \in 0..MinGap
    BY ReadDepthAssumption DEF Init
  <2>3. atom \in Atoms
    <3>1. atom = [st |-> "RESET", last |-> FALSE, num |-> 0, dc |-> 0, tc |-> 0]
      BY DEF Init, AtomRest
    <3>2. 0 \in 0..4
      OBVIOUS
    <3>3. QED
      BY <3>1, <3>2 DEF Atoms
  <2>4. QED
    BY <1>1, <1>3, <1>6, <1>7, <1>8, <2>1, <2>2, <2>3 DEF Types
<1>10. Control(0)
  BY <1>2, <1>3 DEF Control
<1>11. Atom(0)
  <2>1. atom.st = "RESET" /\ atom.last = FALSE /\ atom.num = 0 /\ atom.dc = 0 /\ atom.tc = 0
    BY DEF Init, AtomRest
  <2>2. QED
    BY <1>2, <2>1 DEF Atom
<1>12. Pipe(0)
  <2> DEFINE u == 0 - Len(line)
             w == command.words
  <2>1. u \in Int /\ u < 0
    BY <1>5, <1>6
  <2>2. w = << >> /\ Len(w) = 0 /\ \A i \in Int : i \notin 1..Len(w)
    BY <1>3
  <2>3. LineAt(line, u, w)
    BY <1>6, <2>2 DEF LineAt, Slot
  <2>4. \A i \in Int : One(w, i) = << >> /\ BeatOne(w, i) = << >> /\ BeatSlot(w, i) = None
    BY <2>2 DEF One, BeatOne, BeatSlot
  <2>5. BlockAt(block, u, w)
    <3>1. block.q = << >>
      BY DEF Init
    <3>2. u - 1 \in Int /\ u - 2 \notin 1..Len(w)
      BY <2>1, <2>2
    <3> HIDE DEF u, w
    <3>3. One(w, u - 1) \o One(w, u) = << >>
      BY <2>1, <2>4, <3>2
    <3>4. QED
      BY <3>1, <3>2, <3>3 DEF BlockAt
  <2>6. PiAt(pi, u, w)
    <3>1. /\ ~pi.valid /\ ~pi.m1 /\ ~pi.m2 /\ ~pi.m3 /\ ~pi.m4 /\ pi.last = FALSE
      BY DEF Init
    <3> HIDE DEF u, w
    <3>2. /\ u \notin 2..Len(w) + 3 /\ u \notin 3..Len(w) + 4 /\ u \notin 3..Len(w) + 3
          /\ u \notin 4..Len(w) + 4 /\ u \notin 4..Len(w) + 3 /\ u \notin Len(w) + 3..Len(w) + 4
      BY <2>1, <2>2
    <3>3. u - 3 \notin 1..Len(w)
      BY <2>1, <2>2
    <3>4. QED
      BY <3>1, <3>2, <3>3 DEF PiAt
  <2>7. FifoAt(afifo, u, w)
    <3>1. u - 4 \in Int /\ u - 5 \in Int /\ u - 6 \in Int
      BY <2>1
    <3> HIDE DEF u, w
    <3>2. BeatOne(w, u - 4) = << >> /\ BeatSlot(w, u - 5) = None /\ BeatSlot(w, u - 6) = None
      BY <2>4, <3>1
    <3>3. QED
      BY <1>7, <3>2 DEF FifoAt, NewFifo
  <2>8. chip = SubSeq(w, 0 + 1, Words)
    <3>1. SubSeq(w, 0 + 1, Words) = << >>
      BY <1>3, SubSeqEmpty
    <3>2. QED
      BY <3>1 DEF Init
  <2>9. Len(line) - Samples \in FlagDelays
    <3>1. Len(line) - 6 = lag
      BY <1>5, <1>6
    <3>2. QED
      BY <3>1 DEF Samples
  <2>10. QED
    BY <2>3, <2>5, <2>6, <2>7, <2>8, <2>9 DEF Pipe, PipeAt
<1>13. Stream(0)
  <2>1. Held(rfifo) = << >>
    BY <1>7 DEF Held, Offered, NewFifo
  <2>2. ToCome(command.words, 0 - Len(line)) = << >>
    <3>1. Packet(command.words) = << >> /\ 0 - Len(line) < 7
      BY <1>3, <1>5, <1>6 DEF Packet
    <3>2. SubSeq(<< >>, 1, 0) = << >>
      BY SubSeqEmpty
    <3>3. QED
      BY <1>3, <3>1, <3>2 DEF ToCome
  <2>3. Len(rfifo.q) < Depth
    BY <1>7, ReadDepthAssumption
  <2>4. QED
    BY <1>3, <1>8, <2>1, <2>2, <2>3 DEF Stream
<1>14. Seen(0)
  BY <1>3 DEF Seen
<1>15. QED
  BY <1>9, <1>10, <1>11, <1>12, <1>13, <1>14 DEF ReadInv, At

(* No step breaks it.                                                      *)
LEMMA InvNext == ASSUME FlagsInTime PROVE ReadInv /\ [Next]_vars => ReadInv'
<1> SUFFICES ASSUME ReadInv, [Next]_vars PROVE ReadInv'
  OBVIOUS
<1>1. Types
  BY DEF ReadInv
<1>2. PICK t \in Nat : At(t)
  BY DEF ReadInv
<1>3. Control(t) /\ Atom(t) /\ Pipe(t) /\ Stream(t) /\ Seen(t)
  BY <1>2 DEF At
<1>4. FifoReady(afifo) /\ FifoReady(rfifo)
  BY <1>1, <1>3, AtomFifoReady DEF Stream, FifoReady
<1>5. CASE Next
  <2>1. PICK takes \in BOOLEAN : /\ ~takes => KeepsUp
                                 /\ atom' = Entered(AtomNext) /\ Input /\ Split(takes)
                                 /\ Request \/ Latched \/ Runs
    BY <1>5, AStepIsAClock
  <2>2. Tick(t) \in Nat
    BY TickIsNumber
  <2>3. CASE Request
    <3>1. atom' \in Atoms /\ Atom(0)' /\ Control(0)'
      BY <1>1, <1>3, <1>4, <2>1, <2>3, RequestControl
    <3>2. Pipe(0)' /\ line' \in Seq(Datum \cup {None})
      BY <1>1, <1>3, <1>4, <2>1, <2>3, PipeOfRequest
    <3>3. Len(line') = Len(line)
      BY <1>1, <1>3, <1>4, <2>1, <2>2, PipeClock
    <3>4. rfifo' \in Fifos /\ taken' \in Seq(Beat) /\ asked' \in Seq(Beat) /\ Stream(0)'
      BY <1>1, <1>3, <1>4, <2>1, <2>3, <3>3, StreamOfRequest
    <3>5. Seen(0)'
      <4>1. caught' = << >> /\ Len(line) \in Nat
        BY <1>1, <1>3, <2>3, RequestFields, LineLength DEF Pipe
      <4>2. 0 - Len(line') <= 7
        BY <3>3, <4>1
      <4>3. QED
        BY <4>1, <4>2 DEF Seen
    <3>6. Types'
      <4>1. /\ script' \in Seq(Item) /\ gap' = 0 /\ caught' = << >>
            /\ command' = [op |-> Head(script).op, phase |-> "latches", words |-> Head(script).words, timer |-> 0]
            /\ Head(script) \in Item
        BY <1>1, <2>3, RequestFields
      <4>2. command' \in [op : Ops, phase : {"ready", "latches", "data", "wait", "end"},
                          words : Seq(Datum), timer : 0..WaitClocks]
        BY <4>1, ItemFields DEF WaitClocks
      <4>3. gap' \in 0..MinGap /\ caught' \in Seq(Datum)
        BY <4>1, ReadDepthAssumption, EmptySeq
      <4>4. QED
        BY <3>1, <3>2, <3>4, <4>1, <4>2, <4>3 DEF Types
    <3>7. QED
      BY <3>1, <3>2, <3>4, <3>5, <3>6 DEF ReadInv, At
  <2>4. CASE Latched \/ Runs
    <3>1. PICK phase \in {"ready", "latches", "data", "wait", "end"} : Onward(phase) /\ Moved(phase)
      BY <1>1, <2>4, MachinesMove
    <3>2. PICK k \in Nat : k = Tick(t)
      BY <2>2
    <3>3. atom' \in Atoms /\ Atom(k)'
      BY <1>1, <1>3, <1>4, <2>1, <3>1, <3>2, AtomMoves
    <3>4. Control(k)'
      BY <1>1, <1>3, <1>4, <3>1, <3>2, ControlMoves
    <3>5. Pipe(k)' /\ line' \in Seq(Datum \cup {None})
      BY <1>1, <1>3, <1>4, <2>1, <3>1, <3>2, PipeMovesOn
    <3>6. Len(line') = Len(line)
      BY <1>1, <1>3, <1>4, <2>1, <2>2, PipeClock
    <3>7. rfifo' \in Fifos /\ taken' \in Seq(Beat) /\ asked' \in Seq(Beat) /\ Stream(k)'
      BY <1>1, <1>3, <2>1, <3>1, <3>2, <3>6, StreamMovesOn
    <3>8. caught' \in Seq(Datum) /\ Seen(k)'
      BY <1>1, <1>3, <3>1, <3>2, <3>6, SeenMovesOn
    <3>9. Types'
      <4>1. /\ command'.phase = phase /\ command'.timer = IF phase = "wait" THEN command.timer + 1 ELSE 0
        BY <1>1, <3>1, MovedFields
      <4>2. command.timer + 1 \in 0..12 \/ phase # "wait"
        <5>1. command.phase = "data" => command.timer = 0
          BY <1>3 DEF Control
        <5>2. phase = "wait" => command.phase = "data" \/ (command.phase = "wait" /\ command.timer # 12)
          BY <3>1 DEF Onward, WaitOver, WaitClocks
        <5>3. command.timer \in 0..12
          BY <1>1, CommandFields
        <5>4. QED
          BY <5>1, <5>2, <5>3
      <4>3. command' \in [op : Ops, phase : {"ready", "latches", "data", "wait", "end"},
                          words : Seq(Datum), timer : 0..WaitClocks]
        <5>1. command' = [command EXCEPT !.phase = phase, !.timer = IF phase = "wait" THEN @ + 1 ELSE 0]
          BY <3>1 DEF Moved
        <5>2. (IF phase = "wait" THEN command.timer + 1 ELSE 0) \in 0..WaitClocks
          BY <4>2 DEF WaitClocks
        <5>3. QED
          BY <1>1, <5>1, <5>2 DEF Types
      <4>4. gap' \in 0..MinGap
        <5>1. gap \in 0..MinGap /\ gap' = IF command.phase = "ready" /\ gap < MinGap THEN gap + 1 ELSE gap
          BY <1>1, <3>1 DEF Types, Moved
        <5>2. QED
          BY <5>1, ReadDepthAssumption
      <4>5. script' \in Seq(Item)
        BY <1>1, <3>1 DEF Types, Moved
      <4>6. QED
        BY <3>3, <3>5, <3>7, <3>8, <4>3, <4>4, <4>5 DEF Types
    <3>10. QED
      BY <3>3, <3>4, <3>5, <3>7, <3>8, <3>9 DEF ReadInv, At
  <2>5. QED
    BY <2>1, <2>3, <2>4
<1>6. CASE UNCHANGED vars
  <2>1. Types'
    BY <1>1, <1>6 DEF Types, vars
  <2>2. At(t)'
    <3>1. Words' = Words /\ Status' = Status /\ Held(rfifo)' = Held(rfifo)
      BY <1>6 DEF vars, Words, Status, Held, Offered
    <3>2. Control(t)' /\ Atom(t)'
      BY <1>3, <1>6, <3>1 DEF Control, Atom, vars
    <3>3. Pipe(t)'
      BY <1>3, <1>6, <3>1 DEF Pipe, vars
    <3>4. Stream(t)' /\ Seen(t)'
      BY <1>3, <1>6, <3>1 DEF Stream, Seen, vars
    <3>5. QED
      BY <3>2, <3>3, <3>4 DEF At
  <2>3. QED
    BY <2>1, <2>2 DEF ReadInv
<1>7. QED
  BY <1>5, <1>6


(***************************************************************************)
(* The theorems.                                                           *)
(***************************************************************************)

(* The invariant holds in every state that can be reached.                 *)
LEMMA Always == ASSUME FlagsInTime PROVE Spec => []ReadInv
<1>1. Init => ReadInv
  BY InvInit
<1>2. ReadInv /\ [Next]_vars => ReadInv'
  BY InvNext
<1>3. QED
  BY <1>1, <1>2, PTL DEF Spec

(* The registers of the input atom, of the status machine and of both      *)
(* FIFOs keep their ranges: the atom never counts past the length of the   *)
(* command, and neither FIFO holds more words than it has room for.        *)
THEOREM ReadTypesHold == ASSUME FlagsInTime PROVE Spec => []ReadTypeOK
<1>1. ReadInv => ReadTypeOK
  <2> SUFFICES ASSUME ReadInv PROVE ReadTypeOK
    OBVIOUS
  <2>1. Types
    BY DEF ReadInv
  <2>2. PICK t \in Nat : At(t)
    BY DEF ReadInv
  <2>3. Control(t) /\ Atom(t) /\ Pipe(t) /\ Stream(t)
    BY <2>2 DEF At
  <2>4. atom.num \in Nat /\ atom.dc \in 0..atom.num /\ atom.tc \in 0..4
    <3>1. /\ atom.st \in {"RESET", "READY", "LATCH", "tDQSS", "OST00", "OST01", "OST02"}
          /\ atom.num \in Nat /\ atom.dc \in Nat /\ atom.tc \in 0..4 /\ Words \in Nat
      BY <2>1, AtomFields, CommandFields
    <3>2. CASE atom.st \in {"RESET", "READY", "LATCH", "tDQSS", "OST00"}
      <4>1. atom.dc = 0
        BY <2>3, <3>2 DEF Atom
      <4>2. QED
        BY <3>1, <4>1
    <3>3. CASE atom.st = "OST01"
      <4>1. t \in 1..Words /\ atom.dc = 2 * t /\ atom.num = 2 * Words
        BY <2>3, <3>3 DEF Atom
      <4>2. QED
        BY <3>1, <4>1
    <3>4. CASE atom.st = "OST02"
      <4>1. atom.dc = atom.num
        BY <2>3, <3>4 DEF Atom
      <4>2. QED
        BY <3>1, <4>1
    <3>5. QED
      BY <3>1, <3>2, <3>3, <3>4
  <2>5. Len(afifo.q) <= Depth /\ Len(rfifo.q) <= Depth
    <3>1. Len(afifo.q) < Depth
      BY <2>1, <2>3, AtomFifoReady DEF FifoReady
    <3>2. Len(rfifo.q) < Depth
      BY <2>3 DEF Stream
    <3>3. afifo.q \in Seq(Beat) /\ rfifo.q \in Seq(Beat)
      <4> DEFINE u == t - Len(line)
      <4>1. Len(line) \in Nat
        BY <2>1, <2>3, LineLength DEF Pipe
      <4>2. afifo.q = BeatOne(command.words, u - 4) /\ u - 4 \in Int
        BY <2>3, <4>1 DEF Pipe, PipeAt, FifoAt
      <4> HIDE DEF u
      <4>3. afifo.q \in Seq(Beat)
        BY <2>1, <4>2, CommandFields, WordKinds
      <4>4. QED
        BY <2>1, <4>3 DEF Types, Fifos
    <3>4. Len(afifo.q) \in Nat /\ Len(rfifo.q) \in Nat
      BY <3>3, LenProperties
    <3>5. QED
      BY <3>1, <3>2, <3>4, ReadDepthAssumption
  <2>6. /\ script \in Seq(Item) /\ command.timer \in 0..WaitClocks /\ gap \in 0..MinGap
        /\ command.phase \in {"ready", "latches", "data", "wait", "end"}
    BY <2>1 DEF Types
  <2>7. QED
    BY <2>4, <2>5, <2>6 DEF ReadTypeOK
<1>2. QED
  BY <1>1, Always, PTL

(* The DMA is given the words of the pages and features that were asked    *)
(* for, in order and each once, no status byte among them, and a last flag *)
(* on the last word of each command and on no other: the split by the      *)
(* status machine's busy flag is right although nothing marks whose a word *)
(* is.                                                                     *)
THEOREM ReadsAreIntact == ASSUME FlagsInTime PROVE Spec => []ReadIntact
<1>1. ReadInv => ReadIntact
  <2> SUFFICES ASSUME ReadInv PROVE ReadIntact
    OBVIOUS
  <2>1. Types
    BY DEF ReadInv
  <2>2. PICK t \in Nat : At(t)
    BY DEF ReadInv
  <2>3. Control(t) /\ Pipe(t) /\ Stream(t)
    BY <2>2 DEF At
  <2> DEFINE u == t - Len(line)
             x == IF Status THEN << >> ELSE ToCome(command.words, u)
             h == Held(rfifo)
  <2>4. asked = (taken \o h) \o x
    BY <2>3 DEF Stream
  <2>5. u \in Int
    BY <2>1, <2>3, LineLength DEF Pipe
  <2>6. x \in Seq(Beat)
    <3>1. CASE Status
      BY <3>1, EmptySeq
    <3>2. CASE ~Status
      <4>1. x = ToCome(command.words, u)
        BY <3>2
      <4> HIDE DEF u, x
      <4>2. QED
        BY <2>1, <2>5, <4>1, CommandFields, ToComeMoves
    <3>3. QED
      BY <3>1, <3>2
  <2>7. taken \in Seq(Beat) /\ h \in Seq(Beat)
    BY <2>1, HeldIsSeq DEF Types
  <2> HIDE DEF u, x, h
  <2>8. asked = taken \o (h \o x) /\ h \o x \in Seq(Beat)
    <3>1. h \o x \in Seq(Beat)
      BY <2>6, <2>7, ConcatProperties
    <3> DEFINE Assoc(a, b, c) == (a \o b) \o c = a \o (b \o c)
    <3>2. \A a, b, c \in Seq(Beat) : Assoc(a, b, c)
      BY Associates, Zenon
    <3> HIDE DEF Assoc
    <3>3. Assoc(taken, h, x)
      BY <2>6, <2>7, <3>2
    <3>4. QED
      BY <2>4, <3>1, <3>3 DEF Assoc
  <2> DEFINE y == h \o x
  <2>9. y \in Seq(Beat) /\ asked = taken \o y
    BY <2>8
  <2> HIDE DEF y
  <2>10. Len(taken) <= Len(asked)
    <3>1. Len(asked) = Len(taken) + Len(y) /\ Len(taken) \in Nat /\ Len(y) \in Nat
      BY <2>7, <2>9, ConcatProperties, LenProperties
    <3>2. QED
      BY <3>1
  <2>11. taken = SubSeq(asked, 1, Len(taken))
    BY <2>7, <2>9, SubSeqOfConcat1, SubSeqFull
  <2>12. QED
    BY <2>10, <2>11 DEF ReadIntact
<1>2. QED
  BY <1>1, Always, PTL

(* A status machine that tells the driver it is ready has the byte of its  *)
(* own command, and never had another: the wait outlasts the samples' way  *)
(* through the input, and what a page left in the pipe is gone before.     *)
THEOREM StatusIsCaught == ASSUME FlagsInTime PROVE Spec => []StatusCaught
<1>1. ReadInv => StatusCaught
  <2> SUFFICES ASSUME ReadInv, command.op = "ReadStatus"
               PROVE  /\ caught # << >> => caught = command.words
                      /\ command.phase = "ready" => caught = command.words
    BY DEF StatusCaught
  <2>1. Types
    BY DEF ReadInv
  <2>2. PICK t \in Nat : At(t)
    BY DEF ReadInv
  <2>3. Control(t) /\ Pipe(t) /\ Seen(t) /\ Status
    BY <2>2 DEF At, Status
  <2>4. caught = IF t - Len(line) <= 7 THEN << >> ELSE command.words
    BY <2>3 DEF Seen
  <2>5. command.phase = "ready" => ~(t - Len(line) <= 7)
    <3> SUFFICES ASSUME command.phase = "ready" PROVE ~(t - Len(line) <= 7)
      OBVIOUS
    <3>1. gap \in Nat /\ Words = 1 /\ Len(line) \in Nat
      BY <2>1, <2>3, LineLength, ReadDepthAssumption DEF Types, Control, Pipe
    <3>2. t >= Words + gap + 18
      BY <2>3 DEF Control, Status
    <3>3. Len(line) - 6 <= 5
      BY <2>3 DEF FlagsInTime, Pipe, Samples
    <3>4. QED
      BY <3>1, <3>2, <3>3
  <2>6. QED
    BY <2>4, <2>5
<1>2. QED
  BY <1>1, Always, PTL
=============================================================================
