--------------------------- MODULE WriteDataProofs ---------------------------
(***************************************************************************)
(* Proofs about WriteData for every set of bytes, every script and every   *)
(* depth of the write FIFO.                                                *)
(***************************************************************************)
EXTENDS WriteData, SequenceTheorems, TLAPS

USE ByteAssumption, ScriptAssumption, DepthAssumption

(***************************************************************************)
(* The invariant, in parts.                                                *)
(***************************************************************************)
States == {"RESET", "READY", "LATCH", "SETUP", "OST00", "OST01", "OST02", "OST03", "OST04"}

Atoms ==
  [st : States, wready : BOOLEAN, last : BOOLEAN, num : Nat, data : Word,
   dq : Byte, we : BOOLEAN, dc : Nat, tc : 0..9]

Types ==
  /\ script \in Seq(Item)
  /\ command \in [op : {"none", "SetFeature", "ProgramPage"},
                   phase : {"ready", "latches", "data", "end"}, num : Nat]
  /\ feature \in Word \X Word
  /\ half \in [last : BOOLEAN, data : Word]
  /\ stream \in Seq(Word) /\ fifo \in Seq(Word) /\ Len(fifo) <= Depth
  /\ atom \in Atoms
  /\ sent \in Seq(Byte) /\ asked \in Seq(Byte)

\* The machine and the atom it commands: outside the data phase the atom rests.
Control ==
  /\ command.phase = "ready" <=> command.op = "none"
  /\ Active("SetFeature") => command.num = 4
  /\ atom.st = "RESET" => command.phase = "ready"
  /\ ~Commanded => atom.st \in {"RESET", "READY"}
  /\ atom.st \notin {"RESET", "READY", "OST04"} => atom.num = command.num
  /\ atom.st = "OST04" => Async

\* The atom's registers in each of its states.
Registers ==
  /\ atom.wready <=> atom.st = "OST01" \/ (atom.st = "OST02" /\ ~Async)
  /\ atom.last <=> atom.st = "OST04" \/ (atom.st = "OST03" /\ ~Async /\ atom.tc = 4)
  /\ atom.st \in {"RESET", "READY", "LATCH", "SETUP", "OST04"} => atom.dc = 0
  /\ atom.st \notin {"SETUP", "OST02", "OST03"} => atom.tc = 0
  /\ ~(Async /\ atom.st \in {"OST02", "OST03"}) => atom.we

\* The synchronous atom counts two bytes a clock, and has counted to its
\* length when it waits in OST03.
SyncCount ==
  ~Async =>
    /\ atom.st = "SETUP" => atom.tc = 1
    /\ atom.st = "OST02" => atom.tc = 0
    /\ atom.st = "OST03" => atom.tc \in 1..4 /\ atom.dc = atom.num
    /\ atom.dc <= atom.num

\* The asynchronous atom counts a byte in the fifth clock of its ten, and lets
\* WE rise in the one after.
AsyncCount ==
  Async =>
    /\ atom.st \in {"OST00", "OST01"} => atom.dc \in {0, 2}
    /\ atom.st = "OST02" =>
         atom.tc # 0 /\ atom.dc \in IF atom.tc < 5 THEN {0, 2} ELSE {1, 3}
    /\ atom.st = "OST03" => atom.dc \in IF atom.tc < 5 THEN {1, 3} ELSE {2, 4}
    /\ atom.st \in {"OST02", "OST03"} => (atom.we <=> atom.tc > 5 \/ atom.tc = 0)

ControlInv == Types /\ Control /\ Registers /\ SyncCount /\ AsyncCount

\* What the program machine has still to send, in the FIFO and at the DMA.
Left == fifo \o stream

\* The first words of Left continue what was asked for after its first n bytes.
Continues(n) ==
  /\ Len(asked) = n + 2 * Len(Left)
  /\ \A i \in 1..Len(Left) : asked[n + 2 * i - 1] = Left[i][1] /\ asked[n + 2 * i] = Left[i][2]

Prefix == Len(sent) <= Len(asked) /\ \A i \in 1..Len(sent) : sent[i] = asked[i]

PageInv ==
  /\ ~Active("ProgramPage") \/ command.phase = "end" => fifo = << >> /\ stream = << >>
  /\ Active("ProgramPage") =>
       /\ command.num = Len(asked)
       /\ command.phase \in {"latches", "data"} => Continues(atom.dc)
       /\ command.phase \in {"data", "end"} => Prefix
       /\ command.phase = "data" => Len(sent) = atom.dc
       /\ command.phase = "end" => Len(sent) = Len(asked)
       /\ atom.st = "OST01" => fifo # << >>

\* A page program is never followed by a Set Feature.
FeaturesFirst ==
  \A s \in Scripts : \A i, j \in 1..Len(s) :
    s[i].op = "ProgramPage" /\ s[j].op = "SetFeature" => j < i

Featured(s) == \E i \in 1..Len(s) : s[i].op = "SetFeature"

\* Bytes of the feature word that have left at a rising edge of WE.
Out == IF atom.st \in {"OST02", "OST03"} /\ atom.tc = 5 THEN atom.dc - 1 ELSE atom.dc

Count == IF atom.st = "OST04" THEN 4 ELSE Out

\* The half that is offered: the first until it was taken, then the second,
\* and the first again for the next command.
Offer ==
  CASE atom.st \in {"OST00", "OST01"} -> (half.last <=> atom.dc = 2)
    [] atom.st = "OST02" -> (half.last <=> atom.dc < 2)
    [] atom.st = "OST03" -> (half.last <=> atom.dc < 2 \/ (atom.dc = 2 /\ atom.tc >= 5))
    [] OTHER -> ~half.last

FeatureInv ==
  /\ \A i, j \in 1..Len(script) :
       script[i].op = "ProgramPage" /\ script[j].op = "SetFeature" => j < i
  /\ Active("ProgramPage") => ~Featured(script)
  /\ ~Active("SetFeature") /\ Featured(script) => ~half.last
  /\ ~Active("none") => half.data = feature[IF half.last THEN 2 ELSE 1]
  /\ Active("SetFeature") =>
       /\ Offer
       /\ asked = <<feature[1][1], feature[1][2], feature[2][1], feature[2][2]>>
       /\ atom.st \in {"OST02", "OST03"} => atom.data = feature[IF half.last THEN 1 ELSE 2]
       /\ command.phase \in {"data", "end"} => Prefix
       /\ command.phase = "data" => Len(sent) = Count
       /\ command.phase = "end" => Len(sent) = 4

(***************************************************************************)
(* Bytes, words and scripts.                                               *)
(***************************************************************************)

(* A word is a sequence of its two bytes.                                  *)
LEMMA WordIsTwoBytes ==
  ASSUME NEW w \in Word
  PROVE  /\ w \in Seq(Byte) /\ Len(w) = 2
         /\ w[1] \in Byte /\ w[2] \in Byte
<1>1. PICK x \in Byte, y \in Byte : w = <<x, y>>
  BY DEF Word
<1>2. QED
  BY <1>1

(* The word at rest is a word.                                             *)
LEMMA ZeroWord == <<Zero, Zero>> \in Word
BY DEF Word

(* The bytes of a sequence of words, two a word.                           *)
LEMMA BytesOfWords ==
  ASSUME NEW words \in Seq(Word)
  PROVE  /\ Bytes(words) \in Seq(Byte) /\ Len(Bytes(words)) = 2 * Len(words)
         /\ \A i \in 1..Len(words) :
              Bytes(words)[2 * i - 1] = words[i][1] /\ Bytes(words)[2 * i] = words[i][2]
<1> DEFINE n == 2 * Len(words)
           byte(i) == words[(i + 1) \div 2][IF i % 2 = 1 THEN 1 ELSE 2]
<1>1. n \in Nat
  OBVIOUS
<1>2. ASSUME NEW i \in 1..n PROVE byte(i) \in Byte
  <2>1. (i + 1) \div 2 \in 1..Len(words)
    OBVIOUS
  <2>2. words[(i + 1) \div 2] \in Word
    BY <2>1
  <2>3. QED
    BY <2>2, WordIsTwoBytes
<1>3. Bytes(words) = [i \in 1..n |-> byte(i)]
  BY DEF Bytes
<1> HIDE DEF n
<1>4. Bytes(words) \in Seq(Byte) /\ Len(Bytes(words)) = n
  <2>1. Bytes(words) \in [1..n -> Byte]
    BY <1>2, <1>3
  <2>2. QED
    BY <1>1, <2>1, SeqDef
<1>5. ASSUME NEW i \in 1..Len(words)
      PROVE  Bytes(words)[2 * i - 1] = words[i][1] /\ Bytes(words)[2 * i] = words[i][2]
  <2>1. 2 * i - 1 \in 1..n /\ 2 * i \in 1..n
    BY DEF n
  <2>2. /\ (2 * i - 1 + 1) \div 2 = i /\ (2 * i - 1) % 2 = 1
        /\ (2 * i + 1) \div 2 = i /\ (2 * i) % 2 = 0
    OBVIOUS
  <2>3. QED
    BY <1>3, <2>1, <2>2
<1>6. QED
  BY <1>4, <1>5 DEF n

(* Registers written one by one with values of their kinds.                *)
LEMMA AtomFields ==
  \A a \in Atoms :
    /\ a.st \in States /\ a.wready \in BOOLEAN /\ a.last \in BOOLEAN /\ a.num \in Nat
    /\ a.data \in Word /\ a.dq \in Byte /\ a.we \in BOOLEAN /\ a.dc \in Nat /\ a.tc \in 0..9
    /\ \A v \in States : [a EXCEPT !.st = v] \in Atoms
    /\ \A v \in BOOLEAN : /\ [a EXCEPT !.wready = v] \in Atoms
                          /\ [a EXCEPT !.last = v] \in Atoms
                          /\ [a EXCEPT !.we = v] \in Atoms
    /\ \A v \in Nat : [a EXCEPT !.num = v] \in Atoms /\ [a EXCEPT !.dc = v] \in Atoms
    /\ \A v \in Word : [a EXCEPT !.data = v] \in Atoms
    /\ \A v \in Byte : [a EXCEPT !.dq = v] \in Atoms
    /\ \A v \in 0..9 : [a EXCEPT !.tc = v] \in Atoms
BY DEF Atoms

(* The atom's registers at rest have their types.                          *)
LEMMA RestIsAtom == Rest \in Atoms
<1>1. "READY" \in States
  BY DEF States
<1>2. QED
  BY <1>1, ZeroWord DEF Rest, Atoms

(* What each kind of order carries.                                        *)
LEMMA ItemFields ==
  ASSUME NEW i \in Item
  PROVE  /\ i.op \in {"set_feature", "SetFeature", "ProgramPage"}
         /\ i.op = "set_feature" => i.word \in Word \X Word
         /\ i.op = "ProgramPage" => i.page \in Seq(Word) /\ i.page # << >>
BY DEF Item

(***************************************************************************)
(* What one clock does to the atom, transition by transition.              *)
(***************************************************************************)

AsyncByte(from, to) ==
  /\ atom.st = from /\ Async
  /\ atom' = [atom EXCEPT !.st = to, !.wready = FALSE, !.last = FALSE,
                          !.data = IF from = "OST01" THEN WriteData ELSE @,
                          !.dq = atom.data[IF to = "OST02" THEN 1 ELSE 2],
                          !.we = atom.tc > 4,
                          !.dc = IF atom.tc = 4 THEN @ + 1 ELSE @,
                          !.tc = IF atom.tc = 9 THEN 0 ELSE @ + 1]

GoesToRest ==
  /\ \/ atom.st = "RESET"
     \/ atom.st = "READY" /\ ~Commanded
     \/ atom.st = "OST03" /\ ~Async /\ atom.last
     \/ atom.st = "OST04"
  /\ atom' = Rest
IsCommanded ==
  /\ atom.st = "READY" /\ Commanded
  /\ atom' = [Rest EXCEPT !.st = "LATCH", !.num = command.num]
SetsUp == atom.st = "LATCH" /\ atom' = [atom EXCEPT !.st = "SETUP", !.tc = 1]
WaitsSetup ==
  /\ atom.st = "SETUP" /\ Async /\ atom.tc < 9
  /\ atom' = [atom EXCEPT !.st = "SETUP", !.tc = @ + 1]
AwaitsData ==
  /\ \/ atom.st = "SETUP"
     \/ atom.st = "OST00" /\ ~WriteValid
     \/ atom.st = "OST02" /\ ~Async /\ atom.dc # atom.num /\ ~WriteValid
     \/ atom.st = "OST03" /\ Async /\ atom.tc = 9 /\ atom.dc # atom.num
  /\ atom' = [atom EXCEPT !.st = "OST00", !.wready = FALSE, !.we = TRUE, !.tc = 0]
FindsData ==
  /\ atom.st = "OST00" /\ WriteValid
  /\ atom' = [atom EXCEPT !.st = "OST01", !.wready = TRUE, !.we = TRUE, !.tc = 0]
SyncWord ==
  /\ ~Async /\ (atom.st = "OST01" \/ (atom.st = "OST02" /\ atom.dc # atom.num /\ WriteValid))
  /\ atom' = [atom EXCEPT !.st = "OST02", !.wready = TRUE, !.dc = @ + 2, !.tc = 0]
SyncClose ==
  /\ ~Async /\ ~atom.last
  /\ (atom.st = "OST02" /\ atom.dc = atom.num) \/ atom.st = "OST03"
  /\ atom' = [atom EXCEPT !.st = "OST03", !.wready = FALSE, !.last = (atom.tc = 3), !.tc = @ + 1]
AsyncBytes ==
  \/ AsyncByte("OST01", "OST02")
  \/ atom.tc < 9 /\ AsyncByte("OST02", "OST02")
  \/ atom.tc = 9 /\ AsyncByte("OST02", "OST03")
  \/ atom.tc < 9 /\ AsyncByte("OST03", "OST03")
AsyncClose ==
  /\ atom.st = "OST03" /\ Async /\ atom.tc = 9 /\ atom.dc = atom.num
  /\ atom' = [Rest EXCEPT !.st = "OST04", !.last = TRUE]

AtomMoves ==
  \/ GoesToRest \/ IsCommanded \/ SetsUp \/ WaitsSetup \/ AwaitsData \/ FindsData
  \/ SyncWord \/ SyncClose \/ AsyncBytes \/ AsyncClose

(* The state the atom goes to, in the words of the two machines.           *)
LEMMA AtomNextIs ==
  ASSUME ControlInv
  PROVE  /\ atom.st = "RESET" => AtomNext = "READY"
         /\ atom.st = "READY" => AtomNext = IF Commanded THEN "LATCH" ELSE "READY"
         /\ atom.st = "LATCH" => AtomNext = "SETUP"
         /\ atom.st = "SETUP" => AtomNext = IF TimerDone THEN "OST00" ELSE "SETUP"
         /\ atom.st = "OST00" => AtomNext = IF WriteValid THEN "OST01" ELSE "OST00"
         /\ atom.st = "OST01" => AtomNext = "OST02"
         /\ atom.st = "OST02" /\ ~Async =>
              AtomNext = IF Done THEN "OST03" ELSE IF WriteValid THEN "OST02" ELSE "OST00"
         /\ atom.st = "OST03" /\ ~Async => AtomNext = IF atom.last THEN "READY" ELSE "OST03"
         /\ atom.st = "OST02" /\ Async =>
              AtomNext = IF TimerDone THEN IF Done THEN "OST04" ELSE "OST03" ELSE "OST02"
         /\ atom.st = "OST03" /\ Async =>
              AtomNext = IF TimerDone THEN IF Done THEN "OST04" ELSE "OST00" ELSE "OST03"
         /\ atom.st = "OST04" => AtomNext = "READY"
<1>1. atom.st = "OST01" => atom.wready
  BY DEF ControlInv, Registers
<1>2. atom.st = "OST04" => atom.last /\ Async
  BY DEF ControlInv, Registers, Control
<1>3. atom.st \notin {"OST02", "OST03", "OST04"} => AtomNext = Prologue
  BY DEF AtomNext, AsyncNext, SyncNext
<1>4. atom.st = "OST01" => Prologue = "OST02"
  BY <1>1 DEF Prologue
<1>5. /\ atom.st = "RESET" => Prologue = "READY"
      /\ atom.st = "READY" => Prologue = IF Commanded THEN "LATCH" ELSE "READY"
      /\ atom.st = "LATCH" => Prologue = "SETUP"
      /\ atom.st = "SETUP" => Prologue = IF TimerDone THEN "OST00" ELSE "SETUP"
      /\ atom.st = "OST00" => Prologue = IF WriteValid THEN "OST01" ELSE "OST00"
  BY DEF Prologue
<1>6. atom.st \in {"OST02", "OST03"} /\ ~Async => AtomNext = SyncNext
  BY DEF AtomNext
<1>7. atom.st \in {"OST02", "OST03", "OST04"} /\ Async => AtomNext = AsyncNext
  BY DEF AtomNext
<1>8. /\ atom.st = "OST02" =>
           SyncNext = IF Done THEN "OST03" ELSE IF WriteValid THEN "OST02" ELSE "OST00"
      /\ atom.st = "OST03" => SyncNext = IF atom.last THEN "READY" ELSE "OST03"
  BY DEF SyncNext
<1>9. /\ atom.st = "OST02" =>
           AsyncNext = IF TimerDone THEN IF Done THEN "OST04" ELSE "OST03" ELSE "OST02"
      /\ atom.st = "OST03" =>
           AsyncNext = IF TimerDone THEN IF Done THEN "OST04" ELSE "OST00" ELSE "OST03"
      /\ atom.st = "OST04" => AsyncNext = IF atom.last THEN "READY" ELSE "OST04"
  BY DEF AsyncNext
<1>10. QED
  BY <1>1, <1>2, <1>3, <1>4, <1>5, <1>6, <1>7, <1>8, <1>9

(* The registers loaded with each state.                                   *)
LEMMA EnteredIs ==
  /\ Entered("READY") = Rest
  /\ Entered("LATCH") = [Rest EXCEPT !.st = "LATCH", !.num = command.num]
  /\ Entered("SETUP") = [atom EXCEPT !.st = "SETUP", !.tc = Tick]
  /\ Entered("OST00") = [atom EXCEPT !.st = "OST00", !.wready = FALSE, !.we = TRUE, !.tc = 0]
  /\ Entered("OST01") = [atom EXCEPT !.st = "OST01", !.wready = TRUE, !.we = TRUE, !.tc = 0]
  /\ ~Async =>
       /\ Entered("OST02") = [atom EXCEPT !.st = "OST02", !.wready = TRUE, !.dc = @ + 2, !.tc = 0]
       /\ Entered("OST03") = [atom EXCEPT !.st = "OST03", !.wready = FALSE,
                                          !.last = (atom.tc = 3 /\ Done), !.tc = @ + 1]
  /\ \A s \in {"OST02", "OST03"} : Async =>
       Entered(s) = [atom EXCEPT !.st = s, !.wready = FALSE, !.last = TimerDone /\ Done,
                                 !.data = IF atom.wready THEN WriteData ELSE @,
                                 !.dq = atom.data[IF s = "OST02" THEN 1 ELSE 2],
                                 !.we = atom.tc > 4,
                                 !.dc = IF Strobed THEN @ + 1 ELSE @, !.tc = Tick]
  /\ Entered("OST04") = [Rest EXCEPT !.st = "OST04", !.last = TimerDone /\ Done]
BY DEF Entered

(* Every clock of the atom is one of the transitions above.                *)
LEMMA AtomStep ==
  ASSUME ControlInv, atom' = Entered(AtomNext)
  PROVE  AtomMoves
<1> USE DEF GoesToRest, IsCommanded, SetsUp, WaitsSetup, AwaitsData, FindsData,
           SyncWord, SyncClose, AsyncBytes, AsyncClose
<1>1. atom.st \in States /\ atom.tc \in 0..9 /\ atom.dc \in Nat /\ atom.num \in Nat
  BY AtomFields DEF ControlInv, Types
<1>2. /\ TimerDone <=> atom.tc = IF Async THEN 9 ELSE 1
      /\ Done <=> atom.dc = atom.num
      /\ Strobed <=> atom.tc = 4
      /\ Tick = IF TimerDone THEN 0 ELSE atom.tc + 1
  BY DEF TimerDone, Done, Strobed, Tick
<1> HIDE DEF TimerDone, Done, Strobed, Tick
<1>3. CASE atom.st \in {"RESET", "READY"}
  BY <1>3, AtomNextIs, EnteredIs DEF AtomMoves
<1>4. CASE atom.st = "LATCH"
  <2>1. Tick = 1
    BY <1>2, <1>4 DEF ControlInv, Registers
  <2>2. QED
    BY <1>4, <2>1, AtomNextIs, EnteredIs DEF AtomMoves
<1>5. CASE atom.st = "SETUP"
  <2>1. CASE TimerDone
    BY <1>5, <2>1, AtomNextIs, EnteredIs DEF AtomMoves
  <2>2. CASE ~TimerDone
    <3>1. Async /\ atom.tc < 9 /\ Tick = atom.tc + 1
      BY <1>1, <1>2, <1>5, <2>2 DEF ControlInv, SyncCount
    <3>2. atom' = [atom EXCEPT !.st = "SETUP", !.tc = Tick]
      BY <1>5, <2>2, AtomNextIs, EnteredIs
    <3>3. QED
      BY <1>5, <3>1, <3>2 DEF AtomMoves
  <2>3. QED
    BY <2>1, <2>2
<1>6. CASE atom.st = "OST00"
  BY <1>6, AtomNextIs, EnteredIs DEF AtomMoves
<1>7. CASE atom.st = "OST01"
  <2>1. atom.tc = 0 /\ atom.wready
    BY <1>7 DEF ControlInv, Registers
  <2>2. CASE Async
    <3>1. atom' = Entered("OST02")
      BY <1>7, AtomNextIs
    <3>2. /\ (TimerDone /\ Done) = FALSE /\ Strobed = FALSE /\ Tick = 1
          /\ (IF atom.wready THEN WriteData ELSE atom.data) = WriteData
      BY <1>2, <2>1, <2>2
    <3>3. atom' = [atom EXCEPT !.st = "OST02", !.wready = FALSE, !.last = FALSE,
                               !.data = WriteData, !.dq = atom.data[1],
                               !.we = atom.tc > 4, !.dc = @, !.tc = 1]
      BY <2>2, <3>1, <3>2, EnteredIs
    <3>4. AsyncByte("OST01", "OST02")
      BY <1>7, <2>1, <2>2, <3>3 DEF AsyncByte
    <3>5. QED
      BY <3>4 DEF AtomMoves
  <2>3. CASE ~Async
    BY <1>7, <2>3, AtomNextIs, EnteredIs DEF AtomMoves
  <2>4. QED
    BY <2>2, <2>3
<1>8. CASE atom.st \in {"OST02", "OST03"} /\ ~Async
  <2>1. /\ atom.st = "OST03" => atom.dc = atom.num /\ atom.tc \in 1..4
        /\ atom.st = "OST02" => atom.tc = 0
        /\ atom.last <=> atom.st = "OST03" /\ atom.tc = 4
    BY <1>8 DEF ControlInv, Registers, SyncCount
  <2>2. CASE atom.last
    BY <1>8, <2>1, <2>2, AtomNextIs, EnteredIs DEF AtomMoves
  <2>3. CASE ~atom.last /\ Done
    <3>1. atom' = [atom EXCEPT !.st = "OST03", !.wready = FALSE,
                               !.last = (atom.tc = 3 /\ Done), !.tc = @ + 1]
      BY <1>8, <2>3, AtomNextIs, EnteredIs
    <3>2. (atom.tc = 3 /\ Done) = (atom.tc = 3)
      BY <2>3
    <3>3. QED
      BY <1>2, <1>8, <2>3, <3>1, <3>2 DEF AtomMoves
  <2>4. CASE ~atom.last /\ ~Done
    BY <1>2, <1>8, <2>1, <2>4, AtomNextIs, EnteredIs DEF AtomMoves
  <2>5. QED
    BY <2>2, <2>3, <2>4
<1>9. CASE atom.st \in {"OST02", "OST03"} /\ Async
  <2>1. ~atom.wready
    BY <1>9 DEF ControlInv, Registers
  <2>2. CASE AtomNext = "OST04"
    <3>1. (TimerDone /\ Done) = TRUE /\ atom.tc = 9 /\ atom.dc = atom.num
      BY <1>2, <1>9, <2>2, AtomNextIs
    <3>2. atom' = [Rest EXCEPT !.st = "OST04", !.last = TRUE]
      BY <2>2, <3>1, EnteredIs
    <3>3. atom.num = 4
      BY <1>9 DEF ControlInv, Control, Async
    <3>4. atom.st = "OST03"
      BY <1>9, <3>1, <3>3 DEF ControlInv, AsyncCount
    <3>5. QED
      BY <1>9, <3>1, <3>2, <3>4 DEF AtomMoves
  <2>3. CASE AtomNext = "OST00"
    BY <1>2, <1>9, <2>3, AtomNextIs, EnteredIs DEF AtomMoves
  <2>4. CASE AtomNext \in {"OST02", "OST03"}
    <3>1. ~(TimerDone /\ Done)
      BY <1>9, <2>4, AtomNextIs
    <3>2. AsyncByte(atom.st, AtomNext)
      BY <1>2, <1>9, <2>1, <2>4, <3>1, EnteredIs DEF AsyncByte
    <3>3. QED
      BY <1>1, <1>2, <1>9, <2>4, <3>2, AtomNextIs DEF AtomMoves
  <2>5. QED
    BY <1>9, <2>2, <2>3, <2>4, AtomNextIs
<1>10. CASE atom.st = "OST04"
  BY <1>10, AtomNextIs, EnteredIs DEF AtomMoves
<1>11. QED
  BY <1>1, <1>3, <1>4, <1>5, <1>6, <1>7, <1>8, <1>9, <1>10 DEF States

(***************************************************************************)
(* The control invariant.                                                  *)
(***************************************************************************)
AllInv == ControlInv /\ PageInv

(* The invariant holds when the controller comes out of reset.             *)
LEMMA InitAll == Init => AllInv
<1> SUFFICES ASSUME Init PROVE AllInv
  OBVIOUS
<1>1. Types
  <2>1. script \in Seq(Item) /\ command \in [op : {"none", "SetFeature", "ProgramPage"},
             phase : {"ready", "latches", "data", "end"}, num : Nat]
    BY DEF Init, NoCommand
  <2>2. feature \in Word \X Word /\ half \in [last : BOOLEAN, data : Word]
    BY ZeroWord DEF Init
  <2>3. atom \in Atoms
    BY RestIsAtom, AtomFields DEF Init, States
  <2>4. QED
    BY <2>1, <2>2, <2>3 DEF Init, Types
<1>2. Control /\ Registers /\ SyncCount /\ AsyncCount
  BY DEF Init, Control, Registers, SyncCount, AsyncCount, NoCommand, Rest, Active, Commanded, Async
<1>3. PageInv
  BY DEF Init, PageInv, NoCommand, Active
<1>4. QED
  BY <1>1, <1>2, <1>3 DEF AllInv, ControlInv

(* What a clock does to the command machine.                               *)
Takes(i) ==
  /\ command.phase = "ready" /\ i.op = "set_feature"
  /\ feature' = i.word /\ UNCHANGED <<command, asked>>
StartsFeature(i) ==
  /\ command.phase = "ready" /\ i.op = "SetFeature"
  /\ command' = [op |-> "SetFeature", phase |-> "latches", num |-> 4]
  /\ asked' = Bytes(feature) /\ UNCHANGED feature
StartsPage(i) ==
  /\ command.phase = "ready" /\ i.op = "ProgramPage"
  /\ command' = [op |-> "ProgramPage", phase |-> "latches", num |-> 2 * Len(i.page)]
  /\ asked' = Bytes(i.page) /\ UNCHANGED feature
Idles == UNCHANGED <<script, command, feature, asked>>

CommandMoves ==
  \/ /\ script # << >> /\ script' = Tail(script)
     /\ \E i \in {Head(script)} : Takes(i) \/ StartsFeature(i) \/ StartsPage(i)
  \/ /\ command.phase = "latches" /\ command' = [command EXCEPT !.phase = "data"]
     /\ UNCHANGED <<script, feature, asked>>
  \/ /\ command.phase = "end" /\ command' = NoCommand
     /\ UNCHANGED <<script, feature, asked>>
  \/ /\ Commanded /\ atom.last /\ command' = [command EXCEPT !.phase = "end"]
     /\ UNCHANGED <<script, feature, asked>>
  \/ ~(Commanded /\ atom.last) /\ Idles

(* Taking the first order off a script leaves orders.                      *)
LEMMA HeadItem ==
  ASSUME script \in Seq(Item), script # << >>
  PROVE  Head(script) \in Item /\ Tail(script) \in Seq(Item)
OBVIOUS

(* A step of the system is one of the command's moves, one of the path's   *)
(* and one of the atom's, all in the same clock.                           *)
LEMMA CommandStep ==
  ASSUME ControlInv, Next
  PROVE  CommandMoves /\ (\E arrives \in BOOLEAN : Path(arrives)) /\ AtomMoves
<1>1. (Request \/ Advance \/ Stay \/ DataDone) /\ \E arrives \in BOOLEAN : Path(arrives)
  BY DEF Next, Move, Arrive, Quiet
<1>2. AtomMoves
  BY <1>1, AtomStep DEF Path
<1>3. CASE Request
  <2>1. script # << >> /\ command.phase = "ready" /\ script' = Tail(script)
    BY <1>3 DEF Request
  <2>2. Head(script).op \in {"set_feature", "SetFeature", "ProgramPage"}
    BY <2>1, HeadItem, ItemFields DEF ControlInv, Types
  <2>3. Takes(Head(script)) \/ StartsFeature(Head(script)) \/ StartsPage(Head(script))
    BY <1>3, <2>1, <2>2 DEF Request, Takes, StartsFeature, StartsPage
  <2>4. QED
    BY <1>1, <1>2, <2>1, <2>3 DEF CommandMoves
<1>4. CASE Advance
  BY <1>1, <1>2, <1>4 DEF Advance, CommandMoves
<1>5. CASE DataDone
  BY <1>1, <1>2, <1>5 DEF DataDone, CommandMoves
<1>6. CASE Stay
  BY <1>1, <1>2, <1>6 DEF Stay, CommandMoves, Idles
<1>7. QED
  BY <1>1, <1>3, <1>4, <1>5, <1>6

(* Without a command in its data phase the atom comes to, or stays at,     *)
(* rest.                                                                   *)
LEMMA AtomRests ==
  ASSUME ControlInv, AtomMoves, ~Commanded
  PROVE  atom' = Rest
<1>1. atom.st \in {"RESET", "READY"}
  BY DEF ControlInv, Control
<1>2. QED
  BY <1>1 DEF AtomMoves, AsyncByte, GoesToRest, IsCommanded, SetsUp, WaitsSetup, AwaitsData,
              FindsData, SyncWord, SyncClose, AsyncBytes, AsyncClose

(* The transitions keep the types of the atom.                             *)
LEMMA AtomTyped ==
  ASSUME atom \in Atoms, command.num \in Nat, WriteData \in Word, SyncCount, AtomMoves
  PROVE  atom' \in Atoms
<1> USE DEF GoesToRest, IsCommanded, SetsUp, WaitsSetup, AwaitsData, FindsData,
            SyncWord, SyncClose, AsyncBytes, AsyncClose
<1>1. /\ atom.st \in States /\ atom.wready \in BOOLEAN /\ atom.last \in BOOLEAN /\ atom.num \in Nat
      /\ atom.data \in Word /\ atom.dq \in Byte /\ atom.we \in BOOLEAN
      /\ atom.dc \in Nat /\ atom.tc \in 0..9
  BY AtomFields
<1>2. \A s \in {"READY", "LATCH", "SETUP", "OST00", "OST01", "OST02", "OST03", "OST04"} : s \in States
  BY DEF States
<1>2a. 0 \in 0..9 /\ 1 \in 0..9 /\ TRUE \in BOOLEAN /\ FALSE \in BOOLEAN
  OBVIOUS
<1>3. ASSUME NEW from, NEW to \in {"OST02", "OST03"}, AsyncByte(from, to)
      PROVE  atom' \in Atoms
  <2>1. /\ (IF from = "OST01" THEN WriteData ELSE atom.data) \in Word
        /\ atom.data[IF to = "OST02" THEN 1 ELSE 2] \in Byte
        /\ (IF atom.tc = 4 THEN atom.dc + 1 ELSE atom.dc) \in Nat
        /\ (IF atom.tc = 9 THEN 0 ELSE atom.tc + 1) \in 0..9
        /\ (atom.tc > 4) \in BOOLEAN
    <3>1. atom.data[1] \in Byte /\ atom.data[2] \in Byte
      BY <1>1, WordIsTwoBytes
    <3>2. QED
      BY <1>1, <3>1
  <2> DEFINE d == IF from = "OST01" THEN WriteData ELSE atom.data
             q == atom.data[IF to = "OST02" THEN 1 ELSE 2]
             c == IF atom.tc = 4 THEN atom.dc + 1 ELSE atom.dc
             t == IF atom.tc = 9 THEN 0 ELSE atom.tc + 1
             w == atom.tc > 4
  <2>2. d \in Word /\ q \in Byte /\ c \in Nat /\ t \in 0..9 /\ w \in BOOLEAN
    BY <2>1
  <2>3. atom' = [atom EXCEPT !.st = to, !.wready = FALSE, !.last = FALSE, !.data = d,
                             !.dq = q, !.we = w, !.dc = c, !.tc = t]
    BY <1>3 DEF AsyncByte
  <2> HIDE DEF d, q, c, t, w
  <2>4. QED
    BY <1>2, <2>2, <2>3, AtomFields
<1>4. CASE AsyncByte("OST01", "OST02") \/ AsyncByte("OST02", "OST02")
           \/ AsyncByte("OST02", "OST03") \/ AsyncByte("OST03", "OST03")
  BY <1>3, <1>4
<1>5. CASE atom' = [Rest EXCEPT !.st = "LATCH", !.num = command.num]
  BY <1>2, <1>5, RestIsAtom, AtomFields
<1>6. CASE atom' = [Rest EXCEPT !.st = "OST04", !.last = TRUE]
  BY <1>2, <1>6, RestIsAtom, AtomFields
<1>7. CASE atom' = [atom EXCEPT !.st = "SETUP", !.tc = 1]
  <2>1. [atom EXCEPT !.st = "SETUP"] \in Atoms
    BY <1>2, AtomFields
  <2>2. QED
    BY <1>7, <1>2a, <2>1, AtomFields
<1>8. CASE atom.tc < 9 /\ atom' = [atom EXCEPT !.st = "SETUP", !.tc = @ + 1]
  <2>1. atom.tc + 1 \in 0..9
    BY <1>1, <1>8
  <2>2. QED
    BY <1>2, <1>8, <2>1, AtomFields
<1>9. CASE atom' = [atom EXCEPT !.st = "OST00", !.wready = FALSE, !.we = TRUE, !.tc = 0]
  <2>1. [atom EXCEPT !.st = "OST00"] \in Atoms
    BY <1>2, AtomFields
  <2>2. [atom EXCEPT !.st = "OST00", !.wready = FALSE] \in Atoms
    BY <1>2a, <2>1, AtomFields
  <2>3. [atom EXCEPT !.st = "OST00", !.wready = FALSE, !.we = TRUE] \in Atoms
    BY <1>2a, <2>2, AtomFields
  <2>4. QED
    BY <1>9, <1>2a, <2>3, AtomFields
<1>10. CASE atom' = [atom EXCEPT !.st = "OST01", !.wready = TRUE, !.we = TRUE, !.tc = 0]
  <2>1. [atom EXCEPT !.st = "OST01"] \in Atoms
    BY <1>2, AtomFields
  <2>2. [atom EXCEPT !.st = "OST01", !.wready = TRUE] \in Atoms
    BY <1>2a, <2>1, AtomFields
  <2>3. [atom EXCEPT !.st = "OST01", !.wready = TRUE, !.we = TRUE] \in Atoms
    BY <1>2a, <2>2, AtomFields
  <2>4. QED
    BY <1>10, <1>2a, <2>3, AtomFields
<1>11. CASE atom' = [atom EXCEPT !.st = "OST02", !.wready = TRUE, !.dc = @ + 2, !.tc = 0]
  <2>1. atom.dc + 2 \in Nat
    BY <1>1
  <2>2. [atom EXCEPT !.st = "OST02"] \in Atoms
    BY <1>2, AtomFields
  <2>3. [atom EXCEPT !.st = "OST02", !.wready = TRUE] \in Atoms
    BY <1>2a, <2>2, AtomFields
  <2>4. [atom EXCEPT !.st = "OST02", !.wready = TRUE, !.dc = @ + 2] \in Atoms
    BY <2>1, <2>3, AtomFields
  <2>5. QED
    BY <1>11, <1>2a, <2>4, AtomFields
<1>12. CASE /\ ~Async /\ (atom.st = "OST02" \/ atom.st = "OST03")
           /\ atom' = [atom EXCEPT !.st = "OST03", !.wready = FALSE,
                                   !.last = (atom.tc = 3), !.tc = @ + 1]
  <2>1. atom.tc + 1 \in 0..9 /\ (atom.tc = 3) \in BOOLEAN
    BY <1>12 DEF SyncCount
  <2>2. QED
    BY <1>2, <1>12, <2>1, AtomFields
<1>13. QED
  BY <1>4, <1>5, <1>6, <1>7, <1>8, <1>9, <1>10, <1>11, <1>12, RestIsAtom DEF AtomMoves

(* A step keeps the types.                                                 *)
LEMMA TypesStep ==
  ASSUME ControlInv, CommandMoves, AtomMoves, NEW arrives \in BOOLEAN, Path(arrives)
  PROVE  Types'
<1> USE DEF ControlInv, Types
<1>1. script' \in Seq(Item)
  BY HeadItem DEF CommandMoves, Idles
<1>2. /\ command' \in [op : {"none", "SetFeature", "ProgramPage"},
                       phase : {"ready", "latches", "data", "end"}, num : Nat]
      /\ feature' \in Word \X Word /\ asked' \in Seq(Byte)
  <2> DEFINE Right ==
        /\ command' \in [op : {"none", "SetFeature", "ProgramPage"},
                         phase : {"ready", "latches", "data", "end"}, num : Nat]
        /\ feature' \in Word \X Word /\ asked' \in Seq(Byte)
  <2>1. ASSUME NEW i \in Item, Takes(i) \/ StartsFeature(i) \/ StartsPage(i)
        PROVE  Right
    <3>1. CASE Takes(i)
      BY <3>1, ItemFields DEF Takes
    <3>2. CASE StartsFeature(i)
      <4>1. feature \in Seq(Word)
        <5>1. PICK x \in Word, y \in Word : feature = <<x, y>>
          OBVIOUS
        <5>2. QED
          BY <5>1
      <4>2. Bytes(feature) \in Seq(Byte)
        BY <4>1, BytesOfWords
      <4>3. QED
        BY <3>2, <4>2 DEF StartsFeature
    <3>3. CASE StartsPage(i)
      <4>1. i.page \in Seq(Word)
        BY <3>3, ItemFields DEF StartsPage
      <4>2. Bytes(i.page) \in Seq(Byte) /\ 2 * Len(i.page) \in Nat
        BY <4>1, BytesOfWords
      <4>3. QED
        BY <3>3, <4>2 DEF StartsPage
    <3>4. QED
      BY <2>1, <3>1, <3>2, <3>3
  <2>2. CASE script # << >> /\ \E i \in {Head(script)} : Takes(i) \/ StartsFeature(i) \/ StartsPage(i)
    BY <2>1, <2>2, HeadItem
  <2>3. CASE /\ command' \in {[command EXCEPT !.phase = "data"], [command EXCEPT !.phase = "end"], NoCommand, command}
             /\ UNCHANGED <<feature, asked>>
    <3>1. NoCommand \in [op : {"none", "SetFeature", "ProgramPage"},
                         phase : {"ready", "latches", "data", "end"}, num : Nat]
      BY DEF NoCommand
    <3>2. QED
      BY <2>3, <3>1
  <2>4. QED
    BY <2>2, <2>3 DEF CommandMoves, Idles
<1>3. WriteData \in Word
  <2>1. \A h \in 1..2 : feature[h] \in Word
    OBVIOUS
  <2>2. fifo # << >> => Head(fifo) \in Word
    OBVIOUS
  <2>3. QED
    BY <2>2, ZeroWord DEF WriteData
<1>4. half' \in [last : BOOLEAN, data : Word]
  BY DEF Path, HalfLast
<1>5. atom' \in Atoms
  BY <1>3, AtomTyped
<1>6. sent' \in Seq(Byte)
  <2>1. Given \in Seq(Byte)
    <3>1. WriteData \in Seq(Byte)
      BY <1>3, WordIsTwoBytes
    <3>2. atom'.dq \in Byte
      BY <1>5, AtomFields
    <3>3. <<atom'.dq>> \in Seq(Byte)
      BY <3>2
    <3>4. QED
      BY <3>1, <3>3 DEF Given
  <2>2. QED
    BY <2>1 DEF Path
<1>7. fifo' \in Seq(Word) /\ Len(fifo') <= Depth
  <2>1. CASE arrives
    BY <2>1 DEF Path, Popped
  <2>2. CASE ~arrives
    BY <2>2 DEF Path, Popped
  <2>3. QED
    BY <2>1, <2>2
<1>8. stream' \in Seq(Word)
  <2>1. Fetched \in Seq(Word)
    <3>1. ASSUME script' # script PROVE Head(script) \in Item
      BY <3>1, HeadItem DEF CommandMoves, Idles
    <3>2. QED
      BY <3>1, ItemFields DEF Fetched
  <2>2. QED
    BY <2>1 DEF Path
<1>9. QED
  BY <1>1, <1>2, <1>4, <1>5, <1>6, <1>7, <1>8

(* The machine commands the atom in its data phase, and only then; its op  *)
(* and length stay until it is done.                                       *)
LEMMA CommandHeld ==
  ASSUME ControlInv, CommandMoves, Commanded
  PROVE  /\ command' = IF atom.last THEN [command EXCEPT !.phase = "end"] ELSE command
         /\ command'.op = command.op /\ command'.num = command.num
         /\ command.op \in {"SetFeature", "ProgramPage"}
         /\ Async' = Async
<1>1. command' = IF atom.last THEN [command EXCEPT !.phase = "end"] ELSE command
  BY DEF CommandMoves, Takes, StartsFeature, StartsPage, Commanded, Idles
<1>2. command'.op = command.op /\ command'.num = command.num
  BY <1>1 DEF ControlInv, Types
<1>3. command.op \in {"SetFeature", "ProgramPage"}
  BY DEF ControlInv, Types, Control, Commanded
<1>4. QED
  BY <1>1, <1>2, <1>3 DEF Async, Active

(* An atom that goes to rest leaves the counters where its entry wants     *)
(* them.                                                                   *)
LEMMA RestControl ==
  ASSUME ControlInv, CommandMoves, AtomMoves, atom' = Rest
  PROVE  Control' /\ Registers' /\ SyncCount' /\ AsyncCount'
<1>1. /\ atom'.st = "READY" /\ atom'.wready = FALSE /\ atom'.last = FALSE /\ atom'.num = 0
      /\ atom'.dc = 0 /\ atom'.tc = 0 /\ atom'.we = TRUE
  BY DEF Rest
<1>2. (command'.phase = "ready" <=> command'.op = "none") /\ (command'.op = "SetFeature" => command'.num = 4)
  BY DEF CommandMoves, Takes, StartsFeature, StartsPage, Commanded, Idles, NoCommand,
         ControlInv, Types, Control, Active
<1>3. QED
  BY <1>1, <1>2 DEF Control, Registers, SyncCount, AsyncCount, Active, Async

(* While a page is sent, the words left are those not counted yet.         *)
LEMMA PageCount ==
  ASSUME ControlInv, PageInv, Commanded, ~Async
  PROVE  /\ Left \in Seq(Word) /\ atom.dc \in Nat /\ Len(asked) \in Nat
         /\ command.num = Len(asked) /\ Len(asked) = atom.dc + 2 * Len(Left)
         /\ fifo # << >> => atom.dc + 2 <= command.num
         /\ atom.st = "OST01" => fifo # << >>
         /\ WriteValid <=> fifo # << >>
<1>0. fifo \in Seq(Word) /\ stream \in Seq(Word) /\ asked \in Seq(Byte) /\ atom.dc \in Nat
  BY AtomFields DEF ControlInv, Types
<1>1. Left \in Seq(Word) /\ Len(Left) = Len(fifo) + Len(stream) /\ atom.dc \in Nat /\ Len(asked) \in Nat
  BY <1>0 DEF Left
<1>2. Active("ProgramPage") /\ ~Active("SetFeature")
  BY DEF ControlInv, Control, Types, Active, Async, Commanded
<1>3. /\ command.num = Len(asked) /\ Len(asked) = atom.dc + 2 * Len(Left)
      /\ atom.st = "OST01" => fifo # << >>
  BY <1>2 DEF PageInv, Continues, Commanded
<1>4. fifo # << >> => Len(fifo) >= 1
  BY DEF ControlInv, Types
<1>5. WriteValid <=> fifo # << >>
  BY <1>2 DEF WriteValid
<1>6. fifo # << >> => atom.dc + 2 <= command.num
  BY <1>1, <1>3, <1>4 DEF ControlInv, Types
<1>7. QED
  BY <1>1, <1>3, <1>5, <1>6

(* A step keeps the control part of the invariant.                         *)
LEMMA ControlStep ==
  ASSUME AllInv, Next
  PROVE  ControlInv'
<1> USE DEF AllInv
<1>1. CommandMoves /\ AtomMoves
  BY CommandStep
<1>2. Types'
  BY <1>1, CommandStep, TypesStep
<1>3. SUFFICES Control' /\ Registers' /\ SyncCount' /\ AsyncCount'
  BY <1>2 DEF ControlInv
<1>4. CASE ~Commanded
  BY <1>1, <1>4, AtomRests, RestControl
<1>5. CASE Commanded /\ atom' = Rest
  BY <1>1, <1>5, RestControl
<1>6. CASE Commanded /\ atom' # Rest
  <2>1. ~atom.last
    <3>1. atom.last => atom.st = "OST04" \/ (atom.st = "OST03" /\ ~Async /\ atom.tc = 4)
      BY DEF ControlInv, Registers
    <3>2. QED
      BY <1>1, <1>6, <3>1 DEF AtomMoves, AsyncByte, GoesToRest, IsCommanded, SetsUp, WaitsSetup,
              AwaitsData, FindsData, SyncWord, SyncClose, AsyncBytes, AsyncClose
  <2>2. command' = command /\ Async' = Async
    BY <1>1, <1>6, <2>1, CommandHeld
  <2>3. /\ atom.st \in States /\ atom.num \in Nat /\ atom.dc \in Nat /\ atom.tc \in 0..9
        /\ command.num \in Nat
    BY AtomFields DEF ControlInv, Types
  <2>4. atom \in Atoms
    BY DEF ControlInv, Types
  <2>5. /\ Async => command.num = 4
        /\ command.op # "none" /\ command.phase = "data"
        /\ Async <=> command.op = "SetFeature"
    BY <1>6 DEF ControlInv, Control, Async, Active, Commanded
  <2>6. /\ ~Async /\ (atom.st = "OST01" \/ WriteValid) => atom.dc + 2 <= command.num
    BY <1>6, PageCount
  <2>7. /\ atom.st \notin {"RESET", "READY", "OST04"} => atom.num = command.num
        /\ atom.st # "RESET" /\ (atom.st = "OST04" => Async)
    BY <2>5 DEF ControlInv, Control
  <2>8. Registers /\ SyncCount /\ AsyncCount
    BY DEF ControlInv
  <2> HIDE DEF Async, WriteValid, AllInv
  <2>9. CASE IsCommanded
    <3>1. /\ atom'.st = "LATCH" /\ atom'.wready = FALSE /\ atom'.last = FALSE /\ atom'.num = command.num /\ atom'.we = TRUE
          /\ atom'.dc = 0
          /\ atom'.tc = 0
      BY <2>4, <2>9 DEF Atoms, Rest, IsCommanded
    <3>2. QED
      BY <2>2, <2>3, <2>5, <2>6, <2>7, <2>8, <2>9, <3>1
         DEF Control, Registers, SyncCount, AsyncCount, Active, Commanded, IsCommanded
  <2>10. CASE SetsUp
    <3>1. /\ atom'.st = "SETUP" /\ atom'.wready = atom.wready /\ atom'.last = atom.last /\ atom'.num = atom.num /\ atom'.we = atom.we
          /\ atom'.dc = atom.dc
          /\ atom'.tc = 1
      BY <2>4, <2>10 DEF Atoms, SetsUp
    <3>2. QED
      BY <2>2, <2>3, <2>5, <2>6, <2>7, <2>8, <2>10, <3>1
         DEF Control, Registers, SyncCount, AsyncCount, Active, Commanded, SetsUp
  <2>11. CASE WaitsSetup
    <3>1. /\ atom'.st = "SETUP" /\ atom'.wready = atom.wready /\ atom'.last = atom.last /\ atom'.num = atom.num /\ atom'.we = atom.we
          /\ atom'.dc = atom.dc
          /\ atom'.tc = atom.tc + 1
      BY <2>4, <2>11 DEF Atoms, WaitsSetup
    <3>2. QED
      BY <2>2, <2>3, <2>5, <2>6, <2>7, <2>8, <2>11, <3>1
         DEF Control, Registers, SyncCount, AsyncCount, Active, Commanded, WaitsSetup
  <2>12. CASE AwaitsData
    <3>1. /\ atom'.st = "OST00" /\ atom'.wready = FALSE /\ atom'.last = atom.last /\ atom'.num = atom.num /\ atom'.we = TRUE
          /\ atom'.dc = atom.dc
          /\ atom'.tc = 0
      BY <2>4, <2>12 DEF Atoms, AwaitsData
    <3>2. QED
      BY <2>2, <2>3, <2>5, <2>6, <2>7, <2>8, <2>12, <3>1
         DEF Control, Registers, SyncCount, AsyncCount, Active, Commanded, AwaitsData
  <2>13. CASE FindsData
    <3>1. /\ atom'.st = "OST01" /\ atom'.wready = TRUE /\ atom'.last = atom.last /\ atom'.num = atom.num /\ atom'.we = TRUE
          /\ atom'.dc = atom.dc
          /\ atom'.tc = 0
      BY <2>4, <2>13 DEF Atoms, FindsData
    <3>2. QED
      BY <2>2, <2>3, <2>5, <2>6, <2>7, <2>8, <2>13, <3>1
         DEF Control, Registers, SyncCount, AsyncCount, Active, Commanded, FindsData
  <2>14. CASE SyncWord
    <3>1. /\ atom'.st = "OST02" /\ atom'.wready = TRUE /\ atom'.last = atom.last /\ atom'.num = atom.num /\ atom'.we = atom.we
          /\ atom'.dc = atom.dc + 2
          /\ atom'.tc = 0
      BY <2>4, <2>14 DEF Atoms, SyncWord
    <3>2. QED
      BY <2>2, <2>3, <2>5, <2>6, <2>7, <2>8, <2>14, <3>1
         DEF Control, Registers, SyncCount, AsyncCount, Active, Commanded, SyncWord
  <2>15. CASE SyncClose
    <3>1. /\ atom'.st = "OST03" /\ atom'.wready = FALSE /\ (atom'.last <=> atom.tc = 3) /\ atom'.num = atom.num /\ atom'.we = atom.we
          /\ atom'.dc = atom.dc
          /\ atom'.tc = atom.tc + 1
      BY <2>4, <2>15 DEF Atoms, SyncClose
    <3>2. QED
      BY <2>2, <2>3, <2>5, <2>6, <2>7, <2>8, <2>15, <3>1
         DEF Control, Registers, SyncCount, AsyncCount, Active, Commanded, SyncClose
  <2>16. CASE AsyncByte("OST01", "OST02")
    <3>1. /\ atom'.st = "OST02" /\ atom'.wready = FALSE /\ atom'.last = FALSE /\ atom'.num = atom.num /\ (atom'.we <=> atom.tc > 4)
          /\ atom'.dc = IF atom.tc = 4 THEN atom.dc + 1 ELSE atom.dc
          /\ atom'.tc = IF atom.tc = 9 THEN 0 ELSE atom.tc + 1
      BY <2>4, <2>16 DEF Atoms, AsyncByte
    <3>2. QED
      BY <2>2, <2>3, <2>5, <2>6, <2>7, <2>8, <2>16, <3>1
         DEF Control, Registers, SyncCount, AsyncCount, Active, Commanded, AsyncByte
  <2>17. CASE atom.tc < 9 /\ AsyncByte("OST02", "OST02")
    <3>1. /\ atom'.st = "OST02" /\ atom'.wready = FALSE /\ atom'.last = FALSE /\ atom'.num = atom.num /\ (atom'.we <=> atom.tc > 4)
          /\ atom'.dc = IF atom.tc = 4 THEN atom.dc + 1 ELSE atom.dc
          /\ atom'.tc = IF atom.tc = 9 THEN 0 ELSE atom.tc + 1
      BY <2>4, <2>17 DEF Atoms, AsyncByte
    <3>2. QED
      BY <2>2, <2>3, <2>5, <2>6, <2>7, <2>8, <2>17, <3>1
         DEF Control, Registers, SyncCount, AsyncCount, Active, Commanded, AsyncByte
  <2>18. CASE atom.tc = 9 /\ AsyncByte("OST02", "OST03")
    <3>1. /\ atom'.st = "OST03" /\ atom'.wready = FALSE /\ atom'.last = FALSE /\ atom'.num = atom.num /\ (atom'.we <=> atom.tc > 4)
          /\ atom'.dc = IF atom.tc = 4 THEN atom.dc + 1 ELSE atom.dc
          /\ atom'.tc = IF atom.tc = 9 THEN 0 ELSE atom.tc + 1
      BY <2>4, <2>18 DEF Atoms, AsyncByte
    <3>2. QED
      BY <2>2, <2>3, <2>5, <2>6, <2>7, <2>8, <2>18, <3>1
         DEF Control, Registers, SyncCount, AsyncCount, Active, Commanded, AsyncByte
  <2>19. CASE atom.tc < 9 /\ AsyncByte("OST03", "OST03")
    <3>1. /\ atom'.st = "OST03" /\ atom'.wready = FALSE /\ atom'.last = FALSE /\ atom'.num = atom.num /\ (atom'.we <=> atom.tc > 4)
          /\ atom'.dc = IF atom.tc = 4 THEN atom.dc + 1 ELSE atom.dc
          /\ atom'.tc = IF atom.tc = 9 THEN 0 ELSE atom.tc + 1
      BY <2>4, <2>19 DEF Atoms, AsyncByte
    <3>2. QED
      BY <2>2, <2>3, <2>5, <2>6, <2>7, <2>8, <2>19, <3>1
         DEF Control, Registers, SyncCount, AsyncCount, Active, Commanded, AsyncByte
  <2>20. CASE AsyncClose
    <3>1. /\ atom'.st = "OST04" /\ atom'.wready = FALSE /\ atom'.last = TRUE /\ atom'.num = 0 /\ atom'.we = TRUE
          /\ atom'.dc = 0
          /\ atom'.tc = 0
      BY <2>4, <2>20 DEF Atoms, Rest, AsyncClose
    <3>2. QED
      BY <2>2, <2>3, <2>5, <2>6, <2>7, <2>8, <2>20, <3>1
         DEF Control, Registers, SyncCount, AsyncCount, Active, Commanded, AsyncClose
  <2>21. QED
    BY <1>1, <1>6, <2>9, <2>10, <2>11, <2>12, <2>13, <2>14, <2>15, <2>16, <2>17, <2>18, <2>19, <2>20
       DEF AtomMoves, GoesToRest, AsyncBytes
<1>7. QED
  BY <1>4, <1>5, <1>6

(***************************************************************************)
(* The page.                                                               *)
(***************************************************************************)

(* A word that arrives goes from the head of one queue to the end of the   *)
(* other; one that is taken leaves their concatenation at its head.        *)
LEMMA Arrival ==
  ASSUME NEW f \in Seq(Word), NEW s \in Seq(Word), s # << >>
  PROVE  (f \o <<Head(s)>>) \o Tail(s) = f \o s
<1>1. s = <<Head(s)>> \o Tail(s)
  OBVIOUS
<1>2. <<Head(s)>> \in Seq(Word) /\ Tail(s) \in Seq(Word)
  OBVIOUS
<1>3. QED
  BY <1>1, <1>2, ConcatAssociative

(* A word that leaves the FIFO leaves the words still to come, front       *)
(* first.                                                                  *)
LEMMA Departure ==
  ASSUME NEW f \in Seq(Word), NEW s \in Seq(Word), f # << >>
  PROVE  Tail(f) \o s = Tail(f \o s) /\ Head(f) = Head(f \o s) /\ f \o s # << >>
OBVIOUS

(* The words left are those left before, less the one popped.              *)
LEMMA LeftStep ==
  ASSUME ControlInv, NEW arrives \in BOOLEAN, Path(arrives), Fetched = << >>
  PROVE  Left' = IF Popped THEN Tail(Left) ELSE Left
<1>1. fifo \in Seq(Word) /\ stream \in Seq(Word)
  BY DEF ControlInv, Types
<1> DEFINE rest == IF Popped THEN Tail(fifo) ELSE fifo
<1>2. rest \in Seq(Word) /\ (Popped => fifo # << >>)
  BY <1>1 DEF Popped
<1>3. Left' = rest \o stream
  <2>1. CASE arrives
    <3>1. fifo' = rest \o <<Head(stream)>> /\ stream' = Tail(stream) /\ stream # << >>
      BY <1>1, <2>1 DEF Path
    <3>2. QED
      BY <1>1, <1>2, <3>1, Arrival DEF Left
  <2>2. CASE ~arrives
    BY <1>1, <1>2, <2>2 DEF Path, Left
  <2>3. QED
    BY <2>1, <2>2
<1>4. QED
  BY <1>1, <1>2, <1>3, Departure DEF Left

(* The script moves only when a command is taken from it.                  *)
LEMMA FetchedIs ==
  ASSUME ControlInv, CommandMoves
  PROVE  /\ \A i : StartsPage(i) /\ i = Head(script) /\ script # << >> /\ script' = Tail(script) =>
              Fetched = i.page
         /\ (command.phase # "ready" \/ script' = script) => Fetched = << >>
         /\ \A i : (Takes(i) \/ StartsFeature(i)) /\ i = Head(script) => Fetched = << >>
<1>1. command.phase # "ready" => script' = script
  BY DEF CommandMoves, Idles, Takes, StartsFeature, StartsPage
<1>2. script # << >> => Tail(script) # script
  <2>1. script # << >> => Len(Tail(script)) # Len(script)
    BY DEF ControlInv, Types
  <2>2. QED
    BY <2>1
<1>3. QED
  BY <1>1, <1>2 DEF Fetched, Takes, StartsFeature, StartsPage

(* Without the page machine nothing is queued, and nothing comes.          *)
LEMMA QueuesStayEmpty ==
  ASSUME ControlInv, NEW arrives \in BOOLEAN, Path(arrives), Fetched = << >>,
         fifo = << >>, stream = << >>
  PROVE  fifo' = << >> /\ stream' = << >>
BY DEF Path, Popped

(* Between commands the chip is given nothing.                             *)
LEMMA NothingGiven ==
  ASSUME ControlInv, AtomMoves, ~Commanded
  PROVE  Given = << >>
<1>1. atom' = Rest /\ atom.we
  BY AtomRests DEF ControlInv, Control, Registers
<1>2. atom'.st = "READY"
  BY <1>1 DEF Rest
<1>3. QED
  BY <1>1, <1>2 DEF Given

(* One clock of the data phase of a page: either nothing moves but words   *)
(* into the FIFO, or its first word goes to the chip and is counted.       *)
PageByte == SyncWord /\ Popped /\ Given = Head(fifo) /\ atom'.dc = atom.dc + 2
PageWait ==
  /\ ~Popped /\ Given = << >>
  /\ \/ atom'.dc = atom.dc /\ ~atom.last
     \/ atom.last /\ atom.dc = atom.num /\ atom' = Rest
  /\ atom'.st = "OST01" => fifo # << >>

(* A clock of a page program gives two bytes to the bus or none.           *)
LEMMA PageClock ==
  ASSUME ControlInv, PageInv, AtomMoves, Commanded, Active("ProgramPage")
  PROVE  PageByte \/ PageWait
<1>1. ~Async /\ command.phase = "data"
  BY DEF Active, Async, Commanded
<1>2. /\ atom \in Atoms /\ atom.st \in States /\ atom.dc \in Nat /\ atom.tc \in 0..9
  BY AtomFields DEF ControlInv, Types
<1>3. /\ Popped <=> atom.wready /\ fifo # << >>
      /\ atom.wready <=> atom.st \in {"OST01", "OST02"}
      /\ atom.last <=> atom.st = "OST03" /\ atom.tc = 4
  BY <1>1, <1>2 DEF Popped, WriteReady, ControlInv, Registers, Control, States
<1>4. /\ atom.st = "OST01" => fifo # << >>
      /\ WriteValid <=> fifo # << >>
      /\ atom.dc = atom.num /\ atom.num = command.num => fifo = << >>
  <2>1. fifo # << >> => atom.dc + 2 <= command.num
    BY <1>1, PageCount
  <2>2. QED
    BY <1>1, <1>2, <2>1, PageCount
<1>5. WriteData = IF fifo # << >> THEN Head(fifo) ELSE <<Zero, Zero>>
  BY DEF WriteData, Active
<1>6. Given = IF atom'.st = "OST02" THEN WriteData ELSE << >>
  BY <1>1 DEF Given
<1>7. CASE GoesToRest
  <2>1. atom.st \in {"READY", "OST03"} /\ (atom.st = "OST03" => atom.last)
    BY <1>1, <1>7 DEF GoesToRest, ControlInv, Control
  <2>2. atom'.st = "READY" /\ atom'.dc = 0 /\ ~Popped
    BY <1>3, <1>7, <2>1 DEF GoesToRest, Rest
  <2>3. atom.st = "READY" => atom.dc = 0 /\ ~atom.last
    BY <1>3 DEF ControlInv, Registers
  <2>4. atom.st = "OST03" => atom.dc = atom.num
    BY <1>1 DEF ControlInv, SyncCount
  <2>5. QED
    BY <1>6, <1>7, <2>1, <2>2, <2>3, <2>4 DEF PageWait, GoesToRest
<1>8. CASE IsCommanded
  <2>1. atom'.st = "LATCH" /\ atom'.dc = 0 /\ atom.st = "READY" /\ atom.dc = 0
    BY <1>8 DEF IsCommanded, Rest, ControlInv, Registers
  <2>2. QED
    BY <1>3, <1>6, <2>1 DEF PageWait
<1>9. CASE SetsUp \/ WaitsSetup
  <2>1. atom'.st = "SETUP" /\ atom'.dc = atom.dc /\ atom.st \in {"LATCH", "SETUP"}
    BY <1>2, <1>9 DEF SetsUp, WaitsSetup, Atoms
  <2>2. QED
    BY <1>3, <1>6, <2>1 DEF PageWait
<1>10. CASE AwaitsData
  <2>1. /\ atom'.st = "OST00" /\ atom'.dc = atom.dc /\ atom.st \in {"SETUP", "OST00", "OST02"}
        /\ atom.st = "OST02" => fifo = << >>
    BY <1>1, <1>2, <1>4, <1>10 DEF AwaitsData, Atoms
  <2>2. QED
    BY <1>3, <1>6, <2>1 DEF PageWait
<1>11. CASE FindsData
  <2>1. atom'.st = "OST01" /\ atom'.dc = atom.dc /\ atom.st = "OST00" /\ fifo # << >>
    BY <1>2, <1>4, <1>11 DEF FindsData, Atoms
  <2>2. QED
    BY <1>3, <1>6, <2>1 DEF PageWait
<1>12. CASE SyncWord
  <2>1. atom'.st = "OST02" /\ atom'.dc = atom.dc + 2 /\ fifo # << >> /\ atom.wready
    BY <1>2, <1>3, <1>4, <1>12 DEF SyncWord, Atoms
  <2>2. QED
    BY <1>3, <1>5, <1>6, <1>12, <2>1 DEF PageByte
<1>13. CASE SyncClose
  <2>1. atom'.st = "OST03" /\ atom'.dc = atom.dc /\ ~atom.last /\ atom.st \in {"OST02", "OST03"}
    BY <1>2, <1>13 DEF SyncClose, Atoms
  <2>2. atom.st = "OST02" => atom.dc = atom.num /\ atom.num = command.num
    BY <1>13 DEF SyncClose, ControlInv, Control
  <2>3. QED
    BY <1>3, <1>4, <1>6, <2>1, <2>2 DEF PageWait
<1>14. ~AsyncBytes /\ ~AsyncClose
  BY <1>1 DEF AsyncBytes, AsyncByte, AsyncClose
<1>15. QED
  BY <1>7, <1>8, <1>9, <1>10, <1>11, <1>12, <1>13, <1>14 DEF AtomMoves

(* A page program starts with all of its page still to come.               *)
LEMMA PageStarts ==
  ASSUME ControlInv, NEW i \in Item, StartsPage(i), script # << >>, i = Head(script),
         script' = Tail(script), CommandMoves, AtomMoves,
         NEW arrives \in BOOLEAN, Path(arrives), fifo = << >>, stream = << >>
  PROVE  PageInv'
<1>1. i.page \in Seq(Word)
  BY ItemFields DEF StartsPage
<1>2. fifo' = << >> /\ stream' = i.page
  <2>1. Fetched = i.page
    BY FetchedIs
  <2>2. ~arrives
    BY DEF Path
  <2>3. ~Popped
    BY DEF Popped
  <2>4. QED
    BY <1>1, <2>1, <2>2, <2>3 DEF Path
<1>3. Left' = i.page
  BY <1>1, <1>2 DEF Left
<1>4. ~Commanded
  BY DEF StartsPage, Commanded
<1>5. atom' = Rest
  BY <1>4, AtomRests
<1>6. atom'.dc = 0 /\ atom'.st = "READY"
  BY <1>5 DEF Rest
<1>7. /\ command'.op = "ProgramPage" /\ command'.phase = "latches"
      /\ command'.num = 2 * Len(i.page) /\ asked' = Bytes(i.page)
  BY DEF StartsPage
<1>8. /\ Len(asked') = 2 * Len(i.page)
      /\ \A k \in 1..Len(i.page) : asked'[2 * k - 1] = i.page[k][1] /\ asked'[2 * k] = i.page[k][2]
  BY <1>1, <1>7, BytesOfWords
<1>9. Len(i.page) \in Nat
  BY <1>1
<1>10. Continues(0)'
  <2>1. \A k \in 1..Len(i.page) : 0 + 2 * k - 1 = 2 * k - 1 /\ 0 + 2 * k = 2 * k
    BY <1>9
  <2>2. QED
    BY <1>3, <1>8, <1>9, <2>1 DEF Continues
<1>11. QED
  BY <1>6, <1>7, <1>8, <1>10 DEF PageInv, Active

(* The first word left is the next two bytes asked for.                    *)
LEMMA ContinuesStep ==
  ASSUME asked \in Seq(Byte), Left \in Seq(Word), Left # << >>, NEW n \in Nat, Continues(n)
  PROVE  /\ Len(asked) = n + 2 + 2 * Len(Tail(Left))
         /\ \A i \in 1..Len(Tail(Left)) : /\ asked[n + 2 + 2 * i - 1] = Tail(Left)[i][1]
                                          /\ asked[n + 2 + 2 * i] = Tail(Left)[i][2]
         /\ asked[n + 1] = Head(Left)[1] /\ asked[n + 2] = Head(Left)[2]
<1>1. Len(Left) \in Nat /\ Len(Left) >= 1 /\ Len(Tail(Left)) = Len(Left) - 1 /\ Head(Left) = Left[1]
  OBVIOUS
<1>2. \A i \in 1..Len(Tail(Left)) : Tail(Left)[i] = Left[i + 1]
  OBVIOUS
<1>3. Len(asked) = n + 2 + 2 * Len(Tail(Left))
  BY <1>1 DEF Continues
<1>4. ASSUME NEW i \in 1..Len(Tail(Left))
      PROVE  asked[n + 2 + 2 * i - 1] = Tail(Left)[i][1] /\ asked[n + 2 + 2 * i] = Tail(Left)[i][2]
  <2>1. i + 1 \in 1..Len(Left)
    BY <1>1
  <2>2. n + 2 * (i + 1) - 1 = n + 2 + 2 * i - 1 /\ n + 2 * (i + 1) = n + 2 + 2 * i
    OBVIOUS
  <2>3. QED
    BY <1>2, <2>1, <2>2 DEF Continues
<1>5. asked[n + 1] = Head(Left)[1] /\ asked[n + 2] = Head(Left)[2]
  <2>1. 1 \in 1..Len(Left) /\ n + 2 * 1 - 1 = n + 1 /\ n + 2 * 1 = n + 2
    BY <1>1
  <2>2. QED
    BY <1>1, <2>1 DEF Continues
<1>6. QED
  BY <1>3, <1>4, <1>5

(* A word that continues what was sent keeps it a prefix of what was       *)
(* asked.                                                                  *)
LEMMA PrefixGrows ==
  ASSUME asked \in Seq(Byte), sent \in Seq(Byte), Prefix, NEW w \in Word,
         Len(sent) + 2 <= Len(asked),
         asked[Len(sent) + 1] = w[1], asked[Len(sent) + 2] = w[2]
  PROVE  /\ Len(sent \o w) = Len(sent) + 2
         /\ \A i \in 1..Len(sent \o w) : (sent \o w)[i] = asked[i]
<1>1. w \in Seq(Byte) /\ Len(w) = 2
  BY WordIsTwoBytes
<1>2. Len(sent \o w) = Len(sent) + 2 /\ Len(sent) \in Nat
  <2>1. Len(sent \o w) = Len(sent) + Len(w)
    BY <1>1, ConcatProperties, Zenon
  <2>2. Len(sent) \in Nat
    OBVIOUS
  <2>3. QED
    BY <1>1, <2>1, <2>2
<1>3. ASSUME NEW i \in 1..Len(sent \o w) PROVE (sent \o w)[i] = asked[i]
  <2>1. (sent \o w)[i] = IF i <= Len(sent) THEN sent[i] ELSE w[i - Len(sent)]
    BY <1>1, <1>2, ConcatProperties
  <2>2. i <= Len(sent) \/ i = Len(sent) + 1 \/ i = Len(sent) + 2
    BY <1>2
  <2>3. QED
    BY <1>2, <2>1, <2>2 DEF Prefix
<1>4. QED
  BY <1>2, <1>3

(* A step keeps the page part of the invariant.                            *)
LEMMA PageStep ==
  ASSUME AllInv, Next
  PROVE  PageInv'
<1>1. PICK arrives \in BOOLEAN : Path(arrives)
  BY CommandStep DEF AllInv
<1>2. ControlInv /\ PageInv /\ CommandMoves /\ AtomMoves
  BY CommandStep DEF AllInv
<1>3a. /\ fifo \in Seq(Word) /\ stream \in Seq(Word) /\ asked \in Seq(Byte) /\ sent \in Seq(Byte)
       /\ atom.dc \in Nat /\ script \in Seq(Item)
  BY <1>2, AtomFields DEF ControlInv, Types
<1>3b. Left \in Seq(Word)
  BY <1>3a DEF Left
<1>3c. /\ command.op \in {"none", "SetFeature", "ProgramPage"}
       /\ command.phase \in {"ready", "latches", "data", "end"}
       /\ command.phase = "ready" <=> command.op = "none"
  BY <1>2 DEF ControlInv, Types, Control, Active
<1>3. /\ fifo \in Seq(Word) /\ stream \in Seq(Word) /\ asked \in Seq(Byte) /\ sent \in Seq(Byte)
      /\ atom.dc \in Nat /\ Left \in Seq(Word) /\ script \in Seq(Item)
      /\ command.op \in {"none", "SetFeature", "ProgramPage"}
      /\ command.phase \in {"ready", "latches", "data", "end"}
      /\ command.phase = "ready" <=> command.op = "none"
  BY <1>3a, <1>3b, <1>3c
<1>4. CASE ~Active("ProgramPage") \/ command.phase = "end"
  <2>1. fifo = << >> /\ stream = << >>
    BY <1>2, <1>4 DEF PageInv
  <2>2. CASE \E i \in {Head(script)} : script # << >> /\ script' = Tail(script) /\ StartsPage(i)
    BY <1>1, <1>2, <1>3, <2>1, <2>2, HeadItem, PageStarts
  <2>3. CASE \E i \in {Head(script)} : Takes(i) \/ StartsFeature(i)
    <3>1. fifo' = << >> /\ stream' = << >>
      BY <1>1, <1>2, <2>1, <2>3, FetchedIs, QueuesStayEmpty
    <3>2. command'.op # "ProgramPage"
      BY <1>3, <2>3 DEF Takes, StartsFeature
    <3>3. QED
      BY <3>1, <3>2 DEF PageInv, Active
  <2>4. CASE command.phase # "ready" \/ script' = script
    <3>1. fifo' = << >> /\ stream' = << >>
      BY <1>1, <1>2, <2>1, <2>4, FetchedIs, QueuesStayEmpty
    <3>2. CASE command'.op # "ProgramPage"
      BY <3>1, <3>2 DEF PageInv, Active
    <3>3. CASE command'.op = "ProgramPage"
      <4>1. command.phase = "end" /\ command' = command /\ asked' = asked
        BY <1>2, <1>3, <1>4, <2>4, <3>3 DEF CommandMoves, Takes, StartsFeature, StartsPage, Idles,
           NoCommand, Commanded, Active, ControlInv, Types
      <4>2. ~Commanded
        BY <4>1 DEF Commanded
      <4>3. Given = << >> /\ atom' = Rest
        BY <1>2, <4>2, NothingGiven, AtomRests
      <4>4. sent' = sent
        BY <1>1, <1>3, <4>1, <4>3 DEF Path
      <4>5. atom'.st = "READY"
        BY <4>3 DEF Rest
      <4>6. QED
        BY <1>2, <3>1, <3>3, <4>1, <4>4, <4>5 DEF PageInv, Active, Prefix
    <3>4. QED
      BY <3>2, <3>3
  <2>5. QED
    BY <1>2, <2>2, <2>3, <2>4 DEF CommandMoves, Idles, Commanded
<1>5. CASE Active("ProgramPage") /\ command.phase = "latches"
  <2>1. Left' = Left /\ asked' = asked
    <3>1. ~Popped /\ Fetched = << >>
      BY <1>2, <1>5, FetchedIs DEF Popped, WriteReady, Commanded
    <3>2. Left' = Left
      BY <1>1, <1>2, <3>1, LeftStep
    <3>3. asked' = asked
      BY <1>2, <1>5 DEF CommandMoves, Takes, StartsFeature, StartsPage, Idles, Commanded
    <3>4. QED
      BY <3>2, <3>3
  <2>2. atom.dc = 0 /\ atom'.dc = 0 /\ atom'.st = "READY"
    <3>1. atom' = Rest
      BY <1>2, <1>5, AtomRests DEF Commanded
    <3>2. QED
      BY <1>2, <1>5, <3>1 DEF Rest, ControlInv, Control, Registers, Commanded
  <2>3. sent' = << >>
    BY <1>1, <1>5 DEF Path
  <2>4. command'.op = command.op /\ command'.num = command.num /\ command'.phase \in {"latches", "data"}
    BY <1>2, <1>5 DEF CommandMoves, Takes, StartsFeature, StartsPage, Idles, Commanded,
       ControlInv, Types
  <2>5. Continues(0)'
    BY <1>2, <1>5, <2>1, <2>2 DEF PageInv, Continues
  <2>6. QED
    BY <1>2, <1>3, <1>5, <2>1, <2>2, <2>3, <2>4, <2>5 DEF PageInv, Active, Prefix
<1>6. CASE Active("ProgramPage") /\ command.phase = "data"
  <2>1. Commanded
    BY <1>6 DEF Commanded
  <2>2. Fetched = << >> /\ asked' = asked
    BY <1>2, <1>6, <2>1, FetchedIs DEF CommandMoves, Takes, StartsFeature, StartsPage, Idles
  <2>3. sent' = sent \o Given
    BY <1>1, <1>6 DEF Path
  <2>4. Left' = IF Popped THEN Tail(Left) ELSE Left
    BY <1>1, <1>2, <2>2, LeftStep
  <2>5. /\ command' = IF atom.last THEN [command EXCEPT !.phase = "end"] ELSE command
        /\ command'.op = command.op /\ command'.num = command.num
    BY <1>2, <2>1, CommandHeld
  <2>6. /\ Continues(atom.dc) /\ Prefix /\ Len(sent) = atom.dc /\ command.num = Len(asked)
    BY <1>2, <1>6 DEF PageInv
  <2>7. CASE PageByte
    <3>1. ~atom.last /\ command' = command
      BY <2>5, <2>7, <1>2 DEF PageByte, SyncWord, ControlInv, Registers
    <3>2. Left # << >> /\ Head(Left) = Head(fifo) /\ Head(fifo) \in Word
      BY <1>3, <2>7, Departure DEF PageByte, Popped, Left
    <3>3. Left' = Tail(Left)
      BY <2>4, <2>7 DEF PageByte
    <3>4. atom'.dc = atom.dc + 2 /\ atom'.st = "OST02"
      BY <2>7, <1>2 DEF PageByte, SyncWord, ControlInv, Types, Atoms
    <3>5. /\ Len(asked) = atom.dc + 2 + 2 * Len(Tail(Left))
          /\ \A i \in 1..Len(Tail(Left)) : /\ asked[atom.dc + 2 + 2 * i - 1] = Tail(Left)[i][1]
                                           /\ asked[atom.dc + 2 + 2 * i] = Tail(Left)[i][2]
          /\ asked[atom.dc + 1] = Head(Left)[1] /\ asked[atom.dc + 2] = Head(Left)[2]
      BY <1>3, <2>6, <3>2, ContinuesStep
    <3>6. Continues(atom.dc)'
      BY <2>2, <3>3, <3>4, <3>5 DEF Continues
    <3>7. Tail(Left) \in Seq(Word) /\ Len(Tail(Left)) \in Nat /\ Len(asked) \in Nat
      BY <1>3, <3>2
    <3>8. Len(sent) + 2 <= Len(asked)
      BY <1>3, <2>6, <3>5, <3>7
    <3>9. /\ Len(sent \o Head(fifo)) = Len(sent) + 2
          /\ \A i \in 1..Len(sent \o Head(fifo)) : (sent \o Head(fifo))[i] = asked[i]
      BY <1>3, <2>6, <3>2, <3>5, <3>8, PrefixGrows
    <3>10. sent' = sent \o Head(fifo)
      BY <2>3, <2>7 DEF PageByte
    <3>11. Prefix' /\ Len(sent') = atom'.dc
      BY <2>2, <2>6, <3>4, <3>8, <3>9, <3>10 DEF Prefix
    <3>12. QED
      BY <1>6, <2>2, <2>6, <3>1, <3>4, <3>6, <3>11 DEF PageInv, Active
  <2>8. CASE PageWait
    <3>1. sent' = sent /\ Left' = Left
      BY <1>3, <2>3, <2>4, <2>8 DEF PageWait
    <3>2. CASE ~atom.last
      <4>1. command' = command /\ atom'.dc = atom.dc
        BY <2>5, <2>8, <3>2 DEF PageWait
      <4>2. Continues(atom.dc)' /\ Prefix' /\ Len(sent') = atom'.dc
        BY <2>2, <2>6, <3>1, <4>1 DEF Continues, Prefix
      <4>3. fifo # << >> => fifo' # << >>
        BY <1>1, <1>3, <2>8 DEF Path, PageWait
      <4>4. QED
        BY <1>6, <2>2, <2>6, <2>8, <4>1, <4>2, <4>3 DEF PageInv, Active, PageWait
    <3>3. CASE atom.last
      <4>1. command'.phase = "end" /\ atom.dc = atom.num /\ atom' = Rest
        BY <1>2, <2>5, <2>8, <3>3 DEF PageWait, ControlInv, Types
      <4>2. atom.num = command.num
        BY <1>2, <1>6, <3>3 DEF ControlInv, Registers, Control, Active, Async
      <4>3. Len(Left) = 0
        BY <1>3, <2>6, <4>1, <4>2 DEF Continues
      <4>4. Left' = << >>
        BY <1>3, <3>1, <4>3
      <4>5. fifo' = << >> /\ stream' = << >>
        <5>1. fifo' \in Seq(Word) /\ stream' \in Seq(Word)
          BY <1>1, <1>2, TypesStep DEF Types
        <5>2. QED
          BY <4>4, <5>1, ConcatEqualIffEmpty DEF Left
      <4>6. atom'.st = "READY"
        BY <4>1 DEF Rest
      <4>7. Prefix' /\ Len(sent') = Len(asked')
        BY <2>2, <2>6, <3>1, <4>1, <4>2 DEF Prefix
      <4>8. QED
        BY <2>2, <2>5, <2>6, <4>1, <4>5, <4>6, <4>7 DEF PageInv, Active
    <3>4. QED
      BY <3>2, <3>3
  <2>9. QED
    BY <1>2, <1>6, <2>1, <2>7, <2>8, PageClock
<1>7. QED
  BY <1>3, <1>4, <1>5, <1>6 DEF Active

(* The invariant holds in every state.                                     *)
LEMMA AllInvariant == Spec => []AllInv
<1>1. AllInv /\ [Next]_vars => AllInv'
  <2>1. AllInv /\ Next => AllInv'
    BY ControlStep, PageStep DEF AllInv
  <2>2. AllInv /\ UNCHANGED vars => AllInv'
    BY DEF vars, AllInv, ControlInv, Types, Control, Registers, SyncCount, AsyncCount, PageInv,
           Active, Commanded, Async, Left, Continues, Prefix
  <2>3. QED
    BY <2>1, <2>2
<1>2. QED
  BY <1>1, InitAll, PTL DEF Spec

(***************************************************************************)
(* The feature word.                                                       *)
(***************************************************************************)
GivesByte == Given = <<asked[Count + 1]>> /\ Count' = Count + 1 /\ Count + 1 <= 4
GivesNone == Given = << >> /\ (Count' = Count \/ (atom.last /\ Count = 4 /\ atom' = Rest))
DataHeld == atom'.st \in {"OST02", "OST03"} => atom'.data = feature[IF half'.last THEN 1 ELSE 2]

(* The asynchronous transitions give the feature's bytes in order, each    *)
(* while the word that holds it is offered.                                *)
LEMMA FeatureByte ==
  ASSUME ControlInv, FeatureInv, NEW arrives \in BOOLEAN, Path(arrives), Commanded,
         Active("SetFeature"),
         NEW from \in {"OST01", "OST02", "OST03"}, NEW to \in {"OST02", "OST03"},
         AsyncByte(from, to),
         from = "OST01" => to = "OST02",
         from = "OST02" => (to = "OST03" <=> atom.tc = 9),
         from = "OST03" => to = "OST03" /\ atom.tc < 9
  PROVE  Offer' /\ DataHeld /\ (GivesByte \/ GivesNone)
<1>1. /\ atom \in Atoms /\ atom.dc \in Nat /\ atom.tc \in 0..9
      /\ feature \in Word \X Word /\ half.last \in BOOLEAN
  BY AtomFields DEF ControlInv, Types
<1>2. Async /\ atom.st = from
  BY DEF Async, AsyncByte
<1>3. /\ atom'.st = to /\ atom'.dc = IF atom.tc = 4 THEN atom.dc + 1 ELSE atom.dc
      /\ atom'.tc = IF atom.tc = 9 THEN 0 ELSE atom.tc + 1
      /\ atom'.we <=> atom.tc > 4
      /\ atom'.data = IF from = "OST01" THEN WriteData ELSE atom.data
      /\ atom'.dq = atom.data[IF to = "OST02" THEN 1 ELSE 2]
  BY <1>1 DEF AsyncByte, Atoms
<1>4. WriteReady <=> from = "OST01"
  BY <1>2 DEF WriteReady, ControlInv, Registers
<1>5. half'.last <=> (IF from = "OST01" THEN ~half.last ELSE half.last)
  BY <1>1, <1>4 DEF Path, HalfLast
<1>6. WriteData = half.data /\ half.data = feature[IF half.last THEN 2 ELSE 1]
  BY DEF WriteData, FeatureInv, Active
<1>7. /\ from = "OST01" => atom.tc = 0 /\ atom.dc \in {0, 2}
      /\ from = "OST02" => atom.tc # 0 /\ atom.dc \in IF atom.tc < 5 THEN {0, 2} ELSE {1, 3}
      /\ from = "OST03" => atom.dc \in IF atom.tc < 5 THEN {1, 3} ELSE {2, 4}
      /\ from \in {"OST02", "OST03"} => (atom.we <=> atom.tc > 5 \/ atom.tc = 0)
      /\ from = "OST01" => atom.we
  BY <1>2 DEF ControlInv, Registers, AsyncCount
<1>8. /\ from = "OST01" => (half.last <=> atom.dc = 2)
      /\ from = "OST02" => (half.last <=> atom.dc < 2)
      /\ from = "OST03" => (half.last <=> atom.dc < 2 \/ (atom.dc = 2 /\ atom.tc >= 5))
      /\ from \in {"OST02", "OST03"} => atom.data = feature[IF half.last THEN 1 ELSE 2]
      /\ asked = <<feature[1][1], feature[1][2], feature[2][1], feature[2][2]>>
  BY <1>1, <1>2 DEF FeatureInv, Offer
<1>9. Offer'
  <2>1. CASE to = "OST02"
    <3>1. half'.last <=> atom'.dc < 2
      BY <1>1, <1>3, <1>5, <1>7, <1>8, <2>1
    <3>2. QED
      BY <1>3, <2>1, <3>1 DEF Offer
  <2>2. CASE to = "OST03"
    <3>1. half'.last <=> atom'.dc < 2 \/ (atom'.dc = 2 /\ atom'.tc >= 5)
      BY <1>1, <1>3, <1>5, <1>7, <1>8, <2>2
    <3>2. QED
      BY <1>3, <2>2, <3>1 DEF Offer
  <2>3. QED
    BY <2>1, <2>2
<1>10. DataHeld
  BY <1>1, <1>3, <1>5, <1>6, <1>8 DEF DataHeld
<1>11. Given = IF atom'.we /\ ~atom.we THEN <<atom'.dq>> ELSE << >>
  BY <1>2 DEF Given
<1>12. /\ Count = IF from \in {"OST02", "OST03"} /\ atom.tc = 5 THEN atom.dc - 1 ELSE atom.dc
       /\ Count' = IF atom'.tc = 5 THEN atom'.dc - 1 ELSE atom'.dc
  BY <1>2, <1>3 DEF Count, Out
<1>13. CASE from \in {"OST02", "OST03"} /\ atom.tc = 5
  <2>1. Given = <<atom.data[IF to = "OST02" THEN 1 ELSE 2]>> /\ to = from
    BY <1>1, <1>3, <1>7, <1>11, <1>13
  <2>2. Count = atom.dc - 1 /\ Count' = atom.dc
    BY <1>1, <1>3, <1>12, <1>13
  <2>3. atom.dc \in 1..4 /\ asked[atom.dc] = atom.data[IF to = "OST02" THEN 1 ELSE 2]
    <3>1. CASE to = "OST02"
      BY <1>1, <1>7, <1>8, <1>13, <2>1, <3>1
    <3>2. CASE to = "OST03"
      BY <1>1, <1>7, <1>8, <1>13, <2>1, <3>2
    <3>3. QED
      BY <3>1, <3>2
  <2>4. Count + 1 = atom.dc
    BY <1>1, <2>2
  <2>5. QED
    BY <1>1, <1>9, <1>10, <2>1, <2>2, <2>3, <2>4 DEF GivesByte
<1>14. CASE ~(from \in {"OST02", "OST03"} /\ atom.tc = 5)
  <2>1. Given = << >>
    BY <1>1, <1>3, <1>7, <1>11, <1>14
  <2>2. Count' = Count
    BY <1>1, <1>3, <1>7, <1>12, <1>14
  <2>3. QED
    BY <1>9, <1>10, <2>1, <2>2 DEF GivesNone
<1>15. QED
  BY <1>13, <1>14

(* A clock of SET FEATURES gives the next byte or none, and holds the      *)
(* data.                                                                   *)
LEMMA FeatureClock ==
  ASSUME ControlInv, FeatureInv, AtomMoves, NEW arrives \in BOOLEAN, Path(arrives), Commanded,
         Active("SetFeature")
  PROVE  Offer' /\ DataHeld /\ (GivesByte \/ GivesNone)
<1>1. Async /\ command.phase = "data" /\ WriteValid /\ atom \in Atoms /\ atom.dc \in Nat
      /\ half.last \in BOOLEAN
  BY AtomFields DEF Async, Commanded, WriteValid, ControlInv, Types
<1>2. CASE AsyncBytes
  BY <1>2, FeatureByte DEF AsyncBytes
<1>3. ~SyncWord /\ ~SyncClose
  BY <1>1 DEF SyncWord, SyncClose
<1>4. CASE GoesToRest \/ IsCommanded \/ SetsUp \/ WaitsSetup \/ AwaitsData \/ FindsData \/ AsyncClose
  <2>1. /\ atom.st # "OST01" /\ (atom.st # "OST03" => atom.we) /\ ~atom.wready
        /\ atom.st = "OST03" => atom.tc = 9 /\ atom.we
        /\ atom.st \notin {"OST01", "OST02"}
    BY <1>1, <1>4 DEF GoesToRest, IsCommanded, SetsUp, WaitsSetup, AwaitsData, FindsData,
       AsyncClose, ControlInv, Registers, AsyncCount
  <2>2. Given = << >> /\ half'.last = half.last
    BY <1>1, <2>1 DEF Given, Path, HalfLast, WriteReady
  <2>3. Count = IF atom.st = "OST04" THEN 4 ELSE atom.dc
    BY <2>1 DEF Count, Out
  <2>4. /\ atom.st = "OST00" => (half.last <=> atom.dc = 2)
        /\ atom.st = "OST03" => (half.last <=> atom.dc <= 2)
        /\ atom.st \notin {"OST00", "OST03"} => ~half.last
    BY <1>1, <2>1 DEF FeatureInv, Offer
  <2>5. /\ atom.st \in {"RESET", "READY", "LATCH", "SETUP", "OST04"} => atom.dc = 0
        /\ atom.st \in {"OST00", "OST03"} => atom.dc \in {0, 2, 4} /\ atom.num = 4
        /\ atom.st = "OST00" => atom.dc # 4
        /\ atom.st = "OST03" => atom.dc # 0
    BY <1>1, <2>1 DEF ControlInv, Control, Registers, AsyncCount, Async
  <2>6. CASE GoesToRest
    <3>1. atom'.st = "READY" /\ atom.st = "OST04" /\ atom.last /\ atom' = Rest
      BY <1>1, <2>6 DEF GoesToRest, Rest, ControlInv, Control, Registers
    <3>2. QED
      BY <2>2, <2>3, <2>4, <3>1 DEF GivesNone, DataHeld, Offer
  <2>7. CASE IsCommanded \/ SetsUp \/ WaitsSetup
    <3>1. atom'.st \in {"LATCH", "SETUP"} /\ atom'.dc = 0 /\ atom.st \in {"READY", "LATCH", "SETUP"}
      BY <1>1, <2>5, <2>7 DEF IsCommanded, SetsUp, WaitsSetup, Rest, Atoms
    <3>2. Count' = 0
      BY <3>1 DEF Count, Out
    <3>3. QED
      BY <2>2, <2>3, <2>4, <2>5, <3>1, <3>2 DEF GivesNone, DataHeld, Offer
  <2>8. CASE AwaitsData \/ FindsData
    <3>1. /\ atom'.st \in {"OST00", "OST01"} /\ atom'.dc = atom.dc
          /\ atom.st \in {"SETUP", "OST00", "OST03"}
          /\ atom.st = "OST03" => atom.dc # atom.num
      BY <1>1, <2>8 DEF AwaitsData, FindsData, Atoms
    <3>2. Count' = atom.dc
      BY <3>1 DEF Count, Out
    <3>3. half'.last <=> atom'.dc = 2
      BY <2>2, <2>4, <2>5, <3>1
    <3>4. Offer'
      BY <1>1, <2>2, <3>1, <3>3 DEF Offer
    <3>5. QED
      BY <2>2, <2>3, <3>1, <3>2, <3>4 DEF GivesNone, DataHeld
  <2>9. CASE AsyncClose
    <3>1. atom'.st = "OST04" /\ atom.st = "OST03" /\ atom.dc = 4
      BY <2>5, <2>9 DEF AsyncClose, Rest
    <3>2. Count' = 4
      BY <3>1 DEF Count
    <3>3. QED
      BY <2>2, <2>3, <2>4, <3>1, <3>2 DEF GivesNone, DataHeld, Offer
  <2>10. QED
    BY <1>4, <2>6, <2>7, <2>8, <2>9
<1>5. QED
  BY <1>2, <1>3, <1>4 DEF AtomMoves

(* Taking orders off a script keeps features before pages.                 *)
LEMMA ScriptOrder ==
  ASSUME ControlInv, FeatureInv, CommandMoves
  PROVE  /\ \A i, j \in 1..Len(script') :
              script'[i].op = "ProgramPage" /\ script'[j].op = "SetFeature" => j < i
         /\ Featured(script)' => Featured(script)
         /\ \A i : i = Head(script) /\ script' = Tail(script) /\ script # << >> /\ StartsPage(i) =>
              ~Featured(script)'
<1>1. CASE script' = script
  <2>1. \A i : ~(i = Head(script) /\ script' = Tail(script) /\ script # << >>)
    <3>1. script # << >> => Len(Tail(script)) # Len(script)
      BY DEF ControlInv, Types
    <3>2. QED
      BY <1>1, <3>1
  <2>2. QED
    BY <1>1, <2>1 DEF FeatureInv, Featured
<1>2. CASE script # << >> /\ script' = Tail(script)
  <2>1. /\ script \in Seq(Item) /\ Len(script) \in Nat /\ Len(script) >= 1
        /\ Len(script') = Len(script) - 1 /\ Head(script) = script[1]
        /\ \A i \in 1..Len(script') : script'[i] = script[i + 1] /\ i + 1 \in 1..Len(script)
    BY <1>2 DEF ControlInv, Types
  <2>2. ASSUME NEW i \in 1..Len(script'), NEW j \in 1..Len(script'),
               script'[i].op = "ProgramPage", script'[j].op = "SetFeature"
        PROVE  j < i
    <3>1. j + 1 < i + 1
      BY <2>1, <2>2 DEF FeatureInv
    <3>2. QED
      BY <3>1
  <2>3. Featured(script)' => Featured(script)
    BY <2>1 DEF Featured
  <2>4. ASSUME Head(script).op = "ProgramPage" PROVE ~Featured(script)'
    <3>1. 1 \in 1..Len(script) /\ script[1].op = "ProgramPage"
      BY <2>1, <2>4
    <3>2. ASSUME NEW j \in 1..Len(script'), script'[j].op = "SetFeature" PROVE FALSE
      <4>1. j + 1 \in 1..Len(script) /\ script[j + 1].op = "SetFeature"
        BY <2>1, <3>2
      <4>2. j + 1 < 1
        BY <3>1, <4>1 DEF FeatureInv
      <4>3. QED
        BY <2>1, <4>2
    <3>3. QED
      BY <3>2 DEF Featured
  <2>5. QED
    BY <2>2, <2>3, <2>4 DEF StartsPage
<1>3. QED
  BY <1>1, <1>2 DEF CommandMoves, Idles

(* The four bytes of a feature, written out.                               *)
LEMMA FeatureBytes ==
  ASSUME NEW f \in Word \X Word
  PROVE  Bytes(f) = <<f[1][1], f[1][2], f[2][1], f[2][2]>>
<1>1. PICK x \in Word, y \in Word : f = <<x, y>>
  OBVIOUS
<1>2. f \in Seq(Word) /\ Len(f) = 2
  BY <1>1
<1>3. /\ Bytes(f) \in Seq(Byte) /\ Len(Bytes(f)) = 4
      /\ Bytes(f)[1] = f[1][1] /\ Bytes(f)[2] = f[1][2]
      /\ Bytes(f)[3] = f[2][1] /\ Bytes(f)[4] = f[2][2]
  <2>1. /\ Bytes(f) \in Seq(Byte) /\ Len(Bytes(f)) = 2 * Len(f)
        /\ \A i \in 1..Len(f) : Bytes(f)[2 * i - 1] = f[i][1] /\ Bytes(f)[2 * i] = f[i][2]
    BY <1>2, BytesOfWords
  <2>2. Bytes(f)[2 * 1 - 1] = f[1][1] /\ Bytes(f)[2 * 1] = f[1][2]
    BY <1>2, <2>1
  <2>3. Bytes(f)[2 * 2 - 1] = f[2][1] /\ Bytes(f)[2 * 2] = f[2][2]
    BY <1>2, <2>1
  <2>4. QED
    BY <1>2, <2>1, <2>2, <2>3
<1>4. QED
  BY <1>3

(* A step keeps the feature part of the invariant.                         *)
LEMMA FeatureStep ==
  ASSUME AllInv, FeatureInv, Next
  PROVE  FeatureInv'
<1>1. PICK arrives \in BOOLEAN : Path(arrives)
  BY CommandStep DEF AllInv
<1>2. ControlInv /\ CommandMoves /\ AtomMoves
  BY CommandStep DEF AllInv
<1>3. /\ command.op \in {"none", "SetFeature", "ProgramPage"}
      /\ command.phase \in {"ready", "latches", "data", "end"}
      /\ command.phase = "ready" <=> command.op = "none"
      /\ half.last \in BOOLEAN /\ sent \in Seq(Byte) /\ feature \in Word \X Word
  BY <1>2 DEF ControlInv, Types, Control, Active
<1>4. half' = [last |-> HalfLast, data |-> feature[IF HalfLast THEN 2 ELSE 1]]
  BY <1>1 DEF Path
<1>5. half'.last <=> HalfLast
  BY <1>4 DEF HalfLast
<1>6. half'.data = feature[IF half'.last THEN 2 ELSE 1]
  BY <1>4 DEF HalfLast
<1>7. ~Commanded => half'.last = half.last
  BY <1>3, <1>4 DEF HalfLast, WriteReady
<1>8. /\ \A i, j \in 1..Len(script') :
           script'[i].op = "ProgramPage" /\ script'[j].op = "SetFeature" => j < i
      /\ Featured(script)' => Featured(script)
      /\ \A i : i = Head(script) /\ script' = Tail(script) /\ script # << >> /\ StartsPage(i) =>
           ~Featured(script)'
  BY <1>2, ScriptOrder
<1>9. CASE command.op = "none"
  <2>1. ~Commanded
    BY <1>3, <1>9 DEF Commanded
  <2>2. Featured(script)' => ~half'.last
    BY <1>7, <1>8, <1>9, <2>1 DEF FeatureInv, Active
  <2>3. CASE command'.op = "none"
    BY <1>8, <2>2, <2>3 DEF FeatureInv, Active
  <2>4. CASE \E i \in {Head(script)} : script # << >> /\ script' = Tail(script) /\ StartsPage(i)
    <3>1. ~Featured(script)' /\ feature' = feature /\ command'.op = "ProgramPage"
      BY <1>8, <2>4 DEF StartsPage
    <3>2. QED
      BY <1>6, <1>8, <3>1 DEF FeatureInv, Active
  <2>5. CASE \E i \in {Head(script)} : script # << >> /\ script' = Tail(script) /\ StartsFeature(i)
    <3>1. /\ feature' = feature /\ command'.op = "SetFeature" /\ command'.phase = "latches"
          /\ asked' = Bytes(feature) /\ Head(script).op = "SetFeature"
      BY <2>5 DEF StartsFeature
    <3>2. Featured(script)
      <4>1. 1 \in 1..Len(script) /\ Head(script) = script[1]
        BY <1>2, <2>5 DEF ControlInv, Types
      <4>2. QED
        BY <3>1, <4>1 DEF Featured
    <3>3. ~half'.last
      BY <1>7, <1>9, <2>1, <3>2 DEF FeatureInv, Active
    <3>4. atom'.st = "READY"
      BY <1>2, <2>1, AtomRests DEF Rest
    <3>5. asked' = <<feature[1][1], feature[1][2], feature[2][1], feature[2][2]>>
      BY <1>3, <3>1, FeatureBytes
    <3>6. QED
      BY <1>6, <1>8, <3>1, <3>3, <3>4, <3>5 DEF FeatureInv, Active, Offer
  <2>6. QED
    BY <1>2, <1>3, <1>9, <2>3, <2>4, <2>5
       DEF CommandMoves, Takes, Idles, Commanded
<1>10. CASE command.op # "none"
  <2>1. /\ feature' = feature /\ asked' = asked /\ script' = script
        /\ command'.op = command.op \/ (command.phase = "end" /\ command' = NoCommand)
        /\ command.phase = "end" => command'.op = "none" \/ command'.phase = "end"
        /\ command'.phase = command.phase \/ command' = NoCommand
             \/ (command.phase = "latches" /\ command'.phase = "data")
             \/ (command.phase = "data" /\ command'.phase = "end")
    BY <1>2, <1>3, <1>10 DEF CommandMoves, Takes, StartsFeature, StartsPage, Idles, NoCommand,
       Commanded, ControlInv, Types
  <2>2. CASE command.op = "ProgramPage"
    <3>1. ~Featured(script)' /\ command'.op # "SetFeature"
      BY <1>8, <2>1, <2>2 DEF FeatureInv, Active, NoCommand
    <3>2. QED
      BY <1>6, <1>8, <2>1, <3>1 DEF FeatureInv, Active
  <2>3. CASE command.op = "SetFeature" /\ ~Commanded
    <3>1. atom' = Rest /\ Given = << >>
      BY <1>2, <2>3, AtomRests, NothingGiven
    <3>2. atom'.st = "READY" /\ atom'.dc = 0 /\ Count' = 0
      BY <3>1 DEF Rest, Count, Out
    <3>3. ~half'.last
      BY <1>2, <1>7, <2>3 DEF FeatureInv, Offer, Active, ControlInv, Control
    <3>4. command.phase \in {"latches", "end"}
      BY <1>3, <2>3 DEF Commanded
    <3>5. CASE command'.op = "none"
      BY <1>8, <3>3, <3>5 DEF FeatureInv, Active
    <3>6. CASE command'.op = "SetFeature" /\ command.phase = "latches"
      <4>1. sent' = << >> /\ command'.phase # "end" /\ Len(asked') = 4
        <5>1. command'.phase # "end"
          BY <2>1, <3>6 DEF NoCommand
        <5>2. QED
          BY <1>1, <2>1, <2>3, <3>6, <5>1 DEF Path, FeatureInv, Active
      <4>2. Prefix' /\ Len(sent') = 0
        BY <4>1 DEF Prefix
      <4>3. QED
        BY <1>6, <1>8, <2>1, <2>3, <3>2, <3>3, <3>6, <4>1, <4>2 DEF FeatureInv, Active, Offer
    <3>7. CASE command'.op = "SetFeature" /\ command.phase = "end"
      <4>1. sent' = sent /\ command'.phase = "end"
        BY <1>1, <1>3, <2>1, <3>1, <3>7 DEF Path, NoCommand
      <4>2. Prefix' /\ Len(sent') = 4
        BY <2>1, <2>3, <3>7, <4>1 DEF FeatureInv, Prefix, Active
      <4>3. QED
        BY <1>6, <1>8, <2>1, <2>3, <3>2, <3>3, <3>7, <4>1, <4>2 DEF FeatureInv, Active, Offer
    <3>8. QED
      BY <2>1, <2>3, <3>4, <3>5, <3>6, <3>7 DEF NoCommand
  <2>4. CASE command.op = "SetFeature" /\ Commanded
    <3>1. Offer' /\ DataHeld /\ (GivesByte \/ GivesNone)
      BY <1>1, <1>2, <2>4, FeatureClock DEF Active
    <3>2. sent' = sent \o Given
      BY <1>1, <2>4 DEF Path, Commanded
    <3>3. /\ Prefix /\ Len(sent) = Count /\ Len(asked) = 4
          /\ asked = <<feature[1][1], feature[1][2], feature[2][1], feature[2][2]>>
      BY <2>4 DEF FeatureInv, Active, Commanded
    <3>4. /\ command' = IF atom.last THEN [command EXCEPT !.phase = "end"] ELSE command
          /\ command'.op = "SetFeature"
      BY <1>2, <2>4, CommandHeld
    <3>5. atom.last => atom.st = "OST04" /\ atom' = Rest /\ Count = 4 /\ GivesNone
      <4>1. atom.last => atom.st = "OST04"
        BY <1>2, <2>4 DEF ControlInv, Registers, Async, Active
      <4>2. atom.st = "OST04" => atom' = Rest
        BY <1>2 DEF AtomMoves, GoesToRest, IsCommanded, SetsUp, WaitsSetup, AwaitsData, FindsData,
           SyncWord, SyncClose, AsyncBytes, AsyncByte, AsyncClose
      <4>3. atom.st = "OST04" => Count = 4
        BY DEF Count
      <4>4. GivesByte => Count # 4
        BY <3>3 DEF GivesByte
      <4>5. QED
        BY <3>1, <4>1, <4>2, <4>3, <4>4
    <3>6. CASE GivesByte
      <4>1. command' = command
        BY <3>3, <3>4, <3>5, <3>6 DEF GivesByte
      <4>2. Len(sent') = Count'
        BY <1>3, <3>2, <3>3, <3>6 DEF GivesByte
      <4>3. Prefix'
        <5>1. Len(sent') = Len(sent) + 1 /\ Len(sent) + 1 <= 4
          BY <1>3, <3>2, <3>3, <3>6 DEF GivesByte
        <5>2. \A i \in 1..Len(sent') : sent'[i] = IF i <= Len(sent) THEN sent[i] ELSE asked[Len(sent) + 1]
          BY <1>3, <3>2, <3>3, <3>6 DEF GivesByte
        <5>3. ASSUME NEW i \in 1..Len(sent') PROVE sent'[i] = asked[i]
          <6>1. i <= Len(sent) \/ i = Len(sent) + 1
            BY <1>3, <5>1
          <6>2. QED
            BY <1>3, <3>3, <5>1, <5>2, <6>1 DEF Prefix
        <5>4. QED
          BY <2>1, <3>3, <5>1, <5>3 DEF Prefix
      <4>4. QED
        BY <1>6, <1>8, <2>1, <2>4, <3>1, <3>3, <4>1, <4>2, <4>3
           DEF FeatureInv, Active, DataHeld, Commanded
    <3>7. CASE GivesNone
      <4>1. sent' = sent
        BY <1>3, <3>2, <3>7 DEF GivesNone
      <4>2. Prefix'
        BY <2>1, <3>3, <4>1 DEF Prefix
      <4>3. CASE atom.last
        <5>1. command'.phase = "end" /\ Len(sent') = 4
          BY <1>2, <3>3, <3>4, <3>5, <4>1, <4>3 DEF ControlInv, Types
        <5>2. QED
          BY <1>6, <1>8, <2>1, <3>1, <3>3, <3>4, <4>2, <5>1 DEF FeatureInv, Active, DataHeld
      <4>4. CASE ~atom.last
        <5>1. command' = command /\ Count' = Count
          BY <3>4, <3>7, <4>4 DEF GivesNone
        <5>2. QED
          BY <1>6, <1>8, <2>1, <2>4, <3>1, <3>3, <4>1, <4>2, <5>1
             DEF FeatureInv, Active, DataHeld, Commanded
      <4>5. QED
        BY <4>3, <4>4
    <3>8. QED
      BY <3>1, <3>6, <3>7
  <2>5. QED
    BY <1>3, <1>10, <2>2, <2>3, <2>4
<1>11. QED
  BY <1>9, <1>10

(***************************************************************************)
(* The theorems.                                                           *)
(***************************************************************************)

(* Every register of the write path holds a value of its kind, the FIFO    *)
(* never more words than it has room for, and the output atom never counts *)
(* past the length it was given: its strobe comes in steps of two bytes    *)
(* (NFC_Atom_Dataoutput_Sync) and must meet the length exactly.            *)
THEOREM WriteTypes == Spec => []TypeOK
<1>1. AllInv => TypeOK
  <2> SUFFICES ASSUME AllInv PROVE TypeOK
    OBVIOUS
  <2>1. atom.num \in Nat /\ atom.dc \in Nat /\ atom.tc \in 0..9 /\ atom.dq \in Byte /\ atom.st \in States
    BY AtomFields DEF AllInv, ControlInv, Types
  <2>2. atom.dc <= atom.num
    <3>1. CASE ~Async
      BY <3>1 DEF AllInv, ControlInv, SyncCount
    <3>2. CASE Async /\ atom.st \in {"RESET", "READY", "LATCH", "SETUP", "OST04"}
      BY <2>1, <3>2 DEF AllInv, ControlInv, Registers
    <3>3. CASE Async /\ atom.st \in {"OST00", "OST01", "OST02", "OST03"}
      <4>1. atom.num = 4
        BY <3>3 DEF AllInv, ControlInv, Control, Async
      <4>2. atom.dc \in 0..4
        BY <2>1, <3>3 DEF AllInv, ControlInv, AsyncCount
      <4>3. QED
        BY <4>1, <4>2
    <3>4. QED
      BY <2>1, <3>1, <3>2, <3>3 DEF States
  <2>3. QED
    BY <2>1, <2>2 DEF AllInv, ControlInv, Types, TypeOK
<1>2. QED
  BY <1>1, AllInvariant, PTL

(* What is a prefix, and complete at the end, is what was asked.           *)
LEMMA PrefixIsIntact ==
  ASSUME sent \in Seq(Byte), asked \in Seq(Byte), Prefix,
         command.phase = "end" => Len(sent) = Len(asked)
  PROVE  Intact
<1>1. Len(sent) \in Nat /\ Len(asked) \in Nat /\ Len(sent) <= Len(asked)
  BY DEF Prefix
<1>2. sent = SubSeq(asked, 1, Len(sent))
  <2>1. \A i \in 1..Len(sent) : asked[i] \in Byte
    BY <1>1
  <2>2. /\ SubSeq(asked, 1, Len(sent)) \in Seq(Byte)
        /\ Len(SubSeq(asked, 1, Len(sent))) = Len(sent)
        /\ \A i \in 1..Len(sent) : SubSeq(asked, 1, Len(sent))[i] = asked[i]
    BY <1>1, <2>1, SubSeqProperties
  <2>3. QED
    BY <2>2, SeqEqual DEF Prefix
<1>3. command.phase = "end" => sent = asked
  BY SeqEqual DEF Prefix
<1>4. QED
  BY <1>1, <1>2, <1>3 DEF Intact

(* However the DMA's words trickle into the write FIFO, a program's data   *)
(* phase gives the chip the page it was asked for, word by word and each   *)
(* word once, and leaves nothing behind for the next page.                 *)
THEOREM PagesIntact == Spec => []PageIntact
<1>1. AllInv => PageIntact
  <2> SUFFICES ASSUME AllInv, command.phase \in {"data", "end"}, Active("ProgramPage")
               PROVE  Intact /\ (command.phase = "end" => fifo = << >> /\ stream = << >>)
    BY DEF PageIntact
  <2>1. /\ Prefix /\ (command.phase = "end" => Len(sent) = Len(asked))
        /\ command.phase = "end" => fifo = << >> /\ stream = << >>
    BY DEF AllInv, PageInv
  <2>2. Intact
    BY <2>1, PrefixIsIntact DEF AllInv, ControlInv, Types
  <2>3. QED
    BY <2>1, <2>2
<1>2. QED
  BY <1>1, AllInvariant, PTL

(* If every Set Feature comes before the first page program, as in the     *)
(* firmware's initialisation, a chip is given the four bytes of the        *)
(* feature word in their order. The hypothesis is needed: a page program   *)
(* moves the toggle that chooses the half too, and nothing resets it.      *)
THEOREM FeaturesIntact ==
  ASSUME FeaturesFirst
  PROVE  Spec => []FeatureIntact
<1>1. Init => FeatureInv
  <2> SUFFICES ASSUME Init PROVE FeatureInv
    OBVIOUS
  <2>1. script \in Scripts /\ command.op = "none" /\ ~half.last
    BY DEF Init, NoCommand
  <2>2. QED
    BY <2>1 DEF FeatureInv, FeaturesFirst, Active
<1>2. AllInv /\ FeatureInv /\ [Next]_vars => FeatureInv'
  <2>1. AllInv /\ FeatureInv /\ UNCHANGED vars => FeatureInv'
    BY DEF vars, FeatureInv, Featured, Active, Offer, Out, Count, Prefix
  <2>2. QED
    BY <2>1, FeatureStep
<1>3. AllInv /\ FeatureInv => FeatureIntact
  <2> SUFFICES ASSUME AllInv, FeatureInv, command.phase \in {"data", "end"}, Active("SetFeature")
               PROVE  Intact
    BY DEF FeatureIntact
  <2>1. Prefix /\ Len(asked) = 4 /\ (command.phase = "end" => Len(sent) = 4)
    BY DEF FeatureInv
  <2>2. QED
    BY <2>1, PrefixIsIntact DEF AllInv, ControlInv, Types
<1>4. QED
  BY <1>1, <1>2, <1>3, AllInvariant, PTL DEF Spec
=============================================================================
