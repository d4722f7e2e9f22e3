--------------------------- MODULE HostSystemProofs ---------------------------
(***************************************************************************)
(* Proofs about HostSystem for requests and packets of every size, every   *)
(* ring that holds a request, and any number of clicks.                    *)
(***************************************************************************)
EXTENDS HostSystem, SequenceTheorems, TLAPS

USE LinkAssumption, RecvAssumption, CodingAssumption, UsbAssumption

\* A recv returns the whole answer, as in the run `link'.
RecvWhole == RecvAtLeast = RequestBytes

(***************************************************************************)
(* The invariant, in parts.                                                *)
(***************************************************************************)
Threads == {"none", "created", "listening"}

\* A line coding is stored by the data phase, which finds the driver in CONFIG.
Coded ==
  /\ ep0 = [st |-> ep0.st, setup |-> ep0.setup, answer |-> ep0.answer,
            reply |-> ep0.reply, asked |-> ep0.asked, left |-> ep0.left]
  /\ bus \in {"reset", "configured"}
  /\ driver_state \in {"UNCONNECTED", "CONFIG", "CONNECTED"}
  /\ line_coding = ep0.asked /\ line_coding \in Coding
  /\ ep0.setup.req = "SET_LINE_CODING" => ep0.setup.value \in Coding
  /\ ep0.st = "status" => ep0.reply = line_coding
  /\ ep0.st = "status" /\ ep0.setup.req = "SET_LINE_CODING" => driver_state = "CONFIG"

PcStates == {"idle", "opening", "send", "spin", "recv", "shown"}
Application ==
  [st : PcStates, tcp : BOOLEAN, handle : BOOLEAN, finished : BOOLEAN, thread : Threads,
   filled : Nat, n : Nat, op : Ops \cup {"none"}, word : {0, 1}, connects : Nat]
Result == [n : Nat, op : Ops \cup {"none"}, word : {0, 1}]

Types ==
  /\ pc \in Application
  /\ ran \in Nat /\ result \in Result
  /\ DOMAIN rev_buf = 1..RequestBytes /\ DOMAIN rx_buffer = 1..RequestBytes

\* A request is carried out before the next click.
OneAtATime ==
  /\ pc.n = ran \/ (pc.n = ran + 1 /\ Waiting)
  /\ pc.n > 0 => pc.op \in Ops
  /\ pc.n > 0 /\ ran = pc.n =>
       result.n = pc.n /\ result.op = pc.op /\ result.word \in WordsOf(pc.op)
  /\ pc.n = 0 => pc.st \in {"idle", "opening"}

\* The m cells of the clicked request after its first k; and the last m.
Cell(i) == [at |-> i, of |-> [n |-> pc.n, op |-> pc.op]]
From(k, m) == [j \in 1..m |-> Cell(k + j)]
LastOf(m) == From(RequestBytes - m, m)

(***************************************************************************)
(* The request over USB.                                                   *)
(***************************************************************************)
\* The ring never wraps: it holds the request's first cells from its start on.
Ring ==
  /\ DOMAIN ring = {"start", "end", "length", "cells"}
  /\ ring.start = 0 /\ ring.length = RingSize + 1
  /\ ring.end \in 0..RequestBytes /\ DOMAIN ring.cells = 0..RingSize
  /\ \A i \in 1..ring.end : ring.cells[i - 1] = Cell(i)

\* Cells of the request that the main loop has still to take.
Coming == IF ran < pc.n /\ main.st # "serve" THEN RequestBytes ELSE 0

\* m packets in endpoint 3 come after the ring's cells, d packets in the cable
\* last; all of the request is there until the main loop has taken it.
Carried(m, d) ==
  /\ ep3 = [i \in 1..m |-> From(ring.end + PacketBytes * (i - 1), PacketBytes)]
  /\ down = LastOf(PacketBytes * d)
  /\ ring.end + PacketBytes * m + PacketBytes * d = Coming
  /\ m <= EpBufs

MainLoop ==
  /\ DOMAIN main = {"st", "count", "available"}
  /\ main.st \in {"poll", "read", "update", "serve"}
  /\ main.st # "poll" => ran < pc.n
  /\ main.st \in {"read", "update"} => ring.end = RequestBytes
  /\ main.st = "update" => main.count = RequestBytes /\ main.available = RequestBytes
  /\ main.st \in {"update", "serve"} => rx_buffer = Request

UsbRequest ==
  /\ Ring /\ MainLoop
  /\ \E m, d \in 0..RequestBytes : Carried(m, d)

(***************************************************************************)
(* The answer over USB.                                                    *)
(***************************************************************************)
\* Cells of the answer that the receiving thread has not got.
Owed ==
  IF ran < pc.n \/ pc.thread = "none" THEN 0
  ELSE IF pc.thread = "created" THEN RequestBytes ELSE RequestBytes - pc.filled

Thread ==
  /\ pc.st \notin {"send", "spin", "shown"} => pc.thread = "none"
  /\ ran < pc.n => pc.thread # "none"
  /\ pc.thread = "listening" =>
       /\ pc.filled < RequestBytes /\ ~pc.finished
       /\ ran < pc.n => pc.filled = 0
       /\ \A i \in 1..pc.filled : rev_buf[i] = [at |-> i, of |-> result]

\* Endpoint 2 has those cells to send, the last of the answer, in e packets.
LastPackets ==
  \E e \in 0..RequestBytes :
    /\ PacketBytes * e = Owed
    /\ ep2 = [j \in 1..PacketBytes * e |-> RequestBytes - PacketBytes * e + j]

UsbAnswer ==
  /\ ~pc.tcp /\ pc.st # "recv"
  /\ Thread /\ LastPackets
  /\ ran = pc.n /\ pc.n > 0 => tx_buffer = CellsOf(result)
  /\ pc.n > 0 /\ pc.thread = "none" /\ pc.st \in {"send", "spin", "shown"} =>
       rev_buf = CellsOf(result)
  /\ WordShown(rev_buf[1]) \subseteq {0, 1}

(***************************************************************************)
(* The two TCP images.                                                     *)
(***************************************************************************)
UsbAtRest ==
  /\ ep3 = << >> /\ ep2 = << >> /\ main.st = "poll"
  /\ ring = buffer_init(RingSize)

\* The last m cells of the request are in the connection, closed behind them.
Sending(m) ==
  \/ down = LastOf(m)
  \/ ~pc.tcp /\ ran = pc.n /\ down = Append(LastOf(m), Fin)

\* They follow what the raw image has gathered; only the freertos image has
\* carried the request out before it has read them all.
Remains(m) ==
  /\ Sending(m)
  /\ ran < pc.n => m > 0 /\ Len(rx) + m = RequestBytes
  /\ ran = pc.n => rx = << >> /\ m < RequestBytes /\ (image = "raw" => m = 0)

TcpRequest ==
  /\ ~pc.handle /\ pc.st \notin {"send", "spin", "opening"} /\ pc.thread = "none"
  /\ pc.st = "recv" => pc.tcp
  /\ rx = From(0, Len(rx)) /\ Len(rx) \in Nat
  /\ image = "rtos" => rx = << >>
  /\ \E m \in 0..RequestBytes : Remains(m)

TcpAnswer ==
  up = IF pc.st = "recv" /\ ran = pc.n THEN CellsOf(result) ELSE << >>

UsbState == Types /\ OneAtATime /\ UsbRequest /\ UsbAnswer /\ rx = << >>
TcpState == Types /\ OneAtATime /\ UsbAtRest /\ TcpRequest /\ TcpAnswer

(***************************************************************************)
(* The control endpoint.                                                   *)
(***************************************************************************)

(* The line coding stored is the one asked for last, whatever else the     *)
(* host, the application and the board do between.                         *)
LEMMA CodedStep == Coded /\ [HostNext]_hostvars => Coded'
<1> SUFFICES ASSUME Coded, [HostNext]_hostvars PROVE Coded'
  OBVIOUS
<1> USE DEF Coded
<1>1. CASE UNCHANGED hostvars
  BY <1>1 DEF hostvars, ctlvars, pcvars
<1>2. CASE UNCHANGED ctlvars /\ UNCHANGED bus
  BY <1>2 DEF ctlvars
<1>3. CASE Device
  BY <1>3 DEF Device, Open, BusReset
<1>4. CASE HostSends
  <2>1. \A s \in HostSetups : s.req = "SET_LINE_CODING" => s.value \in Coding
    BY DEF HostSetups, Setup
  <2>2. SetConfiguration.req # "SET_LINE_CODING"
    BY DEF SetConfiguration, Setup
  <2>3. ep0'.asked = ep0.asked /\ ep0'.st = "setup"
        /\ (ep0'.setup \in HostSetups \/ ep0'.setup = SetConfiguration)
    BY <1>4 DEF HostSends
  <2> QED BY <1>4, <2>1, <2>2, <2>3 DEF HostSends
<1>5. CASE Ep0Setup
  BY <1>5 DEF Ep0Setup, StateAfter
<1>6. CASE Ep0Data
  <2>1. SetConfiguration.req # "SET_LINE_CODING"
    BY DEF SetConfiguration, Setup
  <2> QED BY <1>6, <2>1 DEF Ep0Data, Idle
<1>7. CASE HostDone
  <2>1. SetConfiguration.req # "SET_LINE_CODING"
    BY DEF SetConfiguration, Setup
  <2> QED BY <1>7, <2>1 DEF HostDone, Idle
<1>8. CASE HostGivesUp
  <2>1. SetConfiguration.req # "SET_LINE_CODING"
    BY DEF SetConfiguration, Setup
  <2> QED BY <1>8, <2>1 DEF HostGivesUp, Idle
<1>9. CASE Control
  BY <1>9, <1>4, <1>5, <1>6, <1>7, <1>8 DEF Control, ControlStep
<1>10. User \/ App \/ Usb \/ Answers \/ Raw \/ Rtos => UNCHANGED ctlvars /\ UNCHANGED bus
  BY DEF User, App, Usb, Answers, Raw, Rtos, UserStep, AppStep, Close, Connect, Restart, Press,
         Opened, Sent, ThreadStarts, SpinEnds, Recv, PacketOut, ThreadReceives, pcvars
<1> QED
  BY <1>1, <1>2, <1>3, <1>9, <1>10 DEF HostNext

(* A line coding read back is what the host last asked for, whatever       *)
(* requests came between.                                                  *)
THEOREM LineCodingSettled == HostSpec => []LineCodingKept
<1>1. HostInit => Coded
  BY DEF HostInit, PcInit, CtlInit, Coded, Idle, SetConfiguration, Setup
<1>2. Coded => LineCodingKept
  BY DEF Coded, LineCodingKept
<1> QED
  BY <1>1, <1>2, CodedStep, PTL DEF HostSpec

(***************************************************************************)
(* USB: what a step makes of the request on its way.                       *)
(***************************************************************************)

(* The sizes: a request is a whole number of packets and fits in the ring. *)
LEMMA Sizes ==
  /\ RequestBytes \in Nat \ {0} /\ PacketBytes \in Nat \ {0}
  /\ RingSize \in Nat /\ RequestBytes <= RingSize
  /\ \E k \in 1..RequestBytes : RequestBytes = PacketBytes * k
<1>1. PICK k \in 1..RequestBytes : RequestBytes = k * PacketBytes
  BY DEF UsbAssumption
<1>2. k * PacketBytes = PacketBytes * k
  BY UsbAssumption
<1> QED BY <1>1, <1>2

\* The click and the stages of its request stay as they are.
SameRequest ==
  /\ pc'.n = pc.n /\ pc'.op = pc.op
  /\ UNCHANGED <<ran, ring, ep3, down, main, rx_buffer>>

(* A step of the application that neither clicks nor sends leaves the      *)
(* request where it is.                                                    *)
LEMMA RequestUnmoved == UsbRequest /\ SameRequest => UsbRequest'
<1> SUFFICES ASSUME UsbRequest, SameRequest PROVE UsbRequest'
  OBVIOUS
<1>1. \A i : Cell(i)' = Cell(i)
  BY DEF Cell, SameRequest
<1>2. Ring'
  BY <1>1 DEF Ring, SameRequest, UsbRequest
<1>3. Request' = Request
  BY DEF Request, CellsOf, SameRequest
<1>4. MainLoop'
  BY <1>3 DEF MainLoop, SameRequest, UsbRequest
<1>5. PICK m, d \in 0..RequestBytes : Carried(m, d)
  BY DEF UsbRequest
<1>6. \A k, n : From(k, n)' = From(k, n)
  BY <1>1 DEF From
<1>7. Carried(m, d)'
  BY <1>5, <1>6, LinkAssumption DEF Carried, Coming, LastOf, SameRequest
<1> QED BY <1>2, <1>4, <1>7 DEF UsbRequest

(* A run of the request's cells, cut in two.                               *)
LEMMA FromCut ==
  ASSUME NEW a \in Int, NEW n \in Nat, NEW k \in 0..n
  PROVE  /\ SubSeq(From(a, n), 1, k) = From(a, k)
         /\ SubSeq(From(a, n), k + 1, n) = From(a + k, n - k)
         /\ Len(From(a, n)) = n
<1> DEFINE C(i) == Cell(i)
<1>1. \A b, m : From(b, m) = [j \in 1..m |-> C(b + j)]
  BY DEF From
<1> HIDE DEF C
<1>2. SubSeq([j \in 1..n |-> C(a + j)], 1, k) = [j \in 1..k |-> C(a + j)]
  OBVIOUS
<1>3. SubSeq([j \in 1..n |-> C(a + j)], k + 1, n) = [j \in 1..n - k |-> C((a + k) + j)]
  <2> DEFINE s == [j \in 1..n |-> C(a + j)]
  <2>1. SubSeq(s, k + 1, n) = [j \in 1..n - k |-> s[k + j]]
    OBVIOUS
  <2>2. \A j \in 1..n - k : s[k + j] = C((a + k) + j)
    <3> TAKE j \in 1..n - k
    <3>1. k + j \in 1..n /\ a + (k + j) = (a + k) + j
      OBVIOUS
    <3> QED BY <3>1
  <2> HIDE DEF s
  <2>3. QED BY <2>1, <2>2 DEF s
<1>4. Len([j \in 1..n |-> C(a + j)]) = n
  OBVIOUS
<1> QED BY <1>1, <1>2, <1>3, <1>4

(* A packet moves from the cable to the end of endpoint 3's queue.         *)
LEMMA PacketInMoves ==
  ASSUME Types, UsbRequest, PacketIn, pc' = pc PROVE UsbRequest'
<1>1. PICK m, d \in 0..RequestBytes : Carried(m, d)
  BY DEF UsbRequest
<1> DEFINE pm == PacketBytes * m
           pd == PacketBytes * d
<1>2. pm \in Nat /\ pd \in Nat /\ PacketBytes * (m + 1) = pm + PacketBytes
      /\ PacketBytes * (d - 1) = pd - PacketBytes
  BY Sizes
<1>3. ring.end \in 0..RequestBytes
  BY DEF UsbRequest, Ring
<1>4. d > 0
  <2>1. CASE d = 0
    <3>1. down = << >>
      BY <2>1, <1>1, Sizes DEF Carried, LastOf, From
    <3> QED BY <3>1 DEF PacketIn
  <2> QED BY <2>1
<1>5. pd >= PacketBytes
  <2>1. PacketBytes * d >= PacketBytes * 1
    BY <1>4, Sizes
  <2> QED BY <2>1, Sizes
<1>6. ring.end + pm + pd = RequestBytes /\ ran < pc.n /\ main.st # "serve"
  <2>1. ring.end + pm + pd = Coming
    BY <1>1, Zenon DEF Carried
  <2>2. Coming # 0
    BY <2>1, <1>2, <1>3, <1>5, Sizes
  <2> QED BY <2>1, <2>2 DEF Coming
<1> HIDE DEF pm, pd
<1>7. down = From(ring.end + pm, pd)
  <2>1. down = From(RequestBytes - pd, pd)
    BY <1>1 DEF Carried, LastOf, pd
  <2>2. RequestBytes - pd = ring.end + pm
    BY <1>2, <1>3, <1>6, Sizes
  <2> QED BY <2>1, <2>2
<1>8. \A i : Cell(i)' = Cell(i)
  BY DEF Cell
<1>9. \A k, n : From(k, n)' = From(k, n)
  BY <1>8 DEF From
<1> DEFINE a == ring.end + pm
<1>10. /\ SubSeq(down, 1, PacketBytes) = From(a, PacketBytes)
       /\ SubSeq(down, PacketBytes + 1, Len(down)) = From(a + PacketBytes, pd - PacketBytes)
  <2>1. a \in Int /\ pd \in Nat /\ PacketBytes \in 0..pd
    BY <1>2, <1>3, <1>5, Sizes
  <2>2. down = From(a, pd)
    BY <1>7
  <2> HIDE DEF a
  <2>3. /\ SubSeq(From(a, pd), 1, PacketBytes) = From(a, PacketBytes)
        /\ SubSeq(From(a, pd), PacketBytes + 1, pd) = From(a + PacketBytes, pd - PacketBytes)
        /\ Len(From(a, pd)) = pd
    BY <2>1, FromCut, Zenon
  <2> QED BY <2>2, <2>3, Zenon
<1>12. ep3 = [i \in 1..m |-> From(ring.end + PacketBytes * (i - 1), PacketBytes)]
  BY <1>1 DEF Carried
<1>13. ep3' = [i \in 1..m + 1 |-> From(ring.end + PacketBytes * (i - 1), PacketBytes)]
  <2> DEFINE F(i) == From(ring.end + PacketBytes * (i - 1), PacketBytes)
  <2>1. F(m + 1) = From(ring.end + pm, PacketBytes)
    BY DEF pm
  <2>2. ep3' = Append(ep3, F(m + 1))
    BY <2>1, <1>10 DEF PacketIn
  <2> HIDE DEF F
  <2>3. ep3 = [i \in 1..m |-> F(i)]
    BY <1>12 DEF F
  <2>4. ep3' = [i \in 1..m + 1 |-> F(i)]
    BY <2>2, <2>3
  <2> QED BY <2>4 DEF F
<1>14. down' = LastOf(PacketBytes * (d - 1))
  <2>1. RequestBytes - (pd - PacketBytes) = ring.end + pm + PacketBytes
    BY <1>2, <1>3, <1>6, Sizes
  <2> QED BY <1>2, <1>10, <2>1 DEF PacketIn, LastOf
<1>15. m + 1 \in 0..RequestBytes /\ d - 1 \in 0..RequestBytes /\ m + 1 <= EpBufs
  <2>1. PacketBytes * m >= 1 * m
    BY Sizes
  <2>2. m + 1 <= RequestBytes
    BY <2>1, <1>2, <1>3, <1>5, <1>6, Sizes DEF pm
  <2>3. Len(ep3) = m
    BY <1>12
  <2> QED BY <1>4, <2>2, <2>3, UsbAssumption DEF PacketIn
<1>16. Carried(m + 1, d - 1)'
  <2>1. ring' = ring /\ main' = main /\ ran' = ran
    BY DEF PacketIn
  <2>2. ring.end + PacketBytes * (m + 1) + PacketBytes * (d - 1) = RequestBytes
    BY <1>2, <1>3, <1>6, Sizes
  <2>3. down' = LastOf(PacketBytes * (d - 1))'
    BY <1>9, <1>14 DEF LastOf
  <2>4. ep3' = [i \in 1..m + 1 |-> From(ring.end + PacketBytes * (i - 1), PacketBytes)']
    BY <1>9, <1>13, <2>1
  <2> QED BY <2>1, <2>2, <2>3, <2>4, <1>6, <1>15 DEF Carried, Coming
<1>17. Ring' /\ MainLoop'
  BY <1>8 DEF UsbRequest, Ring, MainLoop, Request, PacketIn
<1> QED BY <1>15, <1>16, <1>17 DEF UsbRequest

(* A packet that the ring has room for goes behind its cells, without a    *)
(* wrap.                                                                   *)
LEMMA RingWritten ==
  ASSUME Ring, NEW data, data = From(ring.end, PacketBytes),
         ring.end + PacketBytes <= RequestBytes
  PROVE  LET r == buffer_write(ring, data) IN
         /\ DOMAIN r = DOMAIN ring
         /\ r.start = 0 /\ r.end = ring.end + PacketBytes /\ r.length = RingSize + 1
         /\ DOMAIN r.cells = 0..RingSize
         /\ \A i \in 1..ring.end + PacketBytes : r.cells[i - 1] = Cell(i)
<1> DEFINE e == ring.end
           At(j) == e + j - 1
           written == [i \in DOMAIN ring.cells |->
                         IF \E j \in 1..PacketBytes : At(j) = i
                         THEN data[CHOOSE j \in 1..PacketBytes : At(j) = i] ELSE ring.cells[i]]
           r == [ring EXCEPT !.cells = written, !.end = e + PacketBytes]
<1>1. e \in 0..RequestBytes /\ ring.start = 0 /\ ring.length = RingSize + 1
      /\ DOMAIN ring.cells = 0..RingSize
      /\ DOMAIN ring = {"start", "end", "length", "cells"}
  BY DEF Ring
<1>2. Len(data) = PacketBytes /\ \A j \in 1..PacketBytes : data[j] = Cell(e + j)
  BY Sizes, <1>1 DEF From
<1>3. buffer_write(ring, data) = r
  <2>1. ~(ring.end < ring.start) /\ available_space(ring) = ring.length - ring.end
    BY <1>1, Sizes DEF available_space
  <2>2. Least(Len(data), available_space(ring)) = PacketBytes
    BY <1>1, <1>2, <2>1, Sizes DEF Least
  <2>3. ~(ring.end + PacketBytes > ring.length)
    BY <1>1, Sizes
  <2>4. Advanced(ring, ring.end, PacketBytes) = e + PacketBytes
    BY <2>3 DEF Advanced
  <2> DEFINE n == Len(data)
             remaining == Least(n, available_space(ring))
             first == ring.length - ring.end
             wraps == ring.end + remaining > ring.length
             count == IF wraps THEN remaining ELSE n
             Goes(j) == IF wraps /\ j > first THEN j - first - 1 ELSE ring.end + j - 1
  <2>5. buffer_write(ring, data) =
          [ring EXCEPT
             !.cells = [i \in DOMAIN ring.cells |->
                          IF \E j \in 1..count : Goes(j) = i
                          THEN data[CHOOSE j \in 1..count : Goes(j) = i] ELSE ring.cells[i]],
             !.end = Advanced(ring, ring.end, count)]
    BY Zenon DEF buffer_write
  <2>6. ~wraps
    BY <2>2, <2>3, <1>2
  <2>7. count = PacketBytes
    BY <2>6, <1>2
  <2>8. \A j : Goes(j) = At(j)
    BY <2>6
  <2> HIDE DEF count, Goes, At
  <2>9. ASSUME NEW i
        PROVE  (CHOOSE j \in 1..count : Goes(j) = i) = (CHOOSE j \in 1..PacketBytes : At(j) = i)
    BY <2>7, <2>8
  <2>10. [i \in DOMAIN ring.cells |->
                          IF \E j \in 1..count : Goes(j) = i
                          THEN data[CHOOSE j \in 1..count : Goes(j) = i] ELSE ring.cells[i]] = written
    BY <2>7, <2>8, <2>9
  <2> HIDE DEF written
  <2> QED BY <2>4, <2>5, <2>7, <2>10
<1>4. \A i \in 0..RingSize : i < e => written[i] = ring.cells[i]
  <2> TAKE i \in 0..RingSize
  <2> HAVE i < e
  <2>1. \A j \in 1..PacketBytes : At(j) # i
    BY <1>1, Sizes
  <2> QED BY <2>1, <1>1
<1>5. \A k \in 1..PacketBytes : written[e + k - 1] = Cell(e + k)
  <2> TAKE k \in 1..PacketBytes
  <2>1. e + k - 1 \in 0..RingSize
    BY <1>1, Sizes
  <2>2. \A j \in 1..PacketBytes : At(j) = e + k - 1 <=> j = k
    BY <1>1, Sizes
  <2>3. (CHOOSE j \in 1..PacketBytes : At(j) = e + k - 1) = k
    BY <2>2
  <2> QED BY <1>1, <1>2, <2>1, <2>2, <2>3
<1>6. \A i \in 1..e + PacketBytes : written[i - 1] = Cell(i)
  <2> TAKE i \in 1..e + PacketBytes
  <2> HIDE DEF written
  <2>1. CASE i <= e
    <3>1. i \in 1..e /\ i - 1 \in 0..RingSize /\ i - 1 < e
      BY <2>1, <1>1, Sizes
    <3>2. ring.cells[i - 1] = Cell(i)
      BY <3>1 DEF Ring
    <3> QED BY <1>4, <3>1, <3>2
  <2>2. CASE i > e
    <3>1. i - e \in 1..PacketBytes /\ e + (i - e) - 1 = i - 1 /\ e + (i - e) = i
      BY <2>2, <1>1, Sizes
    <3> QED BY <1>5, <3>1
  <2> QED BY <2>1, <2>2, <1>1, Sizes
<1>7. DOMAIN written = 0..RingSize
  BY <1>1
<1> HIDE DEF written
<1>8. /\ r.cells = written /\ r.end = e + PacketBytes /\ r.start = 0
      /\ r.length = RingSize + 1 /\ DOMAIN r = DOMAIN ring
  BY <1>1
<1> HIDE DEF r
<1> QED BY <1>3, <1>6, <1>7, <1>8

(* The interrupt copies the first packet into the ring.                    *)
LEMMA InterruptMoves ==
  ASSUME Types, UsbRequest, ep3_irq_handler, pc' = pc PROVE UsbRequest'
<1>1. PICK m, d \in 0..RequestBytes : Carried(m, d)
  BY DEF UsbRequest
<1> DEFINE pm == PacketBytes * m
           pd == PacketBytes * d
           e == ring.end
           F(i) == From(e + PacketBytes * (i - 1), PacketBytes)
<1>2. pm \in Nat /\ pd \in Nat /\ PacketBytes * (m - 1) = pm - PacketBytes
  BY Sizes
<1>3. e \in 0..RequestBytes
  BY DEF UsbRequest, Ring
<1>4. ep3 = [i \in 1..m |-> F(i)]
  BY <1>1 DEF Carried
<1>5. m > 0
  BY <1>4 DEF ep3_irq_handler
<1>6. pm >= PacketBytes
  <2>1. PacketBytes * m >= PacketBytes * 1
    BY <1>5, Sizes
  <2> QED BY <2>1, Sizes
<1>7. e + pm + pd = RequestBytes /\ ran < pc.n /\ main.st # "serve"
  <2>1. e + pm + pd = Coming
    BY <1>1, Zenon DEF Carried
  <2>2. Coming # 0
    BY <2>1, <1>2, <1>3, <1>6, Sizes
  <2> QED BY <2>1, <2>2 DEF Coming
<1>8. Head(ep3) = From(e, PacketBytes)
  <2>1. F(1) = From(e, PacketBytes)
    BY <1>3, Sizes
  <2> HIDE DEF F
  <2> QED BY <2>1, <1>4, <1>5
<1>9. Tail(ep3) = [i \in 1..m - 1 |-> F(i + 1)]
  <2> HIDE DEF F
  <2> QED BY <1>4, <1>5
<1>10. \A i : Cell(i)' = Cell(i)
  BY DEF Cell
<1>11. \A k, n : From(k, n)' = From(k, n)
  BY <1>10 DEF From
<1>12. Ring' /\ ring'.end = e + PacketBytes
  <2>1. e + PacketBytes <= RequestBytes
    BY <1>2, <1>3, <1>6, <1>7, Sizes
  <2>2. ring' = buffer_write(ring, From(ring.end, PacketBytes))
    BY <1>8 DEF ep3_irq_handler
  <2>3. Ring
    BY DEF UsbRequest
  <2> HIDE DEF e
  <2> DEFINE r == buffer_write(ring, From(ring.end, PacketBytes))
  <2>4. /\ DOMAIN r = DOMAIN ring
        /\ r.start = 0 /\ r.end = ring.end + PacketBytes /\ r.length = RingSize + 1
        /\ DOMAIN r.cells = 0..RingSize
        /\ \A i \in 1..ring.end + PacketBytes : r.cells[i - 1] = Cell(i)
    BY RingWritten, <2>1, <2>3 DEF e
  <2>5. ring' = r
    BY <2>2
  <2> HIDE DEF r
  <2>6. \A i \in 1..ring'.end : ring'.cells[i - 1] = Cell(i)'
    BY <2>4, <2>5, <1>10
  <2>7. ring'.end \in 0..RequestBytes
    BY <2>1, <2>4, <2>5, <1>3, Sizes DEF e
  <2> QED BY <2>3, <2>4, <2>5, <2>6, <2>7 DEF Ring, e
<1>13. ep3' = [i \in 1..m - 1 |-> From(ring'.end + PacketBytes * (i - 1), PacketBytes)]
  <2>1. \A i \in 1..m - 1 : F(i + 1) = From(ring'.end + PacketBytes * (i - 1), PacketBytes)
    <3> TAKE i \in 1..m - 1
    <3>1. PacketBytes * ((i + 1) - 1) = PacketBytes + PacketBytes * (i - 1)
      BY Sizes
    <3>2. PacketBytes * (i - 1) \in Int
      BY Sizes
    <3> DEFINE z == PacketBytes * (i - 1)
    <3> HIDE DEF z
    <3>3. e + PacketBytes * ((i + 1) - 1) = ring'.end + PacketBytes * (i - 1)
      BY <3>1, <3>2, <1>3, <1>12, Sizes DEF z
    <3> QED BY <3>3
  <2> HIDE DEF F
  <2> QED BY <1>9, <2>1 DEF ep3_irq_handler
<1>14. m - 1 \in 0..RequestBytes /\ m - 1 <= EpBufs
  BY <1>1, <1>5, Sizes, UsbAssumption DEF Carried
<1>15. Carried(m - 1, d)'
  <2>1. main' = main /\ ran' = ran /\ down' = down
    BY DEF ep3_irq_handler, linkvars
  <2>2. ring'.end + PacketBytes * (m - 1) + PacketBytes * d = RequestBytes
    BY <1>2, <1>3, <1>7, <1>12, Sizes
  <2>3. down' = LastOf(PacketBytes * d)'
    BY <1>1, <1>11, <2>1 DEF LastOf, Carried
  <2>4. ep3' = [i \in 1..m - 1 |-> From(ring.end + PacketBytes * (i - 1), PacketBytes)']
    BY <1>11, <1>13
  <2> QED BY <2>1, <2>2, <2>3, <2>4, <1>7, <1>14 DEF Carried, Coming
<1>16. MainLoop'
  <2>1. Request' = Request /\ main' = main /\ rx_buffer' = rx_buffer /\ ran' = ran
    BY DEF Request, CellsOf, ep3_irq_handler, linkvars
  <2>2. main.st \notin {"read", "update"}
    BY <1>2, <1>3, <1>6, <1>7, Sizes DEF UsbRequest, MainLoop
  <2> QED BY <2>1, <2>2 DEF UsbRequest, MainLoop
<1> QED BY <1>12, <1>14, <1>15, <1>16 DEF UsbRequest

(* A full ring holds all of the request, and nothing follows it.           *)
LEMMA RingFull ==
  ASSUME UsbRequest, ring.end = RequestBytes
  PROVE  ran < pc.n /\ main.st # "serve" /\ Carried(0, 0)
<1>1. PICK m, d \in 0..RequestBytes : Carried(m, d)
  BY DEF UsbRequest
<1> DEFINE pm == PacketBytes * m
           pd == PacketBytes * d
<1>2. pm \in Nat /\ pd \in Nat
  BY Sizes
<1>3. ring.end + pm + pd = Coming
  BY <1>1, Zenon DEF Carried
<1>4. Coming = RequestBytes /\ pm = 0 /\ pd = 0
  <2> HIDE DEF pm, pd
  <2> QED BY <1>2, <1>3, Sizes DEF Coming
<1>5. m = 0 /\ d = 0
  <2>1. m > 0 => PacketBytes * m >= PacketBytes * 1
    BY Sizes
  <2>2. d > 0 => PacketBytes * d >= PacketBytes * 1
    BY Sizes
  <2> QED BY <1>4, <2>1, <2>2, Sizes
<1> QED BY <1>1, <1>4, <1>5, Sizes DEF Coming

(* An empty ring with nothing behind it: nothing of a request is there.    *)
LEMMA NothingComes ==
  ASSUME UsbRequest, ~(ran < pc.n) \/ main.st = "serve"
  PROVE  ring.end = 0 /\ Carried(0, 0) /\ ep3 = << >> /\ down = << >>
<1>1. PICK m, d \in 0..RequestBytes : Carried(m, d)
  BY DEF UsbRequest
<1> DEFINE pm == PacketBytes * m
           pd == PacketBytes * d
<1>2. pm \in Nat /\ pd \in Nat /\ ring.end \in Nat
  BY Sizes DEF UsbRequest, Ring
<1>3. ring.end + pm + pd = 0
  <2>1. Coming = 0
    BY DEF Coming
  <2> QED BY <1>1, <2>1, Zenon DEF Carried
<1>4. ring.end = 0 /\ pm = 0 /\ pd = 0
  <2> DEFINE e == ring.end
  <2>1. e \in Nat /\ pm \in Nat /\ pd \in Nat /\ e + pm + pd = 0
    BY <1>2, <1>3
  <2> HIDE DEF e, pm, pd
  <2>2. e = 0 /\ pm = 0 /\ pd = 0
    BY <2>1
  <2> QED BY <2>2 DEF e
<1>5. m = 0 /\ d = 0
  <2>1. m > 0 => PacketBytes * m >= PacketBytes * 1
    BY Sizes
  <2>2. d > 0 => PacketBytes * d >= PacketBytes * 1
    BY Sizes
  <2> QED BY <1>4, <2>1, <2>2, Sizes
<1>6. Carried(0, 0)
  BY <1>1, <1>5
<1>7. ep3 = << >> /\ down = << >>
  BY <1>6, Sizes DEF Carried, LastOf, From
<1> QED BY <1>4, <1>6, <1>7

(* The main loop sees a request when all of it is in the ring.             *)
LEMMA PollFinds ==
  ASSUME UsbRequest, MainPoll, pc' = pc PROVE UsbRequest'
<1>1. ring.end \in 0..RequestBytes /\ ring.start = 0
  BY DEF UsbRequest, Ring
<1>2. ring.end = RequestBytes
  BY <1>1, Sizes DEF MainPoll, rx_bytes_available, available_bytes
<1>3. ran < pc.n /\ Carried(0, 0)
  BY <1>2, RingFull
<1>4. DOMAIN main' = DOMAIN main /\ main'.st = "read" /\ main.st = "poll"
  BY DEF MainPoll, UsbRequest, MainLoop
<1>5. Cell(1)' = Cell(1) /\ \A i : Cell(i)' = Cell(i)
  BY DEF Cell
<1>6. UNCHANGED <<ring, ep3, down, ran, rx_buffer>>
  BY DEF MainPoll, linkvars
<1>7. Ring'
  BY <1>5, <1>6 DEF UsbRequest, Ring
<1>8. MainLoop'
  BY <1>2, <1>3, <1>4, <1>6 DEF UsbRequest, MainLoop
<1>9. \A k, n : From(k, n)' = From(k, n)
  BY <1>5 DEF From
<1>10. Carried(0, 0)'
  BY <1>3, <1>4, <1>6, <1>9 DEF Carried, Coming, LastOf
<1> QED BY <1>7, <1>8, <1>10, Sizes DEF UsbRequest

(* The copy is the whole request: the ring has not wrapped.                *)
LEMMA CopyTakes ==
  ASSUME UsbRequest, MainCopy, pc' = pc PROVE UsbRequest'
<1>1. ring.end = RequestBytes /\ ring.start = 0 /\ ring.length = RingSize + 1
  BY DEF UsbRequest, Ring, MainLoop, MainCopy
<1>2. ran < pc.n /\ Carried(0, 0)
  BY <1>1, RingFull
<1>3. available_bytes(ring) = RequestBytes
  BY <1>1, Sizes DEF available_bytes
<1>4. Copied(ring, RequestBytes) = [j \in 1..RequestBytes |-> Cell(j)]
  <2>1. Least(RequestBytes, available_bytes(ring)) = RequestBytes
    BY <1>3, Sizes DEF Least
  <2>2. ~(ring.start + RequestBytes > ring.length)
    BY <1>1, Sizes
  <2>3. Copied(ring, RequestBytes) = Copy(ring, 0, RequestBytes)
    BY <1>1, <2>1, <2>2 DEF Copied
  <2>4. \A j \in 1..RequestBytes : 0 + j - 1 = j - 1 /\ j - 1 < ring.length /\ ring.cells[j - 1] = Cell(j)
    BY <1>1, Sizes DEF UsbRequest, Ring
  <2> QED BY <2>3, <2>4 DEF Copy
<1>5. Len(Copied(ring, RequestBytes)) = RequestBytes
  BY <1>4, Sizes
<1>6. Request = [j \in 1..RequestBytes |-> Cell(j)] /\ Request' = Request
  BY DEF Request, CellsOf, Cell
<1>7. rx_buffer' = Request
  <2> DEFINE data == Copied(ring, RequestBytes)
  <2>1. rx_buffer' = [i \in 1..RequestBytes |-> IF i <= Len(data) THEN data[i] ELSE rx_buffer[i]]
    BY DEF MainCopy
  <2> HIDE DEF data
  <2> QED BY <1>4, <1>5, <1>6, <2>1 DEF data
<1>8. DOMAIN main' = {"st", "count", "available"}
      /\ main'.st = "update" /\ main'.count = RequestBytes /\ main'.available = RequestBytes
  BY <1>3, <1>5 DEF MainCopy
<1>9. \A i : Cell(i)' = Cell(i)
  BY DEF Cell
<1>10. UNCHANGED <<ring, ep3, down, ran>> /\ main.st = "read"
  BY DEF MainCopy, linkvars
<1>11. Ring'
  BY <1>9, <1>10 DEF UsbRequest, Ring
<1>12. MainLoop'
  BY <1>1, <1>2, <1>6, <1>7, <1>8, <1>10 DEF MainLoop
<1>13. \A k, n : From(k, n)' = From(k, n)
  BY <1>9 DEF From
<1>14. Carried(0, 0)'
  BY <1>2, <1>8, <1>10, <1>13 DEF Carried, Coming, LastOf
<1> QED BY <1>11, <1>12, <1>14, Sizes DEF UsbRequest

(* Taking the request leaves the ring at its beginning again.              *)
LEMMA UpdateEmpties ==
  ASSUME UsbRequest, MainUpdate, pc' = pc PROVE UsbRequest'
<1>1. ring.end = RequestBytes /\ main.count = main.available /\ rx_buffer = Request /\ Ring
  BY DEF UsbRequest, MainLoop, MainUpdate
<1>2. ran < pc.n /\ Carried(0, 0)
  BY <1>1, RingFull
<1>3. ring' = [ring EXCEPT !.start = 0, !.end = 0]
  BY <1>1 DEF MainUpdate, Consumed
<1>4. DOMAIN ring' = DOMAIN ring /\ ring'.start = 0 /\ ring'.end = 0
      /\ ring'.length = ring.length /\ ring'.cells = ring.cells
  BY <1>1, <1>3 DEF Ring
<1>5. main'.st = "serve" /\ DOMAIN main' = {"st", "count", "available"}
  BY DEF MainUpdate, UsbRequest, MainLoop
<1>6. UNCHANGED <<ep3, down, ran, rx_buffer>> /\ Request' = Request
  BY DEF MainUpdate, linkvars, Request, CellsOf
<1>7. Ring'
  BY <1>1, <1>4, Sizes DEF Ring
<1>8. MainLoop'
  BY <1>1, <1>2, <1>5, <1>6 DEF MainLoop
<1>9. ep3 = << >> /\ down = << >>
  BY <1>2, Sizes DEF Carried, LastOf, From
<1>10. Carried(0, 0)'
  BY <1>4, <1>5, <1>6, <1>9, Sizes DEF Carried, Coming, LastOf, From
<1> QED BY <1>7, <1>8, <1>10, Sizes DEF UsbRequest

(* A request or an answer is all there is behind an empty stream.          *)
LEMMA AfterNothing == \A x : << >> \o CellsOf(x) = CellsOf(x)
<1> TAKE x
<1> DEFINE q == CellsOf(x)
           S == {[at |-> i, of |-> x] : i \in 1..RequestBytes}
<1>1. q \in Seq(S)
  <2>1. q = [i \in 1..RequestBytes |-> [at |-> i, of |-> x]]
    BY DEF CellsOf
  <2>2. \A i \in 1..RequestBytes : q[i] \in S
    BY <2>1
  <2> HIDE DEF S
  <2> QED BY <2>1, <2>2, Sizes
<1> HIDE DEF q
<1>2. << >> \o q = q
  BY <1>1
<1> QED BY <1>2 DEF q

(* A click puts a whole request into the empty cable.                      *)
LEMMA PressSends ==
  ASSUME Types, OneAtATime, UsbRequest, UsbAnswer, NEW b \in Buttons, Press(b),
         UNCHANGED usbvars
  PROVE  Types' /\ OneAtATime' /\ UsbRequest' /\ UsbAnswer'
<1>1. pc.st \in {"idle", "shown"} /\ ~pc.tcp /\ pc.n = ran
  BY DEF Press, AtRest, OneAtATime, Waiting, UsbAnswer
<1>2. pc.thread = "none" /\ main.st = "poll"
  BY <1>1 DEF Press, AtRest, Waiting, UsbRequest, MainLoop, Types
<1>3. b.op \in Ops
  BY DEF Buttons
<1>4. pc' = [pc EXCEPT !.st = "send", !.n = pc.n + 1, !.op = b.op, !.finished = TRUE,
                       !.thread = "created"]
  BY <1>1 DEF Press
<1>5. /\ pc' \in Application /\ pc'.n = ran + 1 /\ pc'.op = b.op /\ pc'.st = "send"
      /\ pc'.thread = "created" /\ pc'.tcp = pc.tcp
  <2>1. pc \in Application /\ pc.n + 1 \in Nat
    BY DEF Types, Application
  <2>2. pc' \in Application
    BY <1>3, <1>4, <2>1 DEF Application, PcStates, Threads
  <2> QED BY <1>1, <1>4, <2>1, <2>2 DEF Application
<1>6. UNCHANGED <<ran, result, rev_buf, ring, main, ep3, ep2, rx_buffer, tx_buffer>>
  BY DEF Press, usbvars
<1>7. ring.end = 0 /\ ep3 = << >> /\ down = << >>
  BY <1>1, NothingComes DEF Types
<1>8. Types' /\ OneAtATime'
  BY <1>3, <1>5, <1>6 DEF Types, OneAtATime, Waiting
<1>9. down' = [j \in 1..RequestBytes |-> Cell(j)']
  <2>1. down' = CellsOf([n |-> pc.n + 1, op |-> b.op])
    BY <1>7, AfterNothing DEF Press
  <2>2. pc.n + 1 = pc'.n /\ b.op = pc'.op
    BY <1>1, <1>5
  <2> QED BY <2>1, <2>2 DEF CellsOf, Cell
<1>10. PICK k \in 1..RequestBytes : RequestBytes = PacketBytes * k
  BY Sizes
<1>11. Carried(0, k)'
  <2>1. Coming' = RequestBytes
    BY <1>2, <1>5, <1>6 DEF Coming, Types
  <2>2. down' = LastOf(PacketBytes * k)'
    BY <1>9, <1>10, Sizes DEF LastOf, From
  <2>3. PacketBytes * 0 = 0
    BY Sizes
  <2> QED BY <1>6, <1>7, <1>10, <2>1, <2>2, <2>3, Sizes DEF Carried
<1>12. Ring' /\ MainLoop'
  BY <1>2, <1>6, <1>7 DEF UsbRequest, Ring, MainLoop
<1>13. UsbRequest'
  BY <1>10, <1>11, <1>12, Sizes DEF UsbRequest
<1>14. UsbAnswer'
  <2>1. PICK e \in 0..RequestBytes :
          /\ PacketBytes * e = Owed
          /\ ep2 = [j \in 1..PacketBytes * e |-> RequestBytes - PacketBytes * e + j]
    BY DEF UsbAnswer, LastPackets
  <2>2. Owed = 0 /\ Owed' = 0
    BY <1>2, <1>5, <1>6 DEF Owed, Types
  <2>3. pc'.n # ran
    BY <1>5 DEF Types
  <2>4. WordShown(rev_buf[1])' \subseteq {0, 1}
    BY <1>6 DEF UsbAnswer
  <2> QED BY <1>1, <1>5, <1>6, <2>1, <2>2, <2>3, <2>4 DEF UsbAnswer, LastPackets, Thread, Types
<1> QED BY <1>8, <1>13, <1>14

(* The request is carried out once, for the click that waits, and the      *)
(* whole answer is endpoint 2's to send.                                   *)
LEMMA ServeAnswers ==
  ASSUME Types, OneAtATime, UsbRequest, UsbAnswer, MainServe, pc' = pc, rev_buf' = rev_buf
  PROVE  /\ Types' /\ OneAtATime' /\ UsbRequest' /\ UsbAnswer'
         /\ Waiting /\ ran' = pc.n /\ result'.n = pc.n /\ result'.op = pc.op
<1>1. main.st = "serve" /\ rx_buffer = Request /\ ran < pc.n
  BY DEF MainServe, UsbRequest, MainLoop
<1>2. pc.n = ran + 1 /\ Waiting /\ pc.n > 0 /\ pc.op \in Ops
  BY <1>1 DEF OneAtATime, Types, Application
<1>3. rx_buffer[1] = Cell(1)
  BY <1>1, Sizes DEF Request, CellsOf, Cell
<1>4. HasHeader(rx_buffer) /\ rx_buffer[1].of.n = pc.n /\ rx_buffer[1].of.op = pc.op
  BY <1>3 DEF HasHeader, Cell
<1>5. PICK w \in WordsOf(pc.op) :
        ran' = ran + 1 /\ result' = [n |-> pc.n, op |-> pc.op, word |-> w]
  BY <1>4 DEF MainServe, Execute
<1>6. w \in {0, 1}
  BY DEF WordsOf
<1>7. ep2' = ep2 \o [i \in 1..RequestBytes |-> i] /\ tx_buffer' = CellsOf(result')
  BY <1>4 DEF MainServe
<1>8. UNCHANGED <<ep3, ring, rx_buffer, down>> /\ main'.st = "poll" /\ DOMAIN main' = DOMAIN main
  BY DEF MainServe, UsbRequest, MainLoop
<1>9. Types' /\ OneAtATime'
  BY <1>2, <1>5, <1>6, <1>8 DEF Types, OneAtATime, Result, Application, Waiting
<1>10. ring.end = 0 /\ ep3 = << >> /\ down = << >>
  BY <1>1, NothingComes
<1>11. Carried(0, 0)'
  <2>1. Coming' = 0
    BY <1>2, <1>5 DEF Coming, Types
  <2>2. PacketBytes * 0 = 0
    BY Sizes
  <2> QED BY <1>8, <1>10, <2>1, <2>2, Sizes DEF Carried, LastOf, From
<1>12. Ring' /\ MainLoop'
  BY <1>8, <1>10 DEF UsbRequest, Ring, MainLoop
<1>13. UsbRequest'
  BY <1>11, <1>12, Sizes DEF UsbRequest
<1>14. ep2 = << >>
  <2>1. PICK e \in 0..RequestBytes :
          /\ PacketBytes * e = Owed
          /\ ep2 = [j \in 1..PacketBytes * e |-> RequestBytes - PacketBytes * e + j]
    BY DEF UsbAnswer, LastPackets
  <2>2. Owed = 0
    BY <1>1 DEF Owed
  <2> QED BY <2>1, <2>2
<1>15. ep2' = [j \in 1..RequestBytes |-> j]
  <2> DEFINE q == [j \in 1..RequestBytes |-> j]
  <2>1. q \in Seq(Nat)
    BY Sizes
  <2>2. ep2' = << >> \o q
    BY <1>7, <1>14
  <2> HIDE DEF q
  <2>3. << >> \o q = q
    BY <2>1
  <2> QED BY <2>2, <2>3 DEF q
<1>16. PICK k \in 1..RequestBytes : RequestBytes = PacketBytes * k
  BY Sizes
<1>17. pc.thread \in {"created", "listening"} /\ (pc.thread = "listening" => pc.filled = 0)
  BY <1>1 DEF UsbAnswer, Thread, Types, Application, Threads
<1>18. Owed' = RequestBytes
  BY <1>2, <1>5, <1>17, Sizes DEF Owed, Types
<1>19. ep2' = [j \in 1..PacketBytes * k |-> RequestBytes - PacketBytes * k + j]
  BY <1>15, <1>16, Sizes
<1>20. Thread'
  BY <1>2, <1>5, <1>17, Sizes DEF UsbAnswer, Thread
<1>21. UsbAnswer'
  <2>1. ~pc.tcp /\ pc.st # "recv" /\ pc.thread # "none" /\ WordShown(rev_buf[1])' \subseteq {0, 1}
    BY <1>17 DEF UsbAnswer
  <2>2. k \in 0..RequestBytes /\ PacketBytes * k = Owed'
    BY <1>16, <1>18, Sizes
  <2> QED BY <1>7, <1>19, <1>20, <2>1, <2>2 DEF UsbAnswer, LastPackets
<1> QED BY <1>2, <1>5, <1>9, <1>13, <1>21

(* Packet by packet the answer fills the receive buffer; the thread ends   *)
(* with the last of it.                                                    *)
LEMMA PacketOutArrives ==
  ASSUME Types, OneAtATime, UsbAnswer, PacketOut
  PROVE  /\ Types' /\ OneAtATime' /\ UsbAnswer'
         /\ pc'.n = pc.n /\ pc'.op = pc.op
<1>1. PICK e \in 0..RequestBytes :
        /\ PacketBytes * e = Owed
        /\ ep2 = [j \in 1..PacketBytes * e |-> RequestBytes - PacketBytes * e + j]
  BY DEF UsbAnswer, LastPackets
<1> DEFINE pe == PacketBytes * e
           packet == [i \in 1..PacketBytes |-> tx_buffer[ep2[i]]]
           filled == pc.filled + PacketBytes
<1>2. pe \in Nat /\ PacketBytes * (e - 1) = pe - PacketBytes
  BY Sizes
<1>3. e > 0 /\ pe >= PacketBytes
  <2>1. e > 0
    <3>1. e = 0 => pe = 0
      BY Sizes
    <3>2. pe = 0 => ep2 = << >>
      BY <1>1
    <3> QED BY <3>1, <3>2 DEF PacketOut
  <2>2. PacketBytes * e >= PacketBytes * 1
    BY <2>1, Sizes
  <2> QED BY <2>1, <2>2, Sizes
<1>4. pc.thread = "listening" /\ ran = pc.n /\ pe = RequestBytes - pc.filled
  <2>1. pc.thread = "listening"
    BY DEF PacketOut, ThreadReceives
  <2>2. Owed # 0
    BY <1>1, <1>2, <1>3, Sizes
  <2> QED BY <1>1, <2>1, <2>2 DEF Owed, OneAtATime, Types, Application
<1>5. pc.filled \in Nat /\ pc.filled < RequestBytes /\ pc \in Application /\ ~pc.finished
      /\ \A i \in 1..pc.filled : rev_buf[i] = [at |-> i, of |-> result]
  BY <1>4 DEF UsbAnswer, Thread, Types, Application
<1>6. pc.st \in {"send", "spin", "shown"} /\ pc.n > 0
  BY <1>4 DEF UsbAnswer, Thread, OneAtATime, Types, Application
<1>7. tx_buffer = CellsOf(result)
  BY <1>4, <1>6 DEF UsbAnswer
<1>8. \A i \in 1..PacketBytes : packet[i] = [at |-> pc.filled + i, of |-> result]
  <2> TAKE i \in 1..PacketBytes
  <2> HIDE DEF pe
  <2>1. i \in 1..pe /\ pc.filled + i \in 1..RequestBytes /\ RequestBytes - pe + i = pc.filled + i
    BY <1>2, <1>3, <1>4, <1>5, Sizes
  <2>2. ep2[i] = pc.filled + i
    BY <1>1, <2>1 DEF pe
  <2> QED BY <1>7, <2>1, <2>2 DEF CellsOf
<1>9. Len(packet) = PacketBytes
  BY Sizes
<1>10. /\ rev_buf' = [i \in 1..RequestBytes |->
                        IF i \in pc.filled + 1..filled THEN packet[i - pc.filled] ELSE rev_buf[i]]
       /\ pc' = IF filled < RequestBytes THEN [pc EXCEPT !.filled = filled]
                ELSE [pc EXCEPT !.filled = filled, !.finished = TRUE, !.thread = "none"]
       /\ UNCHANGED linkvars
  BY <1>9 DEF PacketOut, ThreadReceives
<1>11. ep2' = SubSeq(ep2, PacketBytes + 1, Len(ep2)) /\ UNCHANGED <<rx_buffer, tx_buffer>>
  BY DEF PacketOut
<1> HIDE DEF packet
<1>12. \A i \in 1..filled : rev_buf'[i] = [at |-> i, of |-> result]
  <2> TAKE i \in 1..filled
  <2>1. filled <= RequestBytes
    <3> HIDE DEF pe
    <3> QED BY <1>2, <1>3, <1>4, <1>5, Sizes
  <2>2. i \in 1..RequestBytes
    BY <2>1, <1>5, Sizes
  <2>3. CASE i <= pc.filled
    BY <1>5, <1>10, <2>2, <2>3, Sizes
  <2>4. CASE i > pc.filled
    <3>1. i - pc.filled \in 1..PacketBytes /\ pc.filled + (i - pc.filled) = i
      BY <1>5, <2>2, <2>4, Sizes
    <3>2. i \in pc.filled + 1..filled
      BY <1>5, <2>2, <2>4, Sizes
    <3>3. rev_buf'[i] = packet[i - pc.filled]
      BY <1>10, <2>2, <3>2
    <3> QED BY <1>8, <3>1, <3>3
  <2> QED BY <2>3, <2>4, <1>5, Sizes
<1>13. filled \in Nat /\ filled <= RequestBytes /\ RequestBytes - filled = PacketBytes * (e - 1)
  <2> HIDE DEF pe
  <2> QED BY <1>2, <1>3, <1>4, <1>5, Sizes
<1>14. ep2' = [j \in 1..PacketBytes * (e - 1) |-> RequestBytes - PacketBytes * (e - 1) + j]
  <2> DEFINE a == RequestBytes - pe
             b == a + PacketBytes
             n == pe - PacketBytes
  <2>1. ep2 = [j \in 1..pe |-> a + j]
    BY <1>1
  <2>2. a \in Int /\ n \in Nat /\ PacketBytes \in 0..pe
    BY <1>2, <1>3, Sizes
  <2>3. SubSeq(ep2, PacketBytes + 1, Len(ep2)) = [j \in 1..n |-> b + j]
    <3> HIDE DEF pe, a
    <3>1. ep2 \in Seq(Int) /\ Len(ep2) = pe
      BY <2>1, <2>2, <1>2
    <3>2. SubSeq(ep2, PacketBytes + 1, pe) = [j \in 1..pe - PacketBytes |-> ep2[PacketBytes + j]]
      BY <3>1, <2>2, <1>2, <1>3, Sizes
    <3>3. \A j \in 1..pe - PacketBytes : ep2[PacketBytes + j] = b + j
      BY <2>1, <2>2, <1>2, <1>3, Sizes
    <3> QED BY <3>1, <3>2, <3>3
  <2>4. n = PacketBytes * (e - 1) /\ b = RequestBytes - PacketBytes * (e - 1)
    <3> HIDE DEF pe
    <3> QED BY <1>2, Sizes
  <2> HIDE DEF n, b
  <2> QED BY <2>3, <2>4, <1>11
<1>15. UNCHANGED <<ran, result>>
  BY <1>10 DEF linkvars
<1>16. DOMAIN rev_buf' = 1..RequestBytes /\ WordShown(rev_buf[1])' \subseteq {0, 1}
  <2>1. 1 \in 1..filled
    BY <1>5, Sizes
  <2>2. rev_buf'[1] = [at |-> 1, of |-> result]
    BY <1>12, <2>1
  <2> QED BY <1>10, <2>2 DEF WordShown, Types, Result
<1> HIDE DEF filled
<1>17. e - 1 \in 0..RequestBytes
  BY <1>3
<1>18. CASE filled < RequestBytes
  <2>1. pc' = [pc EXCEPT !.filled = filled]
    BY <1>10, <1>18
  <2>2. /\ pc' \in Application /\ pc'.filled = filled /\ pc'.n = pc.n /\ pc'.op = pc.op
        /\ pc'.st = pc.st /\ pc'.thread = "listening" /\ pc'.finished = pc.finished
        /\ pc'.tcp = pc.tcp
    BY <2>1, <1>4, <1>5, <1>13 DEF Application
  <2>3. Types' /\ OneAtATime'
    BY <2>2, <1>11, <1>15, <1>16 DEF Types, OneAtATime, Waiting
  <2>4. Owed' = PacketBytes * (e - 1)
    BY <2>2, <1>4, <1>13, <1>15 DEF Owed, Types
  <2>5. Thread'
    <3>1. \A i \in 1..pc'.filled : rev_buf'[i] = [at |-> i, of |-> result']
      BY <2>2, <1>12, <1>15
    <3>2. ~(ran' < pc'.n) /\ ~pc'.finished
      BY <2>2, <1>4, <1>5, <1>15 DEF Types, Application
    <3> QED BY <2>2, <3>1, <3>2, <1>6, <1>18 DEF Thread
  <2>6. UsbAnswer'
    BY <2>2, <2>4, <2>5, <1>6, <1>7, <1>11, <1>14, <1>15, <1>16, <1>17 DEF UsbAnswer, LastPackets
  <2> QED BY <2>2, <2>3, <2>6
<1>19. CASE ~(filled < RequestBytes)
  <2>1. pc' = [pc EXCEPT !.filled = filled, !.finished = TRUE, !.thread = "none"]
    BY <1>10, <1>19
  <2>2. /\ pc' \in Application /\ pc'.n = pc.n /\ pc'.op = pc.op
        /\ pc'.st = pc.st /\ pc'.thread = "none" /\ pc'.tcp = pc.tcp
    BY <2>1, <1>5, <1>13 DEF Application, Threads
  <2>3. Types' /\ OneAtATime'
    BY <2>2, <1>4, <1>11, <1>15, <1>16 DEF Types, OneAtATime, Waiting
  <2>4. filled = RequestBytes
    BY <1>13, <1>19, Sizes
  <2>5. Owed' = PacketBytes * (e - 1)
    BY <2>2, <2>4, <1>13, Sizes DEF Owed
  <2>6. rev_buf' = CellsOf(result)
    BY <2>4, <1>10, <1>12 DEF CellsOf
  <2>7. Thread'
    BY <2>2, <1>4, <1>6, <1>15 DEF Thread, UsbAnswer, Types, Application
  <2>8. UsbAnswer'
    BY <2>2, <2>5, <2>6, <2>7, <1>6, <1>7, <1>11, <1>14, <1>15, <1>16, <1>17 DEF UsbAnswer, LastPackets
  <2> QED BY <2>2, <2>3, <2>8
<1> QED BY <1>18, <1>19

(* A step that leaves the application and the answer alone.                *)
LEMMA AnswerUnmoved ==
  UsbAnswer /\ UNCHANGED <<pc, rev_buf, ran, result, ep2, tx_buffer>> => UsbAnswer'
<1> SUFFICES ASSUME UsbAnswer, UNCHANGED <<pc, rev_buf, ran, result, ep2, tx_buffer>>
             PROVE  UsbAnswer'
  OBVIOUS
<1>1. Owed' = Owed
  BY DEF Owed
<1>2. Thread'
  BY DEF Thread, UsbAnswer
<1>3. CellsOf(result)' = CellsOf(result)
  BY DEF CellsOf
<1> QED BY <1>1, <1>2, <1>3 DEF UsbAnswer, LastPackets

\* Between requests the application changes its mind about the connection.
Between ==
  /\ (AtRest /\ pc'.st \in {pc.st, "idle", "opening"}) \/ (pc.st = "opening" /\ pc'.st = "idle")
  /\ pc' \in Application /\ pc'.n = pc.n /\ pc'.op = pc.op /\ pc'.tcp = FALSE
  /\ pc'.thread = pc.thread

(* Nothing is on its way then that the change could disturb.               *)
LEMMA BetweenKeeps ==
  ASSUME Types, OneAtATime, UsbAnswer, Between,
         UNCHANGED <<ran, result, ep2, tx_buffer, rx_buffer>>,
         rev_buf' = rev_buf \/ (rev_buf' = Cleared /\ pc'.st = "idle")
  PROVE  Types' /\ OneAtATime' /\ UsbAnswer'
<1>1. pc.st \in {"idle", "shown", "opening"} /\ pc.thread = "none" /\ pc.n = ran
  BY DEF Between, AtRest, UsbAnswer, Thread, OneAtATime, Waiting
<1>2. DOMAIN rev_buf' = 1..RequestBytes
  BY DEF Types, Cleared
<1>3. Types' /\ OneAtATime'
  BY <1>1, <1>2 DEF Types, OneAtATime, Between, Waiting, AtRest
<1>4. Owed' = Owed
  BY <1>1 DEF Owed, Between
<1>5. Thread'
  BY <1>1 DEF Thread, Between, AtRest, Types
<1>6. CellsOf(result)' = CellsOf(result)
  BY DEF CellsOf
<1>7. pc'.st \notin {"recv", "send", "spin"} /\ (pc'.st = "shown" => pc.st = "shown" /\ rev_buf' = rev_buf)
  BY <1>1 DEF Between, AtRest
<1>8. pc'.n > 0 /\ pc'.thread = "none" /\ pc'.st \in {"send", "spin", "shown"} =>
        rev_buf' = CellsOf(result)'
  BY <1>1, <1>6, <1>7 DEF UsbAnswer, Between
<1>9. WordShown(rev_buf[1])' \subseteq {0, 1}
  <2>1. CASE rev_buf' = rev_buf
    BY <2>1 DEF UsbAnswer
  <2>2. CASE rev_buf' = Cleared
    BY <2>2, Sizes DEF WordShown, Cleared, Zero
  <2> QED BY <2>1, <2>2
<1>10. ran' = pc'.n /\ pc'.n > 0 => tx_buffer' = CellsOf(result)'
  BY <1>6 DEF UsbAnswer, Between
<1>11. ~pc'.tcp /\ pc'.st # "recv"
  BY <1>7 DEF Between
<1>12. LastPackets'
  BY <1>4 DEF UsbAnswer, LastPackets
<1> QED BY <1>3, <1>5, <1>8, <1>9, <1>10, <1>11, <1>12 DEF UsbAnswer

(* A handler whose receiving thread has begun goes on when the thread has  *)
(* ended, and shows the answer that has filled the buffer.                 *)
LEMMA SpinAwaits ==
  ASSUME Types, OneAtATime, UsbAnswer, SpinEnds, pc.thread # "created"
  PROVE  /\ pc.thread = "none" /\ ran = pc.n /\ result.n = pc.n
         /\ rev_buf = CellsOf(result) /\ pc'.word = result.word
<1>1. pc.st = "spin" /\ pc.finished /\ pc \in Application
  BY DEF SpinEnds, Types
<1>2. pc.thread = "none"
  BY <1>1 DEF UsbAnswer, Thread, Application, Threads
<1>3. pc.n > 0 /\ ran = pc.n /\ result.n = pc.n
  BY <1>1, <1>2 DEF OneAtATime, UsbAnswer, Thread, Application, Types
<1>4. rev_buf = CellsOf(result) /\ rev_buf[1] = [at |-> 1, of |-> result]
  <2>1. rev_buf = CellsOf(result)
    BY <1>1, <1>2, <1>3 DEF UsbAnswer
  <2> QED BY <2>1, Sizes DEF CellsOf
<1>5. result.op = pc.op /\ result.word \in WordsOf(pc.op) /\ pc.op \in Ops /\ result.word \in {0, 1}
  BY <1>3 DEF OneAtATime, Types, Result
<1>6. PICK w \in (IF GivesVerdict THEN WordShown(rev_buf[1]) ELSE {0}) :
        pc' = [pc EXCEPT !.st = "shown", !.word = w]
  BY DEF SpinEnds, Show
<1>7. w = result.word
  <2>1. CASE GivesVerdict
    BY <2>1, <1>4, <1>6 DEF WordShown
  <2>2. CASE ~GivesVerdict
    <3>1. pc.op \in {"ReadPage", "ReadParameter"}
      <4> SUFFICES ASSUME pc.op \notin {"ReadPage", "ReadParameter"} PROVE FALSE
        OBVIOUS
      <4>1. pc.op \in {"EraseBlock", "TestConsistent", "TestWriteSpeed", "TestReadSpeed"}
        BY <1>5, LinkAssumption DEF RequestOps
      <4>2. \E b \in Buttons : b.op = pc.op /\ b.verdict
        <5>1. /\ OnBnClickedButton4.op = "EraseBlock" /\ OnBnClickedButton4.verdict
              /\ OnBnClickedButton6.op = "TestConsistent" /\ OnBnClickedButton6.verdict
              /\ OnBnClickedButton7.op = "TestWriteSpeed" /\ OnBnClickedButton7.verdict
              /\ OnBnClickedButton8.op = "TestReadSpeed" /\ OnBnClickedButton8.verdict
          BY DEF OnBnClickedButton4, OnBnClickedButton6, OnBnClickedButton7, OnBnClickedButton8
        <5>2. \A b \in {OnBnClickedButton4, OnBnClickedButton6, OnBnClickedButton7, OnBnClickedButton8} :
                b.op \in Ops => b \in Buttons
          BY Zenon DEF Buttons
        <5> QED BY <4>1, <1>5, <5>1, <5>2
      <4> QED BY <2>2, <4>2 DEF GivesVerdict
    <3> QED BY <2>2, <1>5, <1>6, <3>1 DEF WordsOf
  <2> QED BY <2>1, <2>2
<1> QED BY <1>1, <1>2, <1>3, <1>4, <1>6, <1>7 DEF Application

(* One whose thread has not begun shows what it finds there; its request   *)
(* and the thread go on.                                                   *)
LEMMA SpinShows ==
  ASSUME Types, OneAtATime, UsbAnswer, SpinEnds, UNCHANGED usbvars
  PROVE  Types' /\ OneAtATime' /\ UsbAnswer' /\ pc'.n = pc.n /\ pc'.op = pc.op
<1>1. pc.st = "spin" /\ pc \in Application /\ pc.n # 0
  BY DEF SpinEnds, Types, OneAtATime
<1>2. PICK w \in (IF GivesVerdict THEN WordShown(rev_buf[1]) ELSE {0}) :
        pc' = [pc EXCEPT !.st = "shown", !.word = w]
  BY DEF SpinEnds, Show
<1>3. w \in {0, 1}
  BY <1>2 DEF UsbAnswer
<1>4. /\ pc' \in Application /\ pc'.st = "shown" /\ pc'.n = pc.n /\ pc'.op = pc.op
      /\ pc'.tcp = pc.tcp /\ pc'.thread = pc.thread /\ pc'.filled = pc.filled
      /\ pc'.finished = pc.finished
  BY <1>1, <1>2, <1>3 DEF Application, PcStates
<1>5. UNCHANGED <<rev_buf, ran, result, ep2, tx_buffer, rx_buffer>>
  BY DEF SpinEnds, linkvars, usbvars
<1>6. pc.thread = "none" => ran = pc.n
  BY SpinAwaits
<1>7. Types' /\ OneAtATime'
  BY <1>1, <1>4, <1>5, <1>6 DEF Types, OneAtATime, Waiting
<1>8. Owed' = Owed /\ CellsOf(result)' = CellsOf(result)
  BY <1>4, <1>5 DEF Owed, CellsOf
<1>9. Thread'
  BY <1>4, <1>5 DEF Thread, UsbAnswer
<1>10. WordShown(rev_buf[1])' \subseteq {0, 1}
  BY <1>5 DEF UsbAnswer
<1> QED BY <1>1, <1>4, <1>5, <1>7, <1>8, <1>9, <1>10 DEF UsbAnswer, LastPackets

(* The receiving thread begins with a cleared buffer, before any packet of *)
(* the answer, however late.                                               *)
LEMMA ThreadBegins ==
  ASSUME Types, OneAtATime, UsbAnswer, Sent \/ ThreadStarts, UNCHANGED usbvars
  PROVE  Types' /\ OneAtATime' /\ UsbAnswer' /\ pc'.n = pc.n /\ pc'.op = pc.op
<1>1. pc \in Application
  BY DEF Types
<1>2. UNCHANGED <<ran, result, ep2, tx_buffer, rx_buffer>>
  BY DEF Sent, ThreadStarts, linkvars, usbvars
<1>3. CASE Sent
  <2>1. pc.st = "send" /\ pc' = [pc EXCEPT !.st = "spin"] /\ rev_buf' = rev_buf
    BY <1>3 DEF Sent
  <2>2. /\ pc' \in Application /\ pc'.st = "spin" /\ pc'.n = pc.n /\ pc'.op = pc.op
        /\ pc'.tcp = pc.tcp /\ pc'.thread = pc.thread /\ pc'.filled = pc.filled
        /\ pc'.finished = pc.finished
    BY <1>1, <2>1 DEF Application, PcStates
  <2>3. Types' /\ OneAtATime'
    BY <1>2, <2>1, <2>2 DEF Types, OneAtATime, Waiting
  <2>4. Owed' = Owed /\ CellsOf(result)' = CellsOf(result)
    BY <1>2, <2>2 DEF Owed, CellsOf
  <2>5. Thread'
    BY <1>2, <2>1, <2>2 DEF Thread, UsbAnswer
  <2>6. WordShown(rev_buf[1])' \subseteq {0, 1}
    BY <2>1 DEF UsbAnswer
  <2> QED BY <1>2, <2>1, <2>2, <2>3, <2>4, <2>5, <2>6 DEF UsbAnswer, LastPackets
<1>4. CASE ThreadStarts
  <2>1. /\ pc.thread = "created" /\ rev_buf' = Cleared
        /\ pc' = [pc EXCEPT !.thread = "listening", !.finished = FALSE, !.filled = 0]
    BY <1>4 DEF ThreadStarts
  <2>2. /\ pc' \in Application /\ pc'.st = pc.st /\ pc'.n = pc.n /\ pc'.op = pc.op
        /\ pc'.tcp = pc.tcp /\ pc'.thread = "listening" /\ pc'.filled = 0 /\ ~pc'.finished
    BY <1>1, <2>1 DEF Application, Threads
  <2>3. pc.st \in {"send", "spin", "shown"}
    BY <2>1 DEF UsbAnswer, Thread
  <2>4. Types' /\ OneAtATime'
    BY <1>2, <2>1, <2>2 DEF Types, OneAtATime, Waiting, Cleared
  <2>5. Owed' = Owed /\ CellsOf(result)' = CellsOf(result)
    BY <1>2, <2>1, <2>2, Sizes DEF Owed, CellsOf
  <2>6. Thread'
    BY <1>2, <2>2, <2>3, Sizes DEF Thread
  <2>7. WordShown(rev_buf[1])' \subseteq {0, 1}
    BY <2>1, Sizes DEF WordShown, Cleared, Zero
  <2> QED BY <1>2, <2>2, <2>3, <2>4, <2>5, <2>6, <2>7 DEF UsbAnswer, LastPackets
<1> QED BY <1>3, <1>4

(***************************************************************************)
(* USB: every step keeps the invariant.                                    *)
(***************************************************************************)
(* Steps of the main loop and of endpoint 3.                               *)
LEMMA UsbStepKeeps ==
  ASSUME UsbState, Usb
  PROVE  /\ UsbState'
         /\ ran' # ran => Waiting /\ ran' = pc.n /\ result'.n = pc.n /\ result'.op = pc.op
<1>1. UNCHANGED <<pc, rev_buf, rx>> /\ UsbStep
  BY DEF Usb, pcvars
<1>2. CASE MainServe
  BY <1>1, <1>2, ServeAnswers DEF UsbState
<1>3. CASE PacketIn \/ ep3_irq_handler \/ MainPoll \/ MainCopy \/ MainUpdate
  <2>1. UNCHANGED <<ran, result, ep2, tx_buffer>> /\ DOMAIN rx_buffer' = DOMAIN rx_buffer
    <3>1. CASE PacketIn
      BY <3>1 DEF PacketIn
    <3>2. CASE ep3_irq_handler
      BY <3>2 DEF ep3_irq_handler, linkvars
    <3>3. CASE MainPoll
      BY <3>3 DEF MainPoll, linkvars
    <3>4. CASE MainCopy
      BY <3>4 DEF MainCopy, linkvars, UsbState, Types
    <3>5. CASE MainUpdate
      BY <3>5 DEF MainUpdate, linkvars
    <3> QED BY <1>3, <3>1, <3>2, <3>3, <3>4, <3>5
  <2>2. UsbAnswer'
    BY <1>1, <2>1, AnswerUnmoved DEF UsbState
  <2>3. Types' /\ OneAtATime'
    BY <1>1, <2>1 DEF UsbState, Types, OneAtATime, Waiting
  <2>4. UsbRequest'
    BY <1>1, <1>3, PacketInMoves, InterruptMoves, PollFinds, CopyTakes, UpdateEmpties DEF UsbState
  <2> QED BY <1>1, <2>1, <2>2, <2>3, <2>4 DEF UsbState
<1> QED BY <1>1, <1>2, <1>3 DEF UsbStep

(* Steps of the application and its user.                                  *)
LEMMA PcStepKeeps ==
  ASSUME UsbState, image = "usb", User \/ App \/ Open, UNCHANGED usbvars, UNCHANGED rx
  PROVE  UsbState' /\ ran' = ran
<1>1. pc \in Application /\ ~pc.tcp /\ pc.st # "recv" /\ pc.tcp = FALSE
  BY DEF UsbState, UsbAnswer, Types, Application
<1>2. UNCHANGED <<ring, ep3, ep2, main, rx_buffer, tx_buffer>>
  BY DEF usbvars
<1>3. CASE \E b \in Buttons : Press(b)
  <2>1. PICK b \in Buttons : Press(b)
    BY <1>3
  <2>2. ran' = ran
    BY <2>1 DEF Press
  <2> QED BY <2>1, <2>2, PressSends DEF UsbState
<1>4. ASSUME Close \/ Restart \/ Open \/ Opened PROVE UsbState' /\ ran' = ran
  <2>1. UNCHANGED <<down, ran, result>>
    BY <1>1, <1>4 DEF Close, Restart, Open, Opened, linkvars
  <2>2. Between /\ (rev_buf' = rev_buf \/ (rev_buf' = Cleared /\ pc'.st = "idle"))
    <3>1. CASE Close
      <4>1. AtRest /\ pc' = [pc EXCEPT !.handle = FALSE] /\ rev_buf' = rev_buf
        BY <3>1 DEF Close
      <4> QED BY <1>1, <4>1 DEF Between, Application
    <3>2. CASE Restart
      <4>1. /\ AtRest /\ rev_buf' = Cleared
            /\ pc' = [pc EXCEPT !.st = "idle", !.tcp = FALSE, !.handle = FALSE, !.finished = FALSE]
        BY <3>2 DEF Restart
      <4> QED BY <1>1, <4>1 DEF Between, Application, PcStates
    <3>3. CASE Open
      <4>1. /\ AtRest /\ rev_buf' = rev_buf
            /\ pc' = [pc EXCEPT !.st = "opening", !.connects = pc.connects + 1]
        BY <3>3 DEF Open
      <4>2. pc.connects + 1 \in Nat
        BY <1>1 DEF Application
      <4> QED BY <1>1, <4>1, <4>2 DEF Between, Application, PcStates
    <3>4. CASE Opened
      <4>1. /\ pc.st = "opening" /\ rev_buf' = rev_buf
            /\ pc' = [pc EXCEPT !.st = "idle", !.handle = TRUE]
        BY <3>4 DEF Opened
      <4> QED BY <1>1, <4>1 DEF Between, Application, PcStates
    <3> QED BY <1>4, <3>1, <3>2, <3>3, <3>4
  <2>3. Types' /\ OneAtATime' /\ UsbAnswer'
    BY <1>2, <2>1, <2>2, BetweenKeeps DEF UsbState
  <2>4. SameRequest
    BY <1>2, <2>1, <2>2 DEF SameRequest, Between
  <2> QED BY <2>1, <2>3, <2>4, RequestUnmoved DEF UsbState
<1>5. ASSUME Sent \/ ThreadStarts \/ SpinEnds PROVE UsbState' /\ ran' = ran
  <2>1. UNCHANGED <<down, ran>>
    BY <1>5 DEF Sent, ThreadStarts, SpinEnds, linkvars
  <2>2. Types' /\ OneAtATime' /\ UsbAnswer' /\ pc'.n = pc.n /\ pc'.op = pc.op
    BY <1>5, SpinShows, ThreadBegins DEF UsbState
  <2>3. SameRequest
    BY <1>2, <2>1, <2>2 DEF SameRequest
  <2> QED BY <2>1, <2>2, <2>3, RequestUnmoved DEF UsbState
<1>6. ~Connect /\ ~Recv
  BY <1>1 DEF Connect, Recv
<1> QED BY <1>3, <1>4, <1>5, <1>6 DEF User, App, UserStep, AppStep

(* Over USB, whatever happens, the request is where UsbRequest says and    *)
(* the answer where UsbAnswer says; a request is carried out once.         *)
LEMMA UsbKeeps ==
  ASSUME UsbState, image = "usb", [HostNext]_hostvars
  PROVE  /\ UsbState'
         /\ ran' # ran => Waiting /\ ran' = pc.n /\ result'.n = pc.n /\ result'.op = pc.op
<1>1. CASE User \/ App
  BY <1>1, PcStepKeeps DEF User, App
<1>2. CASE Device
  BY <1>2, PcStepKeeps DEF Device
<1>3. CASE Usb
  BY <1>3, UsbStepKeeps
<1>4. CASE Control \/ UNCHANGED hostvars
  <2>1. UNCHANGED <<linkvars, pc, rev_buf, usbvars, rx>>
    BY <1>4 DEF Control, hostvars, pcvars
  <2>2. UNCHANGED <<down, ran, result, ring, ep3, ep2, main, rx_buffer, tx_buffer, pc, rev_buf, rx>>
    BY <2>1 DEF linkvars, usbvars
  <2>3. SameRequest
    BY <2>2 DEF SameRequest
  <2>4. Types' /\ OneAtATime'
    BY <2>2 DEF UsbState, Types, OneAtATime, Waiting
  <2> QED BY <2>2, <2>3, <2>4, RequestUnmoved, AnswerUnmoved DEF UsbState
<1>5. CASE Answers
  <2>1. UNCHANGED <<down, ran, result, ring, ep3, main, rx_buffer, rx>> /\ PacketOut
    BY <1>5 DEF Answers, PacketOut, ThreadReceives, linkvars
  <2>2. Types' /\ OneAtATime' /\ UsbAnswer' /\ pc'.n = pc.n /\ pc'.op = pc.op
    BY <2>1, PacketOutArrives DEF UsbState
  <2>3. SameRequest
    BY <2>1, <2>2 DEF SameRequest
  <2> QED BY <2>1, <2>2, <2>3, RequestUnmoved DEF UsbState
<1>6. ~Raw /\ ~Rtos
  BY DEF Raw, RawStep, Rtos, RtosStep
<1> QED BY <1>1, <1>2, <1>3, <1>4, <1>5, <1>6 DEF HostNext

(* No step changes the firmware.                                           *)
LEMMA ImageStays == [HostNext]_hostvars => image' = image
<1> SUFFICES ASSUME [HostNext]_hostvars PROVE image' = image
  OBVIOUS
<1> USE DEF linkvars
<1>1. CASE User
  BY <1>1 DEF User, UserStep, Close, Connect, Restart, Press
<1>2. CASE Device
  BY <1>2 DEF Device, Open
<1>3. CASE App
  BY <1>3 DEF App, AppStep, Opened, Sent, ThreadStarts, SpinEnds, Recv
<1>4. CASE Control
  BY <1>4 DEF Control
<1>5. CASE Usb
  BY <1>5 DEF Usb, UsbStep, PacketIn, ep3_irq_handler, MainPoll, MainCopy, MainUpdate, MainServe
<1>6. CASE Answers
  BY <1>6 DEF Answers, PacketOut, ThreadReceives
<1>7. CASE Raw
  BY <1>7 DEF Raw, RawStep
<1>8. CASE Rtos
  BY <1>8 DEF Rtos, RtosStep
<1>9. CASE UNCHANGED hostvars
  BY <1>9 DEF hostvars
<1> QED BY <1>1, <1>2, <1>3, <1>4, <1>5, <1>6, <1>7, <1>8, <1>9 DEF HostNext

(* The board and the application begin with nothing under way.             *)
LEMMA UsbBegins == HostInit => UsbState
<1> SUFFICES ASSUME HostInit PROVE UsbState
  OBVIOUS
<1> USE DEF HostInit, LinkInit, PcInit, CtlInit, UsbInit, RawInit
<1>1. Types /\ OneAtATime
  BY DEF Types, OneAtATime, Application, PcStates, Threads, Result, Cleared, NoRequest, CellsOf
<1>2. Ring /\ MainLoop
  BY Sizes DEF Ring, MainLoop, buffer_init
<1>3. Carried(0, 0)
  <2>1. Coming = 0 /\ PacketBytes * 0 = 0 /\ ring.end = 0
    BY Sizes DEF Coming, buffer_init
  <2> QED BY <2>1, Sizes DEF Carried, LastOf, From
<1>4. UsbAnswer
  <2>1. Owed = 0 /\ PacketBytes * 0 = 0 /\ Thread
    BY Sizes DEF Owed, Thread
  <2>2. WordShown(rev_buf[1]) \subseteq {0, 1}
    BY Sizes DEF WordShown, Cleared, Zero
  <2> QED BY <2>1, <2>2, Sizes DEF UsbAnswer, LastPackets
<1> QED BY <1>1, <1>2, <1>3, <1>4, Sizes DEF UsbRequest, UsbState

\* What AnswerAwaited says of a step.
Awaits ==
  image = "usb" /\ pc.st = "spin" /\ pc'.st = "shown" /\ pc.thread # "created" =>
    result.n = pc.n /\ rev_buf = CellsOf(result) /\ pc'.word = result.word

(* Only the spinning handler shows anything.                               *)
LEMMA OnlySpinShows ==
  ASSUME image = "usb", pc.st = "spin", pc'.st = "shown", [HostNext]_hostvars PROVE SpinEnds
<1>1. ~AtRest
  BY DEF AtRest, Waiting
<1>2. CASE User
  BY <1>1, <1>2 DEF User, UserStep, Close, Connect, Restart, Press
<1>3. CASE Device
  BY <1>1, <1>3 DEF Device, Open
<1>4. CASE App
  <2>1. ~Opened /\ ~Recv /\ ~Sent
    BY DEF Opened, Recv, Sent
  <2>2. CASE ThreadStarts
    <3>1. pc' = [pc EXCEPT !.thread = "listening", !.finished = FALSE, !.filled = 0]
      BY <2>2 DEF ThreadStarts
    <3>2. pc'.st = pc.st \/ pc'.st # "shown"
      BY <3>1
    <3> QED BY <3>2
  <2> QED BY <1>4, <2>1, <2>2 DEF App, AppStep
<1>5. CASE Control \/ Usb \/ Raw \/ Rtos \/ UNCHANGED hostvars
  BY <1>5 DEF Control, Usb, Raw, Rtos, hostvars, pcvars
<1>6. CASE Answers
  BY <1>6 DEF Answers, PacketOut, ThreadReceives
<1> QED BY <1>2, <1>3, <1>4, <1>5, <1>6 DEF HostNext

(* A handler whose receiving thread has begun shows the answer to its own  *)
(* click, all of it and the word of it, however late the thread of an      *)
(* earlier click began.  (Its request is a whole number of packets and     *)
(* fits in the ring, and no click is made while an answer is to come.)     *)
THEOREM AnswersAwaited == HostSpec => AnswerAwaited
<1> DEFINE UsbInvariant == image = "usb" => UsbState
<1>1. HostInit => UsbInvariant
  BY UsbBegins
<1>2. UsbInvariant /\ [HostNext]_hostvars => UsbInvariant'
  BY UsbKeeps, ImageStays
<1>3. UsbInvariant /\ [HostNext]_hostvars => [Awaits]_hostvars
  BY OnlySpinShows, SpinAwaits DEF UsbState, Awaits
<1> QED
  BY <1>1, <1>2, <1>3, PTL DEF HostSpec, AnswerAwaited, Awaits

(***************************************************************************)
(* TCP: what a step makes of the request and its answer.                   *)
(***************************************************************************)

(* A run of the request's cells is a sequence of cells.                    *)
LEMMA FromIs ==
  ASSUME NEW a \in Int, NEW n \in Nat
  PROVE  /\ From(a, n) \in Seq({Cell(i) : i \in Int})
         /\ Len(From(a, n)) = n
         /\ \A j \in 1..n : From(a, n)[j] = Cell(a + j)
<1> DEFINE C(i) == Cell(i)
           S == {C(i) : i \in Int}
           s == [j \in 1..n |-> C(a + j)]
<1>1. From(a, n) = s /\ S = {Cell(i) : i \in Int}
  BY DEF From
<1> HIDE DEF C
<1>2. \A j \in 1..n : C(a + j) \in S
  OBVIOUS
<1> HIDE DEF S
<1>3. s \in Seq(S) /\ Len(s) = n /\ \A j \in 1..n : s[j] = C(a + j)
  BY <1>2
<1> HIDE DEF s
<1> QED BY <1>1, <1>3 DEF C

(* Two runs of the request's cells that meet are one.                      *)
LEMMA FromJoin ==
  ASSUME NEW a \in Int, NEW n \in Nat, NEW k \in Nat
  PROVE  From(a, n) \o From(a + n, k) = From(a, n + k)
<1> DEFINE S == {Cell(i) : i \in Int}
           C(i) == Cell(i)
           s == From(a, n)
           t == From(a + n, k)
           u == From(a, n + k)
<1>1. /\ s \in Seq(S) /\ Len(s) = n /\ \A j \in 1..n : s[j] = C(a + j)
      /\ t \in Seq(S) /\ Len(t) = k /\ \A j \in 1..k : t[j] = C((a + n) + j)
      /\ u \in Seq(S) /\ Len(u) = n + k /\ \A j \in 1..n + k : u[j] = C(a + j)
  <2>1. a + n \in Int /\ n + k \in Nat
    OBVIOUS
  <2> QED BY <2>1, FromIs
<1> HIDE DEF S, C, s, t, u
<1>2. /\ s \o t \in Seq(S) /\ Len(s \o t) = n + k
      /\ \A i \in 1..n + k : (s \o t)[i] = IF i <= n THEN s[i] ELSE t[i - n]
  BY <1>1, ConcatProperties
<1>3. ASSUME NEW i \in 1..n + k PROVE (s \o t)[i] = u[i]
  <2>1. CASE i <= n
    BY <2>1, <1>1, <1>2
  <2>2. CASE ~(i <= n)
    <3>1. i - n \in 1..k /\ (a + n) + (i - n) = a + i
      BY <2>2
    <3>2. (s \o t)[i] = t[i - n]
      BY <2>2, <1>2
    <3> QED BY <3>1, <3>2, <1>1
  <2> QED BY <2>1, <2>2
<1>4. s \o t = u
  BY <1>1, <1>2, <1>3, SeqEqual
<1> QED BY <1>4 DEF s, t, u

(* Taking the first cells off a sequence leaves its last one last.         *)
LEMMA AppendCut ==
  ASSUME NEW S, NEW s \in Seq(S), NEW x, NEW k \in 0..Len(s)
  PROVE  /\ Append(s, x) # << >>
         /\ Len(Append(s, x)) = Len(s) + 1 /\ Append(s, x)[Len(s) + 1] = x
         /\ SubSeq(Append(s, x), 1, k) = SubSeq(s, 1, k)
         /\ SubSeq(Append(s, x), k + 1, Len(s) + 1) = Append(SubSeq(s, k + 1, Len(s)), x)
<1> DEFINE n == Len(s)
           t == Append(s, x)
           T == S \cup {x}
           u == SubSeq(s, k + 1, n)
           v == SubSeq(t, k + 1, n + 1)
<1>1. n \in Nat /\ s \in Seq(T) /\ x \in T /\ k \in 0..n /\ Len(s) = n
  OBVIOUS
<1> HIDE DEF T, n
<1>2. t # << >> /\ t \in Seq(T) /\ Len(t) = n + 1 /\ t[n + 1] = x /\ \A j \in 1..n : t[j] = s[j]
  BY <1>1, AppendProperties
<1> HIDE DEF t
<1>3. SubSeq(t, 1, k) = SubSeq(s, 1, k)
  <2>1. SubSeq(t, 1, k) = [j \in 1..k |-> t[j]] /\ SubSeq(s, 1, k) = [j \in 1..k |-> s[j]]
    BY <1>1, <1>2
  <2> QED BY <2>1, <1>1, <1>2
<1>4. u \in Seq(T) /\ Len(u) = n - k /\ \A j \in 1..n - k : u[j] = s[k + j]
  BY <1>1
<1>5. v \in Seq(T) /\ Len(v) = n + 1 - k /\ \A j \in 1..n + 1 - k : v[j] = t[k + j]
  BY <1>1, <1>2
<1> HIDE DEF u, v
<1>6. /\ Append(u, x) \in Seq(T) /\ Len(Append(u, x)) = n - k + 1
      /\ Append(u, x)[n - k + 1] = x /\ \A j \in 1..n - k : Append(u, x)[j] = u[j]
  BY <1>1, <1>4, AppendProperties
<1>7. \A j \in 1..Len(v) : v[j] = Append(u, x)[j]
  <2> TAKE j \in 1..Len(v)
  <2>1. CASE j = n - k + 1
    BY <2>1, <1>1, <1>2, <1>5, <1>6
  <2>2. CASE j # n - k + 1
    <3>1. j \in 1..n - k /\ k + j \in 1..n
      BY <2>2, <1>1, <1>5
    <3> QED BY <3>1, <1>2, <1>4, <1>5, <1>6
  <2> QED BY <2>1, <2>2
<1>8. Len(v) = Len(Append(u, x))
  BY <1>1, <1>5, <1>6
<1>9. v = Append(u, x)
  BY <1>5, <1>6, <1>7, <1>8, SeqEqual
<1> QED BY <1>2, <1>3, <1>9 DEF t, u, v, n

(* A cell of a request is not the end of a connection.                     *)
LEMMA CellNotFin == \A i \in Int : i > 0 => Cell(i) # Fin
  BY DEF Cell, Fin

(* What is on its way begins with m cells of the request, the last of it.  *)
LEMMA LastIs ==
  ASSUME NEW m \in 0..RequestBytes
  PROVE  /\ LastOf(m) \in Seq({Cell(i) : i \in Int}) /\ Len(LastOf(m)) = m
         /\ \A j \in 1..m : LastOf(m)[j] = Cell(RequestBytes - m + j)
         /\ \A j \in 1..m : LastOf(m)[j] # Fin
         /\ \A k \in 0..m : /\ SubSeq(LastOf(m), 1, k) = From(RequestBytes - m, k)
                             /\ SubSeq(LastOf(m), k + 1, m) = LastOf(m - k)
<1> DEFINE a == RequestBytes - m
<1>1. a \in Int /\ a >= 0 /\ m \in Nat
  BY Sizes
<1>2. \A k \in 0..m : RequestBytes - (m - k) = a + k
  BY Sizes
<1> HIDE DEF a
<1>3. LastOf(m) = From(a, m) /\ \A k \in 0..m : LastOf(m - k) = From(a + k, m - k)
  BY <1>2 DEF LastOf, a
<1>4. \A k \in 0..m : /\ SubSeq(From(a, m), 1, k) = From(a, k)
                      /\ SubSeq(From(a, m), k + 1, m) = From(a + k, m - k)
  BY <1>1, FromCut
<1>5. /\ From(a, m) \in Seq({Cell(i) : i \in Int}) /\ Len(From(a, m)) = m
      /\ \A j \in 1..m : From(a, m)[j] = Cell(a + j)
  BY <1>1, FromIs
<1>6. \A j \in 1..m : Cell(a + j) # Fin
  BY <1>1, CellNotFin
<1> QED BY <1>3, <1>4, <1>5, <1>6 DEF a

(* Cells read from a connection are the next of the request; what is left  *)
(* of it is as before.                                                     *)
LEMMA SendingCut ==
  ASSUME NEW m \in 0..RequestBytes, Sending(m), NEW k \in 1..Len(down),
         \A i \in 1..k : down[i] # Fin
  PROVE  /\ k <= m /\ SubSeq(down, 1, k) = From(RequestBytes - m, k)
         /\ \/ down = LastOf(m) /\ SubSeq(down, k + 1, Len(down)) = LastOf(m - k)
            \/ /\ ~pc.tcp /\ ran = pc.n
               /\ SubSeq(down, k + 1, Len(down)) = Append(LastOf(m - k), Fin)
<1> DEFINE s == LastOf(m)
           S == {Cell(i) : i \in Int}
<1>1. s \in Seq(S) /\ Len(s) = m /\ m \in Nat
  <2>1. s \in Seq(S) /\ Len(s) = m
    BY LastIs, Zenon
  <2> QED BY <2>1, Sizes
<1>2. k \in 0..m => /\ SubSeq(s, 1, k) = From(RequestBytes - m, k)
                     /\ SubSeq(s, k + 1, m) = LastOf(m - k)
  BY LastIs
<1> HIDE DEF S, s
<1>3. CASE down = s
  <2>1. k \in 0..m
    BY <1>1, <1>3
  <2> QED BY <1>1, <1>2, <1>3, <2>1 DEF s
<1>4. CASE ~pc.tcp /\ ran = pc.n /\ down = Append(s, Fin)
  <2>1. Len(down) = m + 1 /\ down[m + 1] = Fin
    BY <1>1, <1>4
  <2>2. k \in 0..m
    <3>1. ~(m + 1 \in 1..k)
      BY <2>1
    <3> QED BY <1>1, <2>1, <3>1
  <2>3. /\ SubSeq(down, 1, k) = SubSeq(s, 1, k)
        /\ SubSeq(down, k + 1, m + 1) = Append(SubSeq(s, k + 1, m), Fin)
    BY <1>1, <1>4, <2>2, AppendCut
  <2>4. SubSeq(down, 1, k) = From(RequestBytes - m, k)
    BY <1>2, <2>2, <2>3
  <2>5. SubSeq(down, k + 1, Len(down)) = Append(LastOf(m - k), Fin)
    BY <1>2, <2>1, <2>2, <2>3
  <2>6. k <= m
    BY <1>1, <2>2
  <2> QED BY <1>4, <2>4, <2>5, <2>6
<1> QED BY <1>3, <1>4 DEF Sending, s

(* A click finds nothing left of the last one in its connection.           *)
LEMMA ClickFinds ==
  ASSUME TcpState, image \in {"raw", "rtos"}, AtRest, pc.tcp, UserIsSlow
  PROVE  down = << >> /\ up = << >> /\ rx = << >> /\ ran = pc.n
<1>1. ran = pc.n /\ pc.st # "recv"
  BY DEF TcpState, OneAtATime, AtRest, Waiting
<1>2. PICK m \in 0..RequestBytes : Remains(m)
  BY DEF TcpState, TcpRequest
<1>3. CASE image = "rtos"
  BY <1>1, <1>2, <1>3 DEF UserIsSlow, Remains, TcpState, TcpAnswer
<1>4. CASE image = "raw"
  <2>1. m = 0 /\ rx = << >> /\ down = LastOf(0)
    BY <1>1, <1>2, <1>4 DEF Remains, Sending
  <2>2. LastOf(0) = << >>
    BY Sizes DEF LastOf, From
  <2> QED BY <1>1, <2>1, <2>2 DEF TcpState, TcpAnswer
<1> QED BY <1>3, <1>4

(* The cells of a request stay its cells while the click stays.            *)
LEMMA CellsStay ==
  pc'.n = pc.n /\ pc'.op = pc.op =>
    \A k, n : From(k, n)' = From(k, n) /\ LastOf(n)' = LastOf(n)
<1> SUFFICES ASSUME pc'.n = pc.n, pc'.op = pc.op
             PROVE  \A k, n : From(k, n)' = From(k, n) /\ LastOf(n)' = LastOf(n)
  OBVIOUS
<1>1. \A i : Cell(i)' = Cell(i)
  BY DEF Cell
<1>2. \A k, n : From(k, n)' = From(k, n)
  BY <1>1 DEF From
<1> QED BY <1>2 DEF LastOf

(* A click sends its whole request into the empty connection.              *)
LEMMA TcpPressSends ==
  ASSUME TcpState, image \in {"raw", "rtos"}, NEW b \in Buttons, Press(b),
         UNCHANGED <<usbvars, rx>>
  PROVE  TcpState' /\ ran' = ran
<1>1. pc \in Application /\ pc.tcp /\ AtRest
  BY DEF TcpState, Types, TcpRequest, Press
<1>2. down = << >> /\ up = << >> /\ rx = << >> /\ ran = pc.n
  BY <1>1, ClickFinds DEF Press
<1>3. b.op \in Ops
  BY DEF Buttons
<1>4. pc' = [pc EXCEPT !.st = "recv", !.n = pc.n + 1, !.op = b.op]
  BY <1>1 DEF Press, Application
<1>5. /\ pc' \in Application /\ pc'.n = ran + 1 /\ pc'.op = b.op /\ pc'.st = "recv"
      /\ pc'.thread = pc.thread /\ pc'.tcp /\ pc'.handle = pc.handle
  <2>1. pc.n + 1 \in Nat
    BY <1>1 DEF Application
  <2>2. pc' \in Application
    BY <1>1, <1>3, <1>4, <2>1 DEF Application, PcStates
  <2> QED BY <1>1, <1>2, <1>4, <2>2 DEF Application
<1>6. UNCHANGED <<ran, result, rev_buf, up, image, ring, main, ep3, ep2, rx_buffer, rx>>
  BY DEF Press, usbvars
<1>7. Types' /\ OneAtATime'
  BY <1>3, <1>5, <1>6 DEF TcpState, Types, OneAtATime, Waiting
<1>8. down' = LastOf(RequestBytes)'
  <2>1. down' = CellsOf([n |-> pc.n + 1, op |-> b.op])
    BY <1>2, AfterNothing DEF Press
  <2>2. pc.n + 1 = pc'.n /\ b.op = pc'.op
    BY <1>2, <1>5
  <2>3. \A j \in 1..RequestBytes : RequestBytes - RequestBytes + j = j
    BY Sizes
  <2> QED BY <2>1, <2>2, <2>3 DEF CellsOf, Cell, LastOf, From
<1>9. Remains(RequestBytes)'
  <2>1. Len(rx') = 0 /\ ran' # pc'.n
    BY <1>2, <1>5, <1>6 DEF TcpState, Types
  <2> QED BY <1>8, <2>1, Sizes DEF Remains, Sending
<1>10. TcpRequest'
  <2>1. rx' = << >> /\ Len(rx') = 0
    BY <1>2, <1>6
  <2>2. From(0, 0)' = << >>
    BY DEF From
  <2>3. (rx = From(0, Len(rx)) /\ Len(rx) \in Nat)'
    BY <2>1, <2>2
  <2>4. (\E m \in 0..RequestBytes : Remains(m))'
    BY <1>9, Sizes
  <2> QED BY <1>2, <1>5, <1>6, <2>1, <2>3, <2>4 DEF TcpState, TcpRequest
<1>11. UsbAtRest'
  BY <1>6 DEF TcpState, UsbAtRest
<1>12. TcpAnswer'
  BY <1>2, <1>5, <1>6 DEF TcpAnswer, TcpState, Types
<1> QED BY <1>6, <1>7, <1>10, <1>11, <1>12 DEF TcpState

(* A recv takes the whole answer, and the button shows it.                 *)
LEMMA RecvTakes ==
  ASSUME RecvWhole, TcpState, image \in {"raw", "rtos"}, Recv, UNCHANGED <<usbvars, rx>>
  PROVE  TcpState' /\ ran' = ran
<1>1. pc \in Application /\ pc.st = "recv" /\ pc.tcp
  BY DEF TcpState, Types, TcpRequest, Recv
<1>2. PICK m \in RecvAtLeast..RequestBytes :
        /\ m <= Len(up)
        /\ rev_buf' = [i \in 1..RequestBytes |-> IF i <= m THEN up[i] ELSE rev_buf[i]]
        /\ up' = SubSeq(up, m + 1, Len(up))
  BY DEF Recv
<1>3. m = RequestBytes
  BY RecvAssumption, Sizes DEF RecvWhole
<1>4. up = CellsOf(result) /\ ran = pc.n
  <2>1. Len(<< >>) = 0 /\ RequestBytes > 0
    BY Sizes
  <2>2. up # << >>
    BY <1>2, <1>3, <2>1, Sizes
  <2> QED BY <1>1, <2>2 DEF TcpState, TcpAnswer
<1>5. Len(up) = RequestBytes /\ \A i \in 1..RequestBytes : up[i] = [at |-> i, of |-> result]
  BY <1>4, Sizes DEF CellsOf
<1>6. up' = << >>
  BY <1>2, <1>3, <1>5, Sizes
<1>7. rev_buf'[1].of = result /\ DOMAIN rev_buf' = 1..RequestBytes /\ rev_buf'[1].at = 1
  BY <1>2, <1>3, <1>5, Sizes
<1>8. PICK w \in (IF GivesVerdict THEN WordShown(rev_buf'[1]) ELSE {0}) :
        pc' = [pc EXCEPT !.st = "shown", !.word = w]
  BY DEF Recv, Show
<1>9. w \in {0, 1}
  BY <1>7, <1>8 DEF WordShown, TcpState, Types, Result
<1>10. /\ pc' \in Application /\ pc'.st = "shown" /\ pc'.n = pc.n /\ pc'.op = pc.op
       /\ pc'.tcp = pc.tcp /\ pc'.thread = pc.thread /\ pc'.handle = pc.handle
  BY <1>1, <1>8, <1>9 DEF Application, PcStates
<1>11. UNCHANGED <<ran, result, down, image, ring, main, ep3, ep2, rx_buffer, rx>>
  BY DEF Recv, usbvars
<1>12. Types' /\ OneAtATime'
  <2>1. pc.n # 0
    BY <1>1 DEF TcpState, OneAtATime
  <2> QED BY <1>4, <1>7, <1>10, <1>11, <2>1 DEF TcpState, Types, OneAtATime
<1>13. \A k, n : From(k, n)' = From(k, n) /\ LastOf(n)' = LastOf(n)
  BY <1>10, CellsStay
<1>14. TcpRequest'
  <2>1. PICK r \in 0..RequestBytes : Remains(r)
    BY DEF TcpState, TcpRequest
  <2>2. Remains(r)'
    BY <1>10, <1>11, <1>13, <2>1 DEF Remains, Sending
  <2> QED BY <1>10, <1>11, <1>13, <2>2 DEF TcpState, TcpRequest
<1> QED BY <1>6, <1>10, <1>11, <1>12, <1>14 DEF TcpState, UsbAtRest, TcpAnswer

(* Closing the application closes its connection behind what is left in    *)
(* it, and connecting finds nothing left.                                  *)
LEMMA TcpReconnects ==
  ASSUME TcpState, image \in {"raw", "rtos"}, Restart \/ Connect, UNCHANGED <<usbvars, rx>>
  PROVE  TcpState' /\ ran' = ran
<1>1. pc \in Application /\ AtRest /\ ran = pc.n /\ pc.st # "recv" /\ ~pc.handle
  BY DEF TcpState, Types, TcpRequest, OneAtATime, Restart, Connect, AtRest, Waiting
<1>2. PICK m \in 0..RequestBytes : Remains(m)
  BY DEF TcpState, TcpRequest
<1>3. UNCHANGED <<ran, result, image, ring, main, ep3, ep2, rx_buffer, rx>> /\ up' = << >>
  BY DEF Restart, Connect, usbvars
<1>4. /\ pc' \in Application /\ pc'.n = pc.n /\ pc'.op = pc.op /\ pc'.thread = pc.thread
      /\ ~pc'.handle /\ pc'.st \in {pc.st, "idle"} /\ DOMAIN rev_buf' = 1..RequestBytes
  <2>1. CASE Restart
    <3>1. /\ rev_buf' = Cleared
          /\ pc' = [pc EXCEPT !.st = "idle", !.tcp = FALSE, !.handle = FALSE, !.finished = FALSE]
      BY <2>1 DEF Restart
    <3> QED BY <1>1, <3>1 DEF Application, PcStates, Cleared
  <2>2. CASE Connect
    <3>1. pc' = [pc EXCEPT !.tcp = TRUE, !.connects = pc.connects + 1] /\ rev_buf' = rev_buf
      BY <2>2 DEF Connect
    <3>2. pc.connects + 1 \in Nat
      BY <1>1 DEF Application
    <3> QED BY <1>1, <3>1, <3>2 DEF Application, TcpState, Types
  <2> QED BY <2>1, <2>2
<1>5. Types' /\ OneAtATime'
  BY <1>1, <1>3, <1>4 DEF TcpState, Types, OneAtATime, Waiting, AtRest
<1>6. \A k, n : From(k, n)' = From(k, n) /\ LastOf(n)' = LastOf(n)
  BY <1>4, CellsStay
<1>7. Sending(m)'
  <2>1. CASE Restart
    <3>1. pc.tcp /\ down = LastOf(m) /\ down' = Append(down, Fin)
      BY <1>1, <1>2, <2>1 DEF Restart, Remains, Sending
    <3>2. ~pc'.tcp
      BY <1>1, <2>1 DEF Restart, Application
    <3> QED BY <1>1, <1>3, <1>4, <1>6, <3>1, <3>2 DEF Sending
  <2>2. CASE Connect
    <3>1. down = << >> /\ down' = down
      BY <2>2 DEF Connect
    <3>2. down = LastOf(m)
      <4>1. LastOf(m) \in Seq({Cell(i) : i \in Int})
        BY LastIs, Zenon
      <4>2. Append(LastOf(m), Fin) # << >>
        BY <4>1
      <4> QED BY <1>2, <3>1, <4>2 DEF Remains, Sending
    <3> QED BY <1>6, <3>1, <3>2 DEF Sending
  <2> QED BY <2>1, <2>2
<1>8. Remains(m)'
  BY <1>1, <1>2, <1>3, <1>4, <1>7 DEF Remains
<1>9. TcpRequest'
  <2>1. pc'.st \notin {"send", "spin", "opening", "recv"}
    BY <1>1, <1>4 DEF AtRest
  <2>2. (\E r \in 0..RequestBytes : Remains(r))'
    BY <1>8
  <2> QED BY <1>3, <1>4, <1>6, <2>1, <2>2 DEF TcpState, TcpRequest
<1>10. TcpAnswer'
  BY <1>1, <1>3, <1>4 DEF TcpAnswer
<1> QED BY <1>3, <1>5, <1>9, <1>10 DEF TcpState, UsbAtRest

(* The board finds the end of a connection behind all of its cells.        *)
LEMMA FinIsLast ==
  ASSUME TcpState, down # << >>, Head(down) = Fin
  PROVE  ran = pc.n /\ rx = << >> /\ ~pc.tcp /\ Tail(down) = << >>
<1>1. PICK m \in 0..RequestBytes : Remains(m)
  BY DEF TcpState, TcpRequest
<1> DEFINE s == LastOf(m)
           S == {Cell(i) : i \in Int}
<1>2. s \in Seq(S) /\ Len(s) = m /\ \A j \in 1..m : s[j] # Fin
  BY LastIs, Zenon
<1>3. m \in Nat
  BY Sizes
<1>4. down = s \/ (~pc.tcp /\ ran = pc.n /\ down = Append(s, Fin))
  BY <1>1 DEF Remains, Sending
<1>5. ran = pc.n => rx = << >>
  BY <1>1 DEF Remains
<1> HIDE DEF s, S
<1>6. down # s
  BY <1>2, <1>3
<1>7. s = << >>
  <2> SUFFICES ASSUME s # << >> PROVE FALSE
    OBVIOUS
  <2>1. m > 0
    BY <1>2, <1>3
  <2>2. Append(s, Fin)[1] = s[1]
    BY <1>2, <1>3, <2>1
  <2> QED BY <1>2, <1>3, <1>4, <1>6, <2>1, <2>2
<1>8. Tail(Append(<< >>, Fin)) = << >>
  OBVIOUS
<1> QED BY <1>4, <1>5, <1>6, <1>7, <1>8

(* A whole request has been gathered or read, and is answered into an      *)
(* empty stream, for the click that waits.                                 *)
LEMMA ExecuteAnswers ==
  ASSUME TcpState, ran < pc.n, NEW buffer, buffer[1] = Cell(1), Execute(buffer[1].of),
         up' = up \o CellsOf(result'), UNCHANGED pcvars, UNCHANGED usbvars
  PROVE  /\ Types' /\ OneAtATime' /\ TcpAnswer'
         /\ Waiting /\ ran' = pc.n /\ result'.n = pc.n /\ result'.op = pc.op
<1>1. pc.n = ran + 1 /\ Waiting /\ pc.n > 0 /\ pc.op \in Ops
  BY DEF TcpState, OneAtATime, Types, Application
<1>2. buffer[1].of.n = pc.n /\ buffer[1].of.op = pc.op
  BY DEF Cell
<1>3. PICK w \in WordsOf(pc.op) :
        ran' = ran + 1 /\ result' = [n |-> pc.n, op |-> pc.op, word |-> w]
  BY <1>2 DEF Execute
<1>4. w \in {0, 1}
  BY DEF WordsOf
<1>5. UNCHANGED <<pc, rev_buf, rx_buffer>>
  BY DEF pcvars, usbvars
<1>6. Types' /\ OneAtATime'
  BY <1>1, <1>3, <1>4, <1>5 DEF TcpState, Types, OneAtATime, Result, Application, Waiting
<1>7. pc.st = "recv" /\ up = << >>
  BY <1>1 DEF TcpState, TcpRequest, TcpAnswer, Waiting, Types, Application
<1>8. up' = CellsOf(result')
  BY <1>7, AfterNothing
<1> QED BY <1>1, <1>3, <1>5, <1>6, <1>7, <1>8 DEF TcpAnswer, Types

(* The raw image gathers the request from the connection's frames and      *)
(* answers when it has all of it.                                          *)
LEMMA RawStepKeeps ==
  ASSUME TcpState, Raw
  PROVE  /\ TcpState'
         /\ ran' # ran => Waiting /\ ran' = pc.n /\ result'.n = pc.n /\ result'.op = pc.op
<1>1. /\ image = "raw" /\ image' = image /\ down # << >>
      /\ UNCHANGED <<pc, rev_buf, ring, main, ep3, ep2, rx_buffer>>
      /\ UNCHANGED pcvars /\ UNCHANGED usbvars
  BY DEF Raw, RawStep, pcvars, usbvars
<1>2. \A k, n : From(k, n)' = From(k, n) /\ LastOf(n)' = LastOf(n)
  BY <1>1, CellsStay
<1>3. UsbAtRest'
  BY <1>1 DEF TcpState, UsbAtRest
<1>4. CASE Head(down) = Fin /\ RawClosed
  <2>1. ran = pc.n /\ rx = << >> /\ ~pc.tcp /\ Tail(down) = << >>
    BY <1>1, <1>4, FinIsLast
  <2>2. down' = << >> /\ UNCHANGED <<rx, ran, result, up>>
    BY <1>4, <2>1 DEF RawClosed
  <2>3. LastOf(0) = << >>
    BY Sizes DEF LastOf, From
  <2>4. Remains(0)'
    <3>1. LastOf(0)' = << >>
      BY <1>2, <2>3
    <3>2. Sending(0)'
      BY <2>2, <3>1 DEF Sending
    <3>3. ~(ran' < pc'.n) /\ 0 < RequestBytes /\ 0 \in 0..RequestBytes
      BY <1>1, <2>1, <2>2, Sizes DEF TcpState, Types, Application
    <3> QED BY <1>1, <2>1, <2>2, <3>2, <3>3 DEF Remains
  <2>5. TcpRequest'
    <3>1. (\E m \in 0..RequestBytes : Remains(m))'
      BY <2>4, Sizes
    <3> QED BY <1>1, <1>2, <2>2, <3>1 DEF TcpState, TcpRequest
  <2>6. Types' /\ OneAtATime' /\ TcpAnswer'
    BY <1>1, <2>2 DEF TcpState, Types, OneAtATime, TcpAnswer, Waiting
  <2> QED BY <1>3, <2>2, <2>5, <2>6 DEF TcpState
<1>5. ASSUME NEW k \in 1..Len(down), \A i \in 1..k : down[i] # Fin, RawReceive(k)
      PROVE  /\ TcpState'
             /\ ran' # ran => Waiting /\ ran' = pc.n /\ result'.n = pc.n /\ result'.op = pc.op
  <2>1. PICK m \in 0..RequestBytes : Remains(m)
    BY DEF TcpState, TcpRequest
  <2>2. /\ k <= m /\ SubSeq(down, 1, k) = From(RequestBytes - m, k)
        /\ \/ down = LastOf(m) /\ SubSeq(down, k + 1, Len(down)) = LastOf(m - k)
           \/ /\ ~pc.tcp /\ ran = pc.n
              /\ SubSeq(down, k + 1, Len(down)) = Append(LastOf(m - k), Fin)
    BY <1>5, <2>1, SendingCut DEF Remains
  <2> DEFINE h == Len(rx)
  <2>3. h \in Nat /\ rx = From(0, h) /\ k \in Nat \ {0}
    <3>1. k \in 1..m
      BY <2>2
    <3> QED BY <3>1, Sizes DEF TcpState, TcpRequest
  <2>4. ran < pc.n /\ h + m = RequestBytes
    <3>1. ran # pc.n
      BY <1>1, <2>1, <2>2, <2>3 DEF Remains
    <3>2. ran < pc.n
      BY <3>1 DEF TcpState, OneAtATime, Types, Application
    <3> QED BY <2>1, <3>2 DEF Remains
  <2> HIDE DEF h
  <2>5. rx \o SubSeq(down, 1, k) = From(0, h + k)
    <3>1. RequestBytes - m = 0 + h
      BY <2>3, <2>4, Sizes
    <3>2. \A a \in Int : From(a, h) \o From(a + h, k) = From(a, h + k)
      BY <2>3, FromJoin
    <3>3. 0 \in Int
      OBVIOUS
    <3>4. From(0, h) \o From(0 + h, k) = From(0, h + k)
      BY <3>2, <3>3, Zenon
    <3> QED BY <2>2, <2>3, <3>1, <3>4, Zenon
  <2> DEFINE got == From(0, h + k)
  <2>6. Len(got) = h + k /\ got[1] = Cell(1)
    <3>1. h + k \in Nat /\ 1 \in 1..h + k /\ 0 + 1 = 1
      BY <2>3
    <3>2. \A a \in Int : /\ Len(From(a, h + k)) = h + k
                         /\ \A j \in 1..h + k : From(a, h + k)[j] = Cell(a + j)
      BY <3>1, FromIs
    <3>3. 0 \in Int
      OBVIOUS
    <3>4. Len(got) = h + k /\ got[1] = Cell(0 + 1)
      BY <3>1, <3>2, <3>3, Zenon
    <3> QED BY <3>1, <3>4, Zenon
  <2> HIDE DEF got
  <2>7. /\ down' = SubSeq(down, k + 1, Len(down)) /\ rx' = RawAfter(got)
        /\ IF Len(got) = RequestBytes /\ HasHeader(got)
           THEN Execute(got[1].of) /\ up' = up \o CellsOf(result')
           ELSE UNCHANGED <<ran, result, up>>
    <3>1. Len(rx) < RequestBytes
      BY <2>2, <2>3, <2>4, Sizes DEF h
    <3> QED BY <1>5, <2>5, <3>1 DEF RawReceive, got
  <2>8. HasHeader(got)
    BY <2>6 DEF HasHeader, Cell
  <2>9. down' = LastOf(m - k) /\ m - k \in 0..RequestBytes
    BY <2>2, <2>3, <2>4, <2>7, Sizes DEF TcpState, Types, Application
  <2>10. CASE h + k = RequestBytes
    <3>1. /\ Types' /\ OneAtATime' /\ TcpAnswer'
          /\ Waiting /\ ran' = pc.n /\ result'.n = pc.n /\ result'.op = pc.op
      BY <1>1, <2>4, <2>6, <2>7, <2>8, <2>10, ExecuteAnswers
    <3>2. m - k = 0 /\ rx' = << >>
      BY <2>3, <2>4, <2>6, <2>7, <2>10, Sizes DEF RawAfter
    <3>3. Remains(0)'
      <4>1. down' = LastOf(0)'
        BY <1>2, <2>9, <3>2
      <4>2. Sending(0)'
        BY <4>1 DEF Sending
      <4>3. ~(ran' < pc'.n)
        BY <1>1, <3>1 DEF TcpState, Types, Application
      <4> QED BY <3>2, <4>2, <4>3, Sizes DEF Remains
    <3>4. TcpRequest'
      <4>1. (\E r \in 0..RequestBytes : Remains(r))'
        BY <3>3, Sizes
      <4>2. (rx = From(0, Len(rx)) /\ Len(rx) \in Nat)'
        <5>1. From(0, 0) = << >> /\ Len(<< >>) = 0
          BY DEF From
        <5> QED BY <1>2, <3>2, <5>1
      <4> QED BY <1>1, <4>1, <4>2 DEF TcpState, TcpRequest
    <3> QED BY <1>3, <3>1, <3>4 DEF TcpState
  <2>11. CASE h + k # RequestBytes
    <3>1. UNCHANGED <<ran, result, up>> /\ rx' = got
      BY <2>6, <2>7, <2>11 DEF RawAfter
    <3>2. Types' /\ OneAtATime' /\ TcpAnswer'
      BY <1>1, <3>1 DEF TcpState, Types, OneAtATime, TcpAnswer, Waiting
    <3>3. Remains(m - k)'
      <4>1. Len(rx') + (m - k) = RequestBytes /\ m - k > 0 /\ ran' # pc'.n
        BY <1>1, <2>3, <2>4, <2>6, <2>9, <2>11, <3>1, Sizes DEF TcpState, Types, Application
      <4> QED BY <1>2, <2>9, <3>1, <4>1 DEF Remains, Sending
    <3>4. TcpRequest'
      <4>1. (\E r \in 0..RequestBytes : Remains(r))'
        BY <2>9, <3>3
      <4>2. (rx = From(0, Len(rx)) /\ Len(rx) \in Nat)'
        BY <1>2, <2>3, <2>6, <3>1 DEF got
      <4> QED BY <1>1, <4>1, <4>2 DEF TcpState, TcpRequest
    <3> QED BY <1>3, <3>1, <3>2, <3>4 DEF TcpState
  <2> QED BY <2>10, <2>11
<1> QED BY <1>4, <1>5 DEF Raw, RawStep

(* The freertos image answers to the first piece of a request; the later   *)
(* ones have no header, and it reads past them.                            *)
LEMMA RtosStepKeeps ==
  ASSUME TcpState, Rtos
  PROVE  /\ TcpState'
         /\ ran' # ran => Waiting /\ ran' = pc.n /\ result'.n = pc.n /\ result'.op = pc.op
<1>1. /\ image = "rtos" /\ image' = image /\ down # << >> /\ rx = << >> /\ rx' = rx
      /\ UNCHANGED <<pc, rev_buf, ring, main, ep3, ep2, rx_buffer>>
      /\ UNCHANGED pcvars /\ UNCHANGED usbvars
  BY DEF Rtos, RtosStep, pcvars, usbvars, TcpState, TcpRequest
<1>2. \A k, n : From(k, n)' = From(k, n) /\ LastOf(n)' = LastOf(n)
  BY <1>1, CellsStay
<1>3. UsbAtRest'
  BY <1>1 DEF TcpState, UsbAtRest
<1>4. ran \in Nat /\ pc.n \in Nat
  BY DEF TcpState, Types, Application
<1>5. (\E r \in 0..RequestBytes : Remains(r))' => TcpRequest'
  BY <1>1, <1>2 DEF TcpState, TcpRequest
<1>6. CASE Head(down) = Fin /\ RtosClosed
  <2>1. ran = pc.n /\ rx = << >> /\ ~pc.tcp /\ Tail(down) = << >>
    BY <1>1, <1>6, FinIsLast
  <2>2. down' = << >> /\ UNCHANGED <<ran, result, up>>
    BY <1>6, <2>1 DEF RtosClosed
  <2>3. LastOf(0) = << >>
    BY Sizes DEF LastOf, From
  <2>4. Sending(0)'
    BY <1>2, <2>2, <2>3 DEF Sending
  <2>5. Remains(0)'
    BY <1>1, <1>4, <2>1, <2>2, <2>4, Sizes DEF Remains
  <2>6. TcpRequest'
    BY <1>5, <2>5, Sizes
  <2>7. Types' /\ OneAtATime' /\ TcpAnswer'
    BY <1>1, <2>2 DEF TcpState, Types, OneAtATime, TcpAnswer, Waiting
  <2> QED BY <1>3, <2>2, <2>6, <2>7 DEF TcpState
<1>7. ASSUME NEW k \in 1..Len(down), \A i \in 1..k : down[i] # Fin, RtosRead(k)
      PROVE  /\ TcpState'
             /\ ran' # ran => Waiting /\ ran' = pc.n /\ result'.n = pc.n /\ result'.op = pc.op
  <2>1. PICK m \in 0..RequestBytes : Remains(m)
    BY DEF TcpState, TcpRequest
  <2>2. /\ k <= m /\ SubSeq(down, 1, k) = From(RequestBytes - m, k)
        /\ \/ down = LastOf(m) /\ SubSeq(down, k + 1, Len(down)) = LastOf(m - k)
           \/ /\ ~pc.tcp /\ ran = pc.n
              /\ SubSeq(down, k + 1, Len(down)) = Append(LastOf(m - k), Fin)
    BY <1>7, <2>1, SendingCut DEF Remains
  <2>3. k \in 1..m /\ m \in Nat /\ m - k \in 0..RequestBytes /\ m - k < RequestBytes
    <3>1. k \in 1..m
      BY <2>2
    <3> QED BY <3>1, Sizes
  <2> DEFINE buffer == SubSeq(down, 1, k)
  <2>4. buffer[1] = Cell(RequestBytes - m + 1)
    <3> DEFINE a == RequestBytes - m
    <3>1. a \in Int /\ 1 \in 1..k /\ k \in Nat
      BY <2>3, Sizes
    <3> HIDE DEF a
    <3>2. From(a, k)[1] = Cell(a + 1)
      BY <3>1, FromIs
    <3> QED BY <2>2, <3>2 DEF a
  <2> HIDE DEF buffer
  <2>5. /\ down' = SubSeq(down, k + 1, Len(down))
        /\ IF HasHeader(buffer)
           THEN Execute(buffer[1].of) /\ up' = up \o CellsOf(result')
           ELSE UNCHANGED <<ran, result, up>>
    BY <1>7 DEF RtosRead, RtosHasHeader, buffer
  <2>6. CASE ran < pc.n
    <3>1. m = RequestBytes
      <4>1. Len(rx) + m = RequestBytes /\ Len(rx) = 0
        BY <1>1, <2>1, <2>6 DEF Remains
      <4> QED BY <4>1, <2>3
    <3>2. buffer[1] = Cell(1)
      <4>1. RequestBytes - m + 1 = 1
        BY <3>1, Sizes
      <4> QED BY <2>4, <4>1
    <3>3. HasHeader(buffer)
      BY <3>2 DEF HasHeader, Cell
    <3>4. /\ Types' /\ OneAtATime' /\ TcpAnswer'
          /\ Waiting /\ ran' = pc.n /\ result'.n = pc.n /\ result'.op = pc.op
      BY <1>1, <2>5, <2>6, <3>2, <3>3, ExecuteAnswers
    <3>5. Sending(m - k)'
      <4>1. down' = LastOf(m - k)'
        BY <1>2, <1>4, <2>2, <2>5, <2>6
      <4> QED BY <4>1 DEF Sending
    <3>6. Remains(m - k)'
      BY <1>1, <1>4, <2>3, <3>4, <3>5 DEF Remains
    <3>7. TcpRequest'
      BY <1>5, <2>3, <3>6
    <3> QED BY <1>3, <3>4, <3>7 DEF TcpState
  <2>7. CASE ~(ran < pc.n)
    <3>1. ran = pc.n /\ m < RequestBytes
      <4>1. ran = pc.n
        BY <1>4, <2>7 DEF TcpState, OneAtATime
      <4> QED BY <2>1, <4>1 DEF Remains
    <3>2. ~HasHeader(buffer)
      <4>1. RequestBytes - m + 1 # 1
        BY <2>3, <3>1, Sizes
      <4> QED BY <2>4, <4>1 DEF HasHeader, Cell
    <3>3. UNCHANGED <<ran, result, up>>
      BY <2>5, <3>2
    <3>4. Types' /\ OneAtATime' /\ TcpAnswer'
      BY <1>1, <3>3 DEF TcpState, Types, OneAtATime, TcpAnswer, Waiting
    <3>5. Sending(m - k)'
      BY <1>1, <1>2, <2>2, <2>5, <3>3 DEF Sending
    <3>6. Remains(m - k)'
      BY <1>1, <1>4, <2>3, <3>1, <3>3, <3>5 DEF Remains
    <3>7. TcpRequest'
      BY <1>5, <2>3, <3>6
    <3> QED BY <1>3, <3>3, <3>4, <3>7 DEF TcpState
  <2> QED BY <2>6, <2>7
<1> QED BY <1>6, <1>7 DEF Rtos, RtosStep

(* Over TCP, whatever happens, the request and its answer are where        *)
(* TcpState says; a request is carried out once.                           *)
LEMMA TcpKeeps ==
  ASSUME RecvWhole, TcpState, image \in {"raw", "rtos"}, [HostNext]_hostvars
  PROVE  /\ TcpState'
         /\ ran' # ran => Waiting /\ ran' = pc.n /\ result'.n = pc.n /\ result'.op = pc.op
<1>1. CASE Raw
  BY <1>1, RawStepKeeps
<1>2. CASE Rtos
  BY <1>2, RtosStepKeeps
<1>3. CASE User
  <2>1. UNCHANGED <<usbvars, rx>> /\ UserStep
    BY <1>3 DEF User
  <2>2. ~Close
    BY DEF Close, TcpState, TcpRequest
  <2> QED BY <2>1, <2>2, TcpPressSends, TcpReconnects DEF UserStep
<1>4. CASE App
  <2>1. UNCHANGED <<usbvars, rx>> /\ AppStep
    BY <1>4 DEF App
  <2>2. ~Opened /\ ~Sent /\ ~ThreadStarts /\ ~SpinEnds
    BY DEF Opened, Sent, ThreadStarts, SpinEnds, TcpState, TcpRequest
  <2> QED BY <2>1, <2>2, RecvTakes DEF AppStep
<1>5. ~Device /\ ~Usb /\ ~Answers
  BY DEF Device, Open, Answers, PacketOut, Usb, UsbStep, PacketIn, ep3_irq_handler, MainPoll,
         MainCopy, MainUpdate, MainServe, TcpState, UsbAtRest
<1>6. CASE Control \/ UNCHANGED hostvars
  <2>1. UNCHANGED <<linkvars, pc, rev_buf, usbvars, rx>>
    BY <1>6 DEF Control, hostvars, pcvars
  <2>2. UNCHANGED <<image, down, up, ran, result, ring, ep3, ep2, main, rx_buffer, pc, rev_buf, rx>>
    BY <2>1 DEF linkvars, usbvars
  <2>3. \A k, n : From(k, n)' = From(k, n) /\ LastOf(n)' = LastOf(n)
    BY <2>2, CellsStay
  <2>4. \A m \in 0..RequestBytes : Remains(m) => Remains(m)'
    BY <2>2, <2>3 DEF Remains, Sending
  <2>5. TcpRequest'
    <3>1. (\E m \in 0..RequestBytes : Remains(m))'
      BY <2>4 DEF TcpState, TcpRequest
    <3> QED BY <2>2, <2>3, <3>1 DEF TcpState, TcpRequest
  <2> QED BY <2>2, <2>5 DEF TcpState, Types, OneAtATime, UsbAtRest, TcpAnswer, Waiting
<1> QED BY <1>1, <1>2, <1>3, <1>4, <1>5, <1>6 DEF HostNext

(* Neither image begins with anything under way.                           *)
LEMMA TcpBegins == HostInit => TcpState
<1> SUFFICES ASSUME HostInit PROVE TcpState
  OBVIOUS
<1>1. Types /\ OneAtATime
  BY UsbBegins DEF UsbState
<1> USE DEF HostInit, LinkInit, PcInit, CtlInit, UsbInit, RawInit
<1>2. LastOf(0) = << >> /\ From(0, 0) = << >>
  BY Sizes DEF LastOf, From
<1>3. Remains(0)
  BY <1>2, Sizes DEF Remains, Sending
<1>4. TcpRequest
  BY <1>2, <1>3, Sizes DEF TcpRequest
<1> QED BY <1>1, <1>4 DEF TcpState, UsbAtRest, TcpAnswer

(***************************************************************************)
(* What the invariant says of the bytes on their way.                      *)
(***************************************************************************)

(* The clicked request is its cells from the first on.                     *)
LEMMA RequestIs == Request = From(0, RequestBytes) /\ From(0, 0) = << >>
<1>1. \A j \in 1..RequestBytes : 0 + j = j
  BY Sizes
<1> QED BY <1>1 DEF Request, CellsOf, From, Cell

(* The ring's contents are the first cells of the request.                 *)
LEMMA RingContents == Ring => Contents(ring) = From(0, ring.end)
<1> SUFFICES ASSUME Ring PROVE Contents(ring) = From(0, ring.end)
  OBVIOUS
<1> DEFINE e == ring.end
           l == ring.length
<1>1. e \in Nat /\ l \in Nat /\ e < l /\ ring.start = 0 /\ \A i \in 1..e : ring.cells[i - 1] = Cell(i)
  BY Sizes DEF Ring
<1>2. available_bytes(ring) = e
  BY <1>1 DEF available_bytes
<1> HIDE DEF e, l
<1>3. \A j \in 1..e : ring.cells[(ring.start + j - 1) % l] = Cell(0 + j)
  <2> TAKE j \in 1..e
  <2>1. ring.start + j - 1 = j - 1 /\ 0 + j = j /\ j - 1 \in Nat /\ j - 1 < l
    BY <1>1
  <2>2. (j - 1) % l = j - 1
    BY <1>1, <2>1
  <2> QED BY <1>1, <2>1, <2>2
<1>4. Contents(ring) = [j \in 1..e |-> ring.cells[(ring.start + j - 1) % l]]
  BY <1>2, Zenon DEF Contents, l
<1> QED BY <1>3, <1>4 DEF From, e

(* Packets that follow each other hold the cells of one run.               *)
LEMMA PacketsJoin ==
  ASSUME NEW e \in Nat, NEW m \in Nat,
         ep3 = [i \in 1..m |-> From(e + PacketBytes * (i - 1), PacketBytes)]
  PROVE  Unpacked(ep3) = From(e, PacketBytes * m)
<1> DEFINE P == PacketBytes
           F(i) == From(e + P * (i - 1), P)
           pm == P * m
<1>1. pm \in Nat /\ P \in Nat \ {0}
  BY Sizes
<1>2. Len(ep3) = m /\ \A i \in 1..m : ep3[i] = F(i)
  <2> HIDE DEF F
  <2>1. ep3 = [i \in 1..m |-> F(i)]
    BY DEF F
  <2> QED BY <2>1
<1>3. ASSUME NEW i \in 1..pm
      PROVE  ep3[(i - 1) \div P + 1][i - P * ((i - 1) \div P)] = Cell(e + i)
  <2> DEFINE q == (i - 1) \div P
             pq == P * q
  <2>1. q \in Int /\ pq <= i - 1 /\ i - 1 < P * (q + 1)
    BY <1>1
  <2>2. pq \in Int /\ P * (q + 1) = pq + P
    BY <1>1, <2>1
  <2>3. q \in 0..m - 1
    <3> HIDE DEF q
    <3>1. q >= 0
      <4> SUFFICES ASSUME q <= -1 PROVE FALSE
        BY <2>1
      <4>1. P * (q + 1) <= P * 0
        BY <1>1, <2>1
      <4> QED BY <1>1, <2>1, <4>1
    <3>2. q < m
      <4> SUFFICES ASSUME q >= m PROVE FALSE
        BY <2>1
      <4>1. P * m <= P * q
        BY <1>1, <2>1
      <4> QED BY <1>1, <2>1, <2>2, <4>1
    <3> QED BY <2>1, <3>1, <3>2
  <2> HIDE DEF q, pq
  <2>4. i - pq \in 1..P /\ q + 1 \in 1..m /\ (e + pq) + (i - pq) = e + i
    BY <1>1, <2>1, <2>2, <2>3
  <2>5. ep3[q + 1] = From(e + pq, P)
    <3>1. (q + 1) - 1 = q
      BY <2>1
    <3> QED BY <1>2, <2>4, <3>1 DEF pq
  <2>6. From(e + pq, P)[i - pq] = Cell((e + pq) + (i - pq))
    <3>1. e + pq \in Int
      BY <2>2
    <3> QED BY <1>1, <2>4, <3>1, FromIs
  <2> QED BY <2>4, <2>5, <2>6 DEF q, pq
<1>4. Unpacked(ep3) = [i \in 1..pm |-> ep3[(i - 1) \div P + 1][i - P * ((i - 1) \div P)]]
  BY <1>2, Zenon DEF Unpacked
<1> HIDE DEF P, pm
<1> QED BY <1>3, <1>4 DEF From, pm, P

(* The end of a connection is no cell of a request.                        *)
LEMMA NoFinIs ==
  ASSUME NEW m \in 0..RequestBytes
  PROVE  NoFin(LastOf(m)) = LastOf(m) /\ NoFin(Append(LastOf(m), Fin)) = LastOf(m)
<1> DEFINE s == LastOf(m)
           S == {Cell(i) : i \in Int}
<1>1. /\ s \in Seq(S) /\ Len(s) = m /\ (\A j \in 1..m : s[j] # Fin)
      /\ SubSeq(s, 1, m) = From(RequestBytes - m, m)
  <2>1. m \in 0..m
    BY Sizes
  <2> QED BY <2>1, LastIs, Zenon
<1>2. SubSeq(s, 1, m) = s /\ m \in Nat
  BY <1>1, Sizes DEF LastOf
<1> HIDE DEF s, S
<1>3. NoFin(s) = s
  <2>1. s # << >> => s[Len(s)] # Fin
    BY <1>1, <1>2
  <2> QED BY <2>1 DEF NoFin
<1>4. NoFin(Append(s, Fin)) = s
  <2>1. m \in 0..Len(s)
    <3>1. m \in 0..m
      BY Sizes
    <3> QED BY <1>1, <3>1, Zenon
  <2>2. Len(Append(s, Fin)) = m + 1 /\ SubSeq(Append(s, Fin), 1, m) = SubSeq(s, 1, m)
    BY <1>1, <2>1, AppendCut
  <2>3. Append(s, Fin) # << >> /\ Append(s, Fin)[m + 1] = Fin
    <3>1. Append(s, Fin) # << >> /\ Append(s, Fin)[Len(s) + 1] = Fin
      <4> DEFINE x == Fin
      <4>1. s \in Seq(S)
        BY <1>1
      <4> HIDE DEF x
      <4>2. Append(s, x) # << >> /\ Append(s, x)[Len(s) + 1] = x
        BY <4>1, <2>1, AppendCut
      <4> QED BY <4>2 DEF x
    <3> QED BY <1>1, <3>1, Zenon
  <2>4. (m + 1) - 1 = m
    BY <1>2
  <2> QED BY <1>2, <2>2, <2>3, <2>4 DEF NoFin
<1> QED BY <1>3, <1>4 DEF s

(* Over USB all of the request is there until it has been carried out, and *)
(* nothing after.                                                          *)
LEMMA UsbIntact == UsbState /\ image = "usb" => StreamIntact
<1> SUFFICES ASSUME UsbState, image = "usb" PROVE StreamIntact
  OBVIOUS
<1>1. UsbRequest /\ Ring /\ ran \in Nat /\ pc.n \in Nat
  BY DEF UsbState, UsbRequest, Types, Application
<1>2. Request = From(0, RequestBytes) /\ From(0, 0) = << >>
  BY RequestIs
<1>3. CASE main.st = "serve"
  <2>1. down = << >> /\ ran < pc.n /\ rx_buffer = Request
    BY <1>1, <1>3, NothingComes DEF UsbRequest, MainLoop
  <2>2. NoFin(down) = << >>
    BY <2>1 DEF NoFin
  <2>3. Request \o << >> = Request
    <3>1. Request \in Seq({Cell(i) : i \in Int})
      BY <1>2, FromIs, Sizes
    <3> QED BY <3>1
  <2> QED BY <1>3, <2>1, <2>2, <2>3 DEF StreamIntact, Gathered
<1>4. CASE main.st # "serve"
  <2>1. PICK m, d \in 0..RequestBytes : Carried(m, d)
    BY <1>1 DEF UsbRequest
  <2> DEFINE e == ring.end
             pm == PacketBytes * m
             pd == PacketBytes * d
  <2>2. pm \in Nat /\ pd \in Nat /\ e \in Nat /\ m \in Nat
    BY <1>1, Sizes DEF Ring
  <2>3. e + pm + pd = Coming
    BY <2>1, Zenon DEF Carried
  <2>4. Contents(ring) = From(0, e)
    BY <1>1, RingContents
  <2>5. Unpacked(ep3) = From(e, pm)
    <3>1. ep3 = [i \in 1..m |-> From(e + PacketBytes * (i - 1), PacketBytes)]
      BY <2>1 DEF Carried
    <3> HIDE DEF e
    <3> QED BY <2>2, <3>1, PacketsJoin
  <2>6. NoFin(down) = From(e + pm, pd)
    <3>1. pd \in 0..RequestBytes
      BY <2>2, <2>3, Sizes DEF Coming
    <3>2. down = LastOf(pd)
      BY <2>1 DEF Carried
    <3> HIDE DEF e, pm, pd
    <3>3. NoFin(down) = From(RequestBytes - pd, pd)
      BY <3>1, <3>2, NoFinIs DEF LastOf
    <3>4. CASE Coming = RequestBytes
      <4>1. RequestBytes - pd = e + pm
        BY <2>2, <2>3, <3>4, Sizes
      <4> QED BY <3>3, <4>1
    <3>5. CASE Coming # RequestBytes
      <4>1. pd = 0
        BY <2>2, <2>3, <3>5, Sizes DEF Coming
      <4> QED BY <3>3, <4>1 DEF From
    <3> QED BY <3>4, <3>5
  <2> DEFINE stream == Gathered \o NoFin(down)
  <2>7. stream = From(0, Coming)
    <3>1. Gathered = From(0, e) \o From(e, pm)
      BY <1>4, <2>4, <2>5 DEF Gathered
    <3> HIDE DEF e, pm, pd
    <3>2. \A a \in Int : From(a, e) \o From(a + e, pm) = From(a, e + pm)
      BY <2>2, FromJoin
    <3>3. \A a \in Int : From(a, e + pm) \o From(a + (e + pm), pd) = From(a, (e + pm) + pd)
      <4>1. e + pm \in Nat
        BY <2>2
      <4> QED BY <2>2, <4>1, FromJoin, Zenon
    <3>4. 0 \in Int /\ 0 + e = e /\ 0 + (e + pm) = e + pm /\ (e + pm) + pd = Coming
      BY <2>2, <2>3
    <3>5. From(0, e) \o From(e, pm) = From(0, e + pm)
      BY <3>2, <3>4, Zenon
    <3>6. From(0, e + pm) \o From(e + pm, pd) = From(0, Coming)
      BY <3>3, <3>4, Zenon
    <3> QED BY <2>6, <3>1, <3>5, <3>6, Zenon
  <2> HIDE DEF stream
  <2>8. ran < pc.n => stream = Request
    BY <1>2, <1>4, <2>7 DEF Coming
  <2>9. ~(ran < pc.n) => stream = << >>
    BY <1>2, <2>7 DEF Coming
  <2> QED BY <2>8, <2>9 DEF StreamIntact, stream
<1> QED BY <1>3, <1>4

(* Over TCP too; only the pieces after its first the freertos image reads  *)
(* when it has carried the request out.                                    *)
LEMMA TcpIntact == TcpState /\ image \in {"raw", "rtos"} => StreamIntact
<1> SUFFICES ASSUME TcpState, image \in {"raw", "rtos"} PROVE StreamIntact
  OBVIOUS
<1>1. PICK m \in 0..RequestBytes : Remains(m)
  BY DEF TcpState, TcpRequest
<1> DEFINE h == Len(rx)
           stream == Gathered \o NoFin(down)
<1>2. rx = From(0, h) /\ h \in Nat /\ m \in Nat
  BY Sizes DEF TcpState, TcpRequest
<1>3. NoFin(down) = LastOf(m)
  BY <1>1, NoFinIs DEF Remains, Sending
<1>4. stream = rx \o LastOf(m)
  BY <1>3 DEF Gathered, TcpState, UsbAtRest
<1>5. Request = From(0, RequestBytes)
  BY RequestIs
<1> HIDE DEF h, stream
<1>6. CASE ran < pc.n
  <2>1. RequestBytes - m = 0 + h /\ h + m = RequestBytes
    BY <1>1, <1>2, <1>6, Sizes DEF Remains, h
  <2>2. \A a \in Int : From(a, h) \o From(a + h, m) = From(a, h + m)
    BY <1>2, FromJoin
  <2>3. 0 \in Int
    OBVIOUS
  <2>4. stream = Request
    BY <1>2, <1>4, <1>5, <2>1, <2>2, <2>3, Zenon DEF LastOf
  <2> QED BY <1>6, <2>4 DEF StreamIntact, stream
<1>7. CASE ~(ran < pc.n)
  <2>1. ran = pc.n
    BY <1>7 DEF TcpState, OneAtATime, Types, Application
  <2>2. rx = << >> /\ (image = "raw" => m = 0)
    BY <1>1, <2>1 DEF Remains
  <2>3. LastOf(m) \in Seq({Cell(i) : i \in Int}) /\ Len(LastOf(m)) = m
    BY LastIs, Zenon
  <2>4. stream = LastOf(m)
    <3> DEFINE s == LastOf(m)
               S == {Cell(i) : i \in Int}
    <3>1. s \in Seq(S)
      BY <2>3
    <3> HIDE DEF s, S
    <3>2. << >> \o s = s
      BY <3>1
    <3> QED BY <1>4, <2>2, <3>2 DEF s
  <2>5. m = 0 => stream = << >>
    BY <2>4 DEF LastOf, From
  <2>6. SubSeq(Request, RequestBytes - m + 1, RequestBytes) = LastOf(m)
    <3> DEFINE k == RequestBytes - m
    <3>1. k \in 0..RequestBytes /\ RequestBytes \in Nat /\ RequestBytes - k = m
      BY Sizes
    <3>2. \A a \in Int : SubSeq(From(a, RequestBytes), k + 1, RequestBytes) = From(a + k, RequestBytes - k)
      BY <3>1, FromCut
    <3>3. 0 \in Int /\ 0 + k = k
      BY <3>1
    <3> HIDE DEF k
    <3>4. SubSeq(From(0, RequestBytes), k + 1, RequestBytes) = From(k, m)
      BY <3>1, <3>2, <3>3, Zenon
    <3> QED BY <1>5, <3>4 DEF LastOf, k
  <2>7. image = "rtos" => stream = SubSeq(Request, RequestBytes - Len(stream) + 1, RequestBytes)
    BY <2>3, <2>4, <2>6
  <2>8. stream = << >> \/ (image = "rtos" /\ stream = SubSeq(Request, RequestBytes - Len(stream) + 1, RequestBytes))
    BY <2>2, <2>5, <2>7
  <2> QED BY <1>7, <2>8 DEF StreamIntact, stream
<1> QED BY <1>6, <1>7

(***************************************************************************)
(* Every image: the whole invariant.                                       *)
(***************************************************************************)
Delivery ==
  /\ image \in FirmwareImages
  /\ image = "usb" => UsbState
  /\ image # "usb" => TcpState

(* Every step keeps it; the step that carries a request out does so for    *)
(* the click that waits.                                                   *)
LEMMA DeliveryStep ==
  ASSUME RecvWhole, Delivery, [HostNext]_hostvars
  PROVE  /\ Delivery'
         /\ ran' # ran => Waiting /\ ran' = pc.n /\ result'.n = pc.n /\ result'.op = pc.op
<1>1. image' = image
  BY ImageStays
<1>2. CASE image = "usb"
  BY <1>1, <1>2, UsbKeeps DEF Delivery
<1>3. CASE image # "usb"
  <2>1. image \in {"raw", "rtos"}
    BY <1>3 DEF Delivery, FirmwareImages
  <2> QED BY <1>1, <1>3, <2>1, TcpKeeps DEF Delivery
<1> QED BY <1>2, <1>3

(* It holds at the start.                                                  *)
LEMMA DeliveryBegins == HostInit => Delivery
  BY UsbBegins, TcpBegins, LinkAssumption DEF Delivery, HostInit, LinkInit

(* It implies the sizes.                                                   *)
LEMMA DeliveryTyped == Coded /\ Delivery => HostTypeOK
<1> SUFFICES ASSUME Coded, Delivery PROVE HostTypeOK
  OBVIOUS
<1>1. /\ bus \in {"reset", "configured"}
      /\ driver_state \in {"UNCONNECTED", "CONFIG", "CONNECTED"} /\ line_coding \in Coding
  BY DEF Coded
<1>2. Types
  BY DEF Delivery, UsbState, TcpState
<1>3. CASE image = "usb"
  <2>1. UsbRequest /\ Ring /\ rx = << >>
    BY <1>3 DEF Delivery, UsbState, UsbRequest
  <2>2. PICK m, d \in 0..RequestBytes : Carried(m, d)
    BY <2>1 DEF UsbRequest
  <2>3. Len(ep3) <= EpBufs
    <3> DEFINE F(i) == From(ring.end + PacketBytes * (i - 1), PacketBytes)
    <3>1. ep3 = [i \in 1..m |-> F(i)] /\ m <= EpBufs
      BY <2>2 DEF Carried
    <3> HIDE DEF F
    <3> QED BY <3>1, Sizes
  <2>4. ring.start \in 0..ring.length /\ ring.end \in 0..ring.length
    BY <2>1, Sizes DEF Ring
  <2>5. Len(rx) < RequestBytes
    BY <2>1, Sizes
  <2> QED BY <1>1, <1>2, <2>3, <2>4, <2>5
          DEF HostTypeOK, Types, Application, PcStates, Threads
<1>4. CASE image # "usb"
  <2>1. TcpState
    BY <1>4 DEF Delivery
  <2>2. PICK m \in 0..RequestBytes : Remains(m)
    BY <2>1 DEF TcpState, TcpRequest
  <2>3. Len(rx) < RequestBytes
    <3>1. CASE ran < pc.n
      <4>1. m > 0 /\ Len(rx) + m = RequestBytes /\ Len(rx) \in Nat
        BY <2>1, <2>2, <3>1 DEF Remains, TcpState, TcpRequest
      <4> QED BY <4>1, Sizes
    <3>2. CASE ~(ran < pc.n)
      <4>1. ran = pc.n
        BY <2>1, <3>2 DEF TcpState, OneAtATime, Types, Application
      <4> QED BY <2>2, <4>1, Sizes DEF Remains
    <3> QED BY <3>1, <3>2
  <2>4. ep3 = << >> /\ ring = buffer_init(RingSize)
    BY <2>1 DEF TcpState, UsbAtRest
  <2>5. Len(ep3) <= EpBufs
    BY <2>4, UsbAssumption
  <2>6. ring.start \in 0..ring.length /\ ring.end \in 0..ring.length
    BY <2>4, Sizes DEF buffer_init
  <2> QED BY <1>1, <1>2, <2>3, <2>5, <2>6
          DEF HostTypeOK, Types, Application, PcStates, Threads
<1> QED BY <1>3, <1>4

(***************************************************************************)
(* The theorems.  A recv that returns less than the answer shows a button  *)
(* an answer before its request is carried out, so those about all three   *)
(* images assume that it returns all of it.                                *)
(***************************************************************************)

(* The endpoints and buffers stay within their sizes; the raw image never  *)
(* keeps a whole request.                                                  *)
THEOREM HostTyped == ASSUME RecvWhole PROVE HostSpec => []HostTypeOK
<1>1. Delivery /\ [HostNext]_hostvars => Delivery'
  BY DeliveryStep
<1>2. HostInit => Coded
  BY DEF HostInit, PcInit, CtlInit, Coded, Idle, SetConfiguration, Setup
<1> QED
  BY <1>1, <1>2, CodedStep, DeliveryBegins, DeliveryTyped, PTL DEF HostSpec

(* The bytes of a request are all there, in order and once, until it has   *)
(* been carried out, and none is left to be taken for the next.            *)
THEOREM StreamStaysIntact == ASSUME RecvWhole PROVE HostSpec => []StreamIntact
<1>1. Delivery /\ [HostNext]_hostvars => Delivery'
  BY DeliveryStep
<1>2. Delivery => StreamIntact
  BY UsbIntact, TcpIntact DEF Delivery, FirmwareImages
<1> QED
  BY <1>1, <1>2, DeliveryBegins, PTL DEF HostSpec

(* Each request is carried out once, while its click waits, and as the     *)
(* button clicked.                                                         *)
THEOREM EachCarriedOutOnce == ASSUME RecvWhole PROVE HostSpec => EachRequestOnce
<1> DEFINE Step == ran' # ran => /\ Waiting /\ ran' = pc.n
                                 /\ result'.n = pc.n /\ result'.op = pc.op
<1>1. Delivery /\ [HostNext]_hostvars => Delivery'
  BY DeliveryStep
<1>2. Delivery /\ [HostNext]_hostvars => [Step]_hostvars
  BY DeliveryStep
<1> QED
  BY <1>1, <1>2, DeliveryBegins, PTL DEF HostSpec, EachRequestOnce
=============================================================================
