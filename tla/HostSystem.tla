----------------------------- MODULE HostSystem -----------------------------
(***************************************************************************)
(* The PC application and the board it talks to, running one of the three  *)
(* firmware images.                                                        *)
(***************************************************************************)
EXTENDS UsbFirmware, RawServer, RtosServer

hostvars == <<linkvars, pcvars, ctlvars, usbvars, rx>>

HostInit == LinkInit /\ PcInit /\ CtlInit /\ UsbInit /\ RawInit

User    == UserStep /\ UNCHANGED <<ctlvars, usbvars, rx>>
Device  == Open /\ BusReset /\ UNCHANGED <<usbvars, rx>>
App     == AppStep /\ UNCHANGED <<ctlvars, usbvars, rx>>
Control == ControlStep /\ UNCHANGED <<linkvars, pc, rev_buf, usbvars, rx>>
Usb     == UsbStep /\ UNCHANGED <<pcvars, ctlvars, rx>>
Answers == PacketOut /\ UNCHANGED <<ctlvars, rx>>
Raw     == RawStep /\ UNCHANGED <<pcvars, ctlvars, usbvars>>
Rtos    == RtosStep /\ UNCHANGED <<pcvars, ctlvars, usbvars, rx>>

HostNext == User \/ Device \/ App \/ Control \/ Usb \/ Answers \/ Raw \/ Rtos

(***************************************************************************)
(* The user need not do anything.  Both ends of either link, the threads   *)
(* of the application and the interrupts and main loops of the board go on;*)
(* the host goes on with configuring a device it has reset.                *)
(***************************************************************************)
Configures == Control /\ (HostSends => ep0'.setup = SetConfiguration)

HostFairness ==
  /\ WF_hostvars(App) /\ WF_hostvars(Usb) /\ WF_hostvars(Answers)
  /\ WF_hostvars(Raw) /\ WF_hostvars(Rtos)
  /\ WF_hostvars(Configures)

HostSpec == HostInit /\ [][HostNext]_hostvars /\ HostFairness

-----------------------------------------------------------------------------
(* Types: the application, the endpoints and the buffers stay within their *)
(* sizes; the raw image never keeps a whole request.                       *)
HostTypeOK ==
  /\ pc.st \in {"idle", "opening", "send", "spin", "recv", "shown"}
  /\ pc.thread \in {"none", "created", "listening"}
  /\ bus \in {"reset", "configured"}
  /\ driver_state \in {"UNCONNECTED", "CONFIG", "CONNECTED"}
  /\ line_coding \in Coding
  /\ Len(ep3) <= EpBufs
  /\ ring.start \in 0..ring.length /\ ring.end \in 0..ring.length
  /\ DOMAIN rev_buf = 1..RequestBytes /\ DOMAIN rx_buffer = 1..RequestBytes
  /\ Len(rx) < RequestBytes

Request == CellsOf([n |-> pc.n, op |-> pc.op])

\* The cells on their way, without the end of a connection that follows them.
NoFin(cells) ==
  IF cells # << >> /\ cells[Len(cells)] = Fin THEN SubSeq(cells, 1, Len(cells) - 1) ELSE cells

\* The cells of a sequence of packets.
Unpacked(packets) ==
  [i \in 1..PacketBytes * Len(packets) |->
     LET p == (i - 1) \div PacketBytes IN packets[p + 1][i - PacketBytes * p]]

\* A request's way through the board, the oldest cells first.
Gathered ==
  IF main.st = "serve" THEN rx_buffer
  ELSE IF image = "usb" THEN Contents(ring) \o Unpacked(ep3)
  ELSE rx

(* The bytes of a request the board has not carried out are all there, in  *)
(* order and once, wherever they are: in the cable, in endpoint 3, in the  *)
(* ring or in a receive buffer; and a request carried out leaves nothing   *)
(* behind that the next one could be taken for (freertos: but the pieces   *)
(* after its first, which are read before the next).                       *)
StreamIntact ==
  LET stream == Gathered \o NoFin(down) IN
  IF ran < pc.n THEN stream = Request
  ELSE \/ stream = << >>
       \/ image = "rtos" /\ stream = SubSeq(Request, RequestBytes - Len(stream) + 1, RequestBytes)

(* A request is carried out once, while the handler or the thread of its   *)
(* click is waiting for it, and as the button that was clicked.            *)
EachRequestOnce ==
  [][ran' # ran => /\ Waiting /\ ran' = pc.n
                   /\ result'.n = pc.n /\ result'.op = pc.op]_hostvars

(* A handler whose receiving thread has begun, before or after the request *)
(* was out, shows the answer to its own click, all of it and the word of   *)
(* it: no answer of an earlier click, whose thread may have begun late,    *)
(* and no buffer that is cleared or half full.                             *)
AnswerAwaited ==
  [][image = "usb" /\ pc.st = "spin" /\ pc'.st = "shown" /\ pc.thread # "created" =>
       /\ result.n = pc.n
       /\ rev_buf = CellsOf(result)
       /\ pc'.word = result.word]_hostvars

(* What a button shows over USB is the answer to its own click, as its     *)
(* message boxes say.                                                      *)
UsbAnswerShown ==
  image = "usb" /\ pc.st = "shown" =>
    /\ result.n = pc.n
    /\ rev_buf = CellsOf(result)
    /\ pc.word = result.word

(* A line coding is what the host last asked for, whatever requests came   *)
(* between: the data of one arrives in a state set by its setup packet.    *)
LineCodingKept ==
  ep0.st = "status" /\ ep0.setup.req = "GET_LINE_CODING" => ep0.reply = ep0.asked

(* Every click is answered: no request is left in a buffer too full or not *)
(* full enough for the board to see it, and no answer is lost, also that   *)
(* of a thread that began when the handler had gone on without it.         *)
ClickEnds == Waiting ~> AtRest

(* A device that was reset is configured again: the host's transfers each  *)
(* get an answer.                                                          *)
LinkComesUp == bus = "reset" /\ image = "usb" ~> bus = "configured"

(* "Erase Successfully!" is shown only when the erase that was clicked has *)
(* been carried out and did not fail.                                      *)
EraseBoxTrue ==
  pc.st = "shown" /\ pc.op = "EraseBlock" /\ pc.word = 0 =>
    result.n = pc.n /\ result.word = 0
=============================================================================
