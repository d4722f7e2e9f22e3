----------------------------- MODULE UsbFirmware -----------------------------
(***************************************************************************)
(* The data path of the USB firmware: endpoint 3's interrupt fills the     *)
(* ring, the main loop of helloworld.c takes a request out of it when it   *)
(* holds exactly one, carries it out and hands the answer to endpoint 2.   *)
(*                                                                         *)
(* An interrupt may come between any two steps of the main loop.  Endpoint *)
(* 2 sends from tx_buffer itself, after the call has returned.             *)
(***************************************************************************)
EXTENDS UsbControl, CdcBuffer

CONSTANTS PacketBytes,   \* cells of a USB packet: 512 bytes
          EpBufs,        \* packets endpoint 3's descriptors can take: 16
          RingSize       \* cells of the receive ring: 64 KiB

ASSUME UsbAssumption ==
  /\ PacketBytes \in Nat \ {0}
  /\ \E k \in 1..RequestBytes : RequestBytes = k * PacketBytes
  /\ EpBufs \in Nat \ {0}
  /\ RingSize \in Nat /\ RingSize >= RequestBytes

VARIABLES
  ep3,         \* packets received and not yet handled
  ring,        \* xusb_cdc_rx_buffer
  rx_buffer,   \* the request the main loop has read
  main,        \* the main loop: what it does next, and what its read has found
  ep2,         \* places of tx_buffer endpoint 2 has yet to send
  tx_buffer    \* the answer

usbvars == <<ep3, ring, rx_buffer, main, ep2, tx_buffer>>

NoRequest == CellsOf([n |-> 0, op |-> "none"])

\* xusb_cdc_init
UsbInit ==
  /\ ep3 = << >> /\ ep2 = << >>
  /\ ring = buffer_init(RingSize)
  /\ rx_buffer = NoRequest
  /\ main = [st |-> "poll", count |-> 0, available |-> 0]
  /\ tx_buffer = Cleared

-----------------------------------------------------------------------------
\* A bulk OUT packet is taken by a descriptor of endpoint 3.
PacketIn ==
  /\ image = "usb" /\ primed
  /\ down # << >> /\ Len(ep3) < EpBufs
  /\ ep3' = Append(ep3, SubSeq(down, 1, PacketBytes))
  /\ down' = SubSeq(down, PacketBytes + 1, Len(down))
  /\ UNCHANGED <<ring, rx_buffer, main, ep2, tx_buffer, image, up, ran, result>>

\* xusb_cdc_ep3_irq_handler: copy the packet into the ring, release its buffer.
ep3_irq_handler ==
  /\ ep3 # << >>
  /\ ring' = buffer_write(ring, Head(ep3))
  /\ ep3' = Tail(ep3)
  /\ UNCHANGED <<rx_buffer, main, ep2, tx_buffer, linkvars>>

rx_bytes_available ==
  IF driver_state = "UNCONNECTED" THEN 0 ELSE available_bytes(ring)

\* if (bytes == TransferPacketSize)
MainPoll ==
  /\ image = "usb" /\ main.st = "poll"
  /\ rx_bytes_available = RequestBytes
  /\ main' = [main EXCEPT !.st = "read"]
  /\ UNCHANGED <<ep3, ring, rx_buffer, ep2, tx_buffer, linkvars>>

\* xusb_cdc_receive_data, up to the update of the ring's indices.
MainCopy ==
  /\ main.st = "read"
  /\ LET data == Copied(ring, RequestBytes) IN
       /\ rx_buffer' = [i \in 1..RequestBytes |->
                          IF i <= Len(data) THEN data[i] ELSE rx_buffer[i]]
       /\ main' = [st |-> "update", count |-> Len(data), available |-> available_bytes(ring)]
  /\ UNCHANGED <<ep3, ring, ep2, tx_buffer, linkvars>>

MainUpdate ==
  /\ main.st = "update"
  /\ ring' = Consumed(ring, main.count, main.available)
  /\ main' = [main EXCEPT !.st = "serve"]
  /\ UNCHANGED <<ep3, rx_buffer, ep2, tx_buffer, linkvars>>

\* Carry the request out, and send_data: endpoint 2 is to send tx_buffer.
MainServe ==
  /\ main.st = "serve"
  /\ IF HasHeader(rx_buffer)
     THEN /\ Execute(rx_buffer[1].of)
          /\ tx_buffer' = CellsOf(result')
          /\ ep2' = ep2 \o [i \in 1..RequestBytes |-> i]
     ELSE UNCHANGED <<tx_buffer, ep2, ran, result>>
  /\ main' = [main EXCEPT !.st = "poll"]
  /\ UNCHANGED <<ep3, ring, rx_buffer, image, down, up>>

\* Endpoint 2 sends a packet, of what tx_buffer holds now.
PacketOut ==
  /\ ep2 # << >>
  /\ ThreadReceives([i \in 1..PacketBytes |-> tx_buffer[ep2[i]]])
  /\ ep2' = SubSeq(ep2, PacketBytes + 1, Len(ep2))
  /\ UNCHANGED <<ep3, ring, rx_buffer, main, tx_buffer>>

UsbStep == PacketIn \/ ep3_irq_handler \/ MainPoll \/ MainCopy \/ MainUpdate \/ MainServe
=============================================================================
