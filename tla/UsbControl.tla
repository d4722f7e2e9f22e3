----------------------------- MODULE UsbControl -----------------------------
(***************************************************************************)
(* The control endpoint of the USB firmware: the host's setup packets, the *)
(* handlers the USB interrupt calls for them (xusbps_cdc_ch9.c,            *)
(* xusbps_cdc_irq.c) and the driver's state, which decides whether the     *)
(* main loop sees any data.                                                *)
(*                                                                         *)
(* The host configures the device after each bus reset, and may send other *)
(* requests whenever it likes; a control transfer ends before the next.    *)
(***************************************************************************)
EXTENDS PcApp

CONSTANTS Coding,        \* line codings
          DefaultCoding, \* 115200, 8-N-1
          MaxSetups      \* bound on setup packets, those that configure it apart

ASSUME CodingAssumption == DefaultCoding \in Coding

VARIABLES
  driver_state,   \* xusb_cdc_driver_state
  line_coding,    \* xusb_cdc_line_coding
  primed,         \* endpoint 3 OUT is enabled and primed
  ep0             \* the control transfer under way, and the device's answer

ctlvars == <<driver_state, line_coding, primed, ep0>>

\* The length is that of the data the host asks for or sends: none, or within or
\* over the handlers' reply buffer.
Setup(type, req, value, length) ==
  [type |-> type, req |-> req, value |-> value, length |-> length]
Descriptors == {"device", "qualifier", "config", "string"}

SetConfiguration == Setup("standard", "SET_CONFIGURATION", 1, "none")

\* The requests a host's drivers and libraries make of such a device.
HostSetups ==
  {Setup("standard", "GET_DESCRIPTOR", d, "within") : d \in Descriptors \cup {"other"}}
  \cup {Setup("standard", "GET_DESCRIPTOR", "string", "over")}
  \cup {Setup("standard", r, 0, "within") :
          r \in {"GET_STATUS", "GET_INTERFACE", "GET_CONFIGURATION"}}
  \cup {Setup("standard", r, 0, "none") :
          r \in {"SET_ADDRESS", "CLEAR_FEATURE", "SET_INTERFACE"}}
  \cup {Setup("class", "SET_LINE_CODING", c, "within") : c \in Coding}
  \cup {Setup("class", "GET_LINE_CODING", 0, l) : l \in {"within", "over"}}
  \cup {Setup("class", "SET_CONTROL_LINE_STATE", 0, "none")}
  \cup {Setup("vendor", r, 0, l) : r \in {"VENDOR_IN", "VENDOR_OUT"}, l \in {"none", "within"}}

\* No transfer under way; the host has asked for a line coding, and may send
\* `left' more requests.
Idle(asked, left) ==
  [st |-> "idle", setup |-> SetConfiguration, answer |-> "none",
   reply |-> DefaultCoding, asked |-> asked, left |-> left]

CtlInit ==
  /\ driver_state = "UNCONNECTED"
  /\ line_coding = DefaultCoding
  /\ primed = FALSE
  /\ ep0 = Idle(DefaultCoding, MaxSetups)

-----------------------------------------------------------------------------
(* What the handlers answer: data, a zero-length packet, a stall, or        *)
(* nothing.                                                                *)

StdDevReqSilent(s) ==                                   \* mutant
  IF s.length = "over" \/ s.req = "SET_CONFIGURATION" THEN "none"
  ELSE CASE s.req \in {"GET_STATUS", "GET_INTERFACE", "GET_CONFIGURATION"} -> "data"
         [] s.req = "GET_DESCRIPTOR" -> IF s.value \in Descriptors THEN "data" ELSE "stall"
         [] s.req \in {"SET_ADDRESS", "CLEAR_FEATURE", "SET_INTERFACE"} -> "zero"
XUsbPs_StdDevReq(s) ==
  IF s.length = "over" THEN "none"
  ELSE CASE s.req \in {"GET_STATUS", "GET_INTERFACE", "GET_CONFIGURATION"} -> "data"
         [] s.req = "GET_DESCRIPTOR" -> IF s.value \in Descriptors THEN "data" ELSE "stall"
         [] s.req = "SET_CONFIGURATION" -> IF s.value = 1 THEN "zero" ELSE "stall"
         [] s.req \in {"SET_ADDRESS", "CLEAR_FEATURE", "SET_INTERFACE"} -> "zero"

class_if_request(s) ==
  IF s.length = "over" THEN "none"
  ELSE IF s.req = "GET_LINE_CODING" THEN "data" ELSE "zero"

\* A vendor OUT request's data is read in the handler, before the acknowledge;
\* one without data gets none, and a vendor IN request of no data gets nothing.
XUsbPs_HandleVendorReq(s) ==
  IF s.length = "none" THEN "none"
  ELSE IF s.req = "VENDOR_IN" THEN "data" ELSE "zero"

Answer(s) ==
  CASE s.type = "standard" -> XUsbPs_StdDevReq(s)
    [] s.type = "class" -> class_if_request(s)
    [] s.type = "vendor" -> XUsbPs_HandleVendorReq(s)

StateForgotten(s) ==                                    \* mutant
  IF s = SetConfiguration THEN "CONNECTED" ELSE driver_state
StateAfter(s) ==
  IF s.req = "SET_LINE_CODING" THEN "CONFIG"
  ELSE IF s = SetConfiguration THEN "CONNECTED" ELSE driver_state

NeverPrimed(s) == primed                                \* mutant
\* XUsbPs_SetConfiguration enables the endpoints and primes endpoint 3.
PrimedAfter(s) == primed \/ s = SetConfiguration

-----------------------------------------------------------------------------
HostSends ==
  /\ image = "usb" /\ ep0.st = "idle"
  /\ \/ /\ ep0.left > 0
        /\ \E s \in HostSetups : ep0' = [ep0 EXCEPT !.st = "setup", !.setup = s, !.left = @ - 1]
     \/ /\ bus = "reset"
        /\ ep0' = [ep0 EXCEPT !.st = "setup", !.setup = SetConfiguration]
  /\ UNCHANGED <<driver_state, line_coding, primed, bus>>

\* xusb_cdc_ep0_irq_handler, XUSBPS_EP_EVENT_SETUP_DATA_RECEIVED
Ep0Setup ==
  /\ ep0.st = "setup"
  /\ driver_state' = StateAfter(ep0.setup)
  /\ primed' = PrimedAfter(ep0.setup)
  /\ ep0' = [ep0 EXCEPT !.st = "status", !.answer = Answer(ep0.setup), !.reply = line_coding]
  /\ UNCHANGED <<line_coding, bus>>

\* xusb_cdc_ep0_irq_handler, XUSBPS_EP_EVENT_DATA_RX: the seven bytes of a
\* SET_LINE_CODING, or the host's acknowledge of a reply, of no bytes.
Ep0Data ==
  /\ ep0.st = "status"
  /\ ep0.setup.req = "SET_LINE_CODING" \/ ep0.answer = "data"
  /\ line_coding' = IF driver_state = "CONFIG" /\ ep0.setup.req = "SET_LINE_CODING"
                    THEN ep0.setup.value ELSE line_coding
  /\ ep0' = Idle(IF ep0.setup.req = "SET_LINE_CODING" THEN ep0.setup.value ELSE ep0.asked,
                 ep0.left)
  /\ UNCHANGED <<driver_state, primed, bus>>

\* The host takes an acknowledge or a stall.
HostDone ==
  /\ ep0.st = "status" /\ ep0.setup.req # "SET_LINE_CODING"
  /\ ep0.answer \in {"zero", "stall"}
  /\ ep0' = Idle(ep0.asked, ep0.left)
  /\ bus' = IF ep0.setup = SetConfiguration THEN "configured" ELSE bus
  /\ UNCHANGED <<driver_state, line_coding, primed>>

\* The host's time-out: nothing answers the request, and it takes it for failed.
HostGivesUp ==
  /\ ep0.st = "status" /\ ep0.answer = "none"
  /\ ep0' = Idle(ep0.asked, ep0.left)
  /\ UNCHANGED <<driver_state, line_coding, primed, bus>>

\* The USB driver's handling of a bus reset flushes the endpoints.
BusReset ==
  /\ primed' = FALSE
  /\ UNCHANGED <<driver_state, line_coding, ep0>>

ControlStep == HostSends \/ Ep0Setup \/ Ep0Data \/ HostDone \/ HostGivesUp
=============================================================================
