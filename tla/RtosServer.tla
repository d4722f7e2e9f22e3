----------------------------- MODULE RtosServer -----------------------------
(***************************************************************************)
(* The FreeRTOS firmware, freertos_lwip_sw/main.c: a thread per connection *)
(* that takes whatever one read of the socket returns for a request.       *)
(***************************************************************************)
EXTENDS Link

RtosNoHeader(buffer) == TRUE                            \* mutant
RtosHasHeader(buffer) == HasHeader(buffer)

\* A read that returns m cells.
RtosRead(m) ==
  LET buffer == SubSeq(down, 1, m) IN
  /\ down' = SubSeq(down, m + 1, Len(down))
  /\ IF RtosHasHeader(buffer)
     THEN Execute(buffer[1].of) /\ up' = up \o CellsOf(result')
     ELSE UNCHANGED <<ran, result, up>>

\* A read that returns nothing ends the thread.
RtosClosed == down' = Tail(down) /\ UNCHANGED <<ran, result, up>>

\* process_nand_request
RtosStep ==
  /\ image = "rtos" /\ down # << >>
  /\ \/ Head(down) = Fin /\ RtosClosed
     \/ \E m \in 1..Len(down) :
          /\ m <= RequestBytes
          /\ \A i \in 1..m : down[i] # Fin
          /\ RtosRead(m)
  /\ UNCHANGED image
=============================================================================
