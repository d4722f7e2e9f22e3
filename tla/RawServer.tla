------------------------------ MODULE RawServer ------------------------------
(***************************************************************************)
(* The raw lwIP firmware, raw_lwip_sw/main.c: one loop that hands received *)
(* frames to the stack, whose callback gathers a request and, once it has  *)
(* exactly one, carries it out and queues the answer.  What it has         *)
(* gathered is kept in static variables, whatever the connection.          *)
(***************************************************************************)
EXTENDS Link

VARIABLE rx    \* what lies in rx_buffer before rx_bufferPtr; rx_size is its length

RawInit == rx = << >>

RawSizeKept(got) == got                                 \* mutant
\* rx_bufferPtr = rx_buffer; rx_size = 0;
RawAfter(got) == IF Len(got) = RequestBytes THEN << >> ELSE got

\* nand_recv_callback with the m cells of one frame.
RawReceive(m) ==
  LET got == IF Len(rx) < RequestBytes THEN rx \o SubSeq(down, 1, m) ELSE rx
      whole == Len(got) = RequestBytes
  IN /\ down' = SubSeq(down, m + 1, Len(down))
     /\ rx' = RawAfter(got)
     /\ IF whole /\ HasHeader(got)
        THEN /\ Execute(got[1].of)
             /\ up' = up \o CellsOf(result')
        ELSE UNCHANGED <<ran, result, up>>

\* nand_recv_callback with no buffer: the peer closed.
RawClosed == down' = Tail(down) /\ UNCHANGED <<rx, ran, result, up>>

\* One round of the main loop.
RawStep ==
  /\ image = "raw" /\ down # << >>
  /\ \/ Head(down) = Fin /\ RawClosed
     \/ \E m \in 1..Len(down) :
          /\ \A i \in 1..m : down[i] # Fin
          /\ RawReceive(m)
  /\ UNCHANGED image
=============================================================================
