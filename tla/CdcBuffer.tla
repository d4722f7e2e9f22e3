------------------------------ MODULE CdcBuffer ------------------------------
(***************************************************************************)
(* The receive ring of the USB firmware, xusbps_cdc_buffer.c, as operators *)
(* on a record r: r.start and r.end index r.cells, which has r.length      *)
(* cells, one more than the size asked for.                                *)
(*                                                                         *)
(* A read is split in two, since the USB interrupt may write between the   *)
(* copy and the update of the indices.                                     *)
(***************************************************************************)
EXTENDS Integers, Sequences, SequencesExt

CONSTANT Void      \* a cell nothing was written to, or beyond the buffer

buffer_init(size) ==
  [start |-> 0, end |-> 0, length |-> size + 1, cells |-> [i \in 0..size |-> Void]]

available_bytes(r) ==
  IF r.end < r.start THEN r.length - r.start + r.end ELSE r.end - r.start

available_space(r) ==
  IF r.end < r.start THEN r.start - r.end ELSE r.length - r.end + r.start

Least(m, n) == IF m < n THEN m ELSE n

\* n cells of the buffer from index i on, running off its end into other memory.
Copy(r, i, n) ==
  [j \in 1..n |-> IF i + j - 1 < r.length THEN r.cells[i + j - 1] ELSE Void]

\* The bytes a read of n copies out: all n of them unless it wraps.
Copied(r, n) ==
  LET remaining == Least(n, available_bytes(r))
      first == r.length - r.start
  IN IF r.start + remaining > r.length
     THEN Copy(r, r.start, first) \o Copy(r, 0, remaining - first)
     ELSE Copy(r, r.start, n)

\* The index after count cells from i on; length % (i + count) is length itself.
Advanced(r, i, count) ==
  IF i + count > r.length THEN r.length % (i + count) ELSE i + count

ConsumedStartOnly(r, count, available) ==               \* mutant
  IF count = available THEN [r EXCEPT !.start = 0]
  ELSE [r EXCEPT !.start = Advanced(r, r.start, count)]
\* The end of a read of count cells which found `available' of them.
Consumed(r, count, available) ==
  IF count = available THEN [r EXCEPT !.start = 0, !.end = 0]
  ELSE [r EXCEPT !.start = Advanced(r, r.start, count)]

buffer_write(r, data) ==
  LET n == Len(data)
      remaining == Least(n, available_space(r))
      first == r.length - r.end
      wraps == r.end + remaining > r.length
      count == IF wraps THEN remaining ELSE n
      \* the index the j-th cell of data goes to
      At(j) == IF wraps /\ j > first THEN j - first - 1 ELSE r.end + j - 1
  IN [r EXCEPT
        !.cells = [i \in DOMAIN r.cells |->
                     IF \E j \in 1..count : At(j) = i
                     THEN data[CHOOSE j \in 1..count : At(j) = i] ELSE r.cells[i]],
        !.end = Advanced(r, r.end, count)]

\* The cells a reader has yet to take.
Contents(r) ==
  [j \in 1..available_bytes(r) |->
     LET i == (r.start + j - 1) % r.length IN r.cells[i]]
=============================================================================
