------------------------------ MODULE AsyncFifo ------------------------------
(***************************************************************************)
(* The asynchronous FIFO that carries register words between the AXI clock *)
(* and the system clock (lib/axis/rtl/axis_async_fifo.v).  Each side knows *)
(* the other's Gray-coded pointer through two synchroniser registers, so a *)
(* FIFO is its unread words and, for each register, how far it lags:       *)
(*                                                                         *)
(*   q              the words written and not read                         *)
(*   seen1, seen2   how many of them the reader's synchroniser registers   *)
(*                  show                                                   *)
(*   freed1, freed2 words read that the writer's registers do not show     *)
(*   mdata, mvalid  the word just read from the memory                     *)
(*   out, valid     the output register                                    *)
(*                                                                         *)
(* The reader's ready is tied to one (NandFlashController_Top_AXI.v:290),  *)
(* the writer's ready is left open: a word offered to a full FIFO is lost. *)
(***************************************************************************)
EXTENDS Naturals, Sequences

CONSTANT
  FifoDepth   \* words of the memory

ASSUME FifoAssumption == FifoDepth \in Nat \ {0}

Empty(word) ==
  [q |-> << >>, seen1 |-> 0, seen2 |-> 0, freed1 |-> 0, freed2 |-> 0,
   mdata |-> word, mvalid |-> FALSE, out |-> word, valid |-> FALSE]

Full(f) == Len(f.q) + f.freed2 = FifoDepth

\* A write clock that offers the words of the sequence w, one or none.
WrittenUnsynced(f, w) ==                                \* mutant
  [f EXCEPT !.q = IF Full(f) THEN @ ELSE @ \o w]
Written(f, w) ==
  [f EXCEPT !.q = IF Full(f) THEN @ ELSE @ \o w,
            !.freed2 = f.freed1, !.freed1 = 0]

ReadOutUncounted(f) ==                                  \* mutant
  LET got == IF f.seen2 > 0 THEN 1 ELSE 0
  IN [f EXCEPT !.q = SubSeq(@, got + 1, Len(@)),
               !.seen2 = f.seen1 - got, !.seen1 = Len(f.q),
               !.freed1 = @ + got, !.freed2 = @ + got,
               !.mdata = IF got = 1 THEN Head(f.q) ELSE @,
               !.mvalid = got = 1, !.out = f.mdata, !.valid = f.mvalid]
\* A read clock: one word a clock while the synchronised pointer shows any.
ReadOut(f) ==
  LET got == IF f.seen2 > 0 THEN 1 ELSE 0
  IN [f EXCEPT !.q = SubSeq(@, got + 1, Len(@)),
               !.seen2 = f.seen1 - got, !.seen1 = Len(f.q) - got,
               !.freed1 = @ + got, !.freed2 = @ + got,
               !.mdata = IF got = 1 THEN Head(f.q) ELSE @,
               !.mvalid = got = 1, !.out = f.mdata, !.valid = f.mvalid]

FifoTypeOK(f) ==
  /\ f.seen2 <= f.seen1 /\ f.seen1 <= Len(f.q)
  /\ f.freed1 <= f.freed2 /\ Len(f.q) + f.freed2 <= FifoDepth
  /\ f.mvalid \in BOOLEAN /\ f.valid \in BOOLEAN
=============================================================================
