--------------------------- MODULE MCRegisterPath ---------------------------
(***************************************************************************)
(* RegisterPath for TLC: the real depth of the FIFOs and the real ratio of *)
(* the clocks; two operand values, used in turn.                           *)
(***************************************************************************)
EXTENDS RegisterPath
=============================================================================
