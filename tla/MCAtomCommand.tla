--------------------------- MODULE MCAtomCommand ---------------------------
(***************************************************************************)
(* The latch atoms with every length CAData has bytes for.                 *)
(***************************************************************************)
EXTENDS AtomCommand

CONSTANTS w1, w2, b0, b1, b2, b3, b4, b5

MCBytes == <<b1, b2, b3, b4, b5>>
MCRepeated == <<b1, b1, b2, b1, b1>>

MCAsks ==
  [m \in Modes |->
    [num : IF m = "sync" THEN 0..4 ELSE 1..4, cle : BOOLEAN,
     ca : {MCBytes, MCRepeated}, way : {{w1}, {w1, w2}}]]
=============================================================================
