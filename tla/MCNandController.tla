-------------------------- MODULE MCNandController --------------------------
(***************************************************************************)
(* The closed system with one or two chips.                                *)
(***************************************************************************)
EXTENDS NandController

CONSTANTS w1, w2, a0, a1, a2, a3

MCWayAddr == [w \in Way |-> IF w = w1 THEN a1 ELSE a2]
MCWaysOf ==
  [a \in {a0, a1, a2, a3} |-> {w \in Way : MCWayAddr[w] = a}]

\* The driver makes the words; the set CommandIssue chooses from plays no part.
MCWords == {}
=============================================================================
