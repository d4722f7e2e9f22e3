---------------------------- MODULE MCHostSystem ----------------------------
(***************************************************************************)
(* HostSystem on a small instance: a request is two packets of two cells,  *)
(* and the ring holds two requests and a half.                             *)
(***************************************************************************)
EXTENDS HostSystem

MCVoid == [at |-> 0, of |-> [n |-> 0, op |-> "void"]]
=============================================================================
