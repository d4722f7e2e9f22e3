----------------------------- MODULE MCHostView -----------------------------
(***************************************************************************)
(* HostView on the small instances of MCCommandIssue.                      *)
(***************************************************************************)
EXTENDS HostView, MCCommandIssue
=============================================================================
