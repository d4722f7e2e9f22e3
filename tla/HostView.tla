------------------------------ MODULE HostView ------------------------------
(***************************************************************************)
(* CommandIssue seen from the register interface: what the host can read   *)
(* of what became of its command words, against what the README's register *)
(* table tells it.                                                         *)
(***************************************************************************)
EXTENDS CommandIssue

VARIABLE refused     \* history: whether the last command word was refused

HostInit == Init /\ refused = FALSE

HostReceive(w) ==
  /\ Receive(w)
  /\ refused' = IF w.valid THEN Busy ELSE refused

HostQuiet == Quiet /\ UNCHANGED refused

HostNext == HostQuiet \/ \E w \in Words : HostReceive(w)

HostSpec == HostInit /\ [][HostNext]_<<vars, refused>>

-----------------------------------------------------------------------------

(* README, register table: rCommandFail is the status of the last command. *)
(* The adapter clears it on every write that is not a command.             *)
CommandFailReportsLastCommand == adapter.fail = refused
=============================================================================
