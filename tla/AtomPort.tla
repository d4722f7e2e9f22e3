------------------------------ MODULE AtomPort ------------------------------
(***************************************************************************)
(* What a latch atom promises at its ports: a job it has taken puts the    *)
(* job's bytes on the bus, each once and in order, and only then does the  *)
(* atom raise LastStep, for one clock, and is ready for another job.       *)
(***************************************************************************)
EXTENDS Naturals, Sequences

CONSTANTS
  Job,      \* the jobs: records with at least the fields bytes, cle and way
  NoJob

VARIABLES
  job,      \* the job in hand
  put,      \* what has been put on the bus for it
  last      \* LastStep

ports == <<job, put, last>>

Init == job = NoJob /\ put = << >> /\ last = FALSE

Take ==
  /\ job = NoJob
  /\ job' \in Job
  /\ UNCHANGED <<put, last>>

Put ==
  /\ job # NoJob /\ Len(put) < Len(job.bytes)
  /\ put' = Append(put, [byte |-> job.bytes[Len(put) + 1], cle |-> job.cle, way |-> job.way])
  /\ UNCHANGED <<job, last>>

Finish ==
  /\ job # NoJob /\ ~last
  /\ Len(put) = Len(job.bytes)
  /\ last' = TRUE
  /\ UNCHANGED <<job, put>>

Release ==
  /\ last
  /\ job' = NoJob /\ put' = << >> /\ last' = FALSE

Next == Take \/ Put \/ Finish \/ Release

Spec == Init /\ [][Next]_ports /\ WF_ports(Put \/ Finish \/ Release)
=============================================================================
