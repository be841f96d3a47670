------------------------ MODULE MCSchedulerSnapshot ------------------------
(***************************************************************************)
(* The instance of SchedulerSnapshot TLC checks.                           *)
(***************************************************************************)
EXTENDS SchedulerSnapshot
=============================================================================
