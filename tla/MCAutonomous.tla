---------------------------- MODULE MCAutonomous -----------------------------
(***************************************************************************)
(* Autonomous with an event with text, one without, ticks, and a queue     *)
(* of two.                                                                 *)
(***************************************************************************)
EXTENDS Autonomous

CONSTANTS user, blank

=============================================================================
