------------------------------ MODULE MCDelegate -------------------------------
(***************************************************************************)
(* Delegate with an agent outside and jobs that delegate further.        *)
(***************************************************************************)
EXTENDS Delegate

CONSTANT r1

===============================================================================
