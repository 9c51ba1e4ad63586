----------------------------- MODULE MCAgentLoop -----------------------------
(***************************************************************************)
(* AgentLoop on a small instance.  In one behaviour the agent is of one    *)
(* kind: a cron job's, which several goroutines submit to, or one that a   *)
(* terminal or a delegate streams from.  (The main agent is of both kinds, *)
(* and AgentBusyFlag runs AgentLoop itself.)                               *)
(***************************************************************************)
EXTENDS AgentLoop

VARIABLE callers    \* the goroutines that use the agent in this behaviour

(* Bounds: a submitted agent has one interrupt at most, and no /compact. *)
WithinBounds == callers = Submitters => issued <= 1 /\ compacts = 0

KindInit == Init /\ callers \in {Submitters, Streamers}

KindNext ==
    /\ Next /\ UNCHANGED callers
    /\ \A p \in Procs \ callers : pc'[p] = "idle"
    /\ WithinBounds'

KindSpec == KindInit /\ [][KindNext]_<<vars, callers>> /\ Fairness

=============================================================================
