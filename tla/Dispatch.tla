------------------------------- MODULE Dispatch --------------------------------
(***************************************************************************)
(* What the dispatcher of internal/delegate promises its callers: a call   *)
(* asks for one job, or for several in a batch; jobs execute at most Limit *)
(* at a time, each at most once; a call is answered when each of its jobs  *)
(* has an outcome.  The caller of a single job may give up before; a batch *)
(* never does.                                                             *)
(***************************************************************************)
EXTENDS Naturals, FiniteSets

CONSTANTS
    Jobs,
    Calls,
    Limit,          \* jobs that execute at one time
    NoCall

VARIABLES
    owner,          \* the call that asked for each job
    stage,          \* "none", "pending", "executing" or "ended"
    outcome,        \* "none", "ok" or "error"
    answer          \* "none", "asked", "batch", "answered" or "failed"

vars == <<owner, stage, outcome, answer>>

JobsOf(c) == {j \in Jobs : owner[j] = c}

Executing == {j \in Jobs : stage[j] = "executing"}

Init ==
    /\ owner = [j \in Jobs |-> NoCall]
    /\ stage = [j \in Jobs |-> "none"]
    /\ outcome = [j \in Jobs |-> "none"]
    /\ answer = [c \in Calls |-> "none"]

(* A single job or a batch, of jobs that nobody asked for before. *)
Ask(c, new) ==
    /\ answer[c] = "none"
    /\ new # {} /\ \A j \in new : stage[j] = "none"
    /\ owner' = [j \in Jobs |-> IF j \in new THEN c ELSE owner[j]]
    /\ stage' = [j \in Jobs |-> IF j \in new THEN "pending" ELSE stage[j]]
    /\ answer' = [answer EXCEPT ![c] = IF Cardinality(new) = 1 THEN "asked" ELSE "batch"]
    /\ UNCHANGED outcome

Begin(j) ==
    /\ stage[j] = "pending" /\ Cardinality(Executing) < Limit
    /\ stage' = [stage EXCEPT ![j] = "executing"]
    /\ UNCHANGED <<owner, outcome, answer>>

Decide(j, result) ==
    /\ stage[j] = "executing" /\ outcome[j] = "none"
    /\ outcome' = [outcome EXCEPT ![j] = result]
    /\ UNCHANGED <<owner, stage, answer>>

Leave(j) ==
    /\ stage[j] = "executing" /\ outcome[j] # "none"
    /\ stage' = [stage EXCEPT ![j] = "ended"]
    /\ UNCHANGED <<owner, outcome, answer>>

(* A job that never executed. *)
Withdraw(j) ==
    /\ stage[j] = "pending"
    /\ stage' = [stage EXCEPT ![j] = "ended"]
    /\ outcome' = [outcome EXCEPT ![j] = "error"]
    /\ UNCHANGED <<owner, answer>>

Answer(c) ==
    /\ answer[c] \in {"asked", "batch"}
    /\ \A j \in JobsOf(c) : outcome[j] # "none"
    /\ answer' = [answer EXCEPT ![c] =
          IF answer[c] = "asked" /\ \E j \in JobsOf(c) : outcome[j] = "error"
          THEN "failed" ELSE "answered"]
    /\ UNCHANGED <<owner, stage, outcome>>

GiveUp(c) ==
    /\ answer[c] = "asked"
    /\ answer' = [answer EXCEPT ![c] = "failed"]
    /\ UNCHANGED <<owner, stage, outcome>>

Next ==
    \/ \E c \in Calls : Answer(c) \/ GiveUp(c) \/ \E new \in SUBSET Jobs : Ask(c, new)
    \/ \E j \in Jobs : Begin(j) \/ Leave(j) \/ Withdraw(j) \/ Decide(j, "ok") \/ Decide(j, "error")

Spec == Init /\ [][Next]_vars

===============================================================================
