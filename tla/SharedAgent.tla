------------------------------ MODULE SharedAgent ------------------------------
(***************************************************************************)
(* What the agent of internal/agent promises the goroutines that share it, *)
(* and what the two schedulers take for granted: of those that Submit at   *)
(* most one is inside at a time, each leaves before the next one enters,   *)
(* and what IsBusy tells is whether one is inside; an interrupt that finds *)
(* room in the channel stays there until they are all taken out together,  *)
(* by a turn of a run or by /clear; one that finds none is dropped.        *)
(*                                                                         *)
(* Runs that take no flag (RunStreaming) show here only by the interrupts  *)
(* they take out.                                                          *)
(***************************************************************************)
EXTENDS Naturals

CONSTANTS
    Users,          \* who may Submit
    Capacity        \* capacity of the interrupt channel

VARIABLES
    inside,         \* the users whose Submit has not returned
    taken,          \* what IsBusy returns
    waiting         \* interrupts in the channel

vars == <<inside, taken, waiting>>

Init ==
    /\ inside = {}
    /\ taken = FALSE
    /\ waiting = 0

Enter(u) ==
    /\ inside = {} /\ ~taken
    /\ inside' = {u} /\ taken' = TRUE
    /\ UNCHANGED waiting

Leave(u) ==
    /\ inside = {u} /\ taken
    /\ inside' = {} /\ taken' = FALSE
    /\ UNCHANGED waiting

Send ==
    /\ waiting < Capacity
    /\ waiting' = waiting + 1
    /\ UNCHANGED <<inside, taken>>

TakeOut ==
    /\ waiting' = 0
    /\ UNCHANGED <<inside, taken>>

Next == (\E u \in Users : Enter(u) \/ Leave(u)) \/ Send \/ TakeOut

Spec == Init /\ [][Next]_vars

================================================================================
