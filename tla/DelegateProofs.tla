----------------------------- MODULE DelegateProofs -----------------------------
(***************************************************************************)
(* What is proved of Delegate for any agents, capacity and bounds: its     *)
(* types, its semaphore, that orphaned jobs are cancelled, that the table  *)
(* holds the jobs that answer, and that it implements Dispatch.            *)
(*                                                                         *)
(* The type invariant is not inductive: that Release leaves sem a natural  *)
(* number needs the count of the jobs that execute.  The other properties  *)
(* need to know to which calls jobs can belong: a job belongs to a call    *)
(* exactly when it was asked for, and that call has been made.             *)
(***************************************************************************)
EXTENDS Delegate, FiniteSetTheorems, TLAPS

OwnersCalled ==
    /\ \A j \in Jobs : pc[j] = "none" => owner[j] = NoCall
    /\ \A j \in Jobs : pc[j] # "none" => owner[j] \in Calls /\ call[owner[j]] # "none"

(* A job that has not ended and whose call has, has a context that is done. *)
LateJobsCancelled ==
    \A j \in Jobs :
        pc[j] \in {"announce", "acquire", "run"} /\ call[owner[j]] # "open" => JobDone(j)

(* A job has a result from the end of its run on. *)
ResultsWhenDone ==
    \A j \in Jobs : result[j] = "none" <=> pc[j] \notin {"done", "ended"}

IndInv == TypeOK /\ SlotsHeld /\ OwnersCalled /\ LateJobsCancelled /\ ResultsWhenDone

-----------------------------------------------------------------------------

LEMMA JobSets ==
    /\ IsFiniteSet(Jobs) /\ IsFiniteSet(Executing)
    /\ Cardinality(Executing) \in Nat
<1>1. IsFiniteSet(Jobs)
  BY DelegateAssumption, FS_Interval DEF Jobs
<1>2. IsFiniteSet(Executing)
  BY <1>1, FS_Subset DEF Executing
<1> QED
  BY <1>1, <1>2, FS_CardinalityType

(* What a step of Open does, with the call and the jobs it takes named.    *)
LEMMA OpenStep ==
    ASSUME NEW a, NEW ctx, NEW n \in Nat \ {0}, NEW label, Open(a, ctx, n, label)
    PROVE  \E c \in Calls, new \in SUBSET Jobs :
              /\ new # {} /\ IsFiniteSet(new) /\ Cardinality(new) = n
              /\ call[c] = "none" /\ \A j \in new : pc[j] = "none"
              /\ caller' = [caller EXCEPT ![c] = a]
              /\ lineage' = [lineage EXCEPT ![c] = ctx]
              /\ call' = [call EXCEPT ![c] = "open"]
              /\ owner' = [j \in Jobs |-> IF j \in new THEN c ELSE owner[j]]
              /\ pc' = [j \in Jobs |-> IF j \in new THEN label ELSE pc[j]]
              /\ registered' = IF n = 1 THEN registered \cup new ELSE registered
              /\ UNCHANGED <<result, sem, over>>
<1>1. PICK c \in Calls, first \in Jobs :
        LET new == first..(first + n - 1) IN
        /\ call[c] = "none" /\ \A d \in 1..(c - 1) : call[d] # "none"
        /\ new \subseteq Jobs /\ \A j \in new : pc[j] = "none"
        /\ \A j \in 1..(first - 1) : pc[j] # "none"
        /\ caller' = [caller EXCEPT ![c] = a]
        /\ lineage' = [lineage EXCEPT ![c] = ctx]
        /\ call' = [call EXCEPT ![c] = "open"]
        /\ owner' = [j \in Jobs |-> IF j \in new THEN c ELSE owner[j]]
        /\ pc' = [j \in Jobs |-> IF j \in new THEN label ELSE pc[j]]
        /\ registered' = IF n = 1 THEN registered \cup new ELSE registered
        /\ UNCHANGED <<result, sem, over>>
  BY DEF Open
<1> DEFINE new == first..(first + n - 1)
<1>2. first \in Int /\ first + n - 1 \in Int /\ first <= first + n - 1
  BY DEF Jobs
<1>3. IsFiniteSet(new) /\ Cardinality(new) = n
  BY <1>2, FS_Interval
<1>4. first \in new
  BY <1>2
<1> QED
  BY <1>1, <1>3, <1>4

-----------------------------------------------------------------------------
(***************************************************************************)
(* Each step preserves the invariant.                                      *)
(***************************************************************************)

LEMMA OpenInv ==
    ASSUME IndInv, NEW a \in Contexts, NEW ctx \in SUBSET Contexts, NEW n \in Nat \ {0},
           NEW label \in {"announce", "acquire"}, Open(a, ctx, n, label)
    PROVE  IndInv'
<1>1. PICK c \in Calls, new \in SUBSET Jobs :
              /\ new # {} /\ IsFiniteSet(new) /\ Cardinality(new) = n
              /\ call[c] = "none" /\ \A j \in new : pc[j] = "none"
              /\ caller' = [caller EXCEPT ![c] = a]
              /\ lineage' = [lineage EXCEPT ![c] = ctx]
              /\ call' = [call EXCEPT ![c] = "open"]
              /\ owner' = [j \in Jobs |-> IF j \in new THEN c ELSE owner[j]]
              /\ pc' = [j \in Jobs |-> IF j \in new THEN label ELSE pc[j]]
              /\ registered' = IF n = 1 THEN registered \cup new ELSE registered
              /\ UNCHANGED <<result, sem, over>>
  BY OpenStep
<1>2. TypeOK'
  BY <1>1 DEF IndInv, TypeOK, Stages
<1>3. SlotsHeld'
  <2>1. Executing' = Executing
    BY <1>1 DEF Executing
  <2> QED
    BY <1>1, <2>1 DEF IndInv, SlotsHeld
<1>4. OwnersCalled'
  BY <1>1 DEF IndInv, TypeOK, OwnersCalled
<1>5. LateJobsCancelled'
  <2> SUFFICES ASSUME NEW j \in Jobs,
                      pc'[j] \in {"announce", "acquire", "run"}, call'[owner'[j]] # "open"
               PROVE  JobDone(j)'
    BY DEF LateJobsCancelled
  <2>1. j \notin new /\ owner'[j] = owner[j] /\ pc'[j] = pc[j]
    BY <1>1 DEF IndInv, TypeOK
  <2>2. owner[j] \in Calls /\ owner[j] # c
    BY <1>1, <2>1 DEF IndInv, OwnersCalled
  <2>3. JobDone(j)
    BY <1>1, <2>1, <2>2 DEF IndInv, TypeOK, LateJobsCancelled
  <2> QED
    BY <1>1, <2>1, <2>2, <2>3 DEF IndInv, TypeOK, JobDone, JobLineage
<1>6. ResultsWhenDone'
  BY <1>1 DEF IndInv, ResultsWhenDone
<1> QED
  BY <1>2, <1>3, <1>4, <1>5, <1>6 DEF IndInv

LEMMA AskInv ==
    ASSUME IndInv, \/ \E r \in Roots : RootCalls(r)
                   \/ \E j \in Jobs : JobCalls(j)
    PROVE  IndInv'
<1>1. BatchSize \in Nat \ {0}
  BY DelegateAssumption
<1>2. ASSUME NEW r \in Roots, RootCalls(r)
      PROVE  IndInv'
  <2>1. r \in Contexts /\ {r} \in SUBSET Contexts
    BY DEF Contexts
  <2> QED
    BY <1>1, <1>2, <2>1, OpenInv DEF RootCalls, Delegate, BatchDelegate
<1>3. ASSUME NEW j \in Jobs, JobCalls(j)
      PROVE  IndInv'
  <2>1. owner[j] \in Calls
    BY <1>3 DEF JobCalls, IndInv, OwnersCalled
  <2>2. j \in Contexts /\ JobLineage(j) \in SUBSET Contexts
    BY <2>1 DEF Contexts, JobLineage, IndInv, TypeOK
  <2> QED
    BY <1>1, <1>3, <2>2, OpenInv DEF JobCalls, Delegate, BatchDelegate
<1> QED
  BY <1>2, <1>3

LEMMA CallInv ==
    ASSUME IndInv, NEW c \in Calls, CallStep(c)
    PROVE  IndInv'
<1> USE DEF IndInv
<1>1. /\ UNCHANGED <<caller, lineage, owner, pc, result, sem, over>>
      /\ registered' \subseteq registered
      /\ call[c] = "open"
      /\ \E end \in {"returned", "failed"} : call' = [call EXCEPT ![c] = end]
  BY DEF CallStep, Receive, GiveUp, BatchReturns
<1>2. TypeOK'
  BY <1>1 DEF TypeOK
<1>3. SlotsHeld' /\ ResultsWhenDone'
  BY <1>1 DEF SlotsHeld, Executing, ResultsWhenDone
<1>4. OwnersCalled'
  BY <1>1 DEF OwnersCalled, TypeOK
<1>5. LateJobsCancelled'
  <2> SUFFICES ASSUME NEW j \in Jobs,
                      pc[j] \in {"announce", "acquire", "run"}, call'[owner[j]] # "open"
               PROVE  JobDone(j)
    BY <1>1 DEF LateJobsCancelled, JobDone, JobLineage
  <2>1. CASE owner[j] # c
    BY <1>1, <2>1 DEF LateJobsCancelled, OwnersCalled, TypeOK
  <2>2. CASE owner[j] = c
    <3>1. j \in JobsOf(c)
      BY <2>2 DEF JobsOf
    <3>2. GiveUp(c)
      BY <3>1 DEF CallStep, Receive, BatchReturns
    <3> QED
      BY <2>2, <3>2 DEF GiveUp, CallDone, JobDone, JobLineage
  <2> QED
    BY <2>1, <2>2
<1> QED
  BY <1>2, <1>3, <1>4, <1>5

(* The contexts that are done only grow in number. *)
LEMMA StillDone ==
    ASSUME NEW j \in Jobs, over \subseteq over', UNCHANGED <<lineage, owner>>, JobDone(j)
    PROVE  JobDone(j)'
  BY DEF JobDone, JobLineage

LEMMA AcquireInv ==
    ASSUME IndInv, NEW j \in Jobs, Acquire(j)
    PROVE  IndInv'
<1> USE DEF IndInv
<1>1. /\ UNCHANGED <<caller, lineage, call, owner, result, registered, over>>
      /\ pc[j] = "acquire" /\ pc' = [pc EXCEPT ![j] = "run"]
      /\ sem < MaxConcurrent /\ sem' = sem + 1
  BY DEF Acquire, Goto
<1>2. TypeOK'
  BY <1>1, DelegateAssumption DEF TypeOK, Stages
<1>3. SlotsHeld'
  <2>1. Executing' = Executing \cup {j} /\ j \notin Executing
    BY <1>1 DEF Executing, TypeOK
  <2>2. Cardinality(Executing') = Cardinality(Executing) + 1
    BY <2>1, JobSets, FS_AddElement
  <2> QED
    BY <1>1, <2>2 DEF SlotsHeld
<1>4. OwnersCalled' /\ ResultsWhenDone'
  BY <1>1 DEF OwnersCalled, ResultsWhenDone, TypeOK
<1>5. LateJobsCancelled'
  BY <1>1 DEF LateJobsCancelled, TypeOK, JobDone, JobLineage
<1> QED
  BY <1>2, <1>3, <1>4, <1>5

LEMMA AnnounceInv ==
    ASSUME IndInv, NEW j \in Jobs, Announce(j)
    PROVE  IndInv'
<1> USE DEF IndInv
<1>1. /\ UNCHANGED <<caller, lineage, call, owner, result, sem, registered, over>>
      /\ pc[j] = "announce" /\ pc' = [pc EXCEPT ![j] = "acquire"]
  BY DEF Announce, Goto
<1>2. TypeOK'
  BY <1>1 DEF TypeOK, Stages
<1>3. SlotsHeld'
  <2>1. Executing' = Executing
    BY <1>1 DEF Executing, TypeOK
  <2> QED
    BY <1>1, <2>1 DEF SlotsHeld
<1>4. OwnersCalled' /\ ResultsWhenDone'
  BY <1>1 DEF OwnersCalled, ResultsWhenDone, TypeOK
<1>5. LateJobsCancelled'
  BY <1>1 DEF LateJobsCancelled, TypeOK, JobDone, JobLineage
<1> QED
  BY <1>2, <1>3, <1>4, <1>5

LEMMA AcquireCancelledInv ==
    ASSUME IndInv, NEW j \in Jobs, AcquireCancelled(j)
    PROVE  IndInv'
<1> USE DEF IndInv
<1>1. /\ UNCHANGED <<caller, lineage, call, owner, sem, over>>
      /\ registered' \subseteq registered
      /\ pc[j] = "acquire" /\ pc' = [pc EXCEPT ![j] = "ended"]
      /\ result' = [result EXCEPT ![j] = "error"]
  BY DEF AcquireCancelled, Goto
<1>2. TypeOK'
  BY <1>1 DEF TypeOK, Stages
<1>3. SlotsHeld'
  <2>1. Executing' = Executing
    BY <1>1 DEF Executing, TypeOK
  <2> QED
    BY <1>1, <2>1 DEF SlotsHeld
<1>4. OwnersCalled' /\ ResultsWhenDone'
  BY <1>1 DEF OwnersCalled, ResultsWhenDone, TypeOK
<1>5. LateJobsCancelled'
  BY <1>1 DEF LateJobsCancelled, TypeOK, JobDone, JobLineage
<1> QED
  BY <1>2, <1>3, <1>4, <1>5

LEMMA RunEndsInv ==
    ASSUME IndInv, NEW j \in Jobs, RunEnds(j)
    PROVE  IndInv'
<1> USE DEF IndInv
<1>1. /\ UNCHANGED <<caller, lineage, call, owner, sem, registered>>
      /\ pc[j] = "run" /\ pc' = [pc EXCEPT ![j] = "done"]
      /\ \E outcome \in {"ok", "error"} : result' = [result EXCEPT ![j] = outcome]
      /\ over' = over \cup {j}
  BY DEF RunEnds, Goto
<1>2. TypeOK'
  BY <1>1 DEF TypeOK, Stages, Contexts
<1>3. SlotsHeld'
  <2>1. Executing' = Executing
    BY <1>1 DEF Executing, TypeOK
  <2> QED
    BY <1>1, <2>1 DEF SlotsHeld
<1>4. OwnersCalled' /\ ResultsWhenDone'
  BY <1>1 DEF OwnersCalled, ResultsWhenDone, TypeOK
<1>5. LateJobsCancelled'
  BY <1>1, StillDone DEF LateJobsCancelled, TypeOK
<1> QED
  BY <1>2, <1>3, <1>4, <1>5

LEMMA ReleaseInv ==
    ASSUME IndInv, NEW j \in Jobs, Release(j)
    PROVE  IndInv'
<1> USE DEF IndInv
<1>1. /\ UNCHANGED <<caller, lineage, call, owner, result, registered, over>>
      /\ pc[j] = "done" /\ pc' = [pc EXCEPT ![j] = "ended"]
      /\ sem' = sem - 1
  BY DEF Release, Goto
<1>2. Executing' = Executing \ {j} /\ j \in Executing
  BY <1>1 DEF Executing, TypeOK
<1>3. Cardinality(Executing') = Cardinality(Executing) - 1 /\ Cardinality(Executing) # 0
  BY <1>2, JobSets, FS_RemoveElement, FS_EmptySet
<1>4. SlotsHeld'
  BY <1>1, <1>3 DEF SlotsHeld
<1>5. TypeOK'
  BY <1>1, <1>3, JobSets, DelegateAssumption DEF TypeOK, Stages, SlotsHeld
<1>6. OwnersCalled' /\ ResultsWhenDone'
  BY <1>1 DEF OwnersCalled, ResultsWhenDone, TypeOK
<1>7. LateJobsCancelled'
  BY <1>1 DEF LateJobsCancelled, TypeOK, JobDone, JobLineage
<1> QED
  BY <1>4, <1>5, <1>6, <1>7

LEMMA OverInv ==
    ASSUME IndInv, \/ \E r \in Roots : Cancel(r)
                   \/ \E j \in Jobs : Timeout(j)
    PROVE  IndInv'
<1> USE DEF IndInv
<1>1. /\ UNCHANGED <<caller, lineage, call, owner, pc, result, sem, registered>>
      /\ over \subseteq over' /\ over' \subseteq Contexts
  BY DEF Cancel, Timeout, TypeOK, Contexts
<1>2. TypeOK' /\ SlotsHeld' /\ OwnersCalled' /\ ResultsWhenDone'
  BY <1>1 DEF TypeOK, SlotsHeld, Executing, OwnersCalled, ResultsWhenDone
<1>3. LateJobsCancelled'
  BY <1>1, StillDone DEF LateJobsCancelled
<1> QED
  BY <1>2, <1>3

LEMMA InitInv == Init => IndInv
<1> SUFFICES ASSUME Init PROVE IndInv
  OBVIOUS
<1>1. Executing = {}
  BY DEF Init, Executing
<1>2. SlotsHeld
  BY <1>1, FS_EmptySet DEF Init, SlotsHeld
<1>3. TypeOK
  BY DelegateAssumption DEF Init, TypeOK, Stages
<1> QED
  BY <1>2, <1>3 DEF Init, IndInv, OwnersCalled, LateJobsCancelled, ResultsWhenDone

LEMMA NextInv == IndInv /\ [Next]_vars => IndInv'
<1> SUFFICES ASSUME IndInv, [Next]_vars PROVE IndInv'
  OBVIOUS
<1>1. CASE UNCHANGED vars
  BY <1>1 DEF vars, IndInv, TypeOK, SlotsHeld, Executing, OwnersCalled, LateJobsCancelled,
              ResultsWhenDone, JobDone, JobLineage
<1>2. CASE Next
  BY <1>2, AskInv, CallInv, AcquireInv, AnnounceInv, AcquireCancelledInv, RunEndsInv,
     ReleaseInv, OverInv DEF Next, JobStep
<1> QED
  BY <1>1, <1>2

THEOREM DelegateInvariant == Spec => []IndInv
  BY InitInv, NextInv, PTL DEF Spec

(* The semaphore never holds more than its capacity, and every variable    *)
(* keeps its type, however jobs are nested, cancelled and timed out.       *)
THEOREM DelegateTypeCorrect == Spec => []TypeOK
  BY DelegateInvariant, PTL DEF IndInv

(* A token in d.sem belongs to one job that executes: none is lost or      *)
(* given back twice.                                                       *)
THEOREM DelegateSlotsHeld == Spec => []SlotsHeld
  BY DelegateInvariant, PTL DEF IndInv

(* A job whose caller has left has a context that is done. *)
THEOREM DelegateOrphansCancelled == Spec => []OrphansCancelled
<1>1. IndInv => OrphansCancelled
  BY DEF IndInv, LateJobsCancelled, OrphansCancelled
<1> QED
  BY <1>1, DelegateInvariant, PTL

-----------------------------------------------------------------------------
(***************************************************************************)
(* The map d.jobs.  Only the jobs of a batch announce themselves, so that  *)
(* a job that comes to wait for a token was registered when it was asked   *)
(* for; what is taken out of the map is ended, or its call is.             *)
(***************************************************************************)

BatchAnnounces == \A j \in Jobs : pc[j] = "announce" => Batch(owner[j])

RegInv == RegisteredJobs /\ BatchAnnounces

LEMMA OpenReg ==
    ASSUME IndInv, RegInv, NEW a, NEW ctx, NEW n \in Nat \ {0}, NEW label, 
           \/ n = 1 /\ label = "acquire"
           \/ n > 1 /\ label = "announce",
           Open(a, ctx, n, label)
    PROVE  RegInv'
<1> USE DEF IndInv, TypeOK
<1>1. PICK c \in Calls, new \in SUBSET Jobs :
              /\ new # {} /\ IsFiniteSet(new) /\ Cardinality(new) = n
              /\ call[c] = "none" /\ \A j \in new : pc[j] = "none"
              /\ caller' = [caller EXCEPT ![c] = a]
              /\ lineage' = [lineage EXCEPT ![c] = ctx]
              /\ call' = [call EXCEPT ![c] = "open"]
              /\ owner' = [j \in Jobs |-> IF j \in new THEN c ELSE owner[j]]
              /\ pc' = [j \in Jobs |-> IF j \in new THEN label ELSE pc[j]]
              /\ registered' = IF n = 1 THEN registered \cup new ELSE registered
              /\ UNCHANGED <<result, sem, over>>
  BY OpenStep
<1>2. JobsOf(c)' = new /\ \A d \in Calls \ {c} : JobsOf(d)' = JobsOf(d)
  <2>1. \A j \in Jobs : owner[j] # c
    BY <1>1, DelegateAssumption DEF OwnersCalled
  <2>2. \A d \in Calls, j \in new : owner[j] # d
    BY <1>1, DelegateAssumption DEF OwnersCalled
  <2> QED
    BY <1>1, <2>1, <2>2 DEF JobsOf
<1>3. Batch(c)' <=> n > 1
  BY <1>1, <1>2 DEF Batch
<1>4. \A d \in Calls \ {c} : (Batch(d)' <=> Batch(d)) /\ (CallDone(d)' <=> CallDone(d))
  BY <1>1, <1>2 DEF Batch, CallDone
<1>5. ASSUME NEW j \in Jobs \ new, pc[j] # "none"
      PROVE  /\ owner'[j] = owner[j] /\ pc'[j] = pc[j]
             /\ owner[j] \in Calls \ {c} /\ call'[owner[j]] = call[owner[j]]
             /\ j \in registered' <=> j \in registered
  BY <1>1, <1>5 DEF OwnersCalled
<1>6. BatchAnnounces'
  <2> SUFFICES ASSUME NEW j \in Jobs, pc'[j] = "announce" PROVE Batch(owner[j])'
    BY DEF BatchAnnounces
  <2>1. CASE j \in new
    <3>1. Batch(c)' /\ owner'[j] = c
      BY <1>1, <1>3, <2>1
    <3> QED
      BY <3>1 DEF Batch, JobsOf
  <2>2. CASE j \notin new
    <3>1. pc[j] = "announce" /\ Batch(owner[j])
      BY <1>1, <2>2 DEF RegInv, BatchAnnounces
    <3>2. owner'[j] = owner[j] /\ owner[j] \in Calls \ {c}
      BY <1>5, <2>2, <3>1
    <3> QED
      BY <1>4, <3>1, <3>2 DEF Batch, JobsOf
  <2> QED
    BY <2>1, <2>2
<1>7. RegisteredJobs'
  <2> SUFFICES ASSUME NEW j \in Jobs, pc'[j] # "none", ~Batch(owner[j])'
               PROVE  /\ pc'[j] \in {"acquire", "run"} /\ call'[owner'[j]] = "open"
                            => j \in registered'
                      /\ j \in registered' => call'[owner'[j]] = "open" \/ CallDone(owner[j])'
    BY DEF RegisteredJobs
  <2>1. CASE j \in new
    <3>1. owner'[j] = c /\ call'[c] = "open"
      BY <1>1, <2>1
    <3>2. ~Batch(c)'
      BY <3>1 DEF Batch, JobsOf
    <3> QED
      BY <1>1, <1>3, <2>1, <3>1, <3>2
  <2>2. CASE j \notin new
    <3>1. pc[j] # "none"
      BY <1>1, <2>2
    <3>2. owner'[j] = owner[j] /\ owner[j] \in Calls \ {c}
      BY <1>5, <2>2, <3>1
    <3>3. ~Batch(owner[j]) /\ (CallDone(owner[j])' <=> CallDone(owner[j]))
      BY <1>4, <3>2 DEF Batch, JobsOf, CallDone
    <3> QED
      BY <1>5, <2>2, <3>1, <3>2, <3>3 DEF RegInv, RegisteredJobs
  <2> QED
    BY <2>1, <2>2
<1> QED
  BY <1>6, <1>7 DEF RegInv

LEMMA StepRegInv == IndInv /\ RegInv /\ [Next]_vars => RegInv'
<1> SUFFICES ASSUME IndInv, RegInv, [Next]_vars PROVE RegInv'
  OBVIOUS
<1> USE DEF IndInv, TypeOK
<1>1. BatchSize \in Nat \ {0} /\ BatchSize > 1
  BY DelegateAssumption
<1>2. ASSUME NEW r \in Roots, RootCalls(r)
      PROVE  RegInv'
  BY <1>1, <1>2, OpenReg DEF RootCalls, Delegate, BatchDelegate
<1>3. ASSUME NEW j \in Jobs, JobCalls(j)
      PROVE  RegInv'
  BY <1>1, <1>3, OpenReg DEF JobCalls, Delegate, BatchDelegate
<1>4. ASSUME owner' = owner
      PROVE  \A c : Batch(c)' <=> Batch(c)
  BY <1>4 DEF Batch, JobsOf
<1>5. ASSUME NEW c \in Calls, CallStep(c)
      PROVE  RegInv'
  <2>1. /\ UNCHANGED <<lineage, owner, pc, over>>
        /\ \A d \in Calls \ {c} : call'[d] = call[d]
        /\ call'[c] # "open"
        /\ \A j \in Jobs : j \in registered' => j \in registered
    BY <1>5 DEF CallStep, Receive, GiveUp, BatchReturns
  <2>2. \A d : Batch(d)' <=> Batch(d)
    BY <1>4, <2>1
  <2>3. BatchAnnounces'
    BY <2>1, <2>2 DEF RegInv, BatchAnnounces
  <2>4. RegisteredJobs'
    <3> SUFFICES ASSUME NEW j \in Jobs, pc[j] # "none", ~Batch(owner[j])
                 PROVE  /\ pc[j] \in {"acquire", "run"} /\ call'[owner[j]] = "open"
                              => j \in registered'
                        /\ j \in registered' => call'[owner[j]] = "open" \/ CallDone(owner[j])
      BY <2>1, <2>2 DEF RegisteredJobs, CallDone
    <3>1. owner[j] \in Calls
      BY DEF OwnersCalled
    <3>2. CASE owner[j] = c
      <4>1. j \in registered' => GiveUp(c)
        BY <1>5, <3>2 DEF CallStep, Receive, BatchReturns, JobsOf
      <4> QED
        BY <2>1, <3>2, <4>1 DEF GiveUp
    <3>3. CASE owner[j] # c
      <4>1. j \in registered' <=> j \in registered
        BY <1>5, <3>3 DEF CallStep, Receive, GiveUp, BatchReturns, JobsOf
      <4> QED
        BY <2>1, <3>1, <3>3, <4>1 DEF RegInv, RegisteredJobs
    <3> QED
      BY <3>2, <3>3
  <2> QED
    BY <2>3, <2>4 DEF RegInv
<1>6. ASSUME UNCHANGED <<lineage, call, owner>>, over \subseteq over',
             NEW j \in Jobs, \A i \in Jobs \ {j} : pc'[i] = pc[i],
             \A i \in Jobs \ {j} : i \in registered' <=> i \in registered,
             j \in registered' => j \in registered /\ pc[j] # "none",
             pc'[j] \in {"acquire", "run"}
                => pc[j] \in {"acquire", "run"} /\ (j \in registered' <=> j \in registered),
             pc'[j] # "announce"
      PROVE  RegInv'
  <2>1. \A c : (Batch(c)' <=> Batch(c)) /\ (CallDone(c) => CallDone(c)')
    BY <1>4, <1>6 DEF CallDone
  <2>2. BatchAnnounces'
    BY <1>6, <2>1 DEF RegInv, BatchAnnounces
  <2>3. RegisteredJobs'
    BY <1>6, <2>1 DEF RegInv, RegisteredJobs
  <2> QED
    BY <2>2, <2>3 DEF RegInv
<1>7. ASSUME NEW j \in Jobs, Announce(j)
      PROVE  RegInv'
  <2>1. /\ UNCHANGED <<lineage, call, owner, over, registered>>
        /\ pc[j] = "announce" /\ pc' = [pc EXCEPT ![j] = "acquire"]
    BY <1>7 DEF Announce, Goto
  <2>2. \A c : (Batch(c)' <=> Batch(c)) /\ (CallDone(c)' <=> CallDone(c))
    BY <1>4, <2>1 DEF CallDone
  <2>3. Batch(owner[j])
    BY <2>1 DEF RegInv, BatchAnnounces
  <2>4. BatchAnnounces'
    BY <2>1, <2>2 DEF RegInv, BatchAnnounces
  <2>5. RegisteredJobs'
    BY <2>1, <2>2, <2>3 DEF RegInv, RegisteredJobs
  <2> QED
    BY <2>4, <2>5 DEF RegInv
<1>8. ASSUME NEW j \in Jobs, AcquireCancelled(j) \/ RunEnds(j) \/ Release(j) \/ Acquire(j)
      PROVE  RegInv'
  BY <1>6, <1>8 DEF AcquireCancelled, RunEnds, Release, Acquire, Goto
<1>9. ASSUME UNCHANGED <<lineage, call, owner, pc, registered>>, over \subseteq over'
      PROVE  RegInv'
  <2>1. \A c : (Batch(c)' <=> Batch(c)) /\ (CallDone(c) => CallDone(c)')
    BY <1>4, <1>9 DEF CallDone
  <2> QED
    BY <1>9, <2>1 DEF RegInv, RegisteredJobs, BatchAnnounces
<1>10. CASE (\E r \in Roots : Cancel(r)) \/ (\E j \in Jobs : Timeout(j)) \/ UNCHANGED vars
  BY <1>9, <1>10 DEF Cancel, Timeout, vars
<1> QED
  BY <1>2, <1>3, <1>5, <1>7, <1>8, <1>10 DEF Next, JobStep

(* A single job that waits or works for an open call is in the map d.jobs, *)
(* from which Stats counts; one that stays in it after its call has ended  *)
(* is a job its caller gave up on, whose context is done.                  *)
THEOREM DelegateRegisteredJobs == Spec => []RegisteredJobs
<1>1. Init => RegInv
  BY DEF Init, RegInv, RegisteredJobs, BatchAnnounces
<1>2. RegInv => RegisteredJobs
  BY DEF RegInv
<1> QED
  BY <1>1, <1>2, DelegateInvariant, StepRegInv, PTL DEF Spec

-----------------------------------------------------------------------------
(***************************************************************************)
(* The dispatcher implements Dispatch: each step of Delegate is one of     *)
(* Dispatch, or changes nothing that Dispatch sees.                        *)
(***************************************************************************)

(* The abstract variables. *)
Seen == <<owner, Stage, result, Answers>>

LEMMA SeenSame == Promise!vars = Seen /\ (Seen' = Seen => UNCHANGED Promise!vars)
  BY DEF Promise!vars, Seen

(* Dispatch has the operator from its own copy of FiniteSets. *)
LEMMA SameCardinality == \A S : Promise!Cardinality(S) = Cardinality(S)
  BY DEF Promise!Cardinality, Cardinality

LEMMA SameExecuting == TypeOK => Promise!Executing = Executing
  BY DEF Promise!Executing, Executing, Stage, StageOf, TypeOK, Stages

(* A job moves to a label, a call comes to an end. *)
LEMMA StageMoves ==
    ASSUME TypeOK, NEW j \in Jobs, NEW label, pc' = [pc EXCEPT ![j] = label]
    PROVE  Stage' = [Stage EXCEPT ![j] = StageOf(label)]
  BY DEF Stage, TypeOK

LEMMA AnswerMoves ==
    ASSUME NEW c \in Calls, \A d \in Calls \ {c} : AnswerOf(d)' = AnswerOf(d)
    PROVE  Answers' = [Answers EXCEPT ![c] = AnswerOf(c)']
<1>1. Answers' = [d \in Calls |-> AnswerOf(d)']
  BY DEF Answers
<1> QED
  BY <1>1 DEF Answers

LEMMA AskRefines ==
    ASSUME IndInv, NEW a, NEW ctx, NEW n \in Nat \ {0},
           NEW label \in {"announce", "acquire"}, Open(a, ctx, n, label)
    PROVE  Promise!Next
<1> USE DEF IndInv, TypeOK
<1>1. PICK c \in Calls, new \in SUBSET Jobs :
              /\ new # {} /\ IsFiniteSet(new) /\ Cardinality(new) = n
              /\ call[c] = "none" /\ \A j \in new : pc[j] = "none"
              /\ caller' = [caller EXCEPT ![c] = a]
              /\ lineage' = [lineage EXCEPT ![c] = ctx]
              /\ call' = [call EXCEPT ![c] = "open"]
              /\ owner' = [j \in Jobs |-> IF j \in new THEN c ELSE owner[j]]
              /\ pc' = [j \in Jobs |-> IF j \in new THEN label ELSE pc[j]]
              /\ registered' = IF n = 1 THEN registered \cup new ELSE registered
              /\ UNCHANGED <<result, sem, over>>
  BY OpenStep
<1>2. JobsOf(c)' = new /\ \A d \in Calls \ {c} : JobsOf(d)' = JobsOf(d)
  <2>1. \A j \in Jobs : owner[j] # c
    BY <1>1, DelegateAssumption DEF OwnersCalled
  <2>2. \A d \in Calls, j \in new : owner[j] # d
    BY <1>1, DelegateAssumption DEF OwnersCalled
  <2> QED
    BY <1>1, <2>1, <2>2 DEF JobsOf
<1>3. Answers' = [Answers EXCEPT ![c] = IF Cardinality(new) = 1 THEN "asked" ELSE "batch"]
  <2>1. Batch(c)' <=> Cardinality(new) # 1
    BY <1>1, <1>2 DEF Batch
  <2>2. \A d \in Calls \ {c} : Batch(d)' <=> Batch(d)
    BY <1>2 DEF Batch
  <2>3. \A d \in Calls \ {c} : AnswerOf(d)' = AnswerOf(d)
    BY <1>1, <2>2 DEF AnswerOf
  <2>4. AnswerOf(c)' = IF Cardinality(new) = 1 THEN "asked" ELSE "batch"
    BY <1>1, <2>1 DEF AnswerOf
  <2> QED
    BY <2>3, <2>4, AnswerMoves
<1>4. Answers[c] = "none"
  BY <1>1 DEF Answers, AnswerOf
<1>5. /\ \A j \in new : Stage[j] = "none"
      /\ Stage' = [j \in Jobs |-> IF j \in new THEN "pending" ELSE Stage[j]]
  <2>1. StageOf("none") = "none" /\ StageOf(label) = "pending"
    BY DEF StageOf
  <2> QED
    BY <1>1, <2>1 DEF Stage
<1>6. Promise!Ask(c, new)
  <2>1. new # {} /\ owner' = [j \in Jobs |-> IF j \in new THEN c ELSE owner[j]]
        /\ UNCHANGED result
    BY <1>1
  <2> QED
    BY <1>3, <1>4, <1>5, <2>1, SameCardinality DEF Promise!Ask
<1> QED
  BY <1>6 DEF Promise!Next

LEMMA CallRefines ==
    ASSUME IndInv, NEW c \in Calls, CallStep(c)
    PROVE  Promise!Next
<1> USE DEF IndInv, TypeOK
<1>1. /\ UNCHANGED <<owner, pc, result>>
      /\ call[c] = "open"
  BY DEF CallStep, Receive, GiveUp, BatchReturns
<1>2. UNCHANGED Stage /\ Answers[c] = (IF Batch(c) THEN "batch" ELSE "asked")
  BY <1>1 DEF Stage, Answers, AnswerOf
<1>3. \A d \in Calls : Batch(d)' <=> Batch(d)
  BY <1>1 DEF Batch, JobsOf
<1>4. ASSUME NEW end \in {"returned", "failed"}, call' = [call EXCEPT ![c] = end]
      PROVE  Answers' = [Answers EXCEPT ![c] = IF end = "returned" THEN "answered" ELSE "failed"]
  <2>1. \A d \in Calls \ {c} : AnswerOf(d)' = AnswerOf(d)
    BY <1>3, <1>4 DEF AnswerOf
  <2>2. AnswerOf(c)' = IF end = "returned" THEN "answered" ELSE "failed"
    BY <1>4 DEF AnswerOf
  <2> QED
    BY <2>1, <2>2, AnswerMoves
<1>5. Promise!JobsOf(c) = JobsOf(c)
  BY DEF Promise!JobsOf, JobsOf
<1>6. CASE Receive(c)
  <2>1. \A j \in JobsOf(c) : result[j] # "none"
    BY <1>6 DEF Receive, JobsOf, ResultsWhenDone
  <2>2. call' = [call EXCEPT ![c] =
          IF \E j \in JobsOf(c) : result[j] = "error" THEN "failed" ELSE "returned"]
    BY <1>6 DEF Receive
  <2>3. Answers' = [Answers EXCEPT ![c] =
          IF \E j \in JobsOf(c) : result[j] = "error" THEN "failed" ELSE "answered"]
    BY <1>4, <2>2
  <2>4. Answers[c] = "asked"
    BY <1>2, <1>6 DEF Receive
  <2>5. Promise!Answer(c)
    BY <1>1, <1>2, <1>5, <2>1, <2>3, <2>4 DEF Promise!Answer
  <2> QED
    BY <2>5 DEF Promise!Next
<1>7. CASE GiveUp(c)
  <2>1. Promise!GiveUp(c)
    BY <1>1, <1>2, <1>4, <1>7 DEF GiveUp, Promise!GiveUp
  <2> QED
    BY <2>1 DEF Promise!Next
<1>8. CASE BatchReturns(c)
  <2>1. \A j \in JobsOf(c) : result[j] # "none"
    BY <1>8 DEF BatchReturns, JobsOf, ResultsWhenDone
  <2>2. Answers' = [Answers EXCEPT ![c] = "answered"]
    BY <1>4, <1>8 DEF BatchReturns
  <2>3. Answers[c] = "batch"
    BY <1>2, <1>8 DEF BatchReturns
  <2>4. Promise!Answer(c)
    BY <1>1, <1>2, <1>5, <2>1, <2>2, <2>3 DEF Promise!Answer
  <2> QED
    BY <2>4 DEF Promise!Next
<1> QED
  BY <1>6, <1>7, <1>8 DEF CallStep

(* A step of a job leaves the answers alone. *)
LEMMA AnswersSame ==
    ASSUME UNCHANGED <<owner, call>>
    PROVE  UNCHANGED Answers
<1>1. \A c \in Calls : Batch(c)' <=> Batch(c)
  BY DEF Batch, JobsOf
<1>2. \A c \in Calls : AnswerOf(c)' = AnswerOf(c)
  BY <1>1 DEF AnswerOf
<1> QED
  BY <1>2 DEF Answers

LEMMA JobRefines ==
    ASSUME IndInv, NEW j \in Jobs, JobStep(j) \/ Acquire(j) \/ Timeout(j)
    PROVE  Promise!Next \/ Seen' = Seen
<1> USE DEF IndInv, TypeOK
<1>1. UNCHANGED <<owner, call>> /\ UNCHANGED Answers
  BY AnswersSame DEF JobStep, Announce, AcquireCancelled, RunEnds, Release, Acquire, Timeout
<1>2. CASE Announce(j)
  <2>1. UNCHANGED result
    BY <1>2 DEF Announce
  <2>2. UNCHANGED Stage
    <3>1. pc[j] = "announce" /\ pc' = [pc EXCEPT ![j] = "acquire"]
      BY <1>2 DEF Announce, Goto
    <3>2. Stage[j] = "pending" /\ StageOf("acquire") = "pending"
      BY <3>1 DEF Stage, StageOf
    <3>3. Stage' = [Stage EXCEPT ![j] = "pending"]
      BY <3>1, <3>2, StageMoves
    <3> QED
      BY <3>2, <3>3 DEF Stage
  <2> QED
    BY <1>1, <2>1, <2>2 DEF Seen
<1>3. CASE Timeout(j)
  <2>1. UNCHANGED <<Stage, result>>
    BY <1>3 DEF Timeout, Stage
  <2> QED
    BY <1>1, <2>1 DEF Seen
<1>4. CASE AcquireCancelled(j)
  <2>1. Stage[j] = "pending" /\ Stage' = [Stage EXCEPT ![j] = "ended"]
    BY <1>4, StageMoves DEF AcquireCancelled, Goto, Stage, StageOf
  <2>2. Promise!Withdraw(j)
    BY <1>1, <1>4, <2>1 DEF AcquireCancelled, Promise!Withdraw
  <2> QED
    BY <2>2 DEF Promise!Next
<1>5. CASE RunEnds(j)
  <2>1. Stage[j] = "executing" /\ UNCHANGED Stage
    <3>1. pc[j] = "run" /\ pc' = [pc EXCEPT ![j] = "done"]
      BY <1>5 DEF RunEnds, Goto
    <3>2. Stage[j] = "executing" /\ StageOf("done") = "executing"
      BY <3>1 DEF Stage, StageOf
    <3>3. Stage' = [Stage EXCEPT ![j] = "executing"]
      BY <3>1, <3>2, StageMoves
    <3> QED
      BY <3>2, <3>3 DEF Stage
  <2>2. result[j] = "none"
    BY <1>5 DEF RunEnds, ResultsWhenDone
  <2>3. Promise!Decide(j, "ok") \/ Promise!Decide(j, "error")
    BY <1>1, <1>5, <2>1, <2>2 DEF RunEnds, Promise!Decide
  <2> QED
    BY <2>3 DEF Promise!Next
<1>6. CASE Release(j)
  <2>1. Stage[j] = "executing" /\ Stage' = [Stage EXCEPT ![j] = "ended"]
    BY <1>6, StageMoves DEF Release, Goto, Stage, StageOf
  <2>2. result[j] # "none"
    BY <1>6 DEF Release, ResultsWhenDone
  <2>3. Promise!Leave(j)
    BY <1>1, <1>6, <2>1, <2>2 DEF Release, Promise!Leave
  <2> QED
    BY <2>3 DEF Promise!Next
<1>7. CASE Acquire(j)
  <2>1. Stage[j] = "pending" /\ Stage' = [Stage EXCEPT ![j] = "executing"]
    BY <1>7, StageMoves DEF Acquire, Goto, Stage, StageOf
  <2>2. Cardinality(Promise!Executing) < MaxConcurrent
    BY <1>7, SameExecuting DEF Acquire, SlotsHeld
  <2>3. Promise!Begin(j)
    <3>1. UNCHANGED <<owner, result, Answers>>
      BY <1>1, <1>7 DEF Acquire
    <3> QED
      BY <2>1, <2>2, <3>1, SameCardinality DEF Promise!Begin
  <2> QED
    BY <2>3 DEF Promise!Next
<1> QED
  BY <1>2, <1>3, <1>4, <1>5, <1>6, <1>7 DEF JobStep

LEMMA InitRefines == Init => Promise!Init
<1> SUFFICES ASSUME Init PROVE Promise!Init
  OBVIOUS
<1> QED
  BY DEF Init, Promise!Init, Stage, StageOf, Answers, AnswerOf

LEMMA StepRefines == IndInv /\ [Next]_vars => [Promise!Next]_(Promise!vars)
<1> SUFFICES ASSUME IndInv, [Next]_vars
             PROVE  Promise!Next \/ Seen' = Seen
  BY SeenSame
<1>1. BatchSize \in Nat \ {0}
  BY DelegateAssumption
<1>2. ASSUME NEW r \in Roots, RootCalls(r)
      PROVE  Promise!Next
  BY <1>1, <1>2, AskRefines DEF RootCalls, Delegate, BatchDelegate
<1>3. ASSUME NEW j \in Jobs, JobCalls(j)
      PROVE  Promise!Next
  BY <1>1, <1>3, AskRefines DEF JobCalls, Delegate, BatchDelegate
<1>4. ASSUME NEW r \in Roots, Cancel(r)
      PROVE  Seen' = Seen
  <2>1. UNCHANGED <<owner, call, pc, result>>
    BY <1>4 DEF Cancel
  <2> QED
    BY <2>1, AnswersSame DEF Seen, Stage
<1>5. ASSUME NEW c \in Calls, CallStep(c)
      PROVE  Promise!Next
  BY <1>5, CallRefines
<1>6. ASSUME NEW j \in Jobs, JobStep(j) \/ Acquire(j) \/ Timeout(j)
      PROVE  Promise!Next \/ Seen' = Seen
  BY <1>6, JobRefines
<1>7. CASE UNCHANGED vars
  BY <1>7, AnswersSame DEF vars, Seen, Stage
<1> QED
  BY <1>2, <1>3, <1>4, <1>5, <1>6, <1>7 DEF Next

(* The dispatcher keeps its promise: jobs execute at most MaxConcurrent at *)
(* a time and each at most once, a call is answered only when each of its  *)
(* jobs has a result, and only a single job's caller gives up before.      *)
THEOREM DelegateImplementsDispatch == Spec => DispatchImplemented
  BY InitRefines, StepRefines, DelegateInvariant, PTL DEF Spec, DispatchImplemented, Promise!Spec

===============================================================================
