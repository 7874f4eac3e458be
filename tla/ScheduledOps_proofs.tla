-------------------------- MODULE ScheduledOps_proofs ---------------------------
(* Theorems about ScheduledOps, for every set of operations and instances. *)
EXTENDS ScheduledOps, FiniteSetTheorems, TLAPS

\* A statement that starts from RUNNING rows, or from the PENDING rows of a claim,
\* keeps the types of the table.
LEMMA MarkRowType ==
    ASSUME TypeOK, NEW o \in Ops, NEW s \in Statuses, NEW d \in -MaxLate..MaxDelay,
           MarkRow(o, s, d) \/ UNCHANGED table
    PROVE  /\ status' \in [Ops -> Statuses]
           /\ claimedBy' \in [Ops -> Instances \cup {None}]
           /\ claimAge' \in [Ops -> 0..StaleAfter]
           /\ due' \in [Ops -> -MaxLate..MaxDelay]
<1> USE ConstantsAssumption DEF TypeOK, table
<1>1. CASE UNCHANGED table
  BY <1>1
<1>2. CASE MarkRow(o, s, d)
  BY <1>2 DEF MarkRow
<1>3. QED
  BY <1>1, <1>2

\* Same for a sweep of stale claims and for a claim of due rows.
LEMMA ReleaseType ==
    ASSUME TypeOK, ReleaseStaleClaims
    PROVE  /\ status' \in [Ops -> Statuses]
           /\ claimedBy' \in [Ops -> Instances \cup {None}]
           /\ claimAge' \in [Ops -> 0..StaleAfter]
           /\ due' \in [Ops -> -MaxLate..MaxDelay]
BY ConstantsAssumption DEF ReleaseStaleClaims, TypeOK, Statuses

LEMMA ClaimType ==
    ASSUME TypeOK, NEW i \in Instances, NEW S \in SUBSET Ops, ClaimRows(i, S)
    PROVE  /\ status' \in [Ops -> Statuses]
           /\ claimedBy' \in [Ops -> Instances \cup {None}]
           /\ claimAge' \in [Ops -> 0..StaleAfter]
           /\ due' \in [Ops -> -MaxLate..MaxDelay]
BY ConstantsAssumption DEF ClaimRows, TypeOK, Statuses

\* The end of a goroutine keeps the types of the executions and of the instances.
LEMMA FinishType ==
    ASSUME TypeOK, NEW e \in Execs, Finish(e)
    PROVE  /\ pc' \in [Execs -> PCs]
           /\ at' \in [Execs -> Instances \cup {None}]
           /\ runAge' \in [Execs -> 0..ActionTimeout]
           /\ did' \in [Execs -> BOOLEAN]
           /\ batch' \in [Instances -> SUBSET Execs]
           /\ sem' \in [Instances -> SUBSET Execs]
BY ConstantsAssumption DEF Finish, Goto, TypeOK, PCs

\* The table, the executors and the session keep their types; in particular no due
\* time leaves its range and no action outlives its deadline.
THEOREM TypeCorrect == Spec => []TypeOK
<1> USE ConstantsAssumption
<1>1. Init => TypeOK
  BY DEF Init, TypeOK, Statuses, PCs, Counts
<1>2. TypeOK /\ [Next]_vars => TypeOK'
  <2> SUFFICES ASSUME TypeOK, [Next]_vars PROVE TypeOK'
    OBVIOUS
  <2> USE DEF table, session, execution, instance, history, Fault
  <2>1. ASSUME NEW o \in Ops, NEW d \in 0..MaxDelay, Create(o, d) PROVE TypeOK'
    BY <2>1 DEF Create, TypeOK, Statuses
  <2>2. ASSUME NEW o \in Ops, Cancel(o) PROVE TypeOK'
    BY <2>2 DEF Cancel, TypeOK, Statuses
  <2>3. ASSUME NEW i \in Instances, ClaimDue(i) PROVE TypeOK'
    <3>1. PICK S \in SUBSET Ops :
            /\ ClaimRows(i, S)
            /\ pc' = [e \in Execs |-> IF e \in Claimed(S) THEN "waiting" ELSE pc[e]]
            /\ at' = [e \in Execs |-> IF e \in Claimed(S) THEN i ELSE at[e]]
            /\ batch' = [batch EXCEPT ![i] = Claimed(S)]
      BY <2>3 DEF ClaimDue
    <3>2. Claimed(S) \subseteq Execs
      BY DEF Claimed
    <3>3. pc' \in [Execs -> PCs] /\ at' \in [Execs -> Instances \cup {None}]
      BY <3>1 DEF TypeOK, PCs
    <3>4. batch' \in [Instances -> SUBSET Execs] /\ sem' \in [Instances -> SUBSET Execs]
      BY <2>3, <3>1, <3>2 DEF TypeOK, ClaimDue
    <3>5. QED
      BY <2>3, <3>1, <3>3, <3>4, ClaimType DEF ClaimDue, TypeOK
  <2>4. ASSUME NEW i \in Instances, ClaimDueReplyLost(i) PROVE TypeOK'
    <3>1. PICK S \in SUBSET Ops : ClaimRows(i, S)
      BY <2>4 DEF ClaimDueReplyLost
    <3>2. QED
      BY <2>4, <3>1, ClaimType DEF ClaimDueReplyLost, TypeOK
  <2>5. ASSUME NEW i \in Instances, NEW e \in Execs, StartOne(i, e) PROVE TypeOK'
    BY <2>5 DEF StartOne, TypeOK, PCs
  <2>6. ASSUME NEW i \in Instances, DropBatch(i) PROVE TypeOK'
    BY <2>6 DEF DropBatch, TypeOK, PCs
  <2>7. ASSUME NEW i \in Instances, Sweep(i) PROVE TypeOK'
    BY <2>7, ReleaseType DEF Sweep, TypeOK
  <2>8. ASSUME NEW e \in Execs, Reject(e) \/ Accept(e) PROVE TypeOK'
    BY <2>8 DEF Reject, Accept, Goto, TypeOK, PCs
  <2>9. ASSUME NEW e \in Execs, Abandon(e) PROVE TypeOK'
    BY <2>9, FinishType DEF Abandon, TypeOK
  <2>10. ASSUME NEW e \in Execs, Evaluate(e) PROVE TypeOK'
    <3>1. Answer(e[1], at[e]) \in PCs
      <4>1. CASE e[1] \in TimeOps
        BY <4>1 DEF Answer, PCs
      <4>2. CASE e[1] \notin TimeOps /\ cache[at[e]] = Miss
        BY <4>2 DEF Answer, PCs
      <4>3. CASE e[1] \notin TimeOps /\ cache[at[e]] # Miss
        BY <4>3 DEF Answer, PCs
      <4>4. QED
        BY <4>1, <4>2, <4>3
    <3>2. PICK s \in PCs : Goto(e, s)
      BY <2>10, <3>1 DEF Evaluate, PCs
    <3>3. faults' \in 0..MaxFaults
      BY <2>10 DEF Evaluate, TypeOK
    <3>4. QED
      BY <2>10, <3>2, <3>3 DEF Evaluate, Goto, TypeOK
  <2>11. ASSUME NEW e \in Execs, Requeue(e) PROVE TypeOK'
    <3>1. PICK d \in {RequeueDelay, MissBackoff} :
            MarkRow(e[1], "PENDING", d) \/ UNCHANGED table
      BY <2>11 DEF Requeue
    <3>2. d \in -MaxLate..MaxDelay /\ e[1] \in Ops /\ "PENDING" \in Statuses
      BY DEF Execs, Statuses
    <3>3. faults' \in 0..MaxFaults
      BY <2>11 DEF Requeue, TypeOK
    <3>4. QED
      BY <2>11, <3>1, <3>2, <3>3, MarkRowType, FinishType DEF Requeue, TypeOK
  <2>12. ASSUME NEW e \in Execs, Bump(e[1]) PROVE effects' \in [Ops -> 0..2]
    BY <2>12 DEF Bump, TypeOK, Execs
  <2>13. ASSUME NEW e \in Execs, Succeed(e) PROVE TypeOK'
    BY <2>12, <2>13 DEF Succeed, Goto, TypeOK, PCs
  <2>14. ASSUME NEW e \in Execs, Fail(e) PROVE TypeOK'
    <3>1. CASE did' = [did EXCEPT ![e] = TRUE] /\ Bump(e[1])
      BY <2>12, <2>14, <3>1 DEF Fail, Goto, TypeOK, PCs
    <3>2. CASE UNCHANGED <<did, effects>>
      BY <2>14, <3>2 DEF Fail, Goto, TypeOK, PCs
    <3>3. QED
      BY <2>14, <3>1, <3>2 DEF Fail
  <2>15. ASSUME NEW e \in Execs, NEW s \in {"SUCCEEDED", "FAILED"}, Persist(e, s) PROVE TypeOK'
    <3>1. e[1] \in Ops /\ s \in Statuses /\ due[e[1]] \in -MaxLate..MaxDelay
      BY DEF Execs, Statuses, TypeOK
    <3>2. MarkRow(e[1], s, due[e[1]]) \/ UNCHANGED table
      BY <2>15 DEF Persist
    <3>3. unsaved' \in SUBSET Ops /\ faults' \in 0..MaxFaults
      BY <2>15, <3>1 DEF Persist, TypeOK
    <3>4. QED
      BY <2>15, <3>1, <3>2, <3>3, MarkRowType, FinishType DEF Persist, TypeOK
  <2>16. ASSUME NEW e \in Execs, MarkSucceeded(e) \/ MarkFailed(e) PROVE TypeOK'
    BY <2>15, <2>16 DEF MarkSucceeded, MarkFailed
  <2>17. ASSUME NEW i \in Instances, Shutdown(i) \/ Stopped(i) PROVE TypeOK'
    BY <2>17 DEF Shutdown, Stopped, TypeOK
  <2>18. ASSUME NEW i \in Instances, Crash(i) PROVE TypeOK'
    <3>1. unsaved' \in SUBSET Ops
      BY <2>18 DEF Crash, TypeOK, Execs
    <3>2. pc' \in [Execs -> PCs] /\ at' \in [Execs -> Instances \cup {None}]
      BY <2>18 DEF Crash, TypeOK, PCs
    <3>3. runAge' \in [Execs -> 0..ActionTimeout]
      BY <2>18 DEF Crash, TypeOK
    <3>4. did' \in [Execs -> BOOLEAN]
      BY <2>18, Zenon DEF Crash, TypeOK
    <3>5. batch' \in [Instances -> SUBSET Execs] /\ sem' \in [Instances -> SUBSET Execs]
      BY <2>18 DEF Crash, TypeOK
    <3>6. inst' \in [Instances -> {"up", "stopping", "down"}] /\ faults' \in 0..MaxFaults
      BY <2>18 DEF Crash, TypeOK
    <3>7. UNCHANGED <<table, session, effects>>
      BY <2>18 DEF Crash
    <3>8. QED
      BY <3>1, <3>2, <3>3, <3>4, <3>5, <3>6, <3>7 DEF TypeOK
  <2>19. ASSUME NEW i \in Instances, Boot(i) PROVE TypeOK'
    <3>1. CASE ReleaseStaleClaims /\ faults' = faults
      BY <2>19, <3>1, ReleaseType DEF Boot, TypeOK
    <3>2. CASE UNCHANGED table /\ Fault
      BY <2>19, <3>2 DEF Boot, TypeOK
    <3>3. QED
      BY <2>19, <3>1, <3>2 DEF Boot
  <2>20. ASSUME NEW i \in Instances, NEW n \in Counts, Observe(i, n) PROVE TypeOK'
    BY <2>20 DEF Observe, TypeOK
  <2>21. ASSUME NEW i \in Instances, NEW n \in Counts, Store(i, n) PROVE TypeOK'
    BY <2>21 DEF Store, TypeOK
  <2>22. ASSUME NEW i \in Instances,
                HandleEnded(i) \/ Fetch(i) \/ WriteBack(i) \/ DeleteSession(i)
         PROVE  TypeOK'
    BY <2>22 DEF HandleEnded, Fetch, WriteBack, DeleteSession, TypeOK
  <2>23. ASSUME Tick PROVE TypeOK'
    <3>1. runAge' \in [Execs -> 0..ActionTimeout]
      BY <2>23 DEF Tick, Urgent, TypeOK
    <3>2. claimAge' \in [Ops -> 0..StaleAfter]
      BY <2>23 DEF Tick, TypeOK
    <3>3. due' \in [Ops -> -MaxLate..MaxDelay]
      BY <2>23 DEF Tick, TypeOK
    <3>4. QED
      BY <2>23, <3>1, <3>2, <3>3 DEF Tick, TypeOK
  <2>24. CASE UNCHANGED vars
    BY <2>24 DEF vars, TypeOK
  <2>25. QED
    BY <2>1, <2>2, <2>3, <2>4, <2>5, <2>6, <2>7, <2>8, <2>9, <2>10, <2>11, <2>13,
       <2>14, <2>16, <2>17, <2>18, <2>19, <2>20, <2>21, <2>22, <2>23, <2>24
    DEF Next, Execution, Loop, Process, Session
<1>3. QED
  BY <1>1, <1>2, PTL DEF Spec

\* Claim, sweep, requeue, late results and Cancel each test the status they start from.
LEMMA FinishedStep ==
    ASSUME TypeOK, [Next]_vars, NEW o \in Ops, status[o] \in Terminal
    PROVE  status'[o] = status[o]
<1> USE DEF table, session, execution, instance, history
<1>0. status \in [Ops -> Statuses] /\ status[o] \notin {"ABSENT", "PENDING", "RUNNING"}
  BY DEF TypeOK, Terminal
<1>1. ASSUME NEW p \in Ops, NEW d \in 0..MaxDelay, Create(p, d) PROVE status'[o] = status[o]
  BY <1>0, <1>1 DEF Create
<1>2. ASSUME NEW p \in Ops, Cancel(p) PROVE status'[o] = status[o]
  BY <1>0, <1>2 DEF Cancel
<1>3. ASSUME NEW i \in Instances, ClaimDue(i) \/ ClaimDueReplyLost(i)
      PROVE  status'[o] = status[o]
  <2>1. PICK S \in SUBSET Ops : Claimable(S) /\ ClaimRows(i, S)
    BY <1>3 DEF ClaimDue, ClaimDueReplyLost
  <2>2. o \notin S
    BY <1>0, <2>1 DEF Claimable, Due
  <2>3. QED
    BY <2>1, <2>2 DEF ClaimRows
<1>4. ASSUME ReleaseStaleClaims PROVE status'[o] = status[o]
  BY <1>0, <1>4 DEF ReleaseStaleClaims, Stale
<1>5. ASSUME NEW p, NEW s, NEW d, MarkRow(p, s, d) PROVE status'[o] = status[o]
  BY <1>0, <1>5 DEF MarkRow
<1>6. ASSUME NEW i \in Instances, Loop(i) PROVE status'[o] = status[o]
  BY <1>3, <1>4, <1>6 DEF Loop, StartOne, DropBatch, Sweep
<1>7. ASSUME NEW i \in Instances, Process(i) PROVE status'[o] = status[o]
  BY <1>4, <1>7 DEF Process, Shutdown, Stopped, Crash, Boot
<1>8. ASSUME NEW e \in Execs, Execution(e) PROVE status'[o] = status[o]
  <2>1. CASE Requeue(e)
    BY <1>5, <2>1 DEF Requeue
  <2>2. CASE MarkSucceeded(e) \/ MarkFailed(e)
    BY <1>5, <2>2 DEF MarkSucceeded, MarkFailed, Persist
  <2>3. QED
    BY <1>8, <2>1, <2>2
    DEF Execution, Reject, Abandon, Accept, Evaluate, Succeed, Fail
<1>9. ASSUME Session PROVE status'[o] = status[o]
  BY <1>9 DEF Session, Observe, Store, HandleEnded, Fetch, WriteBack, DeleteSession
<1>10. ASSUME Tick PROVE status'[o] = status[o]
  BY <1>10 DEF Tick
<1>11. CASE UNCHANGED vars
  BY <1>11 DEF vars
<1>12. QED
  BY <1>1, <1>2, <1>6, <1>7, <1>8, <1>9, <1>10, <1>11 DEF Next

\* A SUCCEEDED, FAILED or CANCELED operation keeps its status.
THEOREM FinishedStaysFinished == Spec => FinishedIsFinal
<1>1. TypeOK /\ [Next]_vars =>
        [\A o \in Ops : status[o] \in Terminal => status'[o] = status[o]]_vars
  BY FinishedStep
<1>2. QED
  BY <1>1, TypeCorrect, PTL DEF Spec, FinishedIsFinal

--------------------------------------------------------------------------------
(* Exclusive execution *)

\* An action that had to wait for all of its batch still ends before its claim is stale.
\* The built-in defaults (16 in a batch, 4 at a time, 2 of 10 minutes) satisfy it.
Slack == ActionTimeout * (Batch + Concurrency - 1) < StaleAfter * Concurrency

\* The time that the slots of i have been in use, by executions that still have them:
\* one pair for each unit of time of each execution.
Work(i) == {w \in sem[i] \X (1..ActionTimeout) : w[2] <= runAge[w[1]]}

\* A batch has at most Batch members, which are alive on its instance; those with a slot
\* have begun.  Who waits is in a batch.
BatchInv ==
    /\ \A i \in Instances :
         /\ IsFiniteSet(batch[i]) /\ Cardinality(batch[i]) <= Batch
         /\ sem[i] \subseteq batch[i]
         /\ \A e \in batch[i] : Live(e) /\ at[e] = i
         /\ \A e \in sem[i] : pc[e] # "waiting"
    /\ \A e \in Execs : /\ Live(e) => at[e] \in Instances
                        /\ pc[e] = "waiting" => e \in batch[at[e]]

\* While somebody waits all slots are in use, so that the age of its claim is paid for by
\* the members of its batch that have finished, ActionTimeout each, and by Work.
Paid(i) == ActionTimeout * (Batch - Cardinality(batch[i])) + Cardinality(Work(i))
WaitBound(e) == Concurrency * claimAge[e[1]] <= Paid(at[e])

\* One that has begun had waited for the rest of its batch at most.
RunBound(e) ==
    Concurrency * claimAge[e[1]] <= ActionTimeout * (Batch - 1) + Concurrency * runAge[e]

AgeInv == \A e \in Execs : Live(e) => IF pc[e] = "waiting" THEN WaitBound(e) ELSE RunBound(e)

ExclusiveInv == BatchInv /\ AgeInv /\ ExclusiveExecution

\* Work is finite, and no more than ActionTimeout for each slot.
LEMMA WorkBound ==
    ASSUME TypeOK, NEW i \in Instances, IsFiniteSet(sem[i])
    PROVE  /\ IsFiniteSet(Work(i)) /\ Cardinality(Work(i)) \in Nat
           /\ Cardinality(Work(i)) <= Cardinality(sem[i]) * ActionTimeout
<1>1. IsFiniteSet(1..ActionTimeout) /\ Cardinality(1..ActionTimeout) = ActionTimeout
  BY FS_Interval, ConstantsAssumption
<1>2. /\ IsFiniteSet(sem[i] \X (1..ActionTimeout))
      /\ Cardinality(sem[i] \X (1..ActionTimeout)) = Cardinality(sem[i]) * ActionTimeout
  BY <1>1, FS_Product
<1>3. Work(i) \in SUBSET (sem[i] \X (1..ActionTimeout))
  BY DEF Work
<1>4. IsFiniteSet(Work(i)) /\ Cardinality(Work(i)) <= Cardinality(sem[i]) * ActionTimeout
  BY <1>2, <1>3, FS_Subset
<1>5. QED
  BY <1>4, FS_CardinalityType

\* Who leaves takes at most ActionTimeout of Work along.
LEMMA WorkOfLeaver ==
    ASSUME TypeOK, NEW i \in Instances, IsFiniteSet(sem[i]), NEW e \in Execs,
           sem'[i] = sem[i] \ {e}, \A f \in Execs \ {e} : runAge'[f] = runAge[f]
    PROVE  /\ Cardinality(Work(i)) <= Cardinality(Work(i)') + ActionTimeout
           /\ e \notin sem[i] => Work(i)' = Work(i)
           /\ Cardinality(Work(i)') \in Nat
<1> DEFINE Own == {w \in Work(i) : w[1] = e}
<1> DEFINE All == {e} \X (1..ActionTimeout)
<1>1. sem[i] \subseteq Execs
  BY DEF TypeOK
<1>2. Work(i)' = Work(i) \ Own
  BY <1>1 DEF Work
<1>3. IsFiniteSet(All) /\ Cardinality(All) = ActionTimeout
  <2>1. IsFiniteSet(1..ActionTimeout) /\ Cardinality(1..ActionTimeout) = ActionTimeout
    BY FS_Interval, ConstantsAssumption
  <2>2. IsFiniteSet({e}) /\ Cardinality({e}) = 1
    BY FS_Singleton
  <2>3. IsFiniteSet(All) /\ Cardinality(All) = 1 * ActionTimeout
    BY <2>1, <2>2, FS_Product
  <2>4. QED
    BY <2>3, ConstantsAssumption
<1>4. Own \in SUBSET All /\ Work(i) \cap Own = Own
  BY DEF Work
<1>5. Cardinality(Own) <= ActionTimeout /\ Cardinality(Own) \in Nat
  BY <1>3, <1>4, FS_Subset, FS_CardinalityType
<1>6. IsFiniteSet(Work(i)) /\ Cardinality(Work(i)) \in Nat
  BY WorkBound
<1>7. IsFiniteSet(Work(i) \ Own) /\ Cardinality(Work(i) \ Own) = Cardinality(Work(i)) - Cardinality(Own)
  BY <1>4, <1>6, FS_Difference
<1>8. e \notin sem[i] => Own = {}
  BY DEF Work
<1> HIDE DEF Own
<1>9. e \notin sem[i] => Work(i)' = Work(i)
  BY <1>2, <1>8
<1>10. Cardinality(Work(i) \ Own) \in Nat
  BY <1>7, FS_CardinalityType
<1>11. QED
  BY <1>2, <1>5, <1>6, <1>7, <1>9, <1>10, ConstantsAssumption

\* Time is work for everybody who has a slot.
LEMMA WorkOfTick ==
    ASSUME TypeOK, NEW i \in Instances, IsFiniteSet(sem[i]), sem' = sem,
           \A e \in sem[i] : runAge[e] < ActionTimeout /\ runAge'[e] = runAge[e] + 1
    PROVE  Cardinality(Work(i)') = Cardinality(Work(i)) + Cardinality(sem[i])
<1> DEFINE New == {w \in sem[i] \X (1..ActionTimeout) : w[2] = runAge[w[1]] + 1}
<1> DEFINE f == [e \in sem[i] |-> <<e, runAge[e] + 1>>]
<1>1. \A e \in sem[i] : runAge[e] \in Nat /\ runAge[e] + 1 \in 1..ActionTimeout
  BY ConstantsAssumption DEF TypeOK
<1>2. f \in Bijection(sem[i], New)
  <2>1. f \in [sem[i] -> New]
    BY <1>1
  <2>2. \A a, b \in sem[i] : f[a] = f[b] => a = b
    OBVIOUS
  <2>3. \A w \in New : \E e \in sem[i] : f[e] = w
    <3> TAKE w \in New
    <3>1. w[1] \in sem[i] /\ w = <<w[1], w[2]>> /\ w[2] = runAge[w[1]] + 1
      OBVIOUS
    <3>2. f[w[1]] = w
      BY <3>1
    <3>3. QED
      BY <3>1, <3>2
  <2>4. QED
    BY <2>1, <2>2, <2>3 DEF Bijection, Injection, Surjection, IsInjective
<1>3. IsFiniteSet(New) /\ Cardinality(New) = Cardinality(sem[i])
  BY <1>2, FS_Bijection DEF ExistsBijection
<1>4. Work(i)' = Work(i) \cup New
  BY <1>1, ConstantsAssumption DEF Work
<1>5. Work(i) \cap New = {}
  BY <1>1 DEF Work
<1>6. IsFiniteSet(Work(i)) /\ Cardinality(Work(i)) \in Nat
  BY WorkBound
<1>7. Cardinality(sem[i]) \in Nat
  BY FS_CardinalityType
<1> HIDE DEF New, f
<1>8. Cardinality(Work(i) \cup New) =
        Cardinality(Work(i)) + Cardinality(New) - Cardinality(Work(i) \cap New)
  BY <1>3, <1>6, FS_Union
<1>9. Cardinality(Work(i) \cap New) = 0
  BY <1>5, FS_EmptySet
<1>10. Cardinality(Work(i) \cup New) = Cardinality(Work(i)) + Cardinality(sem[i])
  BY <1>3, <1>6, <1>7, <1>8, <1>9
<1>11. QED
  BY <1>4, <1>10

\* The products in the bounds.
LEMMA Products ==
    /\ \A n \in Nat : /\ Concurrency * n \in Nat
                      /\ Concurrency * (n + 1) = Concurrency * n + Concurrency
    /\ \A n \in Nat : n <= Batch => ActionTimeout * (Batch - n) \in Nat
    /\ \A n \in Nat : ActionTimeout * (Batch - (n - 1)) = ActionTimeout * (Batch - n) + ActionTimeout
    /\ \A m, n \in Nat : m + 1 <= n =>
         ActionTimeout * (Batch - n) + m * ActionTimeout <= ActionTimeout * (Batch - 1)
<1>1. ActionTimeout \in Nat /\ Batch \in Nat \ {0} /\ Concurrency \in Nat \ {0}
  BY ConstantsAssumption
<1>2. \A n \in Nat : Concurrency * n \in Nat /\ Concurrency * (n + 1) = Concurrency * n + Concurrency
  BY <1>1
<1>3. \A n \in Nat : n <= Batch => ActionTimeout * (Batch - n) \in Nat
  BY <1>1
<1>4. \A n \in Nat : ActionTimeout * (Batch - (n - 1)) = ActionTimeout * (Batch - n) + ActionTimeout
  BY <1>1
<1>5. ASSUME NEW m \in Nat, NEW n \in Nat, m + 1 <= n
      PROVE  ActionTimeout * (Batch - n) + m * ActionTimeout <= ActionTimeout * (Batch - 1)
  <2>1. ActionTimeout * (Batch - 1) =
          ActionTimeout * (Batch - n) + m * ActionTimeout + ActionTimeout * (n - 1 - m)
    BY <1>1
  <2>2. ActionTimeout * (n - 1 - m) \in Nat
    <3>1. n - 1 - m \in Nat
      BY <1>5
    <3>2. QED
      BY <1>1, <3>1
  <2>3. ActionTimeout * (Batch - n) \in Int /\ m * ActionTimeout \in Int
    BY <1>1
  <2>4. QED
    BY <2>1, <2>2, <2>3
<1>6. QED
  BY <1>2, <1>3, <1>4, <1>5

\* The times of an execution are natural numbers within their bounds.
LEMMA Ages ==
    ASSUME TypeOK, NEW e \in Execs
    PROVE  /\ e[1] \in Ops
           /\ claimAge[e[1]] \in Nat /\ claimAge[e[1]] <= StaleAfter
           /\ runAge[e] \in Nat /\ runAge[e] <= ActionTimeout
<1>1. e[1] \in Ops
  BY DEF Execs
<1>2. claimAge[e[1]] \in 0..StaleAfter /\ runAge[e] \in 0..ActionTimeout
  BY <1>1 DEF TypeOK
<1>3. QED
  BY <1>1, <1>2, ConstantsAssumption

\* What has been paid is a natural number, and who waits has no slot.
LEMMA PaidType ==
    ASSUME TypeOK, BatchInv, NEW i \in Instances
    PROVE  /\ IsFiniteSet(sem[i]) /\ Cardinality(sem[i]) \in Nat
           /\ Cardinality(batch[i]) \in Nat /\ Cardinality(sem[i]) <= Cardinality(batch[i])
           /\ Cardinality(Work(i)) \in Nat /\ Paid(i) \in Nat
<1>1. IsFiniteSet(batch[i]) /\ Cardinality(batch[i]) <= Batch /\ sem[i] \in SUBSET batch[i]
  BY DEF BatchInv
<1>2. IsFiniteSet(sem[i]) /\ Cardinality(sem[i]) <= Cardinality(batch[i])
  BY <1>1, FS_Subset
<1>3. Cardinality(batch[i]) \in Nat /\ Cardinality(sem[i]) \in Nat
  BY <1>1, <1>2, FS_CardinalityType
<1>4. Cardinality(Work(i)) \in Nat
  BY <1>2, WorkBound
<1>5. ActionTimeout * (Batch - Cardinality(batch[i])) \in Nat
  BY <1>1, <1>3, Products
<1>6. QED
  BY <1>2, <1>3, <1>4, <1>5 DEF Paid

\* Nobody waits longer than the rest of its batch takes.
LEMMA WaitIsRun ==
    ASSUME TypeOK, BatchInv, NEW e \in Execs, pc[e] = "waiting", WaitBound(e)
    PROVE  Concurrency * claimAge[e[1]] <= ActionTimeout * (Batch - 1)
<1> DEFINE i == at[e]
<1>1. i \in Instances /\ e \in batch[i] /\ e \notin sem[i] /\ sem[i] \subseteq batch[i]
  BY DEF BatchInv, Live
<1>2. IsFiniteSet(batch[i]) /\ sem[i] \in SUBSET batch[i] /\ sem[i] # batch[i]
  BY <1>1 DEF BatchInv
<1>3. Cardinality(sem[i]) # Cardinality(batch[i])
  BY <1>2, FS_Subset
<1>4. /\ Cardinality(sem[i]) \in Nat /\ Cardinality(batch[i]) \in Nat /\ IsFiniteSet(sem[i])
      /\ Cardinality(sem[i]) <= Cardinality(batch[i])
  BY <1>1, PaidType
<1>5. Cardinality(sem[i]) + 1 <= Cardinality(batch[i])
  BY <1>3, <1>4
<1>6. ActionTimeout * (Batch - Cardinality(batch[i])) + Cardinality(sem[i]) * ActionTimeout
        <= ActionTimeout * (Batch - 1)
  BY <1>4, <1>5, Products
<1>7. Cardinality(Work(i)) \in Nat /\ Cardinality(Work(i)) <= Cardinality(sem[i]) * ActionTimeout
  BY <1>1, <1>4, WorkBound
<1>8. /\ Concurrency * claimAge[e[1]] \in Int
      /\ ActionTimeout * (Batch - Cardinality(batch[i])) \in Int
      /\ Cardinality(sem[i]) * ActionTimeout \in Int /\ ActionTimeout * (Batch - 1) \in Int
  BY <1>4, ConstantsAssumption DEF TypeOK, Execs
<1>9. Concurrency * claimAge[e[1]] <=
        ActionTimeout * (Batch - Cardinality(batch[i])) + Cardinality(Work(i))
  BY DEF WaitBound, Paid
<1> HIDE DEF i
<1>10. QED
  BY <1>6, <1>7, <1>8, <1>9

\* With Slack the claim of a live execution is not stale.
LEMMA NotStale ==
    ASSUME Slack, TypeOK, BatchInv, AgeInv, NEW e \in Execs, Live(e)
    PROVE  e[1] \notin Stale
<1> SUFFICES ASSUME e[1] \in Stale PROVE FALSE
  OBVIOUS
<1>1. e[1] \in Ops /\ claimAge[e[1]] = StaleAfter
  <2>1. StaleAfter \in Nat /\ claimAge[e[1]] >= StaleAfter
    BY ConstantsAssumption DEF Stale
  <2>2. QED
    BY <2>1, Ages
<1>2. runAge[e] \in 0..ActionTimeout
  BY DEF TypeOK
<1>3. Concurrency * StaleAfter <= ActionTimeout * (Batch - 1) + Concurrency * runAge[e]
  <2>1. Concurrency * runAge[e] \in Nat
    BY <1>2, ConstantsAssumption
  <2>2. CASE pc[e] = "waiting"
    <3>1. Concurrency * StaleAfter <= ActionTimeout * (Batch - 1)
      BY <1>1, <2>2, WaitIsRun DEF AgeInv
    <3>2. Concurrency * StaleAfter \in Int /\ ActionTimeout * (Batch - 1) \in Int
      BY ConstantsAssumption
    <3>3. QED
      BY <2>1, <3>1, <3>2
  <2>3. CASE pc[e] # "waiting"
    BY <1>1, <2>3 DEF AgeInv, RunBound
  <2>4. QED
    BY <2>2, <2>3
<1>4. Concurrency * runAge[e] <= Concurrency * ActionTimeout
  BY <1>2, ConstantsAssumption
<1>5. /\ ActionTimeout * (Batch + Concurrency - 1) = ActionTimeout * (Batch - 1) + Concurrency * ActionTimeout
      /\ StaleAfter * Concurrency = Concurrency * StaleAfter
  BY ConstantsAssumption
<1>6. /\ ActionTimeout * (Batch - 1) \in Int /\ Concurrency * ActionTimeout \in Int
      /\ Concurrency * StaleAfter \in Int /\ Concurrency * runAge[e] \in Int
  BY <1>2, ConstantsAssumption
<1>7. ActionTimeout * (Batch - 1) + Concurrency * ActionTimeout < Concurrency * StaleAfter
  BY <1>5 DEF Slack
<1>8. QED
  BY <1>3, <1>4, <1>6, <1>7

\* An execution keeps its bound when its claim does not get older and what was paid for
\* it does not get less.
LEMMA AgeKept ==
    ASSUME TypeOK, BatchInv, AgeInv, NEW e \in Execs, Live(e),
           claimAge'[e[1]] \in {claimAge[e[1]], 0},
           \/ /\ pc[e] = "waiting" /\ pc'[e] = "waiting" /\ at'[e] = at[e]
              /\ Paid(at[e])' \in Int /\ Paid(at[e]) <= Paid(at[e])'
           \/ pc'[e] # "waiting" /\ runAge'[e] = runAge[e]
    PROVE  IF pc'[e] = "waiting" THEN WaitBound(e)' ELSE RunBound(e)'
<1>1. /\ e[1] \in Ops /\ claimAge[e[1]] \in Nat /\ runAge[e] \in Nat
      /\ at[e] \in Instances
  BY Ages DEF BatchInv
<1>2. /\ Concurrency * claimAge[e[1]] \in Nat /\ Concurrency * 0 = 0
      /\ ActionTimeout * (Batch - 1) \in Nat /\ Concurrency * runAge[e] \in Nat
  <2>1. 1 \in Nat /\ 1 <= Batch /\ Concurrency * 0 = 0
    BY ConstantsAssumption
  <2>2. ActionTimeout * (Batch - 1) \in Nat
    BY <2>1, Products
  <2>3. QED
    BY <1>1, <2>1, <2>2, Products
<1>3. Concurrency * claimAge'[e[1]] \in Nat /\ Concurrency * claimAge'[e[1]] <= Concurrency * claimAge[e[1]]
  BY <1>2
<1>4. CASE pc'[e] = "waiting"
  <2>1. pc[e] = "waiting" /\ at'[e] = at[e] /\ Paid(at[e])' \in Int /\ Paid(at[e]) <= Paid(at[e])'
    BY <1>4
  <2>2. Concurrency * claimAge[e[1]] <= Paid(at[e])
    BY <2>1 DEF AgeInv, WaitBound
  <2>3. Paid(at[e]) \in Nat
    BY <1>1, PaidType
  <2>4. Concurrency * claimAge'[e[1]] <= Paid(at[e])'
    BY <1>2, <1>3, <2>1, <2>2, <2>3
  <2>5. QED
    BY <1>4, <2>1, <2>4 DEF WaitBound, Paid, Work
<1>5. CASE pc'[e] # "waiting"
  <2>1. runAge'[e] = runAge[e]
    BY <1>5
  <2>2. Concurrency * claimAge[e[1]] <= ActionTimeout * (Batch - 1) + Concurrency * runAge[e]
    <3>1. CASE pc[e] = "waiting"
      <4>1. Concurrency * claimAge[e[1]] <= ActionTimeout * (Batch - 1)
        BY <3>1, WaitIsRun DEF AgeInv
      <4>2. QED
        BY <1>2, <4>1
    <3>2. CASE pc[e] # "waiting"
      BY <3>2 DEF AgeInv, RunBound
    <3>3. QED
      BY <3>1, <3>2
  <2>3. Concurrency * claimAge'[e[1]] <= ActionTimeout * (Batch - 1) + Concurrency * runAge[e]
    BY <1>2, <1>3, <2>2
  <2>4. QED
    BY <1>5, <2>1, <2>3 DEF RunBound
<1>6. QED
  BY <1>4, <1>5

\* What was paid on an instance that a step leaves alone.
LEMMA PaidKept ==
    ASSUME TypeOK, BatchInv, NEW i \in Instances, batch'[i] = batch[i], sem'[i] = sem[i],
           \A e \in sem[i] : runAge'[e] = runAge[e]
    PROVE  Paid(i)' = Paid(i) /\ Paid(i)' \in Int /\ Paid(i) <= Paid(i)'
<1>1. Work(i)' = Work(i)
  BY DEF Work
<1>2. Paid(i)' = Paid(i)
  BY <1>1 DEF Paid
<1>3. QED
  BY <1>2, PaidType

\* A claim makes one execution for each row.
LEMMA ClaimedOnce ==
    ASSUME NEW S \in SUBSET Ops, NEW a \in Claimed(S), NEW b \in Claimed(S), a[1] = b[1]
    PROVE  a = b
<1>1. /\ a \in Execs /\ b \in Execs /\ a = <<a[1], a[2]>> /\ b = <<b[1], b[2]>>
      /\ a[2] \in 1..MaxOverlap /\ b[2] \in 1..MaxOverlap
  BY DEF Claimed, Execs
<1>2. /\ ~Live(a) /\ \A m \in 1..(a[2] - 1) : Live(<<a[1], m>>)
      /\ ~Live(b) /\ \A m \in 1..(b[2] - 1) : Live(<<b[1], m>>)
  BY <1>1 DEF Claimed, Fresh
<1>3. a[2] < b[2] => a[2] \in 1..(b[2] - 1)
  BY <1>1, ConstantsAssumption
<1>4. b[2] < a[2] => b[2] \in 1..(a[2] - 1)
  BY <1>1, ConstantsAssumption
<1>5. ~(a[2] < b[2]) /\ ~(b[2] < a[2])
  BY <1>1, <1>2, <1>3, <1>4
<1>6. a[2] = b[2]
  BY <1>1, <1>5, ConstantsAssumption
<1>7. QED
  BY <1>1, <1>6

\* ... which is a batch of at most Batch.
LEMMA ClaimedBound ==
    ASSUME NEW S \in SUBSET Ops, Cardinality(S) <= Batch
    PROVE  IsFiniteSet(Claimed(S)) /\ Cardinality(Claimed(S)) \in Nat /\ Cardinality(Claimed(S)) <= Batch
<1> DEFINE f == [e \in Claimed(S) |-> e[1]]
<1>1. IsFiniteSet(S) /\ Cardinality(S) \in Nat
  BY ConstantsAssumption, FS_Subset, FS_CardinalityType
<1>2. f \in Injection(Claimed(S), S)
  <2>1. f \in [Claimed(S) -> S]
    BY DEF Claimed
  <2>2. QED
    BY <2>1, ClaimedOnce DEF Injection, IsInjective
<1>3. IsFiniteSet(Claimed(S)) /\ Cardinality(Claimed(S)) <= Cardinality(S)
  BY <1>1, <1>2, FS_Injection
<1>4. Cardinality(Claimed(S)) \in Nat
  BY <1>3, FS_CardinalityType
<1>5. QED
  BY <1>1, <1>3, <1>4, ConstantsAssumption

\* Steps that leave executions alone, and the rows of live ones but for the age.
LEMMA TableStep ==
    ASSUME TypeOK, ExclusiveInv, UNCHANGED <<pc, at, runAge, batch, sem>>,
           \A e \in Execs : Live(e) =>
               /\ status'[e[1]] = status[e[1]] /\ claimedBy'[e[1]] = claimedBy[e[1]]
               /\ claimAge'[e[1]] \in {claimAge[e[1]], 0}
    PROVE  ExclusiveInv'
<1>1. BatchInv'
  BY DEF ExclusiveInv, BatchInv, Live
<1>2. ExclusiveExecution'
  BY DEF ExclusiveInv, ExclusiveExecution, Live
<1>3. ASSUME NEW e \in Execs, Live(e)' PROVE IF pc'[e] = "waiting" THEN WaitBound(e)' ELSE RunBound(e)'
  <2>1. Live(e) /\ at[e] \in Instances
    BY <1>3 DEF Live, ExclusiveInv, BatchInv
  <2>2. Paid(at[e])' \in Int /\ Paid(at[e]) <= Paid(at[e])'
    BY <2>1, PaidKept DEF ExclusiveInv
  <2>3. QED
    BY <2>1, <2>2, AgeKept DEF ExclusiveInv
<1>4. QED
  BY <1>1, <1>2, <1>3 DEF ExclusiveInv, AgeInv

\* Steps within executeOne.
LEMMA GotoStep ==
    ASSUME TypeOK, ExclusiveInv, NEW e \in Execs, Live(e), pc[e] # "waiting",
           NEW s, s \notin {"none", "waiting"}, Goto(e, s),
           UNCHANGED <<status, claimedBy, claimAge, at, runAge, batch, sem>>
    PROVE  ExclusiveInv'
<1>1. pc' = [pc EXCEPT ![e] = s] /\ pc \in [Execs -> PCs]
  BY DEF Goto, TypeOK
<1>2. \A f \in Execs : (Live(f)' <=> Live(f)) /\ (pc'[f] = "waiting" <=> pc[f] = "waiting")
  BY <1>1 DEF Live
<1>3. BatchInv'
  <2>1. \A i \in Instances : batch[i] \subseteq Execs /\ sem[i] \subseteq Execs
    BY DEF TypeOK
  <2>2. QED
    BY <1>2, <2>1 DEF ExclusiveInv, BatchInv
<1>4. ExclusiveExecution'
  BY <1>2 DEF ExclusiveInv, ExclusiveExecution
<1>5. ASSUME NEW f \in Execs, Live(f)' PROVE IF pc'[f] = "waiting" THEN WaitBound(f)' ELSE RunBound(f)'
  <2>1. Live(f) /\ at[f] \in Instances
    BY <1>2, <1>5 DEF ExclusiveInv, BatchInv
  <2>2. Paid(at[f])' \in Int /\ Paid(at[f]) <= Paid(at[f])'
    BY <2>1, PaidKept DEF ExclusiveInv
  <2>3. QED
    BY <1>2, <2>1, <2>2, AgeKept DEF ExclusiveInv
<1>6. QED
  BY <1>3, <1>4, <1>5 DEF ExclusiveInv, AgeInv

\* The end of an execution: what the rest of its batch has to wait for gets less.
LEMMA FinishStep ==
    ASSUME TypeOK, ExclusiveInv, NEW e \in Execs, Live(e), pc[e] # "waiting", Finish(e),
           \A o \in Ops \ {e[1]} : /\ status'[o] = status[o] /\ claimedBy'[o] = claimedBy[o]
                                   /\ claimAge'[o] = claimAge[o]
    PROVE  ExclusiveInv'
<1>1. /\ pc' = [pc EXCEPT ![e] = "none"] /\ at' = [at EXCEPT ![e] = None]
      /\ runAge' = [runAge EXCEPT ![e] = 0]
      /\ \A i \in Instances : batch'[i] = batch[i] \ {e} /\ sem'[i] = sem[i] \ {e}
  BY DEF Finish, Goto
<1>2. /\ \A f \in Execs \ {e} : pc'[f] = pc[f] /\ at'[f] = at[f] /\ runAge'[f] = runAge[f]
      /\ pc'[e] = "none"
  BY <1>1 DEF TypeOK
<1>3. \A i \in Instances : /\ IsFiniteSet(batch[i]) /\ Cardinality(batch[i]) \in Nat
                           /\ Cardinality(batch[i]) <= Batch
                           /\ batch[i] \subseteq Execs /\ sem[i] \subseteq batch[i]
  BY PaidType DEF ExclusiveInv, BatchInv, TypeOK
<1>4. ASSUME NEW i \in Instances
      PROVE  /\ IsFiniteSet(batch'[i]) /\ Cardinality(batch'[i]) \in Nat
             /\ Cardinality(batch'[i]) =
                  IF e \in batch[i] THEN Cardinality(batch[i]) - 1 ELSE Cardinality(batch[i])
  <2>1. batch'[i] = batch[i] \ {e}
    BY <1>1
  <2>2. /\ IsFiniteSet(batch[i] \ {e})
        /\ Cardinality(batch[i] \ {e}) =
             IF e \in batch[i] THEN Cardinality(batch[i]) - 1 ELSE Cardinality(batch[i])
    BY <1>3, FS_RemoveElement
  <2>3. QED
    BY <2>1, <2>2, FS_CardinalityType
<1>5. BatchInv'
  <2>1. ASSUME NEW i \in Instances PROVE Cardinality(batch'[i]) <= Batch
    <3>1. /\ Cardinality(batch[i]) \in Nat /\ Cardinality(batch[i]) <= Batch /\ Batch \in Nat
          /\ Cardinality(batch'[i]) \in {Cardinality(batch[i]), Cardinality(batch[i]) - 1}
      BY <1>3, <1>4, ConstantsAssumption
    <3>2. QED
      BY <3>1
  <2>2. ASSUME NEW i \in Instances
        PROVE  /\ sem'[i] \subseteq batch'[i]
               /\ \A f \in batch'[i] : Live(f)' /\ at'[f] = i
               /\ \A f \in sem'[i] : pc'[f] # "waiting"
    BY <1>1, <1>2, <1>3 DEF ExclusiveInv, BatchInv, Live
  <2>3. ASSUME NEW f \in Execs
        PROVE  (Live(f)' => at'[f] \in Instances) /\ (pc'[f] = "waiting" => f \in batch'[at'[f]])
    BY <1>1, <1>2 DEF ExclusiveInv, BatchInv, Live
  <2>4. QED
    BY <1>4, <2>1, <2>2, <2>3 DEF BatchInv
<1>6. \A f \in Execs : Live(f)' => f # e /\ Live(f) /\ f[1] \in Ops /\ f[1] # e[1]
  BY <1>2 DEF Live, ExclusiveInv, ExclusiveExecution, Execs
<1>7. ExclusiveExecution'
  BY <1>2, <1>6 DEF ExclusiveInv, ExclusiveExecution, Live
<1>8. ASSUME NEW i \in Instances PROVE Paid(i)' \in Int /\ Paid(i) <= Paid(i)'
  <2>1. IsFiniteSet(sem[i]) /\ Cardinality(Work(i)) \in Nat
    BY PaidType DEF ExclusiveInv
  <2>2. /\ Cardinality(Work(i)) <= Cardinality(Work(i)') + ActionTimeout
        /\ e \notin sem[i] => Work(i)' = Work(i)
        /\ Cardinality(Work(i)') \in Nat
    BY <1>1, <1>2, <2>1, WorkOfLeaver
  <2> DEFINE n == Cardinality(batch[i])
  <2>3. n \in Nat /\ n <= Batch /\ ActionTimeout \in Nat
    BY <1>3, ConstantsAssumption
  <2>4. /\ ActionTimeout * (Batch - n) \in Nat
        /\ ActionTimeout * (Batch - (n - 1)) = ActionTimeout * (Batch - n) + ActionTimeout
    BY <2>3, Products
  <2>5. Paid(i) = ActionTimeout * (Batch - n) + Cardinality(Work(i))
    BY DEF Paid
  <2>6. Paid(i)' = ActionTimeout * (Batch - Cardinality(batch'[i])) + Cardinality(Work(i)')
    BY DEF Paid
  <2>7. CASE e \in batch[i]
    <3>1. Paid(i)' = ActionTimeout * (Batch - (n - 1)) + Cardinality(Work(i)')
      BY <1>4, <2>6, <2>7
    <3> HIDE DEF n
    <3>2. QED
      BY <2>1, <2>2, <2>3, <2>4, <2>5, <3>1
  <2>8. CASE e \notin batch[i]
    <3>1. Work(i)' = Work(i) /\ Cardinality(batch'[i]) = n
      BY <1>3, <1>4, <2>2, <2>8
    <3>2. Paid(i)' = Paid(i)
      BY <2>5, <2>6, <3>1
    <3>3. QED
      BY <3>2, PaidType DEF ExclusiveInv
  <2>9. QED
    BY <2>7, <2>8
<1>9. ASSUME NEW f \in Execs, Live(f)'
      PROVE  IF pc'[f] = "waiting" THEN WaitBound(f)' ELSE RunBound(f)'
  <2>1. /\ f # e /\ Live(f) /\ at[f] \in Instances /\ f[1] \in Ops \ {e[1]}
        /\ pc'[f] = pc[f] /\ at'[f] = at[f] /\ runAge'[f] = runAge[f]
    BY <1>2, <1>6, <1>9 DEF ExclusiveInv, BatchInv
  <2>2. claimAge'[f[1]] = claimAge[f[1]]
    BY <2>1
  <2>3. Paid(at[f])' \in Int /\ Paid(at[f]) <= Paid(at[f])'
    <3>1. PICK i \in Instances : i = at[f]
      BY <2>1
    <3>2. Paid(i)' \in Int /\ Paid(i) <= Paid(i)'
      BY <1>8
    <3>3. Paid(at[f])' = Paid(i)'
      BY <2>1, <3>1 DEF Paid, Work
    <3>4. QED
      BY <3>1, <3>2, <3>3
  <2>4. QED
    BY <2>1, <2>2, <2>3, AgeKept DEF ExclusiveInv
<1>10. QED
  BY <1>5, <1>7, <1>9 DEF ExclusiveInv, AgeInv

\* A claim: its rows belonged to nobody, and nobody of the new batch has waited yet.
LEMMA ClaimStep ==
    ASSUME TypeOK, ExclusiveInv, NEW i \in Instances, ClaimDue(i)
    PROVE  ExclusiveInv'
<1>1. PICK S \in SUBSET Ops :
        /\ Claimable(S)
        /\ ClaimRows(i, S)
        /\ pc' = [e \in Execs |-> IF e \in Claimed(S) THEN "waiting" ELSE pc[e]]
        /\ at' = [e \in Execs |-> IF e \in Claimed(S) THEN i ELSE at[e]]
        /\ batch' = [batch EXCEPT ![i] = Claimed(S)]
  BY DEF ClaimDue
<1>2. /\ Claimed(S) \subseteq Execs
      /\ \A e \in Claimed(S) : e[1] \in S /\ ~Live(e)
  <2>1. \A e \in Execs : e = <<e[1], e[2]>>
    BY DEF Execs
  <2>2. QED
    BY <2>1 DEF Claimed, Fresh
<1>3. \A e \in Execs : Live(e) => e \notin Claimed(S) /\ e[1] \in Ops \ S
  BY <1>1, <1>2 DEF Claimable, Due, ExclusiveInv, ExclusiveExecution, Execs
<1>4. /\ \A e \in Claimed(S) : pc'[e] = "waiting" /\ at'[e] = i
      /\ \A e \in Execs \ Claimed(S) : pc'[e] = pc[e] /\ at'[e] = at[e]
      /\ runAge' = runAge
  BY <1>1, <1>2 DEF ClaimDue
<1>5. /\ batch'[i] = Claimed(S) /\ sem'[i] = {}
      /\ \A j \in Instances \ {i} : batch'[j] = batch[j] /\ sem'[j] = sem[j]
      /\ \A j \in Instances : batch[j] \subseteq Execs /\ sem[j] \subseteq Execs
  BY <1>1 DEF ClaimDue, TypeOK
<1>6. \A e \in Execs : pc[e] = "waiting" => at[e] \in Instances \ {i}
  BY DEF ClaimDue, Waiting, ExclusiveInv, BatchInv, Live
<1>7. /\ \A o \in S : status'[o] = "RUNNING" /\ claimedBy'[o] = i /\ claimAge'[o] = 0
      /\ \A o \in Ops \ S : /\ status'[o] = status[o] /\ claimedBy'[o] = claimedBy[o]
                            /\ claimAge'[o] = claimAge[o]
  BY <1>1 DEF ClaimRows
<1>8. IsFiniteSet(Claimed(S)) /\ Cardinality(Claimed(S)) \in Nat /\ Cardinality(Claimed(S)) <= Batch
  BY <1>1, ClaimedBound DEF Claimable
<1>9. \A e \in Execs : Live(e)' => e \in Claimed(S) \/ (e \notin Claimed(S) /\ Live(e))
  BY <1>4 DEF Live
<1>10. BatchInv'
  <2>1. ASSUME NEW j \in Instances \ {i}
        PROVE  /\ IsFiniteSet(batch'[j]) /\ Cardinality(batch'[j]) <= Batch
               /\ sem'[j] \subseteq batch'[j]
               /\ \A e \in batch'[j] : Live(e)' /\ at'[e] = j
               /\ \A e \in sem'[j] : pc'[e] # "waiting"
    BY <1>3, <1>4, <1>5 DEF ExclusiveInv, BatchInv, Live
  <2>2. /\ IsFiniteSet(batch'[i]) /\ Cardinality(batch'[i]) <= Batch
        /\ sem'[i] \subseteq batch'[i]
        /\ \A e \in batch'[i] : Live(e)' /\ at'[e] = i
        /\ \A e \in sem'[i] : pc'[e] # "waiting"
    BY <1>4, <1>5, <1>8 DEF Live
  <2>3. ASSUME NEW e \in Execs
        PROVE  (Live(e)' => at'[e] \in Instances) /\ (pc'[e] = "waiting" => e \in batch'[at'[e]])
    <3>1. CASE e \in Claimed(S)
      BY <1>4, <1>5, <3>1
    <3>2. CASE e \notin Claimed(S)
      BY <1>4, <1>5, <1>6, <3>2 DEF ExclusiveInv, BatchInv, Live
    <3>3. QED
      BY <3>1, <3>2
  <2>4. QED
    BY <2>1, <2>2, <2>3 DEF BatchInv
<1>11. ExclusiveExecution'
  <2>1. ASSUME NEW e \in Execs, Live(e)'
        PROVE  status'[e[1]] = "RUNNING" /\ claimedBy'[e[1]] = at'[e]
    BY <1>2, <1>3, <1>4, <1>7, <1>9, <2>1 DEF ExclusiveInv, ExclusiveExecution
  <2>2. ASSUME NEW e \in Execs, Live(e)', NEW f \in Execs, Live(f)', f[1] = e[1] PROVE f = e
    BY <1>2, <1>3, <1>9, <2>2, ClaimedOnce DEF ExclusiveInv, ExclusiveExecution
  <2>3. QED
    BY <2>1, <2>2 DEF ExclusiveExecution
<1>12. ASSUME NEW e \in Execs, Live(e)'
       PROVE  IF pc'[e] = "waiting" THEN WaitBound(e)' ELSE RunBound(e)'
  <2>1. CASE e \in Claimed(S)
    <3>1. pc'[e] = "waiting" /\ at'[e] = i /\ claimAge'[e[1]] = 0
      BY <1>2, <1>4, <1>7, <2>1
    <3>2. Work(i)' = {}
      BY <1>5 DEF Work
    <3>3. Cardinality(Work(i)') = 0
      BY <3>2, FS_EmptySet
    <3>4. ActionTimeout * (Batch - Cardinality(Claimed(S))) \in Nat
      BY <1>8, Products
    <3>5. ActionTimeout * (Batch - Cardinality(batch'[i])) \in Nat
      BY <1>5, <3>4
    <3>6. Concurrency * claimAge'[e[1]] <=
            ActionTimeout * (Batch - Cardinality(batch'[i])) + Cardinality(Work(i)')
      <4>1. Concurrency * claimAge'[e[1]] = 0
        BY <3>1, ConstantsAssumption
      <4>2. QED
        BY <3>3, <3>5, <4>1
    <3>7. Concurrency * claimAge'[e[1]] <= Paid(at[e])'
      BY <3>1, <3>6 DEF Paid, Work
    <3>8. QED
      BY <3>1, <3>7 DEF WaitBound
  <2>2. CASE e \notin Claimed(S)
    <3>1. /\ Live(e) /\ e[1] \in Ops \ S /\ claimAge'[e[1]] = claimAge[e[1]]
          /\ pc'[e] = pc[e] /\ at'[e] = at[e] /\ runAge'[e] = runAge[e]
      BY <1>3, <1>4, <1>7, <1>9, <1>12, <2>2
    <3>2. CASE pc[e] = "waiting"
      <4>1. Paid(at[e])' \in Int /\ Paid(at[e]) <= Paid(at[e])'
        <5>1. PICK j \in Instances \ {i} : j = at[e]
          BY <1>6, <3>2
        <5>2. Paid(j)' \in Int /\ Paid(j) <= Paid(j)'
          BY <1>4, <1>5, PaidKept DEF ExclusiveInv
        <5>3. Paid(at[e])' = Paid(j)'
          BY <3>1, <5>1 DEF Paid, Work
        <5>4. QED
          BY <5>1, <5>2, <5>3
      <4>2. QED
        BY <3>1, <3>2, <4>1, AgeKept DEF ExclusiveInv
    <3>3. CASE pc[e] # "waiting"
      BY <3>1, <3>3, AgeKept DEF ExclusiveInv
    <3>4. QED
      BY <3>2, <3>3
  <2>3. QED
    BY <2>1, <2>2
<1>13. QED
  BY <1>10, <1>11, <1>12 DEF ExclusiveInv, AgeInv

\* Who gets a slot has waited for the rest of its batch at most.
LEMMA StartStep ==
    ASSUME TypeOK, ExclusiveInv, NEW i \in Instances, NEW e \in Execs, StartOne(i, e)
    PROVE  ExclusiveInv'
<1>1. /\ pc[e] = "waiting" /\ pc' = [pc EXCEPT ![e] = "checking"] /\ e \in batch[i] /\ at[e] = i
      /\ sem' = [sem EXCEPT ![i] = @ \cup {e}]
      /\ UNCHANGED <<status, claimedBy, claimAge, at, runAge, batch>>
  BY DEF StartOne, Waiting, table, ExclusiveInv, BatchInv
<1>2. /\ pc'[e] = "checking" /\ \A f \in Execs \ {e} : pc'[f] = pc[f]
      /\ sem'[i] = sem[i] \cup {e} /\ \A j \in Instances \ {i} : sem'[j] = sem[j]
      /\ \A j \in Instances : batch[j] \subseteq Execs /\ sem[j] \subseteq Execs
  BY <1>1 DEF TypeOK
<1>3. \A f \in Execs : Live(f)' <=> Live(f)
  BY <1>1, <1>2 DEF Live
<1>4. BatchInv'
  <2>1. ASSUME NEW j \in Instances
        PROVE  /\ sem'[j] \subseteq batch'[j]
               /\ \A f \in batch'[j] : Live(f)' /\ at'[f] = j
               /\ \A f \in sem'[j] : pc'[f] # "waiting"
    BY <1>1, <1>2, <1>3 DEF ExclusiveInv, BatchInv
  <2>2. ASSUME NEW f \in Execs
        PROVE  (Live(f)' => at'[f] \in Instances) /\ (pc'[f] = "waiting" => f \in batch'[at'[f]])
    BY <1>1, <1>2, <1>3 DEF ExclusiveInv, BatchInv
  <2>3. QED
    BY <1>1, <2>1, <2>2 DEF ExclusiveInv, BatchInv
<1>5. ExclusiveExecution'
  BY <1>1, <1>3 DEF ExclusiveInv, ExclusiveExecution
<1>6. Paid(i)' \in Int /\ Paid(i) <= Paid(i)'
  <2>1. IsFiniteSet(sem[i]) /\ Cardinality(Work(i)) \in Nat /\ Cardinality(batch[i]) \in Nat
    BY PaidType DEF ExclusiveInv
  <2>2. IsFiniteSet(sem[i] \cup {e})
    BY <2>1, FS_AddElement
  <2>3. IsFiniteSet(1..ActionTimeout)
    BY FS_Interval, ConstantsAssumption
  <2>4. IsFiniteSet((sem[i] \cup {e}) \X (1..ActionTimeout))
    BY <2>2, <2>3, FS_Product
  <2>5. Work(i)' \in SUBSET ((sem[i] \cup {e}) \X (1..ActionTimeout)) /\ Work(i) \in SUBSET Work(i)'
    BY <1>1, <1>2 DEF Work
  <2>6. IsFiniteSet(Work(i)')
    BY <2>4, <2>5, FS_Subset
  <2>7. Cardinality(Work(i)) <= Cardinality(Work(i)') /\ Cardinality(Work(i)') \in Nat
    BY <2>5, <2>6, FS_Subset, FS_CardinalityType
  <2>8. /\ Paid(i)' = ActionTimeout * (Batch - Cardinality(batch[i])) + Cardinality(Work(i)')
        /\ Paid(i) = ActionTimeout * (Batch - Cardinality(batch[i])) + Cardinality(Work(i))
    BY <1>1 DEF Paid
  <2>9. ActionTimeout * (Batch - Cardinality(batch[i])) \in Int
    BY <2>1, ConstantsAssumption
  <2>10. QED
    BY <2>1, <2>7, <2>8, <2>9
<1>7. ASSUME NEW f \in Execs, Live(f)'
      PROVE  IF pc'[f] = "waiting" THEN WaitBound(f)' ELSE RunBound(f)'
  <2>1. Live(f) /\ at[f] \in Instances
    BY <1>3, <1>7 DEF ExclusiveInv, BatchInv
  <2>2. Paid(at[f])' \in Int /\ Paid(at[f]) <= Paid(at[f])'
    <3>1. PICK j \in Instances : j = at[f]
      BY <2>1
    <3>2. Paid(j)' \in Int /\ Paid(j) <= Paid(j)'
      <4>1. CASE j = i
        BY <1>6, <4>1
      <4>2. CASE j # i
        BY <1>1, <1>2, <4>2, PaidKept DEF ExclusiveInv
      <4>3. QED
        BY <4>1, <4>2
    <3>3. Paid(at[f])' = Paid(j)'
      BY <1>1, <3>1 DEF Paid, Work
    <3>4. QED
      BY <3>1, <3>2, <3>3
  <2>3. QED
    BY <1>1, <1>2, <2>1, <2>2, AgeKept DEF ExclusiveInv
<1>8. QED
  BY <1>4, <1>5, <1>7 DEF ExclusiveInv, AgeInv

\* Executions G of one instance vanish, those that wait among them.
LEMMA LeaveStep ==
    ASSUME TypeOK, ExclusiveInv, NEW i \in Instances, NEW G \in SUBSET Execs,
           \A e \in G : at[e] = i, Waiting(i) \subseteq G,
           pc' = [e \in Execs |-> IF e \in G THEN "none" ELSE pc[e]],
           at' = [e \in Execs |-> IF e \in G THEN None ELSE at[e]],
           \A e \in Execs \ G : runAge'[e] = runAge[e],
           batch'[i] \subseteq batch[i] \ G, sem'[i] \subseteq batch'[i] \cap sem[i],
           \A j \in Instances \ {i} : batch'[j] = batch[j] /\ sem'[j] = sem[j],
           UNCHANGED <<status, claimedBy, claimAge>>
    PROVE  ExclusiveInv'
<1>1. /\ \A e \in Execs \ G : pc'[e] = pc[e] /\ at'[e] = at[e]
      /\ \A e \in G : pc'[e] = "none"
      /\ \A j \in Instances : batch[j] \subseteq Execs /\ sem[j] \subseteq batch[j]
  BY DEF TypeOK, ExclusiveInv, BatchInv
<1>2. \A e \in Execs : Live(e)' => e \in Execs \ G /\ Live(e)
  BY <1>1 DEF Live
<1>3. \A e \in Execs : pc'[e] = "waiting" => pc[e] = "waiting" /\ at[e] \in Instances \ {i}
  BY <1>1 DEF Waiting, ExclusiveInv, BatchInv, Live
<1>4. BatchInv'
  <2>1. ASSUME NEW j \in Instances \ {i}
        PROVE  /\ IsFiniteSet(batch'[j]) /\ Cardinality(batch'[j]) <= Batch
               /\ sem'[j] \subseteq batch'[j]
               /\ \A e \in batch'[j] : Live(e)' /\ at'[e] = j
               /\ \A e \in sem'[j] : pc'[e] # "waiting"
    BY <1>1 DEF ExclusiveInv, BatchInv, Live
  <2>2. IsFiniteSet(batch'[i]) /\ Cardinality(batch'[i]) <= Batch
    <3>1. IsFiniteSet(batch[i]) /\ batch'[i] \in SUBSET batch[i] /\ Cardinality(batch[i]) <= Batch
      BY DEF ExclusiveInv, BatchInv
    <3>2. IsFiniteSet(batch'[i]) /\ Cardinality(batch'[i]) <= Cardinality(batch[i])
      BY <3>1, FS_Subset
    <3>3. Cardinality(batch'[i]) \in Nat /\ Cardinality(batch[i]) \in Nat /\ Batch \in Nat
      BY <3>1, <3>2, FS_CardinalityType, ConstantsAssumption
    <3>4. QED
      BY <3>1, <3>2, <3>3
  <2>3. /\ sem'[i] \subseteq batch'[i]
        /\ \A e \in batch'[i] : Live(e)' /\ at'[e] = i
        /\ \A e \in sem'[i] : pc'[e] # "waiting"
    BY <1>1 DEF ExclusiveInv, BatchInv, Live
  <2>4. ASSUME NEW e \in Execs
        PROVE  (Live(e)' => at'[e] \in Instances) /\ (pc'[e] = "waiting" => e \in batch'[at'[e]])
    <3>1. Live(e)' => at'[e] \in Instances
      BY <1>1, <1>2 DEF ExclusiveInv, BatchInv
    <3>2. ASSUME pc'[e] = "waiting" PROVE e \in batch'[at'[e]]
      <4>1. e \in Execs \ G /\ at'[e] = at[e] /\ at[e] \in Instances \ {i} /\ e \in batch[at[e]]
        BY <1>1, <1>3, <3>2 DEF ExclusiveInv, BatchInv
      <4>2. QED
        BY <4>1
    <3>3. QED
      BY <3>1, <3>2
  <2>5. QED
    BY <2>1, <2>2, <2>3, <2>4 DEF BatchInv
<1>5. ExclusiveExecution'
  BY <1>1, <1>2 DEF ExclusiveInv, ExclusiveExecution
<1>6. ASSUME NEW e \in Execs, Live(e)'
      PROVE  IF pc'[e] = "waiting" THEN WaitBound(e)' ELSE RunBound(e)'
  <2>1. Live(e) /\ pc'[e] = pc[e] /\ at'[e] = at[e] /\ runAge'[e] = runAge[e]
    BY <1>1, <1>2, <1>6
  <2>2. CASE pc[e] = "waiting"
    <3>1. PICK j \in Instances \ {i} : j = at[e]
      BY <1>3, <2>1, <2>2
    <3>2. \A f \in sem[j] : runAge'[f] = runAge[f]
      BY <1>1 DEF ExclusiveInv, BatchInv
    <3>3. Paid(j)' \in Int /\ Paid(j) <= Paid(j)'
      BY <3>2, PaidKept DEF ExclusiveInv
    <3>4. Paid(at[e])' = Paid(j)'
      BY <2>1, <3>1 DEF Paid, Work
    <3>5. QED
      BY <2>1, <2>2, <3>1, <3>3, <3>4, AgeKept DEF ExclusiveInv
  <2>3. CASE pc[e] # "waiting"
    BY <2>1, <2>3, AgeKept DEF ExclusiveInv
  <2>4. QED
    BY <2>2, <2>3
<1>7. QED
  BY <1>4, <1>5, <1>6 DEF ExclusiveInv, AgeInv

\* A unit of time: whoever waits sees all slots at work.
LEMMA TickStep ==
    ASSUME TypeOK, ExclusiveInv, Tick
    PROVE  ExclusiveInv'
<1>1. /\ UNCHANGED <<status, claimedBy, pc, at, batch, sem>>
      /\ \A e \in Execs : ~Urgent(e)
      /\ \A e \in Execs : runAge'[e] = IF pc[e] = "running" THEN runAge[e] + 1 ELSE runAge[e]
      /\ \A o \in Ops : claimAge'[o] \in {claimAge[o], claimAge[o] + 1}
  BY DEF Tick, instance
<1>2. BatchInv'
  BY <1>1 DEF ExclusiveInv, BatchInv, Live
<1>3. ExclusiveExecution'
  BY <1>1 DEF ExclusiveInv, ExclusiveExecution, Live
<1>4. ASSUME NEW e \in Execs, Live(e)
      PROVE  /\ claimAge[e[1]] \in Nat /\ claimAge'[e[1]] \in {claimAge[e[1]], claimAge[e[1]] + 1}
             /\ Concurrency * claimAge[e[1]] \in Nat /\ Concurrency * claimAge'[e[1]] \in Nat
             /\ Concurrency * claimAge'[e[1]] <= Concurrency * claimAge[e[1]] + Concurrency
  <2>1. claimAge[e[1]] \in Nat /\ claimAge'[e[1]] \in {claimAge[e[1]], claimAge[e[1]] + 1}
    BY <1>1, Ages
  <2>2. /\ Concurrency * claimAge[e[1]] \in Nat /\ Concurrency \in Nat
        /\ Concurrency * (claimAge[e[1]] + 1) = Concurrency * claimAge[e[1]] + Concurrency
    BY <2>1, Products, ConstantsAssumption
  <2>3. Concurrency * claimAge'[e[1]] \in
          {Concurrency * claimAge[e[1]], Concurrency * claimAge[e[1]] + Concurrency}
    BY <2>1, <2>2
  <2>4. QED
    BY <2>1, <2>2, <2>3
<1>5. ASSUME NEW e \in Execs, pc[e] = "running" PROVE RunBound(e)'
  <2>1. Live(e) /\ runAge[e] \in Nat /\ runAge'[e] = runAge[e] + 1
    BY <1>1, <1>5, Ages DEF Live
  <2>2. Concurrency * claimAge[e[1]] <= ActionTimeout * (Batch - 1) + Concurrency * runAge[e]
    BY <1>5, <2>1 DEF ExclusiveInv, AgeInv, RunBound
  <2>3. /\ Concurrency * runAge[e] \in Nat /\ ActionTimeout * (Batch - 1) \in Int /\ Concurrency \in Nat
        /\ Concurrency * runAge'[e] = Concurrency * runAge[e] + Concurrency
    <3>1. Concurrency \in Nat /\ ActionTimeout \in Nat /\ Batch - 1 \in Int
      BY ConstantsAssumption
    <3>2. QED
      BY <2>1, <3>1, Products
  <2>4. Concurrency * claimAge'[e[1]] <= ActionTimeout * (Batch - 1) + Concurrency * runAge'[e]
    BY <1>4, <2>1, <2>2, <2>3
  <2>5. QED
    BY <2>4 DEF RunBound
<1>6. ASSUME NEW e \in Execs, pc[e] = "waiting" PROVE WaitBound(e)'
  <2>1. Live(e) /\ at[e] \in Instances
    BY <1>6 DEF Live, ExclusiveInv, BatchInv
  <2>2. PICK i \in Instances : i = at[e]
    BY <2>1
  <2>3. /\ IsFiniteSet(sem[i]) /\ Cardinality(sem[i]) \in Nat
        /\ Cardinality(batch[i]) \in Nat /\ Cardinality(Work(i)) \in Nat
    BY PaidType DEF ExclusiveInv
  <2>4. Concurrency \in Nat /\ ~(Cardinality(sem[i]) < Concurrency)
    BY <1>1, <1>6, <2>2, ConstantsAssumption DEF Urgent
  <2>5. ASSUME NEW f \in sem[i] PROVE runAge[f] < ActionTimeout /\ runAge'[f] = runAge[f] + 1
    <3>1. f \in Execs /\ Live(f) /\ pc[f] # "waiting"
      BY DEF ExclusiveInv, BatchInv, TypeOK
    <3>2. pc[f] = "running" /\ ~(runAge[f] >= ActionTimeout)
      BY <1>1, <3>1 DEF Urgent
    <3>3. runAge[f] \in Nat /\ ActionTimeout \in Nat
      BY <3>1, Ages, ConstantsAssumption
    <3>4. QED
      BY <1>1, <3>1, <3>2, <3>3
  <2>6. Cardinality(Work(i)') = Cardinality(Work(i)) + Cardinality(sem[i])
    BY <1>1, <2>3, <2>5, WorkOfTick
  <2>7. Concurrency * claimAge[e[1]] <= ActionTimeout * (Batch - Cardinality(batch[i])) + Cardinality(Work(i))
    BY <1>6, <2>1, <2>2 DEF ExclusiveInv, AgeInv, WaitBound, Paid
  <2>8. ActionTimeout * (Batch - Cardinality(batch[i])) \in Int
    BY <2>3, ConstantsAssumption
  <2>9. Concurrency * claimAge'[e[1]] <= ActionTimeout * (Batch - Cardinality(batch[i])) + Cardinality(Work(i)')
    BY <1>4, <2>1, <2>3, <2>4, <2>6, <2>7, <2>8
  <2>10. Paid(at[e])' = ActionTimeout * (Batch - Cardinality(batch[i])) + Cardinality(Work(i)')
    BY <1>1, <2>2 DEF Paid, Work
  <2>11. QED
    BY <2>9, <2>10 DEF WaitBound
<1>7. \A e \in Execs : Live(e) => pc[e] \in {"waiting", "running"}
  BY <1>1 DEF Urgent
<1>8. QED
  BY <1>1, <1>2, <1>3, <1>5, <1>6, <1>7 DEF ExclusiveInv, AgeInv, Live

\* Where Trigger.Evaluate sends an execution.
LEMMA AnswerType ==
    ASSUME NEW o, NEW i
    PROVE  Answer(o, i) \in {"running", "failed", "requeueLater", "requeueSoon"}
<1>1. CASE o \in TimeOps
  BY <1>1 DEF Answer
<1>2. CASE o \notin TimeOps /\ cache[i] = Miss
  BY <1>2 DEF Answer
<1>3. CASE o \notin TimeOps /\ cache[i] # Miss
  BY <1>3 DEF Answer
<1>4. QED
  BY <1>1, <1>2, <1>3

\* MarkRow is about one row.
LEMMA MarkOther ==
    ASSUME NEW o, NEW s, NEW d, MarkRow(o, s, d) \/ UNCHANGED table, TypeOK
    PROVE  \A p \in Ops \ {o} : /\ status'[p] = status[p] /\ claimedBy'[p] = claimedBy[p]
                                /\ claimAge'[p] = claimAge[p]
BY DEF MarkRow, table, TypeOK

\* Every step keeps it.
LEMMA ExclusiveStep ==
    ASSUME Slack, TypeOK, ExclusiveInv, [Next]_vars
    PROVE  ExclusiveInv'
<1> USE DEF table, session, execution, instance, history
<1>0. \A e \in Execs : Live(e) => e[1] \in Ops /\ status[e[1]] = "RUNNING" /\ e[1] \notin Stale
  BY NotStale DEF ExclusiveInv, ExclusiveExecution, Execs
<1>1. ASSUME NEW o \in Ops, NEW d \in 0..MaxDelay, Create(o, d) PROVE ExclusiveInv'
  BY <1>0, <1>1, TableStep DEF Create, TypeOK
<1>2. ASSUME NEW o \in Ops, Cancel(o) PROVE ExclusiveInv'
  BY <1>0, <1>2, TableStep DEF Cancel, TypeOK
<1>3. ASSUME NEW i \in Instances, ClaimDueReplyLost(i) PROVE ExclusiveInv'
  <2>1. PICK S \in SUBSET Ops : Claimable(S) /\ ClaimRows(i, S)
    BY <1>3 DEF ClaimDueReplyLost
  <2>2. \A o \in S : status[o] = "PENDING"
    BY <2>1 DEF Claimable, Due
  <2>3. \A e \in Execs : Live(e) => e[1] \in Ops \ S
    BY <1>0, <2>2
  <2>4. \A o \in Ops \ S : /\ status'[o] = status[o] /\ claimedBy'[o] = claimedBy[o]
                           /\ claimAge'[o] = claimAge[o]
    BY <2>1 DEF ClaimRows
  <2>5. QED
    BY <1>3, <2>3, <2>4, TableStep DEF ClaimDueReplyLost
<1>4. ASSUME NEW i \in Instances, DropBatch(i) PROVE ExclusiveInv'
  <2>1. /\ Waiting(i) \in SUBSET Execs /\ \A e \in Waiting(i) : at[e] = i
        /\ batch'[i] = batch[i] \ Waiting(i) /\ sem' = sem
        /\ sem[i] \subseteq batch[i] \ Waiting(i)
    BY <1>4 DEF DropBatch, Waiting, TypeOK, ExclusiveInv, BatchInv
  <2>2. \A j \in Instances \ {i} : batch'[j] = batch[j]
    BY <1>4 DEF DropBatch, TypeOK
  <2>3. QED
    BY <1>4, <2>1, <2>2, LeaveStep DEF DropBatch
<1>5. ASSUME ReleaseStaleClaims, UNCHANGED <<execution, batch, sem>> PROVE ExclusiveInv'
  BY <1>0, <1>5, TableStep DEF ReleaseStaleClaims
<1>6. ASSUME UNCHANGED <<table, execution, batch, sem>> PROVE ExclusiveInv'
  BY <1>6, TableStep
<1>7. ASSUME NEW i \in Instances, Loop(i) PROVE ExclusiveInv'
  BY <1>3, <1>4, <1>5, <1>7, ClaimStep, StartStep DEF Loop, Sweep
<1>8. ASSUME NEW i \in Instances, Crash(i) PROVE ExclusiveInv'
  <2> DEFINE G == {e \in Execs : at[e] = i}
  <2>1. /\ pc' = [e \in Execs |-> IF e \in G THEN "none" ELSE pc[e]]
        /\ at' = [e \in Execs |-> IF e \in G THEN None ELSE at[e]]
        /\ runAge' = [e \in Execs |-> IF e \in G THEN 0 ELSE runAge[e]]
        /\ UNCHANGED <<status, claimedBy, claimAge>>
    BY <1>8 DEF Crash
  <2>2. /\ batch'[i] = {} /\ sem'[i] = {}
        /\ \A j \in Instances \ {i} : batch'[j] = batch[j] /\ sem'[j] = sem[j]
    BY <1>8 DEF Crash, TypeOK
  <2>3. Waiting(i) \subseteq G /\ G \in SUBSET Execs /\ \A e \in G : at[e] = i
    BY DEF Waiting, TypeOK, ExclusiveInv, BatchInv
  <2>4. \A e \in Execs \ G : runAge'[e] = runAge[e]
    BY <2>1
  <2> HIDE DEF G
  <2>5. QED
    BY <2>1, <2>2, <2>3, <2>4, LeaveStep
<1>9. ASSUME NEW i \in Instances, Process(i) PROVE ExclusiveInv'
  BY <1>5, <1>6, <1>8, <1>9 DEF Process, Shutdown, Stopped, Boot
<1>10. ASSUME Session PROVE ExclusiveInv'
  BY <1>6, <1>10 DEF Session, Observe, Store, HandleEnded, Fetch, WriteBack, DeleteSession
<1>11. ASSUME NEW e \in Execs, Execution(e) PROVE ExclusiveInv'
  <2>1. CASE Reject(e) \/ Accept(e) \/ Succeed(e) \/ Fail(e)
    <3>1. PICK s \in {"failed", "evaluating", "succeeded"} : Goto(e, s)
      BY <2>1 DEF Reject, Accept, Succeed, Fail
    <3>2. pc[e] \in {"checking", "running"} /\ UNCHANGED <<table, at, runAge, batch, sem>>
      BY <2>1 DEF Reject, Accept, Succeed, Fail
    <3>3. QED
      BY <3>1, <3>2, GotoStep DEF Live
  <2>2. CASE Evaluate(e)
    <3>1. PICK s \in {"running", "failed", "requeueLater", "requeueSoon"} : Goto(e, s)
      BY <2>2, AnswerType DEF Evaluate
    <3>2. pc[e] = "evaluating" /\ UNCHANGED <<table, at, runAge, batch, sem>>
      BY <2>2 DEF Evaluate
    <3>3. QED
      BY <3>1, <3>2, GotoStep DEF Live
  <2>3. CASE Abandon(e)
    BY <2>3, FinishStep DEF Abandon, Live
  <2>4. CASE Requeue(e)
    <3>1. \E d : MarkRow(e[1], "PENDING", d) \/ UNCHANGED table
      BY <2>4 DEF Requeue
    <3>2. QED
      BY <2>4, <3>1, MarkOther, FinishStep DEF Requeue, Live
  <2>5. CASE MarkSucceeded(e) \/ MarkFailed(e)
    <3>1. \E s, d : MarkRow(e[1], s, d) \/ UNCHANGED table
      BY <2>5 DEF MarkSucceeded, MarkFailed, Persist
    <3>2. Finish(e) /\ Live(e) /\ pc[e] # "waiting"
      BY <2>5 DEF MarkSucceeded, MarkFailed, Persist, Live
    <3>3. QED
      BY <3>1, <3>2, MarkOther, FinishStep
  <2>6. QED
    BY <1>11, <2>1, <2>2, <2>3, <2>4, <2>5 DEF Execution
<1>12. CASE UNCHANGED vars
  BY <1>6, <1>12 DEF vars
<1>13. QED
  BY <1>1, <1>2, <1>7, <1>9, <1>10, <1>11, <1>12, TickStep DEF Next

\* Nothing is claimed and nobody works at first.
LEMMA ExclusiveInit == Init => ExclusiveInv
<1> SUFFICES ASSUME Init PROVE ExclusiveInv
  OBVIOUS
<1>1. \A i \in Instances : batch[i] = {} /\ sem[i] = {}
  BY DEF Init
<1>2. \A e \in Execs : ~Live(e)
  BY DEF Init, Live
<1>3. IsFiniteSet({}) /\ Cardinality({}) = 0 /\ 0 <= Batch
  BY FS_EmptySet, ConstantsAssumption
<1>4. BatchInv
  BY <1>1, <1>2, <1>3 DEF BatchInv, Live
<1>5. QED
  BY <1>2, <1>4 DEF ExclusiveInv, AgeInv, ExclusiveExecution

\* While an execution works on an operation its row stays claimed by its instance, and no
\* other execution works on it: no sweep takes a claim that a member of a batch, however
\* late it was started, still relies on.
THEOREM ExclusiveTheorem == Slack => (Spec => []ExclusiveExecution)
<1> SUFFICES ASSUME Slack PROVE Spec => []ExclusiveExecution
  OBVIOUS
<1>1. TypeOK /\ ExclusiveInv /\ [Next]_vars => ExclusiveInv'
  BY ExclusiveStep
<1>2. ExclusiveInv => ExclusiveExecution
  BY DEF ExclusiveInv
<1>3. QED
  BY <1>1, <1>2, TypeCorrect, ExclusiveInit, PTL DEF Spec

--------------------------------------------------------------------------------
(* One effect for each result *)

\* An action that took effect leaves a trace: the execution that will store the result,
\* the stored result, or the note that it was not stored.
DidInv == \A e \in Execs : did[e] => pc[e] \in {"succeeded", "failed"}
EffectInv ==
    \A o \in Ops : effects[o] > 0 =>
        \/ o \in unsaved
        \/ status[o] \in {"SUCCEEDED", "FAILED"}
        \/ \E e \in Execs : e[1] = o /\ did[e]
SavedInv == DidInv /\ EffectInv /\ RepeatedOnlyIfUnsaved

\* Steps that have no effect, and end no execution that had one.
LEMMA SavedKept ==
    ASSUME TypeOK, [Next]_vars, SavedInv, UNCHANGED <<did, effects, unsaved>>,
           \A e \in Execs : did[e] => pc'[e] = pc[e]
    PROVE  SavedInv'
<1>1. DidInv'
  BY DEF SavedInv, DidInv
<1>2. EffectInv'
  <2>1. \A o \in Ops : status[o] \in {"SUCCEEDED", "FAILED"} => status'[o] = status[o]
    BY FinishedStep DEF Terminal
  <2>2. QED
    BY <2>1 DEF SavedInv, EffectInv
<1>3. QED
  BY <1>1, <1>2 DEF SavedInv, RepeatedOnlyIfUnsaved

\* The action of e takes effect: nothing that was not lost had an effect before.
LEMMA EffectStep ==
    ASSUME TypeOK, [Next]_vars, ExclusiveExecution, SavedInv, NEW e \in Execs, pc[e] = "running",
           NEW s \in {"succeeded", "failed"}, Goto(e, s), did' = [did EXCEPT ![e] = TRUE],
           Bump(e[1]), unsaved' = unsaved
    PROVE  SavedInv'
<1>1. e[1] \in Ops /\ status[e[1]] = "RUNNING"
  BY DEF ExclusiveExecution, Live, Execs
<1>2. \A f \in Execs : did[f] => f[1] # e[1]
  BY DEF ExclusiveExecution, Live, SavedInv, DidInv
<1>3. effects[e[1]] > 0 => e[1] \in unsaved
  BY <1>1, <1>2 DEF SavedInv, EffectInv
<1>4. did'[e] /\ \A f \in Execs \ {e} : did'[f] = did[f]
  BY DEF TypeOK
<1>5. pc'[e] = s /\ \A f \in Execs \ {e} : pc'[f] = pc[f]
  BY DEF TypeOK, Goto
<1>6. DidInv'
  BY <1>4, <1>5 DEF SavedInv, DidInv
<1>7. \A o \in Ops \ {e[1]} : effects'[o] = effects[o]
  BY DEF Bump, TypeOK
<1>8. EffectInv'
  <2> SUFFICES ASSUME NEW o \in Ops, effects'[o] > 0
               PROVE  \/ o \in unsaved
                      \/ status'[o] \in {"SUCCEEDED", "FAILED"}
                      \/ \E f \in Execs : f[1] = o /\ did'[f]
    BY DEF EffectInv
  <2>1. CASE o = e[1]
    BY <1>4, <2>1
  <2>2. CASE o # e[1]
    <3>1. status[o] \in {"SUCCEEDED", "FAILED"} => status'[o] = status[o]
      BY FinishedStep DEF Terminal
    <3>2. \/ o \in unsaved
          \/ status[o] \in {"SUCCEEDED", "FAILED"}
          \/ \E f \in Execs : f[1] = o /\ did[f]
      BY <1>7, <2>2 DEF SavedInv, EffectInv
    <3>3. QED
      BY <1>4, <2>2, <3>1, <3>2
  <2>3. QED
    BY <2>1, <2>2
<1>9. RepeatedOnlyIfUnsaved'
  <2>1. effects[e[1]] \in 0..2 /\ effects'[e[1]] = IF effects[e[1]] = 2 THEN 2 ELSE effects[e[1]] + 1
    BY <1>1 DEF Bump, TypeOK
  <2>2. effects'[e[1]] > 1 => effects[e[1]] > 0
    BY <2>1
  <2>3. QED
    BY <1>3, <1>7, <2>2 DEF SavedInv, RepeatedOnlyIfUnsaved
<1>10. QED
  BY <1>6, <1>8, <1>9 DEF SavedInv

\* Executions G vanish; those of them with an effect have stored their result, or it is
\* noted that they have not.
LEMMA ForgetStep ==
    ASSUME TypeOK, [Next]_vars, SavedInv, NEW G \in SUBSET Execs,
           \A e \in Execs \ G : pc'[e] = pc[e] /\ did'[e] = did[e],
           \A e \in G : did'[e] = FALSE,
           \A e \in G : did[e] => e[1] \in unsaved' \/ status'[e[1]] \in {"SUCCEEDED", "FAILED"},
           effects' = effects, unsaved \subseteq unsaved'
    PROVE  SavedInv'
<1>1. DidInv'
  BY DEF SavedInv, DidInv
<1>2. EffectInv'
  <2> SUFFICES ASSUME NEW o \in Ops, effects[o] > 0
               PROVE  \/ o \in unsaved'
                      \/ status'[o] \in {"SUCCEEDED", "FAILED"}
                      \/ \E e \in Execs : e[1] = o /\ did'[e]
    BY DEF EffectInv
  <2>1. status[o] \in {"SUCCEEDED", "FAILED"} => status'[o] = status[o]
    BY FinishedStep DEF Terminal
  <2>2. CASE \E e \in Execs : e[1] = o /\ did[e]
    <3>1. PICK e \in Execs : e[1] = o /\ did[e]
      BY <2>2
    <3>2. QED
      BY <3>1
  <2>3. QED
    BY <2>1, <2>2 DEF SavedInv, EffectInv
<1>3. QED
  BY <1>1, <1>2 DEF SavedInv, RepeatedOnlyIfUnsaved

\* Every step keeps the trace.
LEMMA SavedStep ==
    ASSUME TypeOK, ExclusiveExecution, SavedInv, [Next]_vars
    PROVE  SavedInv'
<1> USE DEF table, session, execution, instance, history
<1>0. \A e \in Execs : /\ did[e] => pc[e] \in {"succeeded", "failed"}
                       /\ Live(e) => status[e[1]] = "RUNNING"
                       /\ e[1] \in Ops
  BY DEF SavedInv, DidInv, ExclusiveExecution, Execs
<1>1. ASSUME UNCHANGED <<pc, did, effects, unsaved>> PROVE SavedInv'
  BY <1>1, SavedKept
<1>2. ASSUME NEW i \in Instances, ClaimDue(i) PROVE SavedInv'
  <2>1. PICK S \in SUBSET Ops :
          pc' = [e \in Execs |-> IF e \in Claimed(S) THEN "waiting" ELSE pc[e]]
    BY <1>2 DEF ClaimDue
  <2>2. \A e \in Claimed(S) : ~Live(e)
    <3>1. \A e \in Execs : e = <<e[1], e[2]>>
      BY DEF Execs
    <3>2. QED
      BY <3>1 DEF Claimed, Fresh
  <2>3. \A e \in Execs : did[e] => pc'[e] = pc[e]
    BY <1>0, <2>1, <2>2 DEF Live
  <2>4. QED
    BY <1>2, <2>3, SavedKept DEF ClaimDue
<1>3. ASSUME NEW i \in Instances, NEW e \in Execs, StartOne(i, e) PROVE SavedInv'
  <2>1. pc[e] = "waiting" /\ \A f \in Execs \ {e} : pc'[f] = pc[f]
    BY <1>3 DEF StartOne, Waiting, TypeOK
  <2>2. QED
    BY <1>0, <1>3, <2>1, SavedKept DEF StartOne
<1>4. ASSUME NEW i \in Instances, DropBatch(i) PROVE SavedInv'
  <2>1. \A e \in Execs : did[e] => pc'[e] = pc[e]
    BY <1>0, <1>4 DEF DropBatch, Waiting
  <2>2. QED
    BY <1>4, <2>1, SavedKept DEF DropBatch
<1>5. ASSUME NEW i \in Instances, Loop(i) PROVE SavedInv'
  BY <1>1, <1>2, <1>3, <1>4, <1>5 DEF Loop, ClaimDueReplyLost, Sweep
<1>6. ASSUME NEW i \in Instances, Crash(i) PROVE SavedInv'
  <2> DEFINE G == {e \in Execs : at[e] = i}
  <2>1. /\ pc' = [e \in Execs |-> IF e \in G THEN "none" ELSE pc[e]]
        /\ did' = [e \in Execs |-> IF e \in G THEN FALSE ELSE did[e]]
        /\ unsaved' = unsaved \cup {e[1] : e \in {f \in G : did[f]}}
        /\ effects' = effects
    BY <1>6 DEF Crash
  <2> HIDE DEF G
  <2>2. G \in SUBSET Execs
    BY DEF G
  <2>3. \A e \in Execs \ G : pc'[e] = pc[e] /\ did'[e] = did[e]
    BY <2>1
  <2>4. \A e \in G : did'[e] = FALSE
    BY <2>1, <2>2
  <2>5. \A e \in G : did[e] => e[1] \in unsaved'
    BY <2>1
  <2>6. QED
    BY <2>1, <2>2, <2>3, <2>4, <2>5, ForgetStep
<1>7. ASSUME NEW i \in Instances, Process(i) PROVE SavedInv'
  BY <1>1, <1>6, <1>7 DEF Process, Shutdown, Stopped, Boot
<1>8. ASSUME NEW e \in Execs, Finish(e), effects' = effects, unsaved \subseteq unsaved',
             did[e] => e[1] \in unsaved' \/ status'[e[1]] \in {"SUCCEEDED", "FAILED"}
      PROVE  SavedInv'
  <2>1. \A f \in Execs \ {e} : pc'[f] = pc[f] /\ did'[f] = did[f]
    BY <1>8 DEF Finish, Goto, TypeOK
  <2>2. did'[e] = FALSE
    BY <1>8 DEF Finish, TypeOK
  <2> DEFINE G == {e}
  <2>3. G \in SUBSET Execs /\ \A f \in Execs : f \in G <=> f = e
    OBVIOUS
  <2> HIDE DEF G
  <2>4. QED
    BY <1>8, <2>1, <2>2, <2>3, ForgetStep
<1>9. ASSUME NEW e \in Execs, Execution(e) PROVE SavedInv'
  <2>1. CASE Reject(e) \/ Accept(e) \/ Evaluate(e)
    <3>1. /\ pc[e] \in {"checking", "evaluating"} /\ \A f \in Execs \ {e} : pc'[f] = pc[f]
          /\ UNCHANGED <<did, effects, unsaved>>
      BY <2>1 DEF Reject, Accept, Evaluate, Goto, TypeOK
    <3>2. QED
      BY <1>0, <3>1, SavedKept
  <2>2. CASE Abandon(e) \/ Requeue(e)
    <3>1. ~did[e] /\ Finish(e) /\ UNCHANGED <<effects, unsaved>>
      BY <1>0, <2>2 DEF Abandon, Requeue
    <3>2. QED
      BY <1>8, <3>1
  <2>3. CASE Succeed(e)
    BY <2>3, EffectStep DEF Succeed
  <2>4. CASE Fail(e)
    <3>1. CASE did' = [did EXCEPT ![e] = TRUE] /\ Bump(e[1])
      BY <2>4, <3>1, EffectStep DEF Fail
    <3>2. CASE UNCHANGED <<did, effects>>
      <4>1. pc[e] = "running" /\ \A f \in Execs \ {e} : pc'[f] = pc[f]
        BY <2>4 DEF Fail, Goto, TypeOK
      <4>2. QED
        BY <1>0, <2>4, <3>2, <4>1, SavedKept DEF Fail
    <3>3. QED
      BY <2>4, <3>1, <3>2 DEF Fail
  <2>5. ASSUME NEW s \in {"SUCCEEDED", "FAILED"}, Persist(e, s), Live(e) PROVE SavedInv'
    <3>1. Finish(e) /\ effects' = effects /\ unsaved \subseteq unsaved'
      BY <2>5 DEF Persist
    <3>2. did[e] => e[1] \in unsaved' \/ status'[e[1]] = s
      <4>1. MarkRow(e[1], s, due[e[1]]) => status'[e[1]] = s
        BY <1>0, <2>5 DEF MarkRow, TypeOK
      <4>2. QED
        BY <2>5, <4>1 DEF Persist
    <3>3. QED
      BY <1>8, <3>1, <3>2
  <2>6. CASE MarkSucceeded(e) \/ MarkFailed(e)
    BY <2>5, <2>6 DEF MarkSucceeded, MarkFailed, Live
  <2>7. QED
    BY <1>9, <2>1, <2>2, <2>3, <2>4, <2>6 DEF Execution
<1>10. ASSUME Session \/ Tick \/ UNCHANGED vars PROVE SavedInv'
  BY <1>1, <1>10 DEF Session, Observe, Store, HandleEnded, Fetch, WriteBack, DeleteSession, Tick, vars
<1>11. ASSUME NEW o \in Ops, Cancel(o) \/ \E d \in 0..MaxDelay : Create(o, d) PROVE SavedInv'
  BY <1>1, <1>11 DEF Cancel, Create
<1>12. QED
  BY <1>5, <1>7, <1>9, <1>10, <1>11 DEF Next

\* Nothing has had an effect at first.
LEMMA SavedInit == Init => SavedInv
BY DEF Init, SavedInv, DidInv, EffectInv, RepeatedOnlyIfUnsaved

\* An action takes effect a second time only if the first result could not be stored.
THEOREM RepeatTheorem == Slack => (Spec => []RepeatedOnlyIfUnsaved)
<1> SUFFICES ASSUME Slack PROVE Spec => []RepeatedOnlyIfUnsaved
  OBVIOUS
<1>1. TypeOK /\ ExclusiveExecution /\ SavedInv /\ [Next]_vars => SavedInv'
  BY SavedStep
<1>2. SavedInv => RepeatedOnlyIfUnsaved
  BY DEF SavedInv
<1>3. QED
  BY <1>1, <1>2, TypeCorrect, ExclusiveTheorem, SavedInit, PTL DEF Spec

\* An operation that Cancel marked CANCELED is not executed, and was not, unless an
\* earlier execution could not store its result.
THEOREM CanceledTheorem == Slack => (Spec => []CanceledIsNotDone)
<1> SUFFICES ASSUME Slack PROVE Spec => []CanceledIsNotDone
  OBVIOUS
<1>1. TypeOK /\ ExclusiveExecution /\ SavedInv /\ [Next]_vars => SavedInv'
  BY SavedStep
<1>2. ExclusiveExecution /\ SavedInv => CanceledIsNotDone
  BY DEF SavedInv, DidInv, EffectInv, ExclusiveExecution, CanceledIsNotDone, Live
<1>3. QED
  BY <1>1, <1>2, TypeCorrect, ExclusiveTheorem, SavedInit, PTL DEF Spec

--------------------------------------------------------------------------------
(* The abstract queue *)

\* The abstract state of an operation, case by case.
Seen(o) ==
    /\ status[o] = "ABSENT" => QueueState[o] = "absent"
    /\ status[o] = "PENDING" => QueueState[o] = "waiting"
    /\ status[o] \in Terminal => QueueState[o] = "finished"
    /\ status[o] = "RUNNING" /\ HasActed(o) => QueueState[o] = "acted"
    /\ status[o] = "RUNNING" /\ WorkedOn(o) /\ ~HasActed(o) => QueueState[o] = "held"
    /\ status[o] = "RUNNING" /\ ~WorkedOn(o) => QueueState[o] = "orphaned"
    /\ HasActed(o) => WorkedOn(o)

\* QueueState is what Seen says, before a step and after it.
LEMMA SeenNow == (\A o \in Ops : Seen(o)) /\ (\A o \in Ops : Seen(o)')
<1>1. ASSUME NEW o \in Ops PROVE Seen(o)
  BY DEF Seen, QueueState, StateOf, HasActed, WorkedOn, Terminal
<1>2. ASSUME NEW o \in Ops PROVE Seen(o)'
  BY DEF Seen, QueueState, StateOf, HasActed, WorkedOn, Terminal
<1>3. QED
  BY <1>1, <1>2

\* A step that leaves the row and the executions of an operation alone is not seen.
LEMMA NotSeen ==
    ASSUME TypeOK, NEW o \in Ops, status'[o] = status[o],
           \A e \in Execs : e[1] = o => (Live(e)' <=> Live(e)) /\ (did'[e] <=> did[e])
    PROVE  QueueState'[o] = QueueState[o]
<1>1. (WorkedOn(o)' <=> WorkedOn(o)) /\ (HasActed(o)' <=> HasActed(o))
  BY DEF WorkedOn, HasActed
<1>2. Seen(o) /\ Seen(o)' /\ status[o] \in Statuses
  BY SeenNow DEF TypeOK
<1>3. QED
  BY <1>1, <1>2 DEF Seen, Statuses, Terminal

\* A step that no operation is seen to take part in is a stuttering step of the queue.
LEMMA Stutter ==
    ASSUME TypeOK, status' = status,
           \A e \in Execs : (Live(e)' <=> Live(e)) /\ (did'[e] <=> did[e])
    PROVE  QueueState' = QueueState
<1>1. \A o \in Ops : QueueState'[o] = QueueState[o]
  BY NotSeen
<1>2. QueueState = [o \in Ops |-> QueueState[o]] /\ QueueState' = [o \in Ops |-> QueueState'[o]]
  BY DEF QueueState
<1>3. QED
  BY <1>1, <1>2

\* What has to be shown of a step that moves the operations S.
LEMMA Moves ==
    ASSUME NEW S \in SUBSET Ops, NEW from, NEW to,
           \A o \in S : QueueState[o] \in from /\ QueueState'[o] = to,
           \A o \in Ops \ S : QueueState'[o] = QueueState[o]
    PROVE  Queue!Move(S, from, to)
<1>1. QueueState' = [o \in Ops |-> QueueState'[o]]
  BY DEF QueueState
<1>2. QueueState' = [o \in Ops |-> IF o \in S THEN to ELSE QueueState[o]]
  BY <1>1
<1>3. QED
  BY <1>2 DEF Queue!Move

\* Who works on an operation is seen.
LEMMA WorkerSeen ==
    ASSUME ExclusiveExecution, SavedInv, NEW e \in Execs, Live(e)
    PROVE  /\ e[1] \in Ops /\ status[e[1]] = "RUNNING"
           /\ QueueState[e[1]] = IF did[e] THEN "acted" ELSE "held"
<1>1. e[1] \in Ops /\ status[e[1]] = "RUNNING" /\ WorkedOn(e[1])
  BY DEF ExclusiveExecution, WorkedOn, Execs
<1>2. HasActed(e[1]) <=> did[e]
  BY DEF ExclusiveExecution, HasActed
<1>3. QED
  BY <1>1, <1>2, SeenNow DEF Seen

\* Executions that end without a result leave their operations behind.
LEMMA VanishStep ==
    ASSUME TypeOK, ExclusiveExecution, SavedInv, status' = status, NEW G \in SUBSET Execs,
           \A e \in G : Live(e) /\ ~Live(e)',
           \A e \in Execs \ G : (Live(e)' <=> Live(e)) /\ (did'[e] <=> did[e])
    PROVE  Queue!Next
<1> DEFINE S == {o \in Ops : \E e \in G : e[1] = o}
<1>1. ASSUME NEW o \in S PROVE QueueState[o] \in {"held", "acted"} /\ QueueState'[o] = "orphaned"
  <2>1. PICK e \in G : e[1] = o
    BY <1>1
  <2>2. o \in Ops /\ status'[o] = "RUNNING" /\ QueueState[o] \in {"held", "acted"}
    BY <2>1, WorkerSeen
  <2>3. \A f \in Execs : f[1] = o => ~Live(f)'
    BY <2>1 DEF ExclusiveExecution
  <2>4. ~WorkedOn(o)'
    BY <2>3 DEF WorkedOn
  <2>5. QED
    BY <2>2, <2>4, SeenNow DEF Seen
<1>2. \A o \in Ops \ S : QueueState'[o] = QueueState[o]
  BY NotSeen
<1>3. S \in SUBSET Ops
  OBVIOUS
<1> HIDE DEF S
<1>4. Queue!Move(S, {"held", "acted"}, "orphaned")
  BY <1>1, <1>2, <1>3, Moves
<1>5. QED
  BY <1>3, <1>4 DEF Queue!Next, Queue!Vanish

\* An execution ends: its row is put back before its action had an effect, or finished,
\* or left behind.
LEMMA EndStep ==
    ASSUME TypeOK, ExclusiveExecution, SavedInv, NEW e \in Execs, Live(e), Finish(e),
           NEW s, NEW d, s \in {"SUCCEEDED", "FAILED"} \/ (s = "PENDING" /\ ~did[e]),
           MarkRow(e[1], s, d) \/ UNCHANGED table
    PROVE  Queue!Next
<1>1. /\ e[1] \in Ops /\ status[e[1]] = "RUNNING"
      /\ QueueState[e[1]] = IF did[e] THEN "acted" ELSE "held"
  BY WorkerSeen
<1>2. /\ ~Live(e)'
      /\ \A f \in Execs \ {e} : (Live(f)' <=> Live(f)) /\ (did'[f] <=> did[f])
  BY DEF Finish, Goto, Live, TypeOK
<1>3. CASE UNCHANGED table
  <2> DEFINE G == {e}
  <2>1. G \in SUBSET Execs /\ \A f \in Execs : f \in G <=> f = e
    OBVIOUS
  <2> HIDE DEF G
  <2>2. QED
    BY <1>2, <1>3, <2>1, VanishStep DEF table
<1>4. CASE MarkRow(e[1], s, d)
  <2>1. status'[e[1]] = s /\ \A o \in Ops \ {e[1]} : status'[o] = status[o]
    BY <1>1, <1>4 DEF MarkRow, TypeOK
  <2>2. \A o \in Ops \ {e[1]} : QueueState'[o] = QueueState[o]
    BY <1>2, <2>1, NotSeen
  <2>3. CASE s = "PENDING" /\ ~did[e]
    <3>1. QueueState[e[1]] = "held" /\ QueueState'[e[1]] = "waiting"
      BY <1>1, <2>1, <2>3, SeenNow DEF Seen
    <3>2. Queue!Move({e[1]}, {"held"}, "waiting")
      BY <1>1, <2>2, <3>1, Moves
    <3>3. QED
      BY <1>1, <3>2 DEF Queue!Next, Queue!PutBack
  <2>4. CASE s \in {"SUCCEEDED", "FAILED"}
    <3>1. QueueState[e[1]] \in {"held", "acted"} /\ QueueState'[e[1]] = "finished"
      BY <1>1, <2>1, <2>4, SeenNow DEF Seen, Terminal
    <3>2. Queue!Move({e[1]}, {"held", "acted"}, "finished")
      BY <1>1, <2>2, <3>1, Moves
    <3>3. QED
      BY <1>1, <3>2 DEF Queue!Next, Queue!Finish
  <2>5. QED
    BY <2>3, <2>4
<1>5. QED
  BY <1>3, <1>4

\* The rows of a claim are taken, or orphaned when nobody learns of the claim.
LEMMA TakeStep ==
    ASSUME TypeOK, ExclusiveExecution, SavedInv, NEW i \in Instances, NEW S \in SUBSET Ops,
           Claimable(S), ClaimRows(i, S), did' = did,
           \/ pc' = pc
           \/ HasRoom(S) /\ pc' = [e \in Execs |-> IF e \in Claimed(S) THEN "waiting" ELSE pc[e]]
    PROVE  Queue!Next
<1>1. \A o \in S : status[o] = "PENDING"
  BY DEF Claimable, Due
<1>2. \A e \in Execs : Live(e) => e[1] \notin S
  BY <1>1 DEF ExclusiveExecution
<1>3. \A o \in Ops : status'[o] = IF o \in S THEN "RUNNING" ELSE status[o]
  BY DEF ClaimRows
<1>4. \A e \in Execs : e[1] \notin S => pc'[e] = pc[e]
  BY DEF Claimed
<1>5. \A o \in Ops \ S : QueueState'[o] = QueueState[o]
  BY <1>3, <1>4, NotSeen DEF Live
<1>6. \A o \in S : QueueState[o] = "waiting"
  BY <1>1, SeenNow DEF Seen
<1>7. CASE pc' = pc
  <2>1. ASSUME NEW o \in S PROVE QueueState'[o] = "orphaned"
    <3>1. ~WorkedOn(o)' /\ status'[o] = "RUNNING"
      BY <1>2, <1>3, <1>7 DEF WorkedOn, Live
    <3>2. QED
      BY <3>1, SeenNow DEF Seen
  <2>2. Queue!Move(S, {"waiting"}, "orphaned")
    BY <1>5, <1>6, <2>1, Moves
  <2>3. QED
    BY <2>2 DEF Queue!Next, Queue!TakeUnanswered
<1>8. CASE HasRoom(S) /\ pc' = [e \in Execs |-> IF e \in Claimed(S) THEN "waiting" ELSE pc[e]]
  <2>1. ASSUME NEW o \in S PROVE QueueState'[o] = "held"
    <3>1. PICK k \in 1..MaxOverlap : Fresh(o, k)
      BY <1>8 DEF HasRoom
    <3>2. <<o, k>> \in Execs /\ <<o, k>> \in Claimed(S)
      BY <3>1 DEF Claimed, Execs
    <3>3. pc'[<<o, k>>] = "waiting"
      BY <1>8, <3>2
    <3>4. WorkedOn(o)'
      BY <3>2, <3>3 DEF WorkedOn, Live
    <3>5. \A e \in Execs : e[1] = o => ~did[e]
      BY <1>2 DEF SavedInv, DidInv, Live
    <3>6. ~HasActed(o)'
      BY <3>5 DEF HasActed
    <3>7. status'[o] = "RUNNING"
      BY <1>3
    <3>8. QED
      BY <3>4, <3>6, <3>7, SeenNow DEF Seen
  <2>2. Queue!Move(S, {"waiting"}, "held")
    BY <1>5, <1>6, <2>1, Moves
  <2>3. QED
    BY <2>2 DEF Queue!Next, Queue!Take
<1>9. QED
  BY <1>7, <1>8

\* An action takes effect.
LEMMA ActStep ==
    ASSUME TypeOK, ExclusiveExecution, SavedInv, NEW e \in Execs, pc[e] = "running",
           NEW s \in {"succeeded", "failed"}, Goto(e, s), status' = status,
           did' = [did EXCEPT ![e] = TRUE]
    PROVE  Queue!Next
<1>1. Live(e) /\ ~did[e]
  BY DEF Live, SavedInv, DidInv
<1>2. e[1] \in Ops /\ status[e[1]] = "RUNNING" /\ QueueState[e[1]] = "held"
  BY <1>1, WorkerSeen
<1>3. /\ Live(e)' /\ did'[e]
      /\ \A f \in Execs \ {e} : (Live(f)' <=> Live(f)) /\ (did'[f] <=> did[f])
  BY DEF Goto, Live, TypeOK
<1>4. \A o \in Ops \ {e[1]} : QueueState'[o] = QueueState[o]
  BY <1>3, NotSeen
<1>5. HasActed(e[1])'
  BY <1>3 DEF HasActed
<1>6. QueueState'[e[1]] = "acted"
  BY <1>2, <1>5, SeenNow DEF Seen
<1>7. Queue!Move({e[1]}, {"held"}, "acted")
  BY <1>2, <1>4, <1>6, Moves
<1>8. QED
  BY <1>2, <1>7 DEF Queue!Next, Queue!Act

\* Every step of the executors and of Cancel is a step of the queue or is not seen.
LEMMA QueueStep ==
    ASSUME Slack, TypeOK, ExclusiveInv, SavedInv, [Next]_vars
    PROVE  Queue!Next \/ QueueState' = QueueState
<1> USE DEF table, session, execution, instance, history
<1>a. ExclusiveExecution
  BY DEF ExclusiveInv
<1>1. ASSUME NEW o \in Ops, NEW d \in 0..MaxDelay, Create(o, d) PROVE Queue!Next
  <2>1. QueueState[o] = "absent" /\ QueueState'[o] = "waiting"
    BY <1>1, SeenNow DEF Seen, Create, TypeOK
  <2>2. \A p \in Ops \ {o} : QueueState'[p] = QueueState[p]
    BY <1>1, NotSeen DEF Create, TypeOK, Live
  <2>3. Queue!Move({o}, {"absent"}, "waiting")
    BY <2>1, <2>2, Moves
  <2>4. QED
    BY <2>3 DEF Queue!Next, Queue!Submit
<1>2. ASSUME NEW o \in Ops, Cancel(o) PROVE Queue!Next
  <2>1. QueueState[o] = "waiting" /\ QueueState'[o] = "finished"
    BY <1>2, SeenNow DEF Seen, Cancel, TypeOK, Terminal
  <2>2. \A p \in Ops \ {o} : QueueState'[p] = QueueState[p]
    BY <1>2, NotSeen DEF Cancel, TypeOK, Live
  <2>3. Queue!Move({o}, {"waiting"}, "finished")
    BY <2>1, <2>2, Moves
  <2>4. QED
    BY <2>3 DEF Queue!Next, Queue!Withdraw
<1>3. ASSUME NEW i \in Instances, ClaimDue(i) \/ ClaimDueReplyLost(i) PROVE Queue!Next
  <2>1. PICK S \in SUBSET Ops :
          /\ Claimable(S) /\ ClaimRows(i, S) /\ did' = did
          /\ \/ pc' = pc
             \/ HasRoom(S) /\ pc' = [e \in Execs |-> IF e \in Claimed(S) THEN "waiting" ELSE pc[e]]
    BY <1>3 DEF ClaimDue, ClaimDueReplyLost
  <2>2. QED
    BY <1>a, <2>1, TakeStep
<1>4. ASSUME status' = status, \A e \in Execs : (Live(e)' <=> Live(e)) /\ (did'[e] <=> did[e])
      PROVE  QueueState' = QueueState
  BY <1>4, Stutter
<1>5. ASSUME NEW i \in Instances, NEW e \in Execs, StartOne(i, e) PROVE QueueState' = QueueState
  <2>1. \A f \in Execs : Live(f)' <=> Live(f)
    BY <1>5 DEF StartOne, Waiting, Live, TypeOK
  <2>2. QED
    BY <1>4, <1>5, <2>1 DEF StartOne
<1>6. ASSUME NEW i \in Instances, DropBatch(i) PROVE Queue!Next
  <2>1. Waiting(i) \in SUBSET Execs
    BY DEF Waiting, TypeOK
  <2>2. /\ \A e \in Waiting(i) : Live(e) /\ ~Live(e)'
        /\ \A e \in Execs \ Waiting(i) : Live(e)' <=> Live(e)
    BY <1>6, <2>1 DEF DropBatch, Waiting, Live
  <2>3. status' = status /\ did' = did
    BY <1>6 DEF DropBatch
  <2>4. QED
    BY <1>a, <2>1, <2>2, <2>3, VanishStep
<1>7. ASSUME ReleaseStaleClaims, UNCHANGED <<pc, did>> PROVE Queue!Next
  <2>1. Stale \in SUBSET Ops
    BY DEF Stale
  <2>2. \A e \in Execs : Live(e) => e[1] \notin Stale
    BY NotStale DEF ExclusiveInv
  <2>3. \A o \in Stale : status[o] = "RUNNING" /\ ~WorkedOn(o) /\ status'[o] = "PENDING"
    BY <1>7, <2>2 DEF WorkedOn, ReleaseStaleClaims, Stale
  <2>4. \A o \in Stale : QueueState[o] = "orphaned" /\ QueueState'[o] = "waiting"
    BY <2>1, <2>3, SeenNow DEF Seen
  <2>5. \A o \in Ops \ Stale : QueueState'[o] = QueueState[o]
    BY <1>7, NotSeen DEF ReleaseStaleClaims, Live
  <2>6. Queue!Move(Stale, {"orphaned"}, "waiting")
    BY <2>1, <2>4, <2>5, Moves
  <2>7. QED
    BY <2>1, <2>6 DEF Queue!Next, Queue!Release
<1>8. ASSUME UNCHANGED <<status, pc, did>> PROVE QueueState' = QueueState
  BY <1>4, <1>8 DEF Live
<1>9. ASSUME NEW i \in Instances, Loop(i) PROVE Queue!Next \/ QueueState' = QueueState
  BY <1>3, <1>5, <1>6, <1>7, <1>9 DEF Loop, Sweep
<1>10. ASSUME NEW i \in Instances, Crash(i) PROVE Queue!Next
  <2> DEFINE G == {e \in Execs : at[e] = i /\ Live(e)}
  <2>1. status' = status /\ G \in SUBSET Execs
    BY <1>10 DEF Crash
  <2>2. \A e \in G : Live(e) /\ ~Live(e)'
    BY <1>10 DEF Crash, Live
  <2>3. \A e \in Execs \ G : Live(e)' <=> Live(e)
    BY <1>10 DEF Crash, Live
  <2>4. \A e \in Execs \ G : did'[e] <=> did[e]
    <3>1. \A e \in Execs : did'[e] = IF at[e] = i THEN FALSE ELSE did[e]
      BY <1>10 DEF Crash
    <3>2. \A e \in Execs : did[e] => Live(e)
      BY DEF SavedInv, DidInv, Live
    <3>3. QED
      BY <3>1, <3>2
  <2> HIDE DEF G
  <2>5. QED
    BY <1>a, <2>1, <2>2, <2>3, <2>4, VanishStep
<1>11. ASSUME NEW i \in Instances, Process(i) PROVE Queue!Next \/ QueueState' = QueueState
  BY <1>7, <1>8, <1>10, <1>11 DEF Process, Shutdown, Stopped, Boot
<1>12. ASSUME NEW e \in Execs, pc[e] \in {"checking", "evaluating", "running"}, NEW s, s # "none",
              Goto(e, s), UNCHANGED <<status, did>>
       PROVE  QueueState' = QueueState
  <2>1. \A f \in Execs : Live(f)' <=> Live(f)
    BY <1>12 DEF Goto, Live, TypeOK
  <2>2. QED
    BY <1>4, <1>12, <2>1
<1>13. ASSUME NEW e \in Execs, Execution(e) PROVE Queue!Next \/ QueueState' = QueueState
  <2>1. CASE Reject(e) \/ Accept(e)
    BY <1>12, <2>1 DEF Reject, Accept
  <2>2. CASE Evaluate(e)
    <3>1. PICK s \in {"running", "failed", "requeueLater", "requeueSoon"} : Goto(e, s)
      BY <2>2, AnswerType DEF Evaluate
    <3>2. QED
      BY <1>12, <2>2, <3>1 DEF Evaluate
  <2>3. CASE Abandon(e) \/ Requeue(e)
    <3>1. Live(e) /\ ~did[e] /\ Finish(e)
      BY <2>3 DEF Abandon, Requeue, Live, SavedInv, DidInv
    <3>2. \E d : MarkRow(e[1], "PENDING", d) \/ UNCHANGED table
      BY <2>3 DEF Abandon, Requeue
    <3>3. QED
      BY <1>a, <3>1, <3>2, EndStep
  <2>4. CASE Succeed(e)
    BY <1>a, <2>4, ActStep DEF Succeed
  <2>5. CASE Fail(e)
    <3>1. CASE did' = [did EXCEPT ![e] = TRUE]
      BY <1>a, <2>5, <3>1, ActStep DEF Fail
    <3>2. CASE did' = did
      BY <1>12, <2>5, <3>2 DEF Fail
    <3>3. QED
      BY <2>5, <3>1, <3>2 DEF Fail
  <2>6. CASE MarkSucceeded(e) \/ MarkFailed(e)
    <3>1. PICK s \in {"SUCCEEDED", "FAILED"} : Persist(e, s)
      BY <2>6 DEF MarkSucceeded, MarkFailed
    <3>2. Live(e) /\ Finish(e) /\ (MarkRow(e[1], s, due[e[1]]) \/ UNCHANGED table)
      BY <2>6, <3>1 DEF MarkSucceeded, MarkFailed, Persist, Live
    <3>3. QED
      BY <1>a, <3>2, EndStep
  <2>7. QED
    BY <1>13, <2>1, <2>2, <2>3, <2>4, <2>5, <2>6 DEF Execution
<1>14. ASSUME Session \/ Tick \/ UNCHANGED vars PROVE QueueState' = QueueState
  BY <1>8, <1>14 DEF Session, Observe, Store, HandleEnded, Fetch, WriteBack, DeleteSession, Tick, vars
<1>15. QED
  BY <1>1, <1>2, <1>9, <1>11, <1>13, <1>14 DEF Next

\* The executors and Cancel, however many instances there are, are seen from outside as
\* the abstract queue: an operation is put back or withdrawn only while its action has had
\* no effect, and a sweep releases only what nobody works on.
THEOREM QueueTheorem == Slack => (Spec => ImplementsQueue)
<1> SUFFICES ASSUME Slack PROVE Spec => ImplementsQueue
  OBVIOUS
<1>1. Init => Queue!Init
  <2> SUFFICES ASSUME Init PROVE Queue!Init
    OBVIOUS
  <2>1. \A o \in Ops : QueueState[o] = "absent"
    BY SeenNow DEF Init, Seen
  <2>2. QueueState = [o \in Ops |-> QueueState[o]]
    BY DEF QueueState
  <2>3. QED
    BY <2>1, <2>2 DEF Queue!Init
<1>2. TypeOK /\ ExclusiveInv /\ SavedInv /\ [Next]_vars => [Queue!Next]_QueueState
  BY QueueStep
<1>3. TypeOK /\ ExclusiveInv /\ SavedInv /\ [Next]_vars => ExclusiveInv' /\ SavedInv'
  BY ExclusiveStep, SavedStep DEF ExclusiveInv
<1>4. QED
  BY <1>1, <1>2, <1>3, TypeCorrect, ExclusiveInit, SavedInit, PTL
     DEF Spec, ImplementsQueue, Queue!Spec
================================================================================
