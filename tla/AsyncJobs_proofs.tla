---------------------------- MODULE AsyncJobs_proofs ----------------------------
(* Theorems about AsyncJobs, for every set of jobs and instances and all bounds. *)
EXTENDS AsyncJobs, FiniteSetTheorems, TLAPS

\* Every reachable state of the job table, the executors and the bookkeeping has
\* the declared types; in particular ages stay within their limits because a
\* handler returns by its deadline.
THEOREM TypeCorrect == Spec => []TypeOK
<1> USE ConstantsAssumption
<1>1. Init => TypeOK
  BY DEF Init, TypeOK, Execs, Statuses, PCs, Working, Notifying, Gone
<1>2. TypeOK /\ [Next]_vars => TypeOK'
  <2> SUFFICES ASSUME TypeOK, [Next]_vars PROVE TypeOK'
    OBVIOUS
  <2> USE DEF table, execution, instance, history, Fault, TypeOK, Execs, Statuses, PCs, Working, Notifying, Gone
  <2>1. ASSUME NEW j \in Jobs, Enqueue(j) PROVE TypeOK'
    <3>1. created' \in Seq(Jobs)
      BY <2>1 DEF Enqueue
    <3>2. QED
      BY <2>1, <3>1 DEF Enqueue
  <2>2. ASSUME NEW u \in Users, DeleteUser(u) PROVE TypeOK'
    BY <2>2 DEF DeleteUser
  <2>3. ASSUME NEW i \in Instances, NEW S \in SUBSET Jobs, NEW s \in PCs,
               Claimable(S), ClaimRows(i, S, s)
        PROVE  /\ status' \in [Jobs -> Statuses]
               /\ claimedBy' \in [Jobs -> Instances \cup {None}]
               /\ claimAge' \in [Jobs -> 0..StaleAfter]
               /\ claims' \in [Jobs -> 0..MaxClaims]
               /\ pc' \in [Execs -> PCs]
               /\ at' \in [Execs -> Instances \cup {None}]
               /\ UNCHANGED <<created, users, runAge, write, effect, notes>>
    BY <2>3 DEF Claimable, ClaimRows
  <2>4. ASSUME NEW i \in Instances, ClaimDue(i) PROVE TypeOK'
    <3>1. PICK S \in SUBSET Jobs : /\ Claimable(S)
                                   /\ ClaimRows(i, S, "waiting")
                                   /\ batch' = [batch EXCEPT ![i] = Claimed(S)]
      BY <2>4 DEF ClaimDue
    <3>2. Claimed(S) \subseteq Execs
      BY DEF Claimed
    <3>3. QED
      BY <2>3, <2>4, <3>1, <3>2 DEF ClaimDue
  <2>5. ASSUME NEW i \in Instances, ClaimDueReplyLost(i) PROVE TypeOK'
    <3>1. PICK S \in SUBSET Jobs : Claimable(S) /\ ClaimRows(i, S, "lost")
      BY <2>5 DEF ClaimDueReplyLost
    <3>2. "lost" \in PCs
      OBVIOUS
    <3>3. faults' \in 0..MaxFaults /\ UNCHANGED instance
      BY <2>5 DEF ClaimDueReplyLost
    <3>4. QED
      BY <2>3, <3>1, <3>2, <3>3
  <2>6. ASSUME NEW i \in Instances, NEW e \in Execs, StartOne(i, e) PROVE TypeOK'
    <3>1. e \in Execs /\ pc' = [pc EXCEPT ![e] = "checking"]
          /\ sem' = [sem EXCEPT ![i] = @ \cup {e}]
      BY <2>6 DEF StartOne
    <3>2. pc' \in [Execs -> PCs]
      BY <3>1
    <3>3. sem' \in [Instances -> SUBSET Execs]
      BY <3>1
    <3>4. QED
      BY <2>6, <3>2, <3>3 DEF StartOne
  <2>7. ASSUME NEW i \in Instances, DropBatch(i) PROVE TypeOK'
    BY <2>7 DEF DropBatch
  <2>8. ASSUME NEW i \in Instances, Sweep(i) PROVE TypeOK'
    BY <2>8, SMTT(60) DEF Sweep, ReleaseStaleClaims
  <2>9. ASSUME NEW e \in Execs, Reject(e) PROVE TypeOK'
    <3>1. faults' \in 0..MaxFaults
      BY <2>9 DEF Reject
    <3>2. QED
      BY <2>9, <3>1 DEF Reject, Goto
  <2>10. ASSUME NEW e \in Execs, Abandon(e) PROVE TypeOK'
    BY <2>10 DEF Abandon, Leave, Goto
  <2>11. ASSUME NEW e \in Execs, Accept(e) PROVE TypeOK'
    BY <2>11 DEF Accept, Goto
  <2>12. ASSUME NEW e \in Execs, Succeed(e) PROVE TypeOK'
    BY <2>12 DEF Succeed, Goto
  <2>13. ASSUME NEW e \in Execs, Fail(e) PROVE TypeOK'
    <3>1. effect' = effect \/ effect' = [effect EXCEPT ![e[1]] = @ \cup {e[2]}]
      BY <2>13 DEF Fail
    <3>2. effect' \in [Jobs -> SUBSET (1..MaxClaims)]
      <4>1. CASE effect' = effect
        BY <4>1
      <4>2. CASE effect' = [effect EXCEPT ![e[1]] = @ \cup {e[2]}]
        BY <4>2
      <4>3. QED
        BY <3>1, <4>1, <4>2
    <3>3. QED
      BY <2>13, <3>2 DEF Fail, Goto
  <2>14. ASSUME NEW e \in Execs, NEW s \in Terminal, NEW next \in PCs, Persist(e, s, next)
         PROVE  TypeOK'
    <3>1. /\ status' \in [Jobs -> Statuses]
          /\ claimedBy' \in [Jobs -> Instances \cup {None}]
          /\ claimAge' \in [Jobs -> 0..StaleAfter]
      <4>1. CASE UNCHANGED <<status, claimedBy, claimAge>>
        BY <4>1
      <4>2. CASE /\ status' = [status EXCEPT ![e[1]] = s]
                 /\ claimedBy' = [claimedBy EXCEPT ![e[1]] = None]
                 /\ claimAge' = [claimAge EXCEPT ![e[1]] = 0]
        BY <4>2 DEF Terminal
      <4>3. QED
        BY <2>14, <4>1, <4>2 DEF Persist, MarkRow
    <3>2. pc' \in [Execs -> PCs] /\ write' \in [Execs -> {"open", "ok", "error"}]
      BY <2>14 DEF Persist, Goto
    <3>3. faults' \in 0..MaxFaults
      BY <2>14 DEF Persist
    <3>4. QED
      BY <2>14, <3>1, <3>2, <3>3 DEF Persist
  <2>15. ASSUME NEW e \in Execs, MarkSucceeded(e) \/ MarkFailed(e) PROVE TypeOK'
    BY <2>14, <2>15 DEF MarkSucceeded, MarkFailed, Terminal
  <2>16. ASSUME NEW e \in Execs, PublishCompletion(e) PROVE TypeOK'
    BY <2>16 DEF PublishCompletion, Leave, Goto
  <2>17. ASSUME NEW i \in Instances, Shutdown(i) PROVE TypeOK'
    BY <2>17 DEF Shutdown
  <2>18. ASSUME NEW i \in Instances, Stopped(i) PROVE TypeOK'
    BY <2>18 DEF Stopped
  <2>19. ASSUME NEW i \in Instances, Crash(i) PROVE TypeOK'
    BY <2>19, SMTT(60) DEF Crash
  <2>20. ASSUME NEW i \in Instances, Boot(i) PROVE TypeOK'
    <3>1. inst' \in [Instances -> {"up", "stopping", "down"}] /\ faults' \in 0..MaxFaults
      BY <2>20 DEF Boot
    <3>2. CASE ReleaseStaleClaims
      BY <2>20, <3>1, <3>2, SMTT(60) DEF Boot, ReleaseStaleClaims
    <3>3. CASE UNCHANGED <<status, claimedBy, claimAge>>
      BY <2>20, <3>1, <3>3 DEF Boot
    <3>4. QED
      BY <2>20, <3>2, <3>3 DEF Boot
  <2>21. ASSUME Tick PROVE TypeOK'
    BY <2>21, SMTT(60) DEF Tick, Urgent
  <2>22. CASE UNCHANGED vars
    BY <2>22 DEF vars
  <2>23. QED
    BY <2>1, <2>2, <2>4, <2>5, <2>6, <2>7, <2>8, <2>9, <2>10, <2>11, <2>12, <2>13, <2>14,
       <2>15, <2>16, <2>17, <2>18, <2>19, <2>20, <2>21, <2>22
       DEF Next, Loop, Process, Execution
<1>3. QED
  BY <1>1, <1>2, PTL DEF Spec

--------------------------------------------------------------------------------
(* Claims are accounted for *)

\* Executions beyond the last claim do not exist, the others do; a goroutine
\* writes once, just before it notifies; a written result ended the claim.
AccountInv ==
    \A e \in Execs :
        /\ e[2] > claims[e[1]] => pc[e] = "none" /\ write[e] = "open"
        /\ e[2] <= claims[e[1]] => pc[e] # "none"
        /\ pc[e] \in Working => write[e] = "open"
        /\ pc[e] \in Notifying \cup {"done"} => write[e] # "open"
        /\ write[e] = "ok" => status[e[1]] # "RUNNING" \/ e[2] # claims[e[1]]

\* Every step of the queue preserves AccountInv.
LEMMA AccountInvStep == TypeOK /\ AccountInv /\ [Next]_vars => AccountInv'
<1> SUFFICES ASSUME TypeOK, AccountInv, [Next]_vars, NEW f \in Execs
             PROVE  /\ f[2] > claims'[f[1]] => pc'[f] = "none" /\ write'[f] = "open"
                    /\ f[2] <= claims'[f[1]] => pc'[f] # "none"
                    /\ pc'[f] \in Working => write'[f] = "open"
                    /\ pc'[f] \in Notifying \cup {"done"} => write'[f] # "open"
                    /\ write'[f] = "ok" => status'[f[1]] # "RUNNING" \/ f[2] # claims'[f[1]]
  BY DEF AccountInv
<1> DEFINE Goal == /\ f[2] > claims'[f[1]] => pc'[f] = "none" /\ write'[f] = "open"
                   /\ f[2] <= claims'[f[1]] => pc'[f] # "none"
                   /\ pc'[f] \in Working => write'[f] = "open"
                   /\ pc'[f] \in Notifying \cup {"done"} => write'[f] # "open"
                   /\ write'[f] = "ok" => status'[f[1]] # "RUNNING" \/ f[2] # claims'[f[1]]
<1>0. /\ f[1] \in Jobs /\ f[2] \in 1..MaxClaims /\ claims[f[1]] \in 0..MaxClaims
      /\ f[2] > claims[f[1]] => pc[f] = "none" /\ write[f] = "open"
      /\ f[2] <= claims[f[1]] => pc[f] # "none"
      /\ pc[f] \in Working => write[f] = "open"
      /\ pc[f] \in Notifying \cup {"done"} => write[f] # "open"
      /\ write[f] = "ok" => status[f[1]] # "RUNNING" \/ f[2] # claims[f[1]]
  BY DEF AccountInv, TypeOK, Execs
<1> USE <1>0, ConstantsAssumption
<1> USE DEF table, execution, instance, history, TypeOK, Working, Notifying
<1>1. ASSUME NEW j \in Jobs, Enqueue(j) PROVE Goal
  BY <1>1 DEF Enqueue
<1>2. ASSUME NEW u \in Users, DeleteUser(u) PROVE Goal
  BY <1>2 DEF DeleteUser
<1>3. ASSUME NEW i \in Instances, NEW S \in SUBSET Jobs, NEW s \in {"waiting", "lost"},
             Claimable(S), ClaimRows(i, S, s)
      PROVE Goal
  <2>1. CASE f[1] \in S /\ f[2] = claims[f[1]] + 1
    BY <1>3, <2>1 DEF ClaimRows, Claimed
  <2>2. CASE f[1] \in S /\ f[2] # claims[f[1]] + 1
    BY <1>3, <2>2 DEF ClaimRows, Claimed
  <2>3. CASE f[1] \notin S
    BY <1>3, <2>3 DEF ClaimRows, Claimed
  <2>4. QED
    BY <2>1, <2>2, <2>3
<1>4. ASSUME NEW i \in Instances, ClaimDue(i) \/ ClaimDueReplyLost(i) PROVE Goal
  BY <1>3, <1>4 DEF ClaimDue, ClaimDueReplyLost
<1>5. ASSUME NEW i \in Instances, NEW e \in Execs, StartOne(i, e) PROVE Goal
  <2>1. pc[e] = "waiting" /\ pc' = [pc EXCEPT ![e] = "checking"]
    BY <1>5 DEF StartOne, Waiting
  <2>2. UNCHANGED <<status, claims, write>>
    BY <1>5 DEF StartOne
  <2>3. QED
    BY <2>1, <2>2
<1>6. ASSUME NEW i \in Instances, DropBatch(i) PROVE Goal
  BY <1>6 DEF DropBatch, Waiting
<1>7. ASSUME NEW i \in Instances, Sweep(i) \/ Boot(i) PROVE Goal
  BY <1>7 DEF Sweep, Boot, ReleaseStaleClaims
<1>8. ASSUME NEW e \in Execs, Reject(e) \/ Abandon(e) \/ Accept(e) PROVE Goal
  <2>1. PICK s \in {"failed", "abandoned", "running"} : pc' = [pc EXCEPT ![e] = s]
    BY <1>8 DEF Reject, Abandon, Accept, Leave, Goto
  <2>2. pc[e] = "checking" /\ UNCHANGED <<status, claims, write>>
    BY <1>8 DEF Reject, Abandon, Accept
  <2>3. QED
    BY <2>1, <2>2
<1>9. ASSUME NEW e \in Execs, Succeed(e) \/ Fail(e) PROVE Goal
  BY <1>9, SMTT(60) DEF Succeed, Fail, Goto
<1>10. ASSUME NEW e \in Execs, MarkSucceeded(e) \/ MarkFailed(e) PROVE Goal
  <2>1. pc[e] \in {"succeeded", "failed"}
    BY <1>10 DEF MarkSucceeded, MarkFailed
  <2>2. PICK s \in Terminal, next \in Notifying : Persist(e, s, next)
    BY <1>10 DEF MarkSucceeded, MarkFailed, Terminal
  <2>3. pc' = [pc EXCEPT ![e] = next] /\ claims' = claims
    BY <2>2 DEF Persist, Goto
  <2>4. e[1] \in Jobs
    BY DEF Execs
  <2>5. CASE write' = [write EXCEPT ![e] = "error"] /\ status' = status
    BY <2>1, <2>3, <2>5
  <2>6. CASE write' \in {[write EXCEPT ![e] = "ok"], [write EXCEPT ![e] = "error"]} /\ MarkRow(e[1], s)
    <3>1. f[1] # e[1] => status'[f[1]] = status[f[1]]
      BY <2>4, <2>6 DEF MarkRow
    <3>2. status'[e[1]] # "RUNNING"
      BY <2>4, <2>6 DEF MarkRow, Terminal
    <3>3. QED
      BY <2>1, <2>3, <2>6, <3>1, <3>2
  <2>7. QED
    BY <2>2, <2>5, <2>6 DEF Persist
<1>11. ASSUME NEW e \in Execs, PublishCompletion(e) PROVE Goal
  BY <1>11 DEF PublishCompletion, Leave, Goto
<1>12. ASSUME NEW i \in Instances, Shutdown(i) \/ Stopped(i) PROVE Goal
  BY <1>12 DEF Shutdown, Stopped
<1>13. ASSUME NEW i \in Instances, Crash(i) PROVE Goal
  BY <1>13 DEF Crash, Live
<1>14. ASSUME Tick PROVE Goal
  BY <1>14 DEF Tick
<1>15. CASE UNCHANGED vars
  BY <1>15 DEF vars
<1>16. QED
  BY <1>1, <1>2, <1>4, <1>5, <1>6, <1>7, <1>8, <1>9, <1>10, <1>11, <1>12, <1>13, <1>14, <1>15
     DEF Next, Loop, Process, Execution

\* Whatever the batch size, the concurrency and the timeouts are, a held claim has
\* a live worker or one that was lost, was cancelled or failed to write: the
\* claim is never dropped by a path of executeOne that just returns.
THEOREM ClaimsAccountedFor == Spec => []HeldClaimHasWorker
<1>1. Init => AccountInv
  BY ConstantsAssumption DEF Init, AccountInv, Execs, Working, Notifying
<1>2. TypeOK /\ AccountInv => HeldClaimHasWorker
  BY ConstantsAssumption DEF TypeOK, AccountInv, HeldClaimHasWorker, Execs, PCs, Working, Notifying, Gone
<1>3. QED
  BY <1>1, <1>2, AccountInvStep, TypeCorrect, PTL DEF Spec

--------------------------------------------------------------------------------
(* Results *)

\* A finished row is left alone by every later step, whatever the configuration:
\* claims and sweeps select other rows, and a late result does not match it.
THEOREM FinishedStaysFinished == Spec => FinishedIsFinal
<1>1. TypeOK /\ [Next]_vars =>
        [\A j \in Jobs : status[j] \in Terminal =>
            status'[j] = status[j] /\ claims'[j] = claims[j]]_vars
  <2> SUFFICES ASSUME TypeOK, Next, NEW j \in Jobs, status[j] \in Terminal
               PROVE  status'[j] = status[j] /\ claims'[j] = claims[j]
    OBVIOUS
  <2> USE ConstantsAssumption
  <2> USE DEF table, execution, instance, history, TypeOK, Terminal
  <2>1. ASSUME NEW k \in Jobs, Enqueue(k) PROVE status'[j] = status[j] /\ claims'[j] = claims[j]
    BY <2>1 DEF Enqueue
  <2>2. ASSUME NEW i \in Instances, ClaimDue(i) \/ ClaimDueReplyLost(i)
        PROVE  status'[j] = status[j] /\ claims'[j] = claims[j]
    BY <2>2 DEF ClaimDue, ClaimDueReplyLost, Claimable, Pending, ClaimRows
  <2>3. ASSUME NEW i \in Instances, Sweep(i) \/ Boot(i)
        PROVE  status'[j] = status[j] /\ claims'[j] = claims[j]
    BY <2>3 DEF Sweep, Boot, ReleaseStaleClaims, Stale
  <2>4. ASSUME NEW e \in Execs, MarkSucceeded(e) \/ MarkFailed(e)
        PROVE  status'[j] = status[j] /\ claims'[j] = claims[j]
    <3>1. e[1] \in Jobs
      BY DEF Execs
    <3>2. PICK s, next : Persist(e, s, next)
      BY <2>4 DEF MarkSucceeded, MarkFailed
    <3>3. QED
      BY <3>1, <3>2 DEF Persist, MarkRow
  <2>5. ASSUME NEW u \in Users, DeleteUser(u) PROVE status'[j] = status[j] /\ claims'[j] = claims[j]
    BY <2>5 DEF DeleteUser
  <2>6. ASSUME NEW i \in Instances, NEW e \in Execs, StartOne(i, e)
        PROVE  status'[j] = status[j] /\ claims'[j] = claims[j]
    BY <2>6 DEF StartOne
  <2>7. ASSUME NEW e \in Execs, Reject(e) \/ Abandon(e) \/ Accept(e) \/ Succeed(e) \/ Fail(e)
                                 \/ PublishCompletion(e)
        PROVE  status'[j] = status[j] /\ claims'[j] = claims[j]
    BY <2>7 DEF Reject, Abandon, Accept, Succeed, Fail, PublishCompletion
  <2>8. ASSUME Tick PROVE status'[j] = status[j] /\ claims'[j] = claims[j]
    BY <2>8 DEF Tick
  <2>9. ASSUME NEW i \in Instances, DropBatch(i) \/ Shutdown(i) \/ Stopped(i) \/ Crash(i)
        PROVE  status'[j] = status[j] /\ claims'[j] = claims[j]
    BY <2>9 DEF DropBatch, Shutdown, Stopped, Crash
  <2>10. QED
    BY <2>1, <2>2, <2>3, <2>4, <2>5, <2>6, <2>7, <2>8, <2>9 DEF Next, Loop, Process, Execution
<1>2. QED
  BY <1>1, TypeCorrect, PTL DEF Spec, FinishedIsFinal

\* A goroutine that is about to store or announce success belongs to a job whose
\* work has been done.
SuccessInv ==
    /\ SuccessIsReal
    /\ \A e \in Execs : pc[e] \in {"succeeded", "notifySuccess"} => effect[e[1]] # {}

\* No job is recorded or announced as successful unless a handler did its work,
\* whatever the configuration and the interleaving of overlapping executions.
THEOREM SuccessTheorem == Spec => []SuccessIsReal
<1> USE ConstantsAssumption
<1>1. Init => SuccessInv
  BY DEF Init, SuccessInv, SuccessIsReal
<1>2. TypeOK /\ SuccessInv /\ [Next]_vars => SuccessInv'
  <2> SUFFICES ASSUME TypeOK, SuccessInv, [Next]_vars PROVE SuccessInv'
    OBVIOUS
  <2> USE DEF table, execution, instance, history, TypeOK, SuccessInv, SuccessIsReal
  <2>0. \A e \in Execs : e[1] \in Jobs
    BY DEF Execs
  <2>1. ASSUME NEW j \in Jobs, Enqueue(j) PROVE SuccessInv'
    BY <2>1 DEF Enqueue
  <2>2. ASSUME NEW i \in Instances, ClaimDue(i) \/ ClaimDueReplyLost(i) PROVE SuccessInv'
    <3>1. PICK S \in SUBSET Jobs, s \in {"waiting", "lost"} : ClaimRows(i, S, s)
      BY <2>2 DEF ClaimDue, ClaimDueReplyLost
    <3>2. \A j \in Jobs : status'[j] = "SUCCEEDED" => status[j] = "SUCCEEDED"
      BY <3>1 DEF ClaimRows
    <3>3. \A e \in Execs : pc'[e] \in {"succeeded", "notifySuccess"} => pc'[e] = pc[e]
      BY <3>1 DEF ClaimRows
    <3>4. UNCHANGED <<effect, notes>>
      BY <3>1 DEF ClaimRows
    <3>5. QED
      BY <3>2, <3>3, <3>4
  <2>3. ASSUME NEW i \in Instances, Sweep(i) \/ Boot(i) PROVE SuccessInv'
    <3>1. \A j \in Jobs : status'[j] = "SUCCEEDED" => status[j] = "SUCCEEDED"
      BY <2>3 DEF Sweep, Boot, ReleaseStaleClaims
    <3>2. UNCHANGED <<pc, effect, notes>>
      BY <2>3 DEF Sweep, Boot
    <3>3. QED
      BY <3>1, <3>2
  <2>4. ASSUME NEW e \in Execs, MarkSucceeded(e) PROVE SuccessInv'
    <3>1. effect[e[1]] # {} /\ UNCHANGED <<effect, notes>>
      BY <2>4 DEF MarkSucceeded, Persist
    <3>2. \A j \in Jobs : status'[j] = "SUCCEEDED" => status[j] = "SUCCEEDED" \/ j = e[1]
      BY <2>0, <2>4 DEF MarkSucceeded, Persist, MarkRow
    <3>3. pc' = [pc EXCEPT ![e] = "notifySuccess"]
      BY <2>4 DEF MarkSucceeded, Persist, Goto
    <3>4. QED
      BY <2>0, <3>1, <3>2, <3>3
  <2>5. ASSUME NEW e \in Execs, MarkFailed(e) PROVE SuccessInv'
    <3>1. \A j \in Jobs : status'[j] = "SUCCEEDED" => status[j] = "SUCCEEDED"
      BY <2>0, <2>5 DEF MarkFailed, Persist, MarkRow
    <3>2. pc' = [pc EXCEPT ![e] = "notifyError"] /\ UNCHANGED <<effect, notes>>
      BY <2>5 DEF MarkFailed, Persist, Goto
    <3>3. \A x \in Execs : pc'[x] \in {"succeeded", "notifySuccess"} => pc'[x] = pc[x]
      BY <3>2
    <3>4. SuccessIsReal'
      BY <3>1, <3>2
    <3>5. QED
      BY <3>2, <3>3, <3>4
  <2>6. ASSUME NEW e \in Execs, Succeed(e) PROVE SuccessInv'
    BY <2>0, <2>6 DEF Succeed, Goto
  <2>7. ASSUME NEW e \in Execs, Fail(e) PROVE SuccessInv'
    <3>1. pc' = [pc EXCEPT ![e] = "failed"] /\ UNCHANGED <<status, notes>>
      BY <2>7 DEF Fail, Goto
    <3>2. \A j \in Jobs : effect[j] # {} => effect'[j] # {}
      <4>1. effect' = effect \/ effect' = [effect EXCEPT ![e[1]] = @ \cup {e[2]}]
        BY <2>7 DEF Fail
      <4>2. CASE effect' = [effect EXCEPT ![e[1]] = @ \cup {e[2]}]
        BY <2>0, <4>2
      <4>3. QED
        BY <4>1, <4>2
    <3>3. QED
      BY <2>0, <3>1, <3>2
  <2>8. ASSUME NEW e \in Execs, PublishCompletion(e) PROVE SuccessInv'
    BY <2>0, <2>8 DEF PublishCompletion, Leave, Goto
  <2>9. ASSUME NEW e \in Execs, Reject(e) \/ Abandon(e) \/ Accept(e) PROVE SuccessInv'
    <3>1. UNCHANGED <<status, effect, notes>>
      BY <2>9 DEF Reject, Abandon, Accept
    <3>2. \/ pc' = [pc EXCEPT ![e] = "failed"]
          \/ pc' = [pc EXCEPT ![e] = "abandoned"]
          \/ pc' = [pc EXCEPT ![e] = "running"]
      BY <2>9 DEF Reject, Abandon, Accept, Leave, Goto
    <3>3. QED
      BY <3>1, <3>2
  <2>10. ASSUME NEW i \in Instances, NEW e \in Execs, StartOne(i, e) PROVE SuccessInv'
    BY <2>10 DEF StartOne
  <2>11. ASSUME NEW i \in Instances, DropBatch(i) PROVE SuccessInv'
    BY <2>11 DEF DropBatch
  <2>12. ASSUME NEW i \in Instances, Shutdown(i) \/ Stopped(i) PROVE SuccessInv'
    BY <2>12 DEF Shutdown, Stopped
  <2>13. ASSUME NEW i \in Instances, Crash(i) PROVE SuccessInv'
    BY <2>13 DEF Crash
  <2>14. ASSUME NEW u \in Users, DeleteUser(u) PROVE SuccessInv'
    BY <2>14 DEF DeleteUser
  <2>15. ASSUME Tick PROVE SuccessInv'
    BY <2>15 DEF Tick
  <2>16. CASE UNCHANGED vars
    BY <2>16 DEF vars
  <2>17. QED
    BY <2>1, <2>2, <2>3, <2>4, <2>5, <2>6, <2>7, <2>8, <2>9, <2>10, <2>11, <2>12, <2>13,
       <2>14, <2>15, <2>16 DEF Next, Loop, Process, Execution
<1>3. QED
  BY <1>1, <1>2, TypeCorrect, PTL DEF Spec, SuccessInv

--------------------------------------------------------------------------------
(* Exclusive execution *)

\* A batch fits the semaphore, and a handler times out before its claim is stale.
\* The built-in defaults (8 > 4) do not satisfy the first part.
SafeConfig == Batch <= Concurrency /\ ActionTimeout < StaleAfter

\* The claim of a working execution is younger than StaleAfter, because nobody
\* waits for the semaphore and the time since the claim is spent in the handler.
AgeInv ==
    \A e \in Execs :
        /\ pc[e] \in {"waiting", "checking"} => claimAge[e[1]] = 0
        /\ pc[e] = "running" => claimAge[e[1]] <= runAge[e]
        /\ pc[e] \in {"succeeded", "failed"} => claimAge[e[1]] <= ActionTimeout

\* A waiting execution is in the batch of its instance and holds no slot; a batch
\* has at most Batch members.
BatchInv ==
    /\ \A i \in Instances :
         /\ IsFiniteSet(batch[i]) /\ Cardinality(batch[i]) <= Batch
         /\ sem[i] \subseteq batch[i]
    /\ \A e \in Execs :
         /\ pc[e] \in Working => at[e] \in Instances
         /\ pc[e] = "waiting" => e \in batch[at[e]] \ sem[at[e]]

ExclusiveInv == AgeInv /\ BatchInv /\ ExclusiveExecution

\* Claiming the rows S makes at most Batch executions.
LEMMA ClaimedBound ==
    ASSUME TypeOK, NEW S \in SUBSET Jobs, Cardinality(S) <= Batch
    PROVE  IsFiniteSet(Claimed(S)) /\ Cardinality(Claimed(S)) <= Batch
<1> DEFINE f == [e \in Claimed(S) |-> e[1]]
<1>1. IsFiniteSet(S) /\ Cardinality(S) \in Nat
  BY ConstantsAssumption, FS_Subset, FS_CardinalityType
<1>2. f \in Injection(Claimed(S), S)
  <2>1. f \in [Claimed(S) -> S]
    BY DEF Claimed
  <2>2. ASSUME NEW a \in Claimed(S), NEW b \in Claimed(S), f[a] = f[b] PROVE a = b
    BY <2>2 DEF Claimed, Execs
  <2>3. QED
    BY <2>1, <2>2 DEF Injection, IsInjective
<1>3. IsFiniteSet(Claimed(S)) /\ Cardinality(Claimed(S)) <= Cardinality(S)
  BY <1>1, <1>2, FS_Injection
<1>4. Cardinality(Claimed(S)) \in Nat
  BY <1>3, FS_CardinalityType
<1>5. QED
  BY <1>1, <1>3, <1>4, ConstantsAssumption

\* When batches fit the semaphore, a waiting execution finds a free slot.
LEMMA WaitingIsUrgent ==
    ASSUME SafeConfig, TypeOK, BatchInv, NEW e \in Execs, pc[e] = "waiting"
    PROVE  Urgent(e)
<1>1. at[e] \in Instances
  BY DEF BatchInv, Working
<1>2. sem[at[e]] \subseteq batch[at[e]] /\ sem[at[e]] # batch[at[e]]
  BY <1>1 DEF BatchInv
<1>3. IsFiniteSet(batch[at[e]]) /\ Cardinality(batch[at[e]]) <= Batch
  BY <1>1 DEF BatchInv
<1>4. /\ Cardinality(sem[at[e]]) <= Cardinality(batch[at[e]])
      /\ Cardinality(sem[at[e]]) # Cardinality(batch[at[e]])
      /\ IsFiniteSet(sem[at[e]])
  BY <1>2, <1>3, FS_Subset
<1>5. Cardinality(sem[at[e]]) \in Nat /\ Cardinality(batch[at[e]]) \in Nat
  BY <1>3, <1>4, FS_CardinalityType
<1>6. Cardinality(sem[at[e]]) < Concurrency
  BY <1>3, <1>4, <1>5, ConstantsAssumption DEF SafeConfig
<1>7. QED
  BY <1>6 DEF Urgent

\* A claim takes rows nobody works on, and replaces a batch that is used up.
LEMMA ClaimPreservesExclusive ==
    ASSUME TypeOK, ExclusiveInv, NEW i \in Instances, Waiting(i) = {},
           NEW S \in SUBSET Jobs, Claimable(S), NEW s \in {"waiting", "lost"},
           ClaimRows(i, S, s),
           \/ s = "lost" /\ UNCHANGED <<batch, sem>>
           \/ /\ batch' = [batch EXCEPT ![i] = Claimed(S)]
              /\ sem' = [sem EXCEPT ![i] = {}]
    PROVE  ExclusiveInv'
<1> USE ConstantsAssumption
<1>1. \A e \in Execs : e[1] \in Jobs /\ e[2] \in 1..MaxClaims
  BY DEF Execs
<1>2. \A e \in Claimed(S) : pc'[e] = s /\ at'[e] = i /\ e \in Execs
  BY DEF ClaimRows, Claimed
<1>3. \A e \in Execs : e \notin Claimed(S) => pc'[e] = pc[e] /\ at'[e] = at[e]
  BY DEF ClaimRows, Claimed
<1>4. \A e \in Execs : pc[e] \in Working => e[1] \notin S
  BY DEF ExclusiveInv, ExclusiveExecution, Claimable, Pending
<1>5. \A j \in Jobs : IF j \in S
                      THEN /\ status'[j] = "RUNNING" /\ claimedBy'[j] = i
                           /\ claimAge'[j] = 0 /\ claims'[j] = claims[j] + 1
                      ELSE /\ status'[j] = status[j] /\ claimedBy'[j] = claimedBy[j]
                           /\ claimAge'[j] = claimAge[j] /\ claims'[j] = claims[j]
  BY DEF ClaimRows, TypeOK
<1>6. \A e \in Claimed(S) : e[1] \in S /\ e[2] = claims[e[1]] + 1
  BY DEF Claimed
<1>7. runAge' = runAge
  BY DEF ClaimRows
<1>8. AgeInv'
  BY <1>1, <1>2, <1>3, <1>4, <1>5, <1>6, <1>7 DEF AgeInv, ExclusiveInv, Working, TypeOK
<1>9. ExclusiveExecution'
  BY <1>1, <1>2, <1>3, <1>4, <1>5, <1>6 DEF ExclusiveExecution, ExclusiveInv
<1>10. BatchInv'
  <2>1. CASE s = "lost" /\ UNCHANGED <<batch, sem>>
    BY <1>2, <1>3, <2>1 DEF BatchInv, ExclusiveInv, Working
  <2>2. CASE /\ batch' = [batch EXCEPT ![i] = Claimed(S)]
             /\ sem' = [sem EXCEPT ![i] = {}]
    <3>1. IsFiniteSet(Claimed(S)) /\ Cardinality(Claimed(S)) <= Batch
      BY ClaimedBound DEF Claimable
    <3>2. \A k \in Instances : /\ IsFiniteSet(batch'[k]) /\ Cardinality(batch'[k]) <= Batch
                               /\ sem'[k] \subseteq batch'[k]
      BY <2>2, <3>1 DEF BatchInv, ExclusiveInv, TypeOK
    <3>3. QED
      BY <1>2, <1>3, <2>2, <3>2 DEF BatchInv, ExclusiveInv, Working, Waiting, TypeOK
  <2>3. QED
    BY <2>1, <2>2
<1>11. QED
  BY <1>8, <1>9, <1>10 DEF ExclusiveInv

\* Every step preserves ExclusiveInv: only a claim gives a row a new worker, only a
\* tick makes claims older, and neither is possible while it would do harm.
LEMMA ExclusiveInvStep ==
    ASSUME SafeConfig, TypeOK, ExclusiveInv, [Next]_vars
    PROVE  ExclusiveInv'
<1> USE ConstantsAssumption
<1> USE DEF table, execution, instance, history
<1>a. \A e \in Execs : e[1] \in Jobs /\ e[2] \in 1..MaxClaims
  BY DEF Execs
<1>b. ASSUME NEW e \in Execs, NEW f \in Execs, pc[e] \in Working, pc[f] \in Working, e[1] = f[1]
      PROVE  e = f
  BY <1>b DEF ExclusiveInv, ExclusiveExecution, Execs
<1>1. ASSUME NEW j \in Jobs, Enqueue(j) PROVE ExclusiveInv'
  <2>1. \A e \in Execs : pc[e] \in Working => e[1] # j
    BY <1>1 DEF Enqueue, ExclusiveInv, ExclusiveExecution
  <2>2. ExclusiveExecution'
    BY <1>1, <1>a, <2>1 DEF Enqueue, ExclusiveInv, ExclusiveExecution, TypeOK
  <2>3. AgeInv' /\ BatchInv'
    BY <1>1 DEF Enqueue, ExclusiveInv, AgeInv, BatchInv
  <2>4. QED
    BY <2>2, <2>3 DEF ExclusiveInv
<1>2. ASSUME NEW u \in Users, DeleteUser(u) PROVE ExclusiveInv'
  BY <1>2 DEF DeleteUser, ExclusiveInv, AgeInv, BatchInv, ExclusiveExecution
<1>3. ASSUME NEW i \in Instances, ClaimDue(i) PROVE ExclusiveInv'
  <2>1. PICK S \in SUBSET Jobs : /\ Claimable(S) /\ ClaimRows(i, S, "waiting")
                                 /\ batch' = [batch EXCEPT ![i] = Claimed(S)]
    BY <1>3 DEF ClaimDue
  <2>2. Waiting(i) = {} /\ sem' = [sem EXCEPT ![i] = {}]
    BY <1>3 DEF ClaimDue
  <2>3. QED
    BY <2>1, <2>2, ClaimPreservesExclusive
<1>4. ASSUME NEW i \in Instances, ClaimDueReplyLost(i) PROVE ExclusiveInv'
  <2>1. PICK S \in SUBSET Jobs : Claimable(S) /\ ClaimRows(i, S, "lost")
    BY <1>4 DEF ClaimDueReplyLost
  <2>2. Waiting(i) = {} /\ UNCHANGED <<batch, sem>>
    BY <1>4 DEF ClaimDueReplyLost
  <2>3. QED
    BY <2>1, <2>2, ClaimPreservesExclusive
<1>5. ASSUME NEW i \in Instances, NEW e \in Execs, StartOne(i, e) PROVE ExclusiveInv'
  <2>1. pc[e] = "waiting" /\ e \in batch[i] /\ pc' = [pc EXCEPT ![e] = "checking"]
    BY <1>5 DEF StartOne, Waiting
  <2>2. /\ sem' = [sem EXCEPT ![i] = @ \cup {e}]
        /\ UNCHANGED <<status, claimedBy, claimAge, claims, at, runAge, batch>>
    BY <1>5 DEF StartOne
  <2>3. BatchInv'
    BY <2>1, <2>2 DEF BatchInv, ExclusiveInv, TypeOK, Working
  <2>4. AgeInv'
    BY <2>1, <2>2 DEF AgeInv, ExclusiveInv, TypeOK
  <2>5. ExclusiveExecution'
    BY <2>1, <2>2 DEF ExclusiveExecution, ExclusiveInv, TypeOK, Working
  <2>6. QED
    BY <2>3, <2>4, <2>5 DEF ExclusiveInv
<1>6. ASSUME NEW i \in Instances, DropBatch(i) PROVE ExclusiveInv'
  <2>1. \A e \in Execs : pc'[e] \in Working => pc'[e] = pc[e]
    BY <1>6 DEF DropBatch, Working
  <2>2. UNCHANGED <<status, claimedBy, claimAge, claims, at, runAge, batch, sem>>
    BY <1>6 DEF DropBatch
  <2>3. QED
    BY <2>1, <2>2 DEF ExclusiveInv, AgeInv, BatchInv, ExclusiveExecution, Working
<1>7. ASSUME NEW i \in Instances, Sweep(i) \/ Boot(i) PROVE ExclusiveInv'
  <2>1. UNCHANGED <<claims, pc, at, runAge, batch, sem>>
    BY <1>7 DEF Sweep, Boot
  <2>2. \A e \in Execs : pc[e] \in Working => e[1] \notin Stale
    BY <1>a DEF Stale, ExclusiveInv, AgeInv, Working, TypeOK, SafeConfig
  <2>3. \A j \in Jobs : j \notin Stale => /\ status'[j] = status[j]
                                          /\ claimedBy'[j] = claimedBy[j]
                                          /\ claimAge'[j] = claimAge[j]
    BY <1>7 DEF Sweep, Boot, ReleaseStaleClaims
  <2>4. QED
    BY <1>a, <2>1, <2>2, <2>3 DEF ExclusiveInv, AgeInv, BatchInv, ExclusiveExecution, Working
<1>8. ASSUME NEW e \in Execs, Reject(e) \/ Accept(e) \/ Succeed(e) \/ Fail(e) PROVE ExclusiveInv'
  <2>1. UNCHANGED <<status, claimedBy, claimAge, claims, at, runAge, batch, sem>>
    BY <1>8 DEF Reject, Accept, Succeed, Fail
  <2>2. /\ pc[e] \in {"checking", "running"}
        /\ \/ pc' = [pc EXCEPT ![e] = "running"] /\ pc[e] = "checking"
           \/ pc' = [pc EXCEPT ![e] = "succeeded"]
           \/ pc' = [pc EXCEPT ![e] = "failed"]
    BY <1>8 DEF Reject, Accept, Succeed, Fail, Goto
  <2>3. BatchInv' /\ ExclusiveExecution'
    BY <2>1, <2>2 DEF BatchInv, ExclusiveExecution, ExclusiveInv, TypeOK, Working
  <2>4. AgeInv'
    BY <1>a, <2>1, <2>2 DEF AgeInv, ExclusiveInv, TypeOK
  <2>5. QED
    BY <2>3, <2>4 DEF ExclusiveInv
<1>9. ASSUME NEW e \in Execs, Abandon(e) \/ PublishCompletion(e) PROVE ExclusiveInv'
  <2>1. /\ UNCHANGED <<status, claimedBy, claimAge, claims, at, runAge, batch>>
        /\ sem' = [i \in Instances |-> sem[i] \ {e}]
    BY <1>9 DEF Abandon, PublishCompletion, Leave
  <2>2. \A f \in Execs : pc'[f] \in Working => pc'[f] = pc[f]
    BY <1>9 DEF Abandon, PublishCompletion, Leave, Goto, TypeOK, Working
  <2>3. AgeInv' /\ ExclusiveExecution'
    BY <2>1, <2>2 DEF AgeInv, ExclusiveExecution, ExclusiveInv, Working
  <2>4. BatchInv'
    BY <2>1, <2>2 DEF BatchInv, ExclusiveInv, Working
  <2>5. QED
    BY <2>3, <2>4 DEF ExclusiveInv
<1>10. ASSUME NEW e \in Execs, MarkSucceeded(e) \/ MarkFailed(e) PROVE ExclusiveInv'
  <2>1. PICK s \in Terminal, next \in Notifying : Persist(e, s, next)
    BY <1>10 DEF MarkSucceeded, MarkFailed, Terminal, Notifying
  <2>2. pc[e] \in Working
    BY <1>10 DEF MarkSucceeded, MarkFailed, Working
  <2>3. pc' = [pc EXCEPT ![e] = next] /\ UNCHANGED <<claims, at, runAge, batch, sem>>
    BY <2>1 DEF Persist, Goto
  <2>4. \A f \in Execs : pc'[f] \in Working => pc'[f] = pc[f] /\ f # e
    BY <2>3 DEF TypeOK, Notifying, Working
  <2>5. \A j \in Jobs : j # e[1] => /\ status'[j] = status[j]
                                    /\ claimedBy'[j] = claimedBy[j]
                                    /\ claimAge'[j] = claimAge[j]
    BY <2>1, <1>a, SMTT(60) DEF Persist, MarkRow, TypeOK
  <2>6. \A f \in Execs : pc'[f] \in Working => f[1] # e[1]
    BY <1>b, <2>2, <2>4
  <2>7. QED
    BY <1>a, <2>3, <2>4, <2>5, <2>6 DEF ExclusiveInv, AgeInv, BatchInv, ExclusiveExecution, Working
<1>11. ASSUME NEW i \in Instances, Shutdown(i) PROVE ExclusiveInv'
  BY <1>11 DEF Shutdown, ExclusiveInv, AgeInv, BatchInv, ExclusiveExecution
<1>12. ASSUME NEW i \in Instances, Stopped(i) \/ Crash(i) PROVE ExclusiveInv'
  <2>1. /\ batch' = [batch EXCEPT ![i] = {}] /\ sem' = [sem EXCEPT ![i] = {}]
        /\ UNCHANGED <<status, claimedBy, claimAge, claims, at, runAge>>
    BY <1>12 DEF Stopped, Crash
  <2>2. \A e \in Execs : pc'[e] \in Working => pc'[e] = pc[e] /\ at[e] # i
    BY <1>12 DEF Stopped, Crash, Live, Working, TypeOK
  <2>3. IsFiniteSet({}) /\ Cardinality({}) <= Batch
    BY FS_EmptySet
  <2>4. BatchInv'
    BY <2>1, <2>2, <2>3 DEF BatchInv, ExclusiveInv, Working, TypeOK
  <2>5. AgeInv' /\ ExclusiveExecution'
    BY <2>1, <2>2 DEF AgeInv, ExclusiveExecution, ExclusiveInv, Working
  <2>6. QED
    BY <2>4, <2>5 DEF ExclusiveInv
<1>13. ASSUME Tick PROVE ExclusiveInv'
  <2>1. \A e \in Execs : pc[e] \in Working => pc[e] = "running" /\ runAge[e] < ActionTimeout
    BY <1>13, WaitingIsUrgent DEF Tick, Urgent, Live, Working, ExclusiveInv, TypeOK
  <2>2. UNCHANGED <<status, claimedBy, claims, pc, at, batch, sem>>
    BY <1>13 DEF Tick
  <2>3. \A e \in Execs : pc[e] = "running" => runAge'[e] = runAge[e] + 1
    BY <1>13 DEF Tick
  <2>4. \A j \in Jobs : claimAge'[j] <= claimAge[j] + 1
    BY <1>13 DEF Tick, TypeOK
  <2>5. AgeInv'
    BY <1>13, <1>a, <2>1, <2>2, <2>3, <2>4 DEF AgeInv, ExclusiveInv, Working, TypeOK, Tick
  <2>6. BatchInv' /\ ExclusiveExecution'
    BY <2>2 DEF BatchInv, ExclusiveExecution, ExclusiveInv
  <2>7. QED
    BY <2>5, <2>6 DEF ExclusiveInv
<1>14. CASE UNCHANGED vars
  BY <1>14 DEF vars, ExclusiveInv, AgeInv, BatchInv, ExclusiveExecution
<1>15. QED
  BY <1>1, <1>2, <1>3, <1>4, <1>5, <1>6, <1>7, <1>8, <1>9, <1>10, <1>11, <1>12, <1>13, <1>14
     DEF Next, Loop, Process, Execution

\* If a batch fits the semaphore and handlers time out before claims go stale, no
\* job is ever worked on by two goroutines at once, on one instance or several,
\* in spite of crashes, shutdowns, lost replies and failed writes: a sweep never
\* takes a claim from a live worker.
THEOREM ExclusiveTheorem == SafeConfig => (Spec => []ExclusiveExecution)
<1> SUFFICES ASSUME SafeConfig PROVE Spec => []ExclusiveExecution
  OBVIOUS
<1>1. Init => ExclusiveInv
  BY ConstantsAssumption, FS_EmptySet DEF Init, ExclusiveInv, AgeInv, BatchInv, ExclusiveExecution, Working
<1>2. TypeOK /\ ExclusiveInv /\ [Next]_vars => ExclusiveInv'
  BY ExclusiveInvStep
<1>3. ExclusiveInv => ExclusiveExecution
  BY DEF ExclusiveInv
<1>4. QED
  BY <1>1, <1>2, <1>3, TypeCorrect, PTL DEF Spec

\* A stored result belongs to the last claim of a finished job, and work is done
\* only under a claim.
SavedInv ==
    /\ \A e \in Execs : write[e] = "ok" => status[e[1]] \in Terminal /\ e[2] = claims[e[1]]
    /\ \A j \in Jobs : \A n \in effect[j] : n <= claims[j]

\* Every step preserves SavedInv, as long as executions are exclusive.
LEMMA SavedInvStep ==
    ASSUME TypeOK, ExclusiveExecution, SavedInv, [Next]_vars
    PROVE  SavedInv'
<1> USE ConstantsAssumption
<1> USE DEF table, execution, instance, history
<1>a. \A e \in Execs : e[1] \in Jobs /\ e[2] \in 1..MaxClaims
  BY DEF Execs
<1>b. ASSUME \A j \in Jobs : status[j] \in Terminal => status'[j] \in Terminal,
             UNCHANGED <<claims, effect, write>>
      PROVE  SavedInv'
  BY <1>a, <1>b DEF SavedInv
<1>1. ASSUME NEW j \in Jobs, Enqueue(j) PROVE SavedInv'
  BY <1>1, <1>b DEF Enqueue, TypeOK, Terminal
<1>2. ASSUME NEW u \in Users, DeleteUser(u) PROVE SavedInv'
  BY <1>2, <1>b DEF DeleteUser
<1>3. ASSUME NEW i \in Instances, ClaimDue(i) \/ ClaimDueReplyLost(i) PROVE SavedInv'
  <2>1. PICK S \in SUBSET Jobs, s \in {"waiting", "lost"} : Claimable(S) /\ ClaimRows(i, S, s)
    BY <1>3 DEF ClaimDue, ClaimDueReplyLost
  <2>2. \A j \in Jobs : status[j] \in Terminal => status'[j] = status[j] /\ claims'[j] = claims[j]
    BY <2>1 DEF Claimable, Pending, ClaimRows, Terminal
  <2>3. UNCHANGED <<effect, write>> /\ \A j \in Jobs : claims'[j] >= claims[j] /\ claims'[j] \in Nat
    BY <2>1 DEF ClaimRows, TypeOK
  <2>4. QED
    BY <1>a, <2>2, <2>3 DEF SavedInv, TypeOK
<1>4. ASSUME NEW i \in Instances, Sweep(i) \/ Boot(i) PROVE SavedInv'
  <2>1. \A j \in Jobs : status[j] \in Terminal => status'[j] = status[j]
    BY <1>4 DEF Sweep, Boot, ReleaseStaleClaims, Stale, Terminal
  <2>2. UNCHANGED <<claims, effect, write>>
    BY <1>4 DEF Sweep, Boot
  <2>3. QED
    BY <1>b, <2>1, <2>2
<1>5. ASSUME NEW e \in Execs, Succeed(e) \/ Fail(e) PROVE SavedInv'
  <2>1. e[2] = claims[e[1]] /\ UNCHANGED <<status, claims, write>>
    BY <1>5 DEF Succeed, Fail, ExclusiveExecution, Working
  <2>2. effect' = effect \/ effect' = [effect EXCEPT ![e[1]] = @ \cup {e[2]}]
    BY <1>5 DEF Succeed, Fail
  <2>3. CASE effect' = effect
    BY <1>b, <2>1, <2>3
  <2>4. CASE effect' = [effect EXCEPT ![e[1]] = @ \cup {e[2]}]
    BY <1>a, <2>1, <2>4 DEF SavedInv, TypeOK
  <2>5. QED
    BY <2>2, <2>3, <2>4
<1>6. ASSUME NEW e \in Execs, MarkSucceeded(e) \/ MarkFailed(e) PROVE SavedInv'
  <2>1. PICK s \in Terminal, next \in Notifying : Persist(e, s, next)
    BY <1>6 DEF MarkSucceeded, MarkFailed, Terminal, Notifying
  <2>2. e[2] = claims[e[1]] /\ status[e[1]] = "RUNNING" /\ UNCHANGED <<claims, effect>>
    BY <1>6, <2>1 DEF MarkSucceeded, MarkFailed, Persist, ExclusiveExecution, Working
  <2>3. CASE status' = status /\ write' = [write EXCEPT ![e] = "error"]
    BY <1>a, <2>2, <2>3 DEF SavedInv, TypeOK
  <2>4. CASE status' = [status EXCEPT ![e[1]] = s] /\ write' = [write EXCEPT ![e] = "ok"]
    BY <1>a, <2>2, <2>4 DEF SavedInv, TypeOK
  <2>5. CASE status' = [status EXCEPT ![e[1]] = s] /\ write' = [write EXCEPT ![e] = "error"]
    BY <1>a, <2>2, <2>5 DEF SavedInv, TypeOK
  <2>6. QED
    BY <2>1, <2>2, <2>3, <2>4, <2>5 DEF Persist, MarkRow
<1>7. ASSUME NEW e \in Execs, Reject(e) \/ Abandon(e) \/ Accept(e) \/ PublishCompletion(e)
      PROVE  SavedInv'
  BY <1>7, <1>b DEF Reject, Abandon, Accept, PublishCompletion
<1>8. ASSUME NEW i \in Instances, NEW e \in Execs, StartOne(i, e) PROVE SavedInv'
  BY <1>8, <1>b DEF StartOne
<1>9. ASSUME NEW i \in Instances, DropBatch(i) \/ Shutdown(i) \/ Stopped(i) \/ Crash(i)
      PROVE  SavedInv'
  BY <1>9, <1>b DEF DropBatch, Shutdown, Stopped, Crash
<1>10. ASSUME Tick PROVE SavedInv'
  BY <1>10, <1>b DEF Tick
<1>11. CASE UNCHANGED vars
  BY <1>11, <1>b DEF vars
<1>12. QED
  BY <1>1, <1>2, <1>3, <1>4, <1>5, <1>6, <1>7, <1>8, <1>9, <1>10, <1>11
     DEF Next, Loop, Process, Execution

\* In the same configurations, the work of a job is done twice only if the first
\* result could not be stored (a crash, a lost write): the non-idempotent StartHost
\* is not repeated after a stored result.
THEOREM RepeatTheorem == SafeConfig => (Spec => []RepeatedOnlyIfUnsaved)
<1> SUFFICES ASSUME SafeConfig PROVE Spec => []RepeatedOnlyIfUnsaved
  OBVIOUS
<1>1. Init => SavedInv
  BY DEF Init, SavedInv
<1>2. TypeOK /\ ExclusiveExecution /\ SavedInv /\ [Next]_vars => SavedInv'
  BY SavedInvStep
<1>3. TypeOK /\ SavedInv => RepeatedOnlyIfUnsaved
  <2> SUFFICES ASSUME TypeOK, SavedInv, NEW j \in Jobs, NEW m \in effect[j], NEW n \in effect[j],
                      m < n, write[<<j, m>>] = "ok"
               PROVE  FALSE
    BY DEF RepeatedOnlyIfUnsaved
  <2>1. m \in 1..MaxClaims /\ n \in 1..MaxClaims /\ claims[j] \in 0..MaxClaims
    BY ConstantsAssumption DEF TypeOK
  <2>2. <<j, m>> \in Execs
    BY <2>1 DEF Execs
  <2>3. m = claims[j] /\ n <= claims[j]
    BY <2>2 DEF SavedInv
  <2>4. QED
    BY <2>1, <2>3, ConstantsAssumption
<1>4. QED
  BY <1>1, <1>2, <1>3, TypeCorrect, ExclusiveTheorem, PTL DEF Spec

\* The abstract state of a job, case by case.
Seen(j) ==
    /\ status[j] = "ABSENT" => QueueState[j] = "absent"
    /\ status[j] = "PENDING" => QueueState[j] = "waiting"
    /\ status[j] \in Terminal => QueueState[j] = "finished"
    /\ status[j] = "RUNNING" /\ WorkedOn(j) /\ HasActed(j) => QueueState[j] = "acted"
    /\ status[j] = "RUNNING" /\ WorkedOn(j) /\ ~HasActed(j) => QueueState[j] = "held"
    /\ status[j] = "RUNNING" /\ ~WorkedOn(j) => QueueState[j] = "orphaned"
    /\ HasActed(j) => WorkedOn(j)

\* QueueState is what Seen says, before a step and after it.
LEMMA SeenNow == (\A j \in Jobs : Seen(j)) /\ (\A j \in Jobs : Seen(j)')
<1>1. ASSUME NEW j \in Jobs PROVE Seen(j)
  BY DEF Seen, QueueState, StateOf, HasActed, WorkedOn, Terminal
<1>2. ASSUME NEW j \in Jobs PROVE Seen(j)'
  BY DEF Seen, QueueState, StateOf, HasActed, WorkedOn, Terminal
<1>3. QED
  BY <1>1, <1>2

\* A step that leaves the row, the workers and the effects of a job alone is not seen.
LEMMA NotSeen ==
    ASSUME TypeOK, NEW j \in Jobs, status'[j] = status[j],
           status[j] = "RUNNING" => /\ WorkedOn(j)' <=> WorkedOn(j)
                                    /\ HasActed(j)' <=> HasActed(j)
    PROVE  QueueState'[j] = QueueState[j]
<1>1. Seen(j) /\ Seen(j)'
  BY SeenNow
<1>2. status[j] \in Statuses
  BY DEF TypeOK
<1>3. QED
  BY <1>1, <1>2 DEF Seen, Statuses, Terminal

\* A step that no job is seen to take part in is a stuttering step of the queue.
LEMMA Stutter ==
    ASSUME \A j \in Jobs : QueueState'[j] = QueueState[j]
    PROVE  QueueState' = QueueState
<1>1. QueueState = [j \in Jobs |-> QueueState[j]]
  BY DEF QueueState
<1>2. QueueState' = [j \in Jobs |-> QueueState'[j]]
  BY DEF QueueState
<1>3. QED
  BY <1>1, <1>2

\* What has to be shown of a step that moves the jobs S.
LEMMA Moves ==
    ASSUME NEW S \in SUBSET Jobs, NEW from, NEW to,
           \A j \in S : QueueState[j] \in from /\ QueueState'[j] = to,
           \A j \in Jobs \ S : QueueState'[j] = QueueState[j]
    PROVE  Queue!Move(S, from, to)
<1>1. QueueState' = [j \in Jobs |-> QueueState'[j]]
  BY DEF QueueState
<1>2. QueueState' = [j \in Jobs |-> IF j \in S THEN to ELSE QueueState[j]]
  BY <1>1
<1>3. QED
  BY <1>2 DEF Queue!Move

\* Every step of the executors is a step of the queue or is not seen: what a sweep
\* releases nobody works on, and what ends or vanishes was the one worker of its job.
LEMMA QueueStep ==
    ASSUME TypeOK, SafeConfig, ExclusiveInv, SavedInv, [Next]_vars
    PROVE  Queue!Next \/ QueueState' = QueueState
<1> USE ConstantsAssumption
<1> USE DEF table, execution, instance, history
<1>a. \A e \in Execs : e[1] \in Jobs /\ e[2] \in 1..MaxClaims
  BY DEF Execs
<1>b. ASSUME NEW e \in Execs, NEW f \in Execs, pc[e] \in Working, pc[f] \in Working, e[1] = f[1]
      PROVE  e = f
  BY <1>b DEF ExclusiveInv, ExclusiveExecution, Execs
<1>c. ASSUME NEW e \in Execs, pc[e] \in Working
      PROVE  status[e[1]] = "RUNNING" /\ QueueState[e[1]] \in {"held", "acted"}
  <2>1. status[e[1]] = "RUNNING" /\ WorkedOn(e[1])
    BY <1>c, <1>a DEF ExclusiveInv, ExclusiveExecution, WorkedOn
  <2>2. QED
    BY <1>a, <2>1, SeenNow DEF Seen
<1>d. ASSUME NEW j \in Jobs, status'[j] = status[j], effect'[j] = effect[j],
             \A e \in Execs : e[1] = j => (pc'[e] \in Working <=> pc[e] \in Working)
      PROVE  QueueState'[j] = QueueState[j]
  <2>1. (WorkedOn(j)' <=> WorkedOn(j)) /\ (HasActed(j)' <=> HasActed(j))
    BY <1>d DEF WorkedOn, HasActed
  <2>2. QED
    BY <1>d, <2>1, NotSeen
<1>e. ASSUME NEW j \in Jobs, status'[j] = "RUNNING", \A e \in Execs : e[1] = j => pc'[e] \notin Working
      PROVE  QueueState'[j] = "orphaned"
  <2>1. ~WorkedOn(j)'
    BY <1>e DEF WorkedOn
  <2>2. QED
    BY <1>e, <2>1, SeenNow DEF Seen
<1>f. ASSUME UNCHANGED <<status, effect>>, \A e \in Execs : pc'[e] \in Working <=> pc[e] \in Working
      PROVE  QueueState' = QueueState
  BY <1>d, <1>f, Stutter
\* Workers that leave without a result.
<1>g. ASSUME UNCHANGED <<status, effect>>, NEW G \in SUBSET Execs,
             \A e \in G : pc[e] \in Working /\ pc'[e] \notin Working,
             \A e \in Execs \ G : pc'[e] \in Working <=> pc[e] \in Working
      PROVE  Queue!Next
  <2> DEFINE S == {j \in Jobs : \E e \in G : e[1] = j}
  <2>1. ASSUME NEW j \in S PROVE QueueState[j] \in {"held", "acted"} /\ QueueState'[j] = "orphaned"
    <3>1. PICK e \in G : e[1] = j
      BY <2>1
    <3>2. status[j] = "RUNNING" /\ QueueState[j] \in {"held", "acted"}
      BY <1>c, <1>g, <3>1
    <3>3. \A f \in Execs : f[1] = j => pc'[f] \notin Working
      BY <1>b, <1>g, <3>1
    <3>4. QED
      BY <1>e, <1>g, <3>2, <3>3
  <2>2. \A j \in Jobs \ S : QueueState'[j] = QueueState[j]
    BY <1>d, <1>g
  <2>3. Queue!Move(S, {"held", "acted"}, "orphaned")
    <3> HIDE DEF S
    <3>1. S \in SUBSET Jobs
      BY DEF S
    <3>2. QED
      BY <2>1, <2>2, <3>1, Moves
  <2>4. QED
    BY <2>3 DEF Queue!Next, Queue!Vanish
<1>1. ASSUME NEW j \in Jobs, Enqueue(j) PROVE Queue!Next
  <2>1. QueueState[j] = "absent" /\ QueueState'[j] = "waiting"
    BY <1>1, SeenNow DEF Seen, Enqueue, TypeOK
  <2>2. \A k \in Jobs \ {j} : QueueState'[k] = QueueState[k]
    BY <1>1, <1>d DEF Enqueue, TypeOK
  <2>3. Queue!Move({j}, {"absent"}, "waiting")
    BY <2>1, <2>2, Moves
  <2>4. QED
    BY <2>3 DEF Queue!Next, Queue!Submit
<1>2. ASSUME NEW u \in Users, DeleteUser(u) PROVE QueueState' = QueueState
  BY <1>2, <1>f DEF DeleteUser
<1>3. ASSUME NEW i \in Instances, NEW S \in SUBSET Jobs, Claimable(S), NEW s \in {"waiting", "lost"},
             ClaimRows(i, S, s)
      PROVE  Queue!Next
  <2>1. \A e \in Execs : pc[e] \in Working => e[1] \notin S
    BY <1>3 DEF ExclusiveInv, ExclusiveExecution, Claimable, Pending
  <2>2. \A e \in Execs : e \notin Claimed(S) => pc'[e] = pc[e]
    BY <1>3 DEF ClaimRows, Claimed
  <2>3. \A e \in Claimed(S) : pc'[e] = s /\ e \in Execs /\ e[1] \in S /\ e[2] = claims[e[1]] + 1
    BY <1>3 DEF ClaimRows, Claimed
  <2>4. effect' = effect /\ \A j \in Jobs : status'[j] = IF j \in S THEN "RUNNING" ELSE status[j]
    BY <1>3 DEF ClaimRows
  <2>5. \A j \in Jobs \ S : QueueState'[j] = QueueState[j]
    BY <1>d, <2>2, <2>3, <2>4
  <2>6. \A j \in S : QueueState[j] = "waiting"
    BY <1>3, SeenNow DEF Seen, Claimable, Pending
  <2>7. CASE s = "lost"
    <3>1. \A j \in S : QueueState'[j] = "orphaned"
      BY <1>e, <2>1, <2>2, <2>3, <2>4, <2>7 DEF Working
    <3>2. Queue!Move(S, {"waiting"}, "orphaned")
      BY <2>5, <2>6, <3>1, Moves
    <3>3. QED
      BY <3>2 DEF Queue!Next, Queue!TakeUnanswered
  <2>8. CASE s = "waiting"
    <3>1. ASSUME NEW j \in S PROVE QueueState'[j] = "held"
      <4>1. claims[j] \in Nat /\ claims[j] < MaxClaims
        BY <1>3 DEF Claimable, TypeOK
      <4>2. <<j, claims[j] + 1>> \in Claimed(S)
        BY <4>1 DEF Claimed, Execs
      <4>3. WorkedOn(j)'
        <5>1. pc'[<<j, claims[j] + 1>>] \in Working /\ <<j, claims[j] + 1>> \in Execs
          BY <2>3, <2>8, <4>2 DEF Working
        <5>2. QED
          BY <5>1 DEF WorkedOn
      <4>4. ~HasActed(j)'
        <5> SUFFICES ASSUME NEW e \in Execs, e[1] = j, pc'[e] \in Working, e[2] \in effect[j]
                     PROVE  FALSE
          BY <2>4 DEF HasActed
        <5>1. e \in Claimed(S)
          BY <2>1, <2>2
        <5>2. e[2] = claims[j] + 1
          BY <2>3, <5>1
        <5>3. e[2] <= claims[j]
          BY DEF SavedInv
        <5>4. QED
          BY <4>1, <5>2, <5>3
      <4>5. status'[j] = "RUNNING"
        BY <2>4
      <4>6. QED
        BY <4>3, <4>4, <4>5, SeenNow DEF Seen
    <3>2. Queue!Move(S, {"waiting"}, "held")
      BY <2>5, <2>6, <3>1, Moves
    <3>3. QED
      BY <3>2 DEF Queue!Next, Queue!Take
  <2>9. QED
    BY <2>7, <2>8
<1>4. ASSUME NEW i \in Instances, ClaimDue(i) \/ ClaimDueReplyLost(i) PROVE Queue!Next
  BY <1>3, <1>4 DEF ClaimDue, ClaimDueReplyLost
<1>5. ASSUME NEW i \in Instances, NEW e \in Execs, StartOne(i, e) PROVE QueueState' = QueueState
  <2>1. pc[e] = "waiting" /\ pc' = [pc EXCEPT ![e] = "checking"] /\ UNCHANGED <<status, effect>>
    BY <1>5 DEF StartOne, Waiting
  <2>2. QED
    BY <1>f, <2>1 DEF Working, TypeOK
<1>6. ASSUME NEW i \in Instances, DropBatch(i) PROVE Queue!Next
  <2>1. /\ Waiting(i) \subseteq Execs /\ UNCHANGED <<status, effect>>
        /\ \A e \in Execs : pc'[e] = IF e \in Waiting(i) THEN "lost" ELSE pc[e]
        /\ \A e \in Waiting(i) : pc[e] = "waiting"
    BY <1>6 DEF DropBatch, Waiting, TypeOK
  <2>2. QED
    BY <1>g, <2>1 DEF Working
<1>7. ASSUME ReleaseStaleClaims, UNCHANGED <<pc, effect>> PROVE Queue!Next
  <2>1. \A e \in Execs : pc[e] \in Working => e[1] \notin Stale
    BY <1>a DEF Stale, ExclusiveInv, AgeInv, Working, TypeOK, SafeConfig
  <2>2. \A j \in Stale : status[j] = "RUNNING" /\ ~WorkedOn(j) /\ status'[j] = "PENDING" /\ j \in Jobs
    BY <1>7, <2>1 DEF WorkedOn, ReleaseStaleClaims, Stale
  <2>3. \A j \in Stale : QueueState[j] \in {"orphaned"} /\ QueueState'[j] = "waiting"
    BY <2>2, SeenNow DEF Seen
  <2>4. \A j \in Jobs \ Stale : QueueState'[j] = QueueState[j]
    BY <1>7, <1>d DEF ReleaseStaleClaims
  <2>5. Queue!Move(Stale, {"orphaned"}, "waiting")
    <3>1. Stale \in SUBSET Jobs
      BY DEF Stale
    <3>2. QED
      BY <2>3, <2>4, <3>1, Moves
  <2>6. QED
    <3>1. Stale \in SUBSET Jobs
      BY DEF Stale
    <3>2. QED
      BY <2>5, <3>1 DEF Queue!Next, Queue!Release
<1>8. ASSUME NEW i \in Instances, Sweep(i) \/ Boot(i) PROVE Queue!Next \/ QueueState' = QueueState
  <2>1. UNCHANGED <<pc, effect>> /\ (ReleaseStaleClaims \/ UNCHANGED status)
    BY <1>8 DEF Sweep, Boot
  <2>2. QED
    BY <1>7, <1>f, <2>1
<1>9. ASSUME NEW e \in Execs, Reject(e) \/ Accept(e) \/ PublishCompletion(e) PROVE QueueState' = QueueState
  <2>1. /\ UNCHANGED <<status, effect>>
        /\ \/ pc[e] = "checking" /\ pc' = [pc EXCEPT ![e] = "running"]
           \/ pc[e] = "checking" /\ pc' = [pc EXCEPT ![e] = "failed"]
           \/ pc[e] \in Notifying /\ pc' = [pc EXCEPT ![e] = "done"]
    BY <1>9 DEF Reject, Accept, PublishCompletion, Goto, Leave
  <2>2. QED
    BY <1>f, <2>1 DEF Working, Notifying, TypeOK
<1>10. ASSUME NEW e \in Execs, Abandon(e) PROVE Queue!Next
  <2>1. pc[e] = "checking" /\ pc' = [pc EXCEPT ![e] = "abandoned"] /\ UNCHANGED <<status, effect>>
    BY <1>10 DEF Abandon, Goto, Leave
  <2>2. \A f \in {e} : pc[f] \in Working /\ pc'[f] \notin Working
    BY <2>1 DEF Working, TypeOK
  <2>3. \A f \in Execs \ {e} : pc'[f] \in Working <=> pc[f] \in Working
    BY <2>1 DEF TypeOK
  <2>4. {e} \in SUBSET Execs
    OBVIOUS
  <2>5. QED
    BY <1>g, <2>1, <2>2, <2>3, <2>4
<1>11. ASSUME NEW e \in Execs, Succeed(e) \/ Fail(e) PROVE Queue!Next \/ QueueState' = QueueState
  <2>1. /\ pc[e] = "running" /\ status' = status
        /\ pc' = [pc EXCEPT ![e] = "succeeded"] \/ pc' = [pc EXCEPT ![e] = "failed"]
        /\ effect' = effect \/ effect' = [effect EXCEPT ![e[1]] = @ \cup {e[2]}]
    BY <1>11 DEF Succeed, Fail, Goto
  <2>2. \A f \in Execs : pc'[f] \in Working <=> pc[f] \in Working
    BY <2>1 DEF Working, TypeOK
  <2>3. CASE effect' = effect
    BY <1>f, <2>1, <2>2, <2>3
  <2>4. CASE effect' = [effect EXCEPT ![e[1]] = @ \cup {e[2]}]
    <3>1. \A j \in Jobs \ {e[1]} : QueueState'[j] = QueueState[j]
      BY <1>d, <2>1, <2>2, <2>4 DEF TypeOK
    <3>2. status'[e[1]] = "RUNNING" /\ WorkedOn(e[1])' /\ HasActed(e[1])'
      <4>1. pc'[e] \in Working /\ e[2] \in effect'[e[1]]
        BY <1>a, <2>1, <2>2, <2>4 DEF Working, TypeOK
      <4>2. QED
        BY <1>c, <2>1, <4>1 DEF WorkedOn, HasActed, Working
    <3>3. QueueState'[e[1]] = "acted"
      BY <1>a, <3>2, SeenNow DEF Seen
    <3>4. CASE QueueState[e[1]] = "acted"
      <4>1. \A j \in Jobs : QueueState'[j] = QueueState[j]
        BY <3>1, <3>3, <3>4
      <4>2. QED
        BY <4>1, Stutter
    <3>5. CASE QueueState[e[1]] = "held"
      <4>1. Queue!Move({e[1]}, {"held"}, "acted")
        BY <1>a, <3>1, <3>3, <3>5, Moves
      <4>2. QED
        BY <1>a, <4>1 DEF Queue!Next, Queue!Act
    <3>6. QED
      BY <1>c, <2>1, <3>4, <3>5 DEF Working
  <2>5. QED
    BY <2>1, <2>3, <2>4
<1>12. ASSUME NEW e \in Execs, MarkSucceeded(e) \/ MarkFailed(e) PROVE Queue!Next
  <2>1. PICK s \in Terminal, next \in Notifying : Persist(e, s, next)
    BY <1>12 DEF MarkSucceeded, MarkFailed, Terminal, Notifying
  <2>2. pc[e] \in Working
    BY <1>12 DEF MarkSucceeded, MarkFailed, Working
  <2>3. pc' = [pc EXCEPT ![e] = next] /\ effect' = effect
    BY <2>1 DEF Persist, Goto
  <2>4. /\ \A f \in {e} : pc[f] \in Working /\ pc'[f] \notin Working
        /\ \A f \in Execs \ {e} : pc'[f] \in Working <=> pc[f] \in Working
    BY <2>2, <2>3 DEF TypeOK, Working, Notifying
  <2>5. CASE status' = status
    <3>1. {e} \in SUBSET Execs
      OBVIOUS
    <3>2. QED
      BY <1>g, <2>3, <2>4, <2>5, <3>1
  <2>6. CASE status' = [status EXCEPT ![e[1]] = s]
    <3>1. QueueState[e[1]] \in {"held", "acted"}
      BY <1>c, <2>2
    <3>2. status'[e[1]] \in Terminal
      BY <1>a, <2>6 DEF TypeOK
    <3>3. QueueState'[e[1]] = "finished"
      BY <1>a, <3>2, SeenNow DEF Seen
    <3>4. \A j \in Jobs \ {e[1]} : QueueState'[j] = QueueState[j]
      BY <1>d, <2>3, <2>4, <2>6 DEF TypeOK
    <3>5. Queue!Move({e[1]}, {"held", "acted"}, "finished")
      BY <1>a, <3>1, <3>3, <3>4, Moves
    <3>6. QED
      BY <1>a, <3>5 DEF Queue!Next, Queue!Finish
  <2>7. QED
    BY <2>1, <2>5, <2>6 DEF Persist, MarkRow
<1>13. ASSUME NEW i \in Instances, Shutdown(i) PROVE QueueState' = QueueState
  BY <1>13, <1>f DEF Shutdown
<1>14. ASSUME NEW i \in Instances, Stopped(i) PROVE QueueState' = QueueState
  BY <1>14, <1>f DEF Stopped
<1>15. ASSUME NEW i \in Instances, Crash(i) PROVE Queue!Next
  <2> DEFINE G == {e \in Execs : at[e] = i /\ pc[e] \in Working}
  <2>1. UNCHANGED <<status, effect>> /\ \A e \in Execs : pc'[e] = IF at[e] = i /\ Live(e) THEN "lost" ELSE pc[e]
    BY <1>15 DEF Crash
  <2>2. \A e \in G : pc[e] \in Working /\ pc'[e] \notin Working
    BY <2>1 DEF Live, Working
  <2>3. \A e \in Execs \ G : pc'[e] \in Working <=> pc[e] \in Working
    BY <2>1 DEF Live, Working, Notifying
  <2>4. G \in SUBSET Execs
    OBVIOUS
  <2> HIDE DEF G
  <2>5. QED
    BY <1>g, <2>1, <2>2, <2>3, <2>4
<1>16. ASSUME Tick PROVE QueueState' = QueueState
  BY <1>16, <1>f DEF Tick
<1>17. CASE UNCHANGED vars
  BY <1>17, <1>f DEF vars
<1>18. QED
  BY <1>1, <1>2, <1>4, <1>5, <1>6, <1>8, <1>9, <1>10, <1>11, <1>12, <1>13, <1>14, <1>15, <1>16, <1>17
     DEF Next, Loop, Process, Execution

\* In the same configurations the executors, however many instances there are, are seen
\* from outside as the abstract queue: one worker at a time, nothing released under a
\* worker, nothing finished worked on again.
THEOREM QueueTheorem == SafeConfig => (Spec => ImplementsQueue)
<1> SUFFICES ASSUME SafeConfig PROVE Spec => ImplementsQueue
  OBVIOUS
<1>1. Init => Queue!Init
  <2> SUFFICES ASSUME Init PROVE Queue!Init
    OBVIOUS
  <2>1. \A j \in Jobs : QueueState[j] = "absent"
    BY SeenNow DEF Init, Seen
  <2>2. QueueState = [j \in Jobs |-> QueueState[j]]
    BY DEF QueueState
  <2>3. QED
    BY <2>1, <2>2 DEF Queue!Init
<1>2. TypeOK /\ ExclusiveInv /\ SavedInv /\ [Next]_vars => [Queue!Next]_QueueState
  BY QueueStep
<1>3. Init => ExclusiveInv /\ SavedInv
  BY ConstantsAssumption, FS_EmptySet DEF Init, ExclusiveInv, SavedInv, AgeInv, BatchInv, ExclusiveExecution, Working
<1>4. TypeOK /\ ExclusiveInv /\ SavedInv /\ [Next]_vars => ExclusiveInv' /\ SavedInv'
  BY ExclusiveInvStep, SavedInvStep DEF ExclusiveInv
<1>5. QED
  BY <1>1, <1>2, <1>3, <1>4, TypeCorrect, PTL DEF Spec, ImplementsQueue, Queue!Spec

================================================================================
