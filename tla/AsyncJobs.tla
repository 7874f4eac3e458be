------------------------------- MODULE AsyncJobs -------------------------------
(***************************************************************************)
(* The asynchronous job queue: the async_jobs table, the operations of      *)
(* AsyncJobRepository on it, and any number of controller instances that    *)
(* run worker.AsyncJobExecutor against the same database.                   *)
(*                                                                          *)
(* Every statement of db/queries/async_jobs.sql is one transaction and is   *)
(* one atomic step here.  Between two of them an executor holds only what   *)
(* it read earlier, and any other instance may move.                        *)
(*                                                                          *)
(* An execution (one goroutine of executeOne) is named by <<j, n>>: the     *)
(* n-th time job j was claimed.  Time advances in units; ActionTimeout and  *)
(* StaleAfter are counted in that unit (10 minutes gives the defaults 2     *)
(* and 3).  Database calls are assumed to take less than one unit.          *)
(***************************************************************************)
EXTENDS Naturals, Sequences, FiniteSets

CONSTANTS
    Jobs,           \* jobs that may be enqueued
    Instances,      \* controller processes sharing the database
    Users,          \* users that exist initially
    CreatedBy,      \* async_jobs.created_by of each job
    None,           \* SQL NULL
    Batch,          \* AsyncJobExecutorOptions.BatchSize
    Concurrency,    \* AsyncJobExecutorOptions.Concurrency
    ActionTimeout,  \* AsyncJobExecutorOptions.ActionTimeout, in time units
    StaleAfter,     \* AsyncJobExecutorOptions.StaleAfter, in time units
    MaxClaims,      \* bound: how often one job may be claimed
    MaxFaults       \* bound: crashes, shutdowns and failed database calls

ASSUME ConstantsAssumption ==
    /\ IsFiniteSet(Jobs)
    /\ None \notin Instances /\ None \notin Users
    /\ CreatedBy \in [Jobs -> Users \cup {None}]
    /\ Batch \in Nat \ {0}
    /\ Concurrency \in Nat \ {0}
    /\ ActionTimeout \in Nat
    /\ StaleAfter \in Nat \ {0}
    /\ MaxClaims \in Nat
    /\ MaxFaults \in Nat

VARIABLES
    \* the async_jobs table
    status,     \* status of the row
    claimedBy,  \* claimed_by
    claimAge,   \* time since claimed_at, StaleAfter at most
    created,    \* the rows in created_at order
    users,      \* the users table
    \* executions
    pc,         \* what the goroutine does
    at,         \* the instance it runs on
    runAge,     \* time since Dispatch began
    write,      \* what became of the write of its result
    \* instances
    inst,       \* "up", "stopping" (ctx cancelled) or "down"
    batch,      \* the executions of the current dispatchOnce call
    sem,        \* those of them that hold its semaphore
    \* history
    claims,     \* how often a job was claimed
    effect,     \* the claims of a job whose handler has done its work
    notes,      \* the levels of JobCompletedEvent published for a job
    faults      \* faults so far

table == <<status, claimedBy, claimAge, created>>
execution == <<pc, at, runAge, write>>
instance == <<inst, batch, sem>>
history == <<claims, effect, notes>>
vars == <<table, users, execution, instance, history, faults>>

--------------------------------------------------------------------------------
Statuses == {"ABSENT", "PENDING", "RUNNING", "SUCCEEDED", "FAILED"}
Terminal == {"SUCCEEDED", "FAILED"}

\* A goroutine that has not yet written its result, one that has yet to publish
\* the completion event, and one that is gone.
Working == {"waiting", "checking", "running", "succeeded", "failed"}
Notifying == {"notifySuccess", "notifyError"}
Gone == {"none", "done", "abandoned", "lost"}
PCs == Working \cup Notifying \cup Gone

Execs == Jobs \X (1..MaxClaims)
Live(e) == pc[e] \in Working \cup Notifying
Waiting(i) == {e \in batch[i] : pc[e] = "waiting"}

Pending == {j \in Jobs : status[j] = "PENDING"}

\* ORDER BY created_at
Older(j, k) == \E p, q \in 1..Len(created) : p < q /\ created[p] = j /\ created[q] = k

TypeOK ==
    /\ status \in [Jobs -> Statuses]
    /\ claimedBy \in [Jobs -> Instances \cup {None}]
    /\ claimAge \in [Jobs -> 0..StaleAfter]
    /\ created \in Seq(Jobs)
    /\ users \in SUBSET Users
    /\ pc \in [Execs -> PCs]
    /\ at \in [Execs -> Instances \cup {None}]
    /\ runAge \in [Execs -> 0..ActionTimeout]
    /\ write \in [Execs -> {"open", "ok", "error"}]
    /\ inst \in [Instances -> {"up", "stopping", "down"}]
    /\ batch \in [Instances -> SUBSET Execs]
    /\ sem \in [Instances -> SUBSET Execs]
    /\ claims \in [Jobs -> 0..MaxClaims]
    /\ effect \in [Jobs -> SUBSET (1..MaxClaims)]
    /\ notes \in [Jobs -> SUBSET {"SUCCESS", "ERROR"}]
    /\ faults \in 0..MaxFaults

Init ==
    /\ status = [j \in Jobs |-> "ABSENT"]
    /\ claimedBy = [j \in Jobs |-> None]
    /\ claimAge = [j \in Jobs |-> 0]
    /\ created = <<>>
    /\ users = Users
    /\ pc = [e \in Execs |-> "none"]
    /\ at = [e \in Execs |-> None]
    /\ runAge = [e \in Execs |-> 0]
    /\ write = [e \in Execs |-> "open"]
    /\ inst = [i \in Instances |-> "up"]
    /\ batch = [i \in Instances |-> {}]
    /\ sem = [i \in Instances |-> {}]
    /\ claims = [j \in Jobs |-> 0]
    /\ effect = [j \in Jobs |-> {}]
    /\ notes = [j \in Jobs |-> {}]
    /\ faults = 0

\* A step that needs a fault to happen.
Fault == faults < MaxFaults /\ faults' = faults + 1

--------------------------------------------------------------------------------
(* Requests *)

\* Usecase.enqueue: INSERT with the default status.
Enqueue(j) ==
    /\ status[j] = "ABSENT"
    /\ status' = [status EXCEPT ![j] = "PENDING"]
    /\ created' = Append(created, j)
    /\ UNCHANGED <<claimedBy, claimAge, users, execution, instance, history, faults>>

\* A user is deleted while jobs of theirs may be queued or running.
DeleteUser(u) ==
    /\ u \in users
    /\ users' = users \ {u}
    /\ UNCHANGED <<table, execution, instance, history, faults>>

--------------------------------------------------------------------------------
(* The executor's loop (AsyncJobExecutor.Run, dispatchOnce) *)

\* Mutant: the status is not tested.
ClaimableInAnyStatus(S) ==
    /\ S # {} /\ Cardinality(S) <= Batch
    /\ \A j \in S : status[j] \notin {"ABSENT", "RUNNING"} /\ claims[j] < MaxClaims

\* The rows ClaimDueAsyncJobs updates: the oldest PENDING ones, Batch at most.
Claimable(S) ==
    /\ S # {} /\ S \subseteq Pending
    /\ Cardinality(S) <= Batch
    /\ S # Pending => Cardinality(S) = Batch
    /\ \A j \in S, k \in Pending \ S : Older(j, k)
    /\ \A j \in S : claims[j] < MaxClaims

\* The executions that claiming the rows S gives rise to.
Claimed(S) == {e \in Execs : e[1] \in S /\ e[2] = claims[e[1]] + 1}

\* Each claimed row is RUNNING and owned by i; its next execution is at state s.
ClaimRows(i, S, s) ==
    /\ status' = [j \in Jobs |-> IF j \in S THEN "RUNNING" ELSE status[j]]
    /\ claimedBy' = [j \in Jobs |-> IF j \in S THEN i ELSE claimedBy[j]]
    /\ claimAge' = [j \in Jobs |-> IF j \in S THEN 0 ELSE claimAge[j]]
    /\ claims' = [j \in Jobs |-> IF j \in S THEN claims[j] + 1 ELSE claims[j]]
    /\ pc' = [e \in Execs |-> IF e \in Claimed(S) THEN s ELSE pc[e]]
    /\ at' = [e \in Execs |-> IF e \in Claimed(S) THEN i ELSE at[e]]
    /\ UNCHANGED <<created, users, runAge, write, effect, notes>>

\* A tick of the loop: claim a batch and begin to hand it to goroutines under a
\* semaphore made for this call.  The loop is busy until the last one started.
ClaimDue(i) ==
    /\ inst[i] = "up" /\ Waiting(i) = {}
    /\ \E S \in SUBSET Jobs :
         /\ Claimable(S)
         /\ ClaimRows(i, S, "waiting")
         /\ batch' = [batch EXCEPT ![i] = Claimed(S)]
    /\ sem' = [sem EXCEPT ![i] = {}]
    /\ UNCHANGED <<inst, faults>>

\* The claim commits but its reply is an error (connection lost, ctx cancelled):
\* dispatchOnce returns and nobody works on the claimed rows.
ClaimDueReplyLost(i) ==
    /\ inst[i] # "down" /\ Waiting(i) = {}
    /\ \E S \in SUBSET Jobs : Claimable(S) /\ ClaimRows(i, S, "lost")
    /\ Fault
    /\ UNCHANGED instance

\* dispatchOnce: a free slot of the semaphore, one more goroutine.
StartOne(i, e) ==
    /\ e \in Waiting(i)
    /\ Cardinality(sem[i]) < Concurrency
    /\ sem' = [sem EXCEPT ![i] = @ \cup {e}]
    /\ pc' = [pc EXCEPT ![e] = "checking"]
    /\ UNCHANGED <<table, users, at, runAge, write, inst, batch, history, faults>>

\* dispatchOnce: ctx.Done() while waiting for a slot; the rest of the batch is
\* left claimed.
DropBatch(i) ==
    /\ inst[i] = "stopping"
    /\ Waiting(i) # {}
    /\ pc' = [e \in Execs |-> IF e \in Waiting(i) THEN "lost" ELSE pc[e]]
    /\ UNCHANGED <<table, users, at, runAge, write, instance, history, faults>>

\* Mutant: the sweep does not look at claimed_at.
StaleAtAnyAge == {j \in Jobs : status[j] = "RUNNING"}

\* The rows ReleaseStaleAsyncJobClaims updates.  An age of k units stands for any
\* time up to the next unit, so a claim may be stale from k = StaleAfter on.
Stale == {j \in Jobs : status[j] = "RUNNING" /\ claimAge[j] >= StaleAfter}

\* Mutant: nothing is released.
ReleaseNothing == UNCHANGED <<status, claimedBy, claimAge>>

ReleaseStaleClaims ==
    /\ status' = [j \in Jobs |-> IF j \in Stale THEN "PENDING" ELSE status[j]]
    /\ claimedBy' = [j \in Jobs |-> IF j \in Stale THEN None ELSE claimedBy[j]]
    /\ claimAge' = [j \in Jobs |-> IF j \in Stale THEN 0 ELSE claimAge[j]]

Sweep(i) ==
    /\ inst[i] = "up" /\ Waiting(i) = {}
    /\ Stale # {}
    /\ ReleaseStaleClaims
    /\ UNCHANGED <<created, users, execution, instance, history, faults>>

--------------------------------------------------------------------------------
(* One execution (AsyncJobExecutor.executeOne) *)

\* e moves to s; leaving executeOne frees its slot.
Goto(e, s) == pc' = [pc EXCEPT ![e] = s]
Leave(e, s) ==
    /\ Goto(e, s)
    /\ sem' = [i \in Instances |-> sem[i] \ {e}]

\* Mutant: a rejected job is only logged.
RejectSilently(e) ==
    /\ pc[e] = "checking"
    /\ CreatedBy[e[1]] \notin users
    /\ Leave(e, "done")
    /\ UNCHANGED <<table, users, at, runAge, write, inst, batch, history, faults>>

\* created_by is NULL, or UserExistsByID says the user is gone, or it fails.
Reject(e) ==
    /\ pc[e] = "checking"
    /\ \/ CreatedBy[e[1]] \notin users /\ faults' = faults
       \/ CreatedBy[e[1]] # None /\ Fault
    /\ Goto(e, "failed")
    /\ UNCHANGED <<table, users, at, runAge, write, instance, history>>

\* UserExistsByID fails because ctx is cancelled: the claim stays.
Abandon(e) ==
    /\ pc[e] = "checking"
    /\ CreatedBy[e[1]] # None
    /\ inst[at[e]] = "stopping"
    /\ Leave(e, "abandoned")
    /\ UNCHANGED <<table, users, at, runAge, write, inst, batch, history, faults>>

\* The creator exists: Dispatch begins, under ActionTimeout.
Accept(e) ==
    /\ pc[e] = "checking"
    /\ CreatedBy[e[1]] \in users
    /\ Goto(e, "running")
    /\ UNCHANGED <<table, users, at, runAge, write, instance, history, faults>>

\* Dispatch returns a result: the work was done.
Succeed(e) ==
    /\ pc[e] = "running"
    /\ Goto(e, "succeeded")
    /\ effect' = [effect EXCEPT ![e[1]] = @ \cup {e[2]}]
    /\ UNCHANGED <<table, users, at, runAge, write, instance, claims, notes, faults>>

\* Mutant: the error of Dispatch is ignored.
FailIgnored(e) ==
    /\ pc[e] = "running"
    /\ Goto(e, "succeeded")
    /\ UNCHANGED <<table, users, at, runAge, write, instance, history, faults>>

\* Dispatch returns an error or panics, before or after it has done the work.
Fail(e) ==
    /\ pc[e] = "running"
    /\ Goto(e, "failed")
    /\ effect' \in {effect, [effect EXCEPT ![e[1]] = @ \cup {e[2]}]}
    /\ UNCHANGED <<table, users, at, runAge, write, instance, claims, notes, faults>>

\* UPDATE ... SET status = s WHERE id = j AND status = 1.  The statement names
\* the row and its status, not the instance that claimed it.
MarkRow(j, s) ==
    IF status[j] = "RUNNING"
    THEN /\ status' = [status EXCEPT ![j] = s]
         /\ claimedBy' = [claimedBy EXCEPT ![j] = None]
         /\ claimAge' = [claimAge EXCEPT ![j] = 0]
    ELSE UNCHANGED <<status, claimedBy, claimAge>>

\* The detached write of result s; whatever becomes of it, e goes on to next.  A
\* write that reports an error may have been committed or not.
Persist(e, s, next) ==
    /\ Goto(e, next)
    /\ \/ /\ MarkRow(e[1], s)
          /\ write' = [write EXCEPT ![e] = "ok"]
          /\ faults' = faults
       \/ /\ write' = [write EXCEPT ![e] = "error"]
          /\ Fault
          /\ MarkRow(e[1], s) \/ UNCHANGED <<status, claimedBy, claimAge>>
    /\ UNCHANGED <<created, users, at, runAge, instance, history>>

MarkSucceeded(e) == pc[e] = "succeeded" /\ Persist(e, "SUCCEEDED", "notifySuccess")

\* Mutant: a failed job is put back into the queue.
MarkFailedRetries(e) == pc[e] = "failed" /\ Persist(e, "PENDING", "notifyError")

MarkFailed(e) == pc[e] = "failed" /\ Persist(e, "FAILED", "notifyError")

\* Mutant: only success is announced.
PublishSuccessOnly(e) ==
    /\ pc[e] \in Notifying
    /\ Leave(e, "done")
    /\ notes' = IF CreatedBy[e[1]] = None \/ pc[e] = "notifyError" THEN notes
                ELSE [notes EXCEPT ![e[1]] = @ \cup {"SUCCESS"}]
    /\ UNCHANGED <<table, users, at, runAge, write, inst, batch, claims, effect, faults>>

\* publishCompletion: PublishTo on the bus of this process, which reaches the creator's
\* streams on this instance and no other (NotificationBus); there is nobody to address
\* when created_by is NULL.
PublishCompletion(e) ==
    /\ pc[e] \in Notifying
    /\ Leave(e, "done")
    /\ LET level == IF pc[e] = "notifySuccess" THEN "SUCCESS" ELSE "ERROR"
       IN  notes' = IF CreatedBy[e[1]] = None THEN notes
                    ELSE [notes EXCEPT ![e[1]] = @ \cup {level}]
    /\ UNCHANGED <<table, users, at, runAge, write, inst, batch, claims, effect, faults>>

--------------------------------------------------------------------------------
(* Processes and time *)

\* Manager.Stop: the context of every runner is cancelled.
Shutdown(i) ==
    /\ inst[i] = "up"
    /\ inst' = [inst EXCEPT ![i] = "stopping"]
    /\ Fault
    /\ UNCHANGED <<table, users, execution, batch, sem, history>>

\* Run returns after wg.Wait().
Stopped(i) ==
    /\ inst[i] = "stopping"
    /\ \A e \in Execs : at[e] = i => ~Live(e)
    /\ inst' = [inst EXCEPT ![i] = "down"]
    /\ batch' = [batch EXCEPT ![i] = {}]
    /\ sem' = [sem EXCEPT ![i] = {}]
    /\ UNCHANGED <<table, users, execution, history, faults>>

\* The process dies, or exits before its runners are done: its goroutines are lost.
Crash(i) ==
    /\ inst[i] # "down"
    /\ inst' = [inst EXCEPT ![i] = "down"]
    /\ pc' = [e \in Execs |-> IF at[e] = i /\ Live(e) THEN "lost" ELSE pc[e]]
    /\ batch' = [batch EXCEPT ![i] = {}]
    /\ sem' = [sem EXCEPT ![i] = {}]
    /\ Fault
    /\ UNCHANGED <<table, users, at, runAge, write, history>>

\* A new process under the same instance ID: Run starts with a sweep, and goes on
\* if that fails.
Boot(i) ==
    /\ inst[i] = "down"
    /\ inst' = [inst EXCEPT ![i] = "up"]
    /\ \/ ReleaseStaleClaims /\ faults' = faults
       \/ UNCHANGED <<status, claimedBy, claimAge>> /\ Fault
    /\ UNCHANGED <<created, users, execution, batch, sem, history>>

\* What cannot wait for the next time unit: database calls, a free slot, and a
\* handler whose context has expired.
Urgent(e) ==
    \/ Live(e) /\ pc[e] \notin {"waiting", "running"}
    \/ pc[e] = "waiting" /\ Cardinality(sem[at[e]]) < Concurrency
    \/ pc[e] = "running" /\ runAge[e] >= ActionTimeout

Tick ==
    /\ \A e \in Execs : ~Urgent(e)
    /\ claimAge' = [j \in Jobs |->
         IF status[j] = "RUNNING" /\ claimAge[j] < StaleAfter THEN claimAge[j] + 1
         ELSE claimAge[j]]
    /\ runAge' = [e \in Execs |-> IF pc[e] = "running" THEN runAge[e] + 1 ELSE runAge[e]]
    /\ UNCHANGED <<status, claimedBy, created, users, pc, at, write, instance, history, faults>>

--------------------------------------------------------------------------------
Execution(e) ==
    \/ Reject(e) \/ Abandon(e) \/ Accept(e)
    \/ Succeed(e) \/ Fail(e)
    \/ MarkSucceeded(e) \/ MarkFailed(e)
    \/ PublishCompletion(e)

Loop(i) ==
    \/ ClaimDue(i) \/ ClaimDueReplyLost(i)
    \/ \E e \in Execs : StartOne(i, e)
    \/ DropBatch(i) \/ Sweep(i)

Process(i) == Shutdown(i) \/ Stopped(i) \/ Crash(i) \/ Boot(i)

Next ==
    \/ \E j \in Jobs : Enqueue(j)
    \/ \E u \in Users : DeleteUser(u)
    \/ \E i \in Instances : Loop(i) \/ Process(i)
    \/ \E e \in Execs : Execution(e)
    \/ Tick

Spec == Init /\ [][Next]_vars

\* The tickers of a running loop fire, goroutines run, handlers return by their
\* deadline, the supervisor restarts a controller, and time passes.
Fairness ==
    /\ \A i \in Instances :
         /\ WF_vars(ClaimDue(i)) /\ WF_vars(Sweep(i))
         /\ WF_vars(\E e \in Execs : StartOne(i, e))
         /\ WF_vars(Stopped(i)) /\ WF_vars(Boot(i))
    /\ \A e \in Execs : WF_vars(Execution(e))
    /\ WF_vars(Tick)

FairSpec == Spec /\ Fairness

--------------------------------------------------------------------------------
(* Correctness *)

\* An execution whose result is still open is the one the row was last claimed
\* for: the row is RUNNING and names its instance.  So no job is worked on twice
\* at once, no sweep takes a claim from a live worker, and no worker writes its
\* result over the claim of another, although MarkRow does not look at claimed_by.
ExclusiveExecution ==
    \A e \in Execs : pc[e] \in Working =>
        /\ e[2] = claims[e[1]]
        /\ status[e[1]] = "RUNNING"
        /\ claimedBy[e[1]] = at[e]

\* A claim that is held has someone working on it, unless its worker was lost,
\* gave up on a cancelled context, or could not write the result: executeOne
\* has no other way out that leaves the row RUNNING.
HeldClaimHasWorker ==
    \A e \in Execs :
        (status[e[1]] = "RUNNING" /\ e[2] = claims[e[1]]) =>
            \/ pc[e] \in Working \cup {"lost", "abandoned"}
            \/ pc[e] \in Notifying \cup {"done"} /\ write[e] = "error"

\* The work of a job is repeated only when the result of the earlier execution
\* never reached the database: a stored result ends the job.
RepeatedOnlyIfUnsaved ==
    \A j \in Jobs : \A m, n \in effect[j] : m < n => write[<<j, m>>] # "ok"

\* A job is SUCCEEDED only if some execution has done its work, and success is
\* announced only then.
SuccessIsReal ==
    \A j \in Jobs :
        (status[j] = "SUCCEEDED" \/ "SUCCESS" \in notes[j]) => effect[j] # {}

\* A finished job is never claimed, released or overwritten again, not even by a
\* worker that lost its claim and reports late.
FinishedIsFinal ==
    [][\A j \in Jobs : status[j] \in Terminal =>
          status'[j] = status[j] /\ claims'[j] = claims[j]]_vars

\* Every job that was accepted is settled, in spite of crashes, shutdowns, lost
\* replies and failed writes, as long as these do not go on for ever.
EveryJobSettles ==
    \A j \in Jobs : status[j] \in {"PENDING", "RUNNING"} ~> status[j] \in Terminal

\* The event that is published says what the row says: once a job is SUCCEEDED or
\* FAILED, an event of that level is published on the bus of the instance that stored the
\* result, whatever earlier executions have announced, unless that process died in
\* between.  The bus loses it when the creator has no stream on that instance.
Announces(s) == IF s = "SUCCEEDED" THEN "SUCCESS" ELSE "ERROR"
OutcomeIsPublished ==
    \A j \in Jobs, s \in Terminal : CreatedBy[j] # None =>
        (status[j] = s
           ~> \/ Announces(s) \in notes[j]
              \/ \E n \in 1..claims[j] : pc[<<j, n>>] = "lost" /\ write[<<j, n>>] # "open")

--------------------------------------------------------------------------------
(* What a job looks like from outside *)

WorkedOn(j) == \E e \in Execs : e[1] = j /\ pc[e] \in Working
HasActed(j) == \E e \in Execs : e[1] = j /\ pc[e] \in Working /\ e[2] \in effect[j]

StateOf(j) ==
    CASE status[j] = "ABSENT" -> "absent"
      [] status[j] = "PENDING" -> "waiting"
      [] status[j] \in Terminal -> "finished"
      [] status[j] = "RUNNING" /\ HasActed(j) -> "acted"
      [] status[j] = "RUNNING" /\ ~HasActed(j) /\ WorkedOn(j) -> "held"
      [] status[j] = "RUNNING" /\ ~WorkedOn(j) -> "orphaned"

QueueState == [j \in Jobs |-> StateOf(j)]

Queue == INSTANCE WorkQueue WITH Items <- Jobs, state <- QueueState

\* The executors implement the abstract queue: a sweep releases only what nobody works
\* on, a result ends only a claim that is still held, and claims, crashes and lost
\* answers move whole batches at a time.
ImplementsQueue == Queue!Spec
================================================================================
