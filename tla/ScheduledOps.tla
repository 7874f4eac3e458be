------------------------------ MODULE ScheduledOps ------------------------------
(***************************************************************************)
(* Scheduled session operations: the scheduled_session_operations table,    *)
(* the requests Create and Cancel, and controller instances that run        *)
(* worker.ScheduledOperationExecutor against the same database.             *)
(*                                                                          *)
(* The executor claims due rows as AsyncJobExecutor does.  What is new:     *)
(* next_fire_at, a trigger that may answer "not yet" and puts the row back, *)
(* and a user who cancels a row that may be claimed at the same moment.     *)
(*                                                                          *)
(* An operation of TimeOps has a TimeTrigger; the others have a             *)
(* SessionUserCountTrigger on one session, whose user count each instance   *)
(* knows from its own SessionStateCache.  Times are relative and in units.  *)
(***************************************************************************)
EXTENDS Integers, FiniteSets

CONSTANTS
    Ops,            \* operations that may be created
    TimeOps,        \* those with a TimeTrigger
    Comparator,     \* "LE" or "GE" for each of the others
    Threshold,      \* the threshold of the user count triggers
    Instances,      \* controller processes
    None,           \* SQL NULL
    Miss,           \* no entry in the cache
    Batch, Concurrency, ActionTimeout, StaleAfter,
    RequeueDelay,   \* tickInterval, after a trigger that is not ready
    MissBackoff,    \* sessionUserCountMissBackoff
    Fetchers,       \* bound: instances with a request that asks the host for a snapshot
    MaxUsers,       \* bound: users in the session
    MaxDelay,       \* bound: how far ahead a time is scheduled
    MaxLate,        \* bound: how long a due row is left unclaimed
    MaxOverlap,     \* bound: executions of one operation at a time
    MaxFaults       \* bound: crashes, shutdowns and failed database calls

ASSUME ConstantsAssumption ==
    /\ IsFiniteSet(Ops) /\ TimeOps \subseteq Ops
    /\ Comparator \in [Ops \ TimeOps -> {"LE", "GE"}]
    /\ None \notin Instances /\ Fetchers \subseteq Instances
    /\ Threshold \in Nat /\ MaxUsers \in Nat /\ Miss \notin 0..MaxUsers
    /\ Batch \in Nat \ {0} /\ Concurrency \in Nat \ {0}
    /\ ActionTimeout \in Nat /\ StaleAfter \in Nat \ {0}
    /\ RequeueDelay \in 0..MaxDelay /\ MissBackoff \in 0..MaxDelay
    /\ MaxDelay \in Nat /\ MaxLate \in Nat
    /\ MaxOverlap \in Nat \ {0} /\ MaxFaults \in Nat

VARIABLES
    \* the table
    status,     \* status of the row
    claimedBy,  \* claimed_by
    claimAge,   \* time since claimed_at, StaleAfter at most
    due,        \* time until next_fire_at, negative once it has passed
    \* the session of the user count triggers
    row,        \* its row in the sessions table, "RUNNING" for any status but ENDED
    cache,      \* its user count in the cache of each instance
    told,       \* instances that have handled its SessionEnded; its host runs it until then
    fetched,    \* the instances with a request that has got a snapshot from the host
    \* executions: <<o, k>> is a goroutine of executeOne for o
    pc, at, runAge,
    did,        \* whether the action has taken effect
    \* instances
    inst, batch, sem,
    \* history
    effects,    \* how often the action of o took effect, 2 standing for more
    unsaved,    \* operations with an effect whose result was not stored
    faults

table == <<status, claimedBy, claimAge, due>>
session == <<row, cache, told, fetched>>
execution == <<pc, at, runAge, did>>
instance == <<inst, batch, sem>>
history == <<effects, unsaved>>
vars == <<table, session, execution, instance, history, faults>>

--------------------------------------------------------------------------------
Statuses == {"ABSENT", "PENDING", "RUNNING", "SUCCEEDED", "FAILED", "CANCELED"}
Terminal == {"SUCCEEDED", "FAILED", "CANCELED"}
Open == {"PENDING", "RUNNING"}
PCs == {"none", "waiting", "checking", "evaluating", "requeueSoon", "requeueLater",
        "running", "succeeded", "failed"}

Execs == Ops \X (1..MaxOverlap)
Counts == 0..MaxUsers
Live(e) == pc[e] # "none"
Waiting(i) == {e \in batch[i] : pc[e] = "waiting"}

TypeOK ==
    /\ status \in [Ops -> Statuses]
    /\ claimedBy \in [Ops -> Instances \cup {None}]
    /\ claimAge \in [Ops -> 0..StaleAfter]
    /\ due \in [Ops -> -MaxLate..MaxDelay]
    /\ row \in {"RUNNING", "ENDED", "DELETED"}
    /\ cache \in [Instances -> Counts \cup {Miss}]
    /\ told \in SUBSET Instances
    /\ fetched \in SUBSET Instances
    /\ pc \in [Execs -> PCs]
    /\ at \in [Execs -> Instances \cup {None}]
    /\ runAge \in [Execs -> 0..ActionTimeout]
    /\ did \in [Execs -> BOOLEAN]
    /\ inst \in [Instances -> {"up", "stopping", "down"}]
    /\ batch \in [Instances -> SUBSET Execs]
    /\ sem \in [Instances -> SUBSET Execs]
    /\ effects \in [Ops -> 0..2]
    /\ unsaved \in SUBSET Ops
    /\ faults \in 0..MaxFaults

Init ==
    /\ status = [o \in Ops |-> "ABSENT"]
    /\ claimedBy = [o \in Ops |-> None]
    /\ claimAge = [o \in Ops |-> 0]
    /\ due = [o \in Ops |-> 0]
    /\ row = "RUNNING"
    /\ cache = [i \in Instances |-> Miss]
    /\ told = {}
    /\ fetched = {}
    /\ pc = [e \in Execs |-> "none"]
    /\ at = [e \in Execs |-> None]
    /\ runAge = [e \in Execs |-> 0]
    /\ did = [e \in Execs |-> FALSE]
    /\ inst = [i \in Instances |-> "up"]
    /\ batch = [i \in Instances |-> {}]
    /\ sem = [i \in Instances |-> {}]
    /\ effects = [o \in Ops |-> 0]
    /\ unsaved = {}
    /\ faults = 0

Fault == faults < MaxFaults /\ faults' = faults + 1

--------------------------------------------------------------------------------
(* Requests *)

\* Usecase.Create.  Evaluate is called without a cache: a TimeTrigger answers with
\* its time, the other one with zero, which is stored as now.
Create(o, d) ==
    /\ status[o] = "ABSENT"
    /\ IF o \in TimeOps THEN d \in 0..MaxDelay ELSE d = 0 /\ row # "DELETED"
    /\ status' = [status EXCEPT ![o] = "PENDING"]
    /\ due' = [due EXCEPT ![o] = d]
    /\ UNCHANGED <<claimedBy, claimAge, session, execution, instance, history, faults>>

\* Mutant: the update does not test the status.
CancelUnguarded(o) ==
    /\ status[o] \in Open
    /\ o \in TimeOps \/ row # "DELETED"
    /\ status' = [status EXCEPT ![o] = "CANCELED"]
    /\ UNCHANGED <<claimedBy, claimAge, due, session, execution, instance, history, faults>>

\* Usecase.Cancel.  The group of the target is looked up first, so an operation
\* whose session was deleted cannot be canceled; the UPDATE tests for PENDING.
Cancel(o) ==
    /\ status[o] = "PENDING"
    /\ o \in TimeOps \/ row # "DELETED"
    /\ status' = [status EXCEPT ![o] = "CANCELED"]
    /\ UNCHANGED <<claimedBy, claimAge, due, session, execution, instance, history, faults>>

--------------------------------------------------------------------------------
(* The session, as the triggers see it *)

RunsOnHost == told = {}

\* The handlers of i put the count of an event into its cache.  Events come in order, so
\* none does so after the end.
Observe(i, n) ==
    /\ i \notin told /\ inst[i] # "down" /\ cache[i] # n
    /\ cache' = [cache EXCEPT ![i] = n]
    /\ UNCHANGED <<table, row, told, fetched, execution, instance, history, faults>>

\* SessionEnded is handled by i: the entry goes, and the row becomes ENDED if it is there.
HandleEnded(i) ==
    /\ i \notin told /\ inst[i] # "down"
    /\ told' = told \cup {i}
    /\ cache' = [cache EXCEPT ![i] = Miss]
    /\ row' = IF row = "RUNNING" THEN "ENDED" ELSE row
    /\ UNCHANGED <<table, fetched, execution, instance, history, faults>>

\* A request on i that has read the row, GetSession after a miss or UpdateSessionParameters,
\* gets a snapshot from the host.
Fetch(i) ==
    /\ RunsOnHost /\ row # "DELETED" /\ inst[i] # "down"
    /\ i \in Fetchers \ fetched
    /\ fetched' = fetched \cup {i}
    /\ UNCHANGED <<table, row, cache, told, execution, instance, history, faults>>

\* ... writes the status that it has read or inferred (Upsert also inserts the row again) ...
WriteBack(i) ==
    /\ i \in fetched /\ inst[i] # "down" /\ row # "RUNNING"
    /\ row' = "RUNNING"
    /\ UNCHANGED <<table, cache, told, fetched, execution, instance, history, faults>>

\* ... and puts the snapshot, with any count n, into the cache, whatever has happened to the
\* session since.  GetSession writes the row after that, UpdateSessionParameters before.
Store(i, n) ==
    /\ i \in fetched /\ inst[i] # "down"
    /\ cache' = [cache EXCEPT ![i] = n]
    /\ fetched' \in {fetched, fetched \ {i}}
    /\ UNCHANGED <<table, row, told, execution, instance, history, faults>>

\* DeleteSession, served by i: it does not ask whether the session runs.
DeleteSession(i) ==
    /\ row # "DELETED" /\ inst[i] # "down"
    /\ row' = "DELETED"
    /\ cache' = [cache EXCEPT ![i] = Miss]
    /\ UNCHANGED <<table, told, fetched, execution, instance, history, faults>>

--------------------------------------------------------------------------------
(* The executor's loop *)

\* Mutant: the time alone makes a row due.
DueInAnyStatus == {o \in Ops : status[o] \notin {"ABSENT", "RUNNING"} /\ due[o] <= 0}

Due == {o \in Ops : status[o] = "PENDING" /\ due[o] <= 0}

\* The rows ClaimDueScheduledSessionOperations updates: of those that are due the
\* ones with the smallest next_fire_at, Batch at most.
Claimable(S) ==
    /\ S # {} /\ S \subseteq Due
    /\ Cardinality(S) <= Batch
    /\ S # Due => Cardinality(S) = Batch
    /\ \A o \in S, p \in Due \ S : due[o] <= due[p]

\* The goroutine that a claim of o will start: one that does not run yet.
Fresh(o, k) == ~Live(<<o, k>>) /\ \A m \in 1..(k - 1) : Live(<<o, m>>)
Claimed(S) == {e \in Execs : e[1] \in S /\ Fresh(e[1], e[2])}
HasRoom(S) == \A o \in S : \E k \in 1..MaxOverlap : Fresh(o, k)

ClaimRows(i, S) ==
    /\ status' = [o \in Ops |-> IF o \in S THEN "RUNNING" ELSE status[o]]
    /\ claimedBy' = [o \in Ops |-> IF o \in S THEN i ELSE claimedBy[o]]
    /\ claimAge' = [o \in Ops |-> IF o \in S THEN 0 ELSE claimAge[o]]
    /\ UNCHANGED due

ClaimDue(i) ==
    /\ inst[i] = "up" /\ Waiting(i) = {}
    /\ \E S \in SUBSET Ops :
         /\ Claimable(S) /\ HasRoom(S)
         /\ ClaimRows(i, S)
         /\ pc' = [e \in Execs |-> IF e \in Claimed(S) THEN "waiting" ELSE pc[e]]
         /\ at' = [e \in Execs |-> IF e \in Claimed(S) THEN i ELSE at[e]]
         /\ batch' = [batch EXCEPT ![i] = Claimed(S)]
    /\ sem' = [sem EXCEPT ![i] = {}]
    /\ UNCHANGED <<session, runAge, did, inst, history, faults>>

\* The claim commits but its reply is an error.
ClaimDueReplyLost(i) ==
    /\ inst[i] # "down" /\ Waiting(i) = {}
    /\ \E S \in SUBSET Ops : Claimable(S) /\ ClaimRows(i, S)
    /\ Fault
    /\ UNCHANGED <<session, execution, instance, history>>

StartOne(i, e) ==
    /\ e \in Waiting(i)
    /\ Cardinality(sem[i]) < Concurrency
    /\ sem' = [sem EXCEPT ![i] = @ \cup {e}]
    /\ pc' = [pc EXCEPT ![e] = "checking"]
    /\ UNCHANGED <<table, session, at, runAge, did, inst, batch, history, faults>>

\* ctx.Done() while waiting for a slot.
DropBatch(i) ==
    /\ inst[i] = "stopping" /\ Waiting(i) # {}
    /\ pc' = [e \in Execs |-> IF e \in Waiting(i) THEN "none" ELSE pc[e]]
    /\ at' = [e \in Execs |-> IF e \in Waiting(i) THEN None ELSE at[e]]
    /\ batch' = [batch EXCEPT ![i] = @ \ Waiting(i)]
    /\ UNCHANGED <<table, session, runAge, did, inst, sem, history, faults>>

\* Mutant: a claim is taken to be stale one unit early.
StaleEarly == {o \in Ops : status[o] = "RUNNING" /\ claimAge[o] >= StaleAfter - 1}

Stale == {o \in Ops : status[o] = "RUNNING" /\ claimAge[o] >= StaleAfter}

\* Mutant: nothing is released.
ReleaseNothing == UNCHANGED table

ReleaseStaleClaims ==
    /\ status' = [o \in Ops |-> IF o \in Stale THEN "PENDING" ELSE status[o]]
    /\ claimedBy' = [o \in Ops |-> IF o \in Stale THEN None ELSE claimedBy[o]]
    /\ claimAge' = [o \in Ops |-> IF o \in Stale THEN 0 ELSE claimAge[o]]
    /\ UNCHANGED due

Sweep(i) ==
    /\ inst[i] = "up" /\ Waiting(i) = {}
    /\ Stale # {}
    /\ ReleaseStaleClaims
    /\ UNCHANGED <<session, execution, instance, history, faults>>

--------------------------------------------------------------------------------
(* One execution (executeOne) *)

Goto(e, s) == pc' = [pc EXCEPT ![e] = s]

\* The goroutine of e ends.
Finish(e) ==
    /\ Goto(e, "none")
    /\ at' = [at EXCEPT ![e] = None]
    /\ runAge' = [runAge EXCEPT ![e] = 0]
    /\ did' = [did EXCEPT ![e] = FALSE]
    /\ batch' = [i \in Instances |-> batch[i] \ {e}]
    /\ sem' = [i \in Instances |-> sem[i] \ {e}]

\* created_by and the payloads are abstracted: the check of the creator or the
\* decoding of the trigger may fail for any operation.
Reject(e) ==
    /\ pc[e] = "checking"
    /\ Goto(e, "failed")
    /\ UNCHANGED <<table, session, at, runAge, did, instance, history, faults>>

\* The check fails because ctx is cancelled: the claim stays.
Abandon(e) ==
    /\ pc[e] = "checking" /\ inst[at[e]] = "stopping"
    /\ Finish(e)
    /\ UNCHANGED <<table, session, inst, history, faults>>

Accept(e) ==
    /\ pc[e] = "checking"
    /\ Goto(e, "evaluating")
    /\ UNCHANGED <<table, session, at, runAge, did, instance, history, faults>>

\* The answers of Trigger.Evaluate for o on instance i.  The time of a TimeTrigger
\* has come when its row is claimed: database and instances agree on the time.
Holds(o, n) == IF Comparator[o] = "LE" THEN n <= Threshold ELSE n >= Threshold


Answer(o, i) ==
    CASE o \in TimeOps -> "running"
      [] o \notin TimeOps /\ cache[i] = Miss ->
           IF row = "ENDED" THEN "failed" ELSE "requeueLater"
      [] o \notin TimeOps /\ cache[i] # Miss ->
           IF Holds(o, cache[i]) THEN "running" ELSE "requeueSoon"

\* A lookup of the session that fails counts as a session that has not ended, and
\* an action that cannot be decoded as a failure.
Evaluate(e) ==
    /\ pc[e] = "evaluating"
    /\ \/ Goto(e, Answer(e[1], at[e])) /\ faults' = faults
       \/ /\ e[1] \notin TimeOps /\ cache[at[e]] = Miss
          /\ Goto(e, "requeueLater")
          /\ IF inst[at[e]] = "stopping" THEN faults' = faults ELSE Fault
       \/ Answer(e[1], at[e]) = "running" /\ Goto(e, "failed") /\ faults' = faults
    /\ UNCHANGED <<table, session, at, runAge, did, instance, history>>

\* UPDATE ... SET status = s WHERE id = o AND status = 1, and next_fire_at = d.
MarkRow(o, s, d) ==
    IF status[o] = "RUNNING"
    THEN /\ status' = [status EXCEPT ![o] = s]
         /\ claimedBy' = [claimedBy EXCEPT ![o] = None]
         /\ claimAge' = [claimAge EXCEPT ![o] = 0]
         /\ due' = [due EXCEPT ![o] = d]
    ELSE UNCHANGED table

\* Repository.Requeue under the worker's own ctx: it fails once that is cancelled.
Requeue(e) ==
    /\ pc[e] \in {"requeueSoon", "requeueLater"}
    /\ LET d == IF pc[e] = "requeueSoon" THEN RequeueDelay ELSE MissBackoff
       IN  \/ inst[at[e]] = "up" /\ MarkRow(e[1], "PENDING", d) /\ faults' = faults
           \/ inst[at[e]] = "stopping" /\ UNCHANGED <<table, faults>>
           \/ (MarkRow(e[1], "PENDING", d) \/ UNCHANGED table) /\ Fault
    /\ Finish(e)
    /\ UNCHANGED <<session, inst, history>>

Bump(o) == effects' = [effects EXCEPT ![o] = IF @ = 2 THEN 2 ELSE @ + 1]

\* Action.Execute returns nil.
Succeed(e) ==
    /\ pc[e] = "running"
    /\ Goto(e, "succeeded")
    /\ did' = [did EXCEPT ![e] = TRUE]
    /\ Bump(e[1])
    /\ UNCHANGED <<table, session, at, runAge, instance, unsaved, faults>>

\* Action.Execute returns an error, before or after it took effect.
Fail(e) ==
    /\ pc[e] = "running"
    /\ Goto(e, "failed")
    /\ \/ did' = [did EXCEPT ![e] = TRUE] /\ Bump(e[1])
       \/ UNCHANGED <<did, effects>>
    /\ UNCHANGED <<table, session, at, runAge, instance, unsaved, faults>>

\* The detached write of the result s.
Persist(e, s) ==
    /\ \/ MarkRow(e[1], s, due[e[1]]) /\ UNCHANGED <<unsaved, faults>>
       \/ /\ MarkRow(e[1], s, due[e[1]]) \/ UNCHANGED table
          /\ unsaved' = IF did[e] THEN unsaved \cup {e[1]} ELSE unsaved
          /\ Fault
    /\ Finish(e)
    /\ UNCHANGED <<session, inst, effects>>

\* Mutant: the result of a success is not stored.
MarkSucceededForgotten(e) ==
    /\ pc[e] = "succeeded"
    /\ Finish(e)
    /\ UNCHANGED <<table, session, inst, history, faults>>

MarkSucceeded(e) == pc[e] = "succeeded" /\ Persist(e, "SUCCEEDED")
MarkFailed(e) == pc[e] = "failed" /\ Persist(e, "FAILED")

--------------------------------------------------------------------------------
(* Processes and time *)

Shutdown(i) ==
    /\ inst[i] = "up"
    /\ inst' = [inst EXCEPT ![i] = "stopping"]
    /\ Fault
    /\ UNCHANGED <<table, session, execution, batch, sem, history>>

\* Run returns after wg.Wait().
Stopped(i) ==
    /\ inst[i] = "stopping"
    /\ \A e \in Execs : at[e] # i
    /\ inst' = [inst EXCEPT ![i] = "down"]
    /\ UNCHANGED <<table, session, execution, batch, sem, history, faults>>

\* The process dies (a panic of an action included, which nothing recovers).
Crash(i) ==
    /\ inst[i] # "down"
    /\ inst' = [inst EXCEPT ![i] = "down"]
    /\ LET lost == {e \in Execs : at[e] = i}
       IN  /\ pc' = [e \in Execs |-> IF e \in lost THEN "none" ELSE pc[e]]
           /\ at' = [e \in Execs |-> IF e \in lost THEN None ELSE at[e]]
           /\ runAge' = [e \in Execs |-> IF e \in lost THEN 0 ELSE runAge[e]]
           /\ did' = [e \in Execs |-> IF e \in lost THEN FALSE ELSE did[e]]
           /\ unsaved' = unsaved \cup {e[1] : e \in {f \in lost : did[f]}}
    /\ batch' = [batch EXCEPT ![i] = {}]
    /\ sem' = [sem EXCEPT ![i] = {}]
    /\ Fault
    /\ UNCHANGED <<table, session, effects>>

\* A new process starts with an empty cache and a sweep.
Boot(i) ==
    /\ inst[i] = "down"
    /\ inst' = [inst EXCEPT ![i] = "up"]
    /\ cache' = [cache EXCEPT ![i] = Miss]
    /\ fetched' = fetched \ {i}
    /\ \/ ReleaseStaleClaims /\ faults' = faults
       \/ UNCHANGED table /\ Fault
    /\ UNCHANGED <<row, told, execution, batch, sem, history>>

\* What cannot wait for the next time unit.
Urgent(e) ==
    \/ Live(e) /\ pc[e] \notin {"waiting", "running"}
    \/ pc[e] = "waiting" /\ Cardinality(sem[at[e]]) < Concurrency
    \/ pc[e] = "running" /\ runAge[e] >= ActionTimeout

Tick ==
    /\ \A e \in Execs : ~Urgent(e)
    /\ \A o \in Ops : status[o] = "PENDING" => due[o] > -MaxLate
    /\ claimAge' = [o \in Ops |->
         IF status[o] = "RUNNING" /\ claimAge[o] < StaleAfter THEN claimAge[o] + 1
         ELSE claimAge[o]]
    /\ due' = [o \in Ops |->
         IF status[o] \in Open /\ due[o] > -MaxLate THEN due[o] - 1 ELSE due[o]]
    /\ runAge' = [e \in Execs |-> IF pc[e] = "running" THEN runAge[e] + 1 ELSE runAge[e]]
    /\ UNCHANGED <<status, claimedBy, session, pc, at, did, instance, history, faults>>

--------------------------------------------------------------------------------
Execution(e) ==
    \/ Reject(e) \/ Abandon(e) \/ Accept(e)
    \/ Evaluate(e) \/ Requeue(e)
    \/ Succeed(e) \/ Fail(e)
    \/ MarkSucceeded(e) \/ MarkFailed(e)

Loop(i) ==
    \/ ClaimDue(i) \/ ClaimDueReplyLost(i)
    \/ \E e \in Execs : StartOne(i, e)
    \/ DropBatch(i) \/ Sweep(i)

Process(i) == Shutdown(i) \/ Stopped(i) \/ Crash(i) \/ Boot(i)

Session ==
    \/ \E i \in Instances, n \in Counts : Observe(i, n) \/ Store(i, n)
    \/ \E i \in Instances : HandleEnded(i) \/ Fetch(i) \/ WriteBack(i) \/ DeleteSession(i)

Next ==
    \/ \E o \in Ops : Cancel(o) \/ \E d \in 0..MaxDelay : Create(o, d)
    \/ \E i \in Instances : Loop(i) \/ Process(i)
    \/ \E e \in Execs : Execution(e)
    \/ Session
    \/ Tick

Spec == Init /\ [][Next]_vars

\* As for AsyncJobs; select serves each of the two tickers again and again while
\* the loop is and events of an ended session reach every instance.
Fairness ==
    /\ \A i \in Instances :
         /\ SF_vars(ClaimDue(i)) /\ SF_vars(Sweep(i))
         /\ WF_vars(\E e \in Execs : StartOne(i, e))
         /\ WF_vars(Stopped(i)) /\ WF_vars(Boot(i))
         /\ WF_vars(~RunsOnHost /\ HandleEnded(i))
    /\ \A e \in Execs : WF_vars(Execution(e))
    /\ WF_vars(Tick)

FairSpec == Spec /\ Fairness

--------------------------------------------------------------------------------
(* Correctness *)

\* An execution holds the claim of its row, alone: neither a sweep nor a requeue of
\* a late execution hands the operation to a second one while the first still acts.
ExclusiveExecution ==
    \A e \in Execs : Live(e) =>
        /\ status[e[1]] = "RUNNING" /\ claimedBy[e[1]] = at[e]
        /\ \A f \in Execs : Live(f) /\ f[1] = e[1] => f = e

\* What the user canceled is not done: nothing executes it, and it was not done
\* before either, unless an earlier execution could not store its result.
CanceledIsNotDone ==
    \A o \in Ops : status[o] = "CANCELED" =>
        /\ effects[o] > 0 => o \in unsaved
        /\ \A e \in Execs : e[1] = o => ~Live(e)

\* An action takes effect once, unless the result of the first time was not stored.
RepeatedOnlyIfUnsaved == \A o \in Ops : effects[o] > 1 => o \in unsaved

\* No late execution, sweep or requeue revives an operation that is finished.
FinishedIsFinal ==
    [][\A o \in Ops : status[o] \in Terminal => status'[o] = status[o]]_vars

\* An operation with a time is carried out or failed, crashes or not.
TimedOpSettles == \A o \in TimeOps : status[o] \in Open ~> status[o] \in Terminal

\* The trigger of o waits in vain: after the end a request has put a count into every
\* cache, for which it does not hold, and no event will come to change or remove it.
WaitsInVain(o) ==
    \A i \in Instances : i \in told /\ cache[i] # Miss /\ ~Holds(o, cache[i])


--------------------------------------------------------------------------------
(* What an operation looks like from outside *)

WorkedOn(o) == \E e \in Execs : e[1] = o /\ Live(e)
HasActed(o) == \E e \in Execs : e[1] = o /\ Live(e) /\ did[e]

StateOf(o) ==
    CASE status[o] = "ABSENT" -> "absent"
      [] status[o] = "PENDING" -> "waiting"
      [] status[o] \in Terminal -> "finished"
      [] status[o] = "RUNNING" /\ HasActed(o) -> "acted"
      [] status[o] = "RUNNING" /\ ~HasActed(o) /\ WorkedOn(o) -> "held"
      [] status[o] = "RUNNING" /\ ~WorkedOn(o) -> "orphaned"

QueueState == [o \in Ops |-> StateOf(o)]

Queue == INSTANCE WorkQueue WITH Items <- Ops, state <- QueueState

\* The executors implement the abstract queue: an operation is requeued or canceled only
\* while its action has not taken effect, a sweep releases only what nobody works on,
\* and what is finished stays so.
ImplementsQueue == Queue!Spec
================================================================================
