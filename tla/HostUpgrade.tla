------------------------------ MODULE HostUpgrade ------------------------------
(***************************************************************************)
(* worker.HostUpgradeOrchestrator and worker.ImageChecker for one host that *)
(* opted in (USERS_EMPTY): a new image enrols the host, its empty sessions  *)
(* are stopped, and when none is left the host is restarted on the image.   *)
(* reconcileHost is called by three kinds of goroutine: the ticker, the     *)
(* host's event stream, and one goroutine per image that was announced.     *)
(*                                                                          *)
(* A session is named by its world; a restart opens the worlds of the       *)
(* snapshot again.  Session rows are written by SessionLifecycleHandler     *)
(* before the orchestrator gets the event (module HostEvents has its        *)
(* statements), the statements of a restart are those of module Hosts.      *)
(***************************************************************************)
EXTENDS Integers, Sequences

CONSTANTS
    Worlds,
    PreReleases, \* the images that are pre-releases
    MaxAttempts, \* maxRestartAttempts
    MaxImage,    \* bound: images 1..MaxImage are published, the host begins with 0
    MaxUsers,    \* bound: users in a world
    MaxJoins,    \* bound: how often somebody joins
    MaxEvents,   \* bound: events of the host that are not handled yet
    MaxFaults    \* bound: failed calls, lost streams and restarts of the controller

ASSUME ConstantsAssumption ==
    /\ MaxAttempts \in Nat \ {0}
    /\ MaxImage \in Nat
    /\ MaxUsers \in Nat
    /\ MaxJoins \in Nat
    /\ MaxEvents \in Nat
    /\ MaxFaults \in Nat
    /\ PreReleases \subseteq 1..MaxImage

Images == 1..MaxImage
Tick == 0                 \* the goroutine of Run
Stream == -1              \* the stream goroutine of HostEventWatcher for the host
Callers == -1..MaxImage   \* and one goroutine per image
Nobody == -2
Closed == -1              \* user count of a world that is not open
Unknown == -1             \* no entry in sessionUsers
Counts == -1..MaxUsers

VARIABLES
    \* the container
    up, image, users,
    events,     \* its events that are not handled
    reset,      \* whether the stream will be answered OUT_OF_RANGE
    \* the database
    status,     \* of the host's row
    rows,       \* worlds whose session row says RUNNING
    \* the orchestrator
    drain,      \* drainTargets[host]: on, tag, snap (start_worlds), attempts
    counts,     \* sessionUsers[host]
    lock,       \* who holds reconcileLock[host]
    pc, todo, busy, cur, seen, taken,  \* each goroutine and its local variables
    cancelled,  \* whether the context of the stream is cancelled
    \* ImageChecker, and the registry
    newest, lastTag,
    \* StartSession of a world
    req,
    joins,      \* how often somebody has joined
    \* history
    emptied,    \* worlds that were empty at some time since the lock was taken
    settled,    \* nothing was on its way when the lock holder listed the rows
    owed,       \* worlds the orchestrator stopped that were open at the snapshot
    faults

container == <<up, image, users, events, reset>>
database == <<status, rows>>
local == <<todo, busy, cur, seen, taken>>
checker == <<newest, lastTag>>
history == <<emptied, settled, owed>>
vars == <<container, database, drain, counts, lock, pc, local, cancelled, checker,
          req, joins, history, faults>>

--------------------------------------------------------------------------------
Restarting == {"stopping", "removing", "starting", "leave"}
Section == {"next", "note", "stop", "save"} \cup Restarting
PCs == {"idle", "listing", "snapshot", "enroll", "seed", "seeded", "lock"} \cup Section
Kinds == {"started", "ended", "joined", "left"}

Open == {w \in Worlds : users[w] # Closed}
Events == [kind : Kinds, w : Worlds]
Drains == [on : BOOLEAN, tag : 0..MaxImage, snap : SUBSET Worlds, attempts : 0..MaxAttempts-1]
NotDraining == [on |-> FALSE, tag |-> 0, snap |-> {}, attempts |-> 0]

TypeOK ==
    /\ up \in BOOLEAN
    /\ image \in 0..MaxImage
    /\ users \in [Worlds -> Counts]
    /\ events \in Seq(Events)
    /\ reset \in BOOLEAN
    /\ status \in {"RUNNING", "STOPPING", "STARTING"}
    /\ rows \in SUBSET Worlds
    /\ drain \in Drains
    /\ counts \in [Worlds -> Counts]
    /\ lock \in Callers \cup {Nobody}
    /\ pc \in [Callers -> PCs]
    /\ todo \in [Callers -> SUBSET Worlds]
    /\ busy \in [Callers -> BOOLEAN]
    /\ cur \in [Callers -> SUBSET Worlds]
    /\ seen \in [Callers -> [Worlds -> Counts]]
    /\ taken \in [Callers -> SUBSET Worlds]
    /\ cancelled \in BOOLEAN
    /\ newest \in 0..MaxImage /\ lastTag \in 0..MaxImage
    /\ req \in [Worlds -> {"none", "admitted", "opened", "done"}]
    /\ emptied \in SUBSET Worlds
    /\ settled \in BOOLEAN
    /\ owed \in SUBSET Worlds
    /\ joins \in 0..MaxJoins
    /\ faults \in 0..MaxFaults

NoCounts == [w \in Worlds |-> Unknown]

\* Some worlds are open when the controller starts, with rows that say so and any
\* number of users.
Init ==
    /\ up = TRUE /\ image = 0 /\ reset = FALSE /\ events = <<>>
    /\ users \in [Worlds -> Counts]
    /\ status = "RUNNING" /\ rows = Open
    /\ drain = NotDraining
    /\ counts = NoCounts
    /\ lock = Nobody
    /\ pc = [c \in Callers |-> "idle"]
    /\ todo = [c \in Callers |-> {}]
    /\ busy = [c \in Callers |-> FALSE]
    /\ cur = [c \in Callers |-> {}]
    /\ seen = [c \in Callers |-> NoCounts]
    /\ taken = [c \in Callers |-> {}]
    /\ cancelled = FALSE
    /\ newest = 0 /\ lastTag = 0
    /\ req = [w \in Worlds |-> IF users[w] = Closed THEN "none" ELSE "done"]
    /\ emptied = {} /\ settled = FALSE /\ owed = {}
    /\ joins = 0 /\ faults = 0

--------------------------------------------------------------------------------
(* Helpers *)

Goto(c, l) == pc' = [pc EXCEPT ![c] = l]
Fault == faults < MaxFaults /\ faults' = faults + 1

\* A call under a context that is not cancelled succeeds unless there is a fault.
Works(c) == ~(c = Stream /\ cancelled) /\ UNCHANGED faults
Fails(c) == \/ c = Stream /\ cancelled /\ UNCHANGED faults
            \/ Fault

\* The local variables of c when it has nothing to do.
Forget(c) ==
    /\ todo' = [todo EXCEPT ![c] = {}]
    /\ busy' = [busy EXCEPT ![c] = FALSE]
    /\ cur' = [cur EXCEPT ![c] = {}]
    /\ seen' = [seen EXCEPT ![c] = NoCounts]
    /\ taken' = [taken EXCEPT ![c] = {}]

\* Mutant: an early return that keeps the lock.
ReturnLocked(c) ==
    /\ Goto(c, "idle")
    /\ Forget(c)
    /\ emptied' = {} /\ settled' = FALSE
    /\ UNCHANGED lock

\* reconcileHost returns and the deferred Unlock runs.
Return(c) ==
    /\ Goto(c, "idle")
    /\ Forget(c)
    /\ lock' = Nobody
    /\ emptied' = {} /\ settled' = FALSE

\* An event of the container.
Emit(kind, w) == events' = Append(events, [kind |-> kind, w |-> w])

\* The loop of reconcileHost is done with the current world of c; `left` says that it
\* counts as remaining.
Continue(c, left) ==
    /\ Goto(c, "next")
    /\ todo' = [todo EXCEPT ![c] = @ \ cur[c]]
    /\ busy' = [busy EXCEPT ![c] = @ \/ left]
    /\ cur' = [cur EXCEPT ![c] = {}]
    /\ seen' = [seen EXCEPT ![c] = NoCounts]
    /\ UNCHANGED taken

\* The loop goes on without w, which remains.
Skip(c, w) ==
    /\ todo' = [todo EXCEPT ![c] = @ \ {w}]
    /\ busy' = [busy EXCEPT ![c] = TRUE]
    /\ UNCHANGED <<pc, cur, seen, taken>>

--------------------------------------------------------------------------------
(* The container and its users; what they do is external. *)

Join(w) ==
    /\ up /\ users[w] \in 0..MaxUsers-1
    /\ joins < MaxJoins /\ joins' = joins + 1
    /\ Len(events) < MaxEvents
    /\ users' = [users EXCEPT ![w] = @ + 1]
    /\ Emit("joined", w)
    /\ UNCHANGED <<up, image, reset, database, drain, counts, lock, pc, local,
                   cancelled, checker, req, history, faults>>

Leave(w) ==
    /\ up /\ users[w] > 0
    /\ Len(events) < MaxEvents
    /\ users' = [users EXCEPT ![w] = @ - 1]
    /\ Emit("left", w)
    /\ emptied' = IF users[w] = 1 /\ lock # Nobody THEN emptied \cup {w} ELSE emptied
    /\ UNCHANGED <<up, image, reset, database, drain, counts, lock, pc, local,
                   cancelled, joins, checker, req, settled, owed, faults>>

\* The world is closed from within.
Close(w) ==
    /\ up /\ users[w] = 0
    /\ Len(events) < MaxEvents
    /\ users' = [users EXCEPT ![w] = Closed]
    /\ Emit("ended", w)
    /\ UNCHANGED <<up, image, reset, database, drain, counts, lock, pc, local,
                   cancelled, joins, checker, req, history, faults>>

\* Events fall out of the buffer before the stream has got them.
Evict ==
    /\ Fault
    /\ events # <<>>
    /\ events' = <<>> /\ reset' = TRUE
    /\ UNCHANGED <<up, image, users, database, drain, counts, lock, pc, local,
                   cancelled, joins, checker, req, history>>

--------------------------------------------------------------------------------
(* StartSession *)

\* Mutant: the drainer is not asked.
AdmitAlways(w) ==
    /\ req[w] = "none"
    /\ req' = [req EXCEPT ![w] = "admitted"]
    /\ UNCHANGED <<container, database, drain, counts, lock, pc, local, cancelled, joins,
                   checker, history, faults>>

\* IsHostDraining is asked first; a request that it refuses changes nothing.
Admit(w) ==
    /\ req[w] = "none"
    /\ ~drain.on
    /\ req' = [req EXCEPT ![w] = "admitted"]
    /\ UNCHANGED <<container, database, drain, counts, lock, pc, local, cancelled, joins,
                   checker, history, faults>>

StartWorld(w) ==
    /\ req[w] = "admitted"
    /\ \/ /\ up
          /\ Len(events) < MaxEvents
          /\ users' = [users EXCEPT ![w] = 0]
          /\ Emit("started", w)
          /\ req' = [req EXCEPT ![w] = "opened"]
          /\ emptied' = IF lock # Nobody THEN emptied \cup {w} ELSE emptied
       \/ /\ ~up
          /\ req' = [req EXCEPT ![w] = "done"]
          /\ UNCHANGED <<users, events, emptied>>
    /\ UNCHANGED <<up, image, reset, database, drain, counts, lock, pc, local,
                   cancelled, joins, checker, settled, owed, faults>>

Upsert(w) ==
    /\ req[w] = "opened"
    /\ req' = [req EXCEPT ![w] = "done"]
    /\ rows' = rows \cup {w}
    /\ UNCHANGED <<container, status, drain, counts, lock, pc, local, cancelled, joins,
                   checker, history, faults>>

--------------------------------------------------------------------------------
(* The event stream of the host *)

Bump(w, delta) ==
    LET n == (IF counts[w] = Unknown THEN 0 ELSE counts[w]) + delta
    IN  counts' = [counts EXCEPT ![w] = IF n < 0 THEN 0 ELSE IF n > MaxUsers THEN MaxUsers ELSE n]

\* The lifecycle handler and then HandleHostEvent, up to the call of reconcileHost.
HandleHostEvent ==
    /\ pc[Stream] = "idle" /\ ~cancelled /\ up /\ ~reset
    /\ events # <<>>
    /\ LET e == Head(events)
       IN  /\ CASE e.kind = "started" -> rows' = rows \cup {e.w} /\ UNCHANGED counts
                [] e.kind = "ended" -> /\ rows' = rows \ {e.w}
                                       /\ counts' = [counts EXCEPT ![e.w] = Unknown]
                [] e.kind = "joined" -> Bump(e.w, 1) /\ UNCHANGED rows
                [] e.kind = "left" -> Bump(e.w, -1) /\ UNCHANGED rows
           /\ Goto(Stream, IF drain.on /\ e.kind # "started" THEN "lock" ELSE "idle")
    /\ events' = Tail(events)
    /\ UNCHANGED <<up, image, users, reset, status, drain, lock, local, cancelled, joins,
                   checker, req, history, faults>>

\* OUT_OF_RANGE: the lifecycle handler brings the rows in line with ListSessions, and
\* the orchestrator wipes its counts.
HandleHostEventStreamReset ==
    /\ pc[Stream] = "idle" /\ ~cancelled /\ up /\ reset
    /\ reset' = FALSE
    /\ rows' = Open
    /\ events' = <<>>
    /\ counts' = NoCounts
    /\ Goto(Stream, IF drain.on THEN "seed" ELSE "idle")
    /\ UNCHANGED <<up, image, users, status, drain, lock, local, cancelled, joins, checker,
                   req, history, faults>>

\* HostEventWatcher.reconcile: the stream's context is cancelled when the row is not
\* RUNNING; a new stream begins once the old goroutine has ended.
WatcherReconcile ==
    /\ \/ status # "RUNNING" /\ ~cancelled /\ cancelled' = TRUE
       \/ status = "RUNNING" /\ cancelled /\ pc[Stream] = "idle" /\ cancelled' = FALSE
    /\ UNCHANGED <<container, database, drain, counts, lock, pc, local, joins, checker, req,
                   history, faults>>

--------------------------------------------------------------------------------
(* ImageChecker and enrolment *)

Publish ==
    /\ newest < MaxImage
    /\ newest' = newest + 1
    /\ UNCHANGED <<container, database, drain, counts, lock, pc, local, cancelled, joins,
                   lastTag, req, history, faults>>

\* checkNewImages tells of the newest tag once, and OnNewImage starts a goroutine.
CheckNewImages ==
    /\ newest # lastTag
    /\ lastTag' = newest
    /\ IF newest \in PreReleases THEN UNCHANGED pc ELSE Goto(newest, "listing")
    /\ UNCHANGED <<container, database, drain, counts, lock, local, cancelled, joins, newest,
                   req, history, faults>>

\* ListAll: without an answer from the host its version is empty, which differs from
\* every image.
HandleNewImage(i) ==
    /\ pc[i] = "listing"
    /\ \/ /\ status = "RUNNING"
          /\ \/ image # i /\ UNCHANGED faults
             \/ Fault
          /\ Goto(i, "snapshot")
       \/ /\ status # "RUNNING" \/ image = i
          /\ UNCHANGED faults
          /\ Goto(i, "idle")
    /\ UNCHANGED <<container, database, drain, counts, lock, local, cancelled, joins, checker,
                   req, history>>

\* GetStartupConfigToRestore, for a host that is not being drained.  A failure ends the
\* goroutine.
EnrollSnapshot(i) ==
    /\ pc[i] = "snapshot"
    /\ \/ /\ ~drain.on /\ up
          /\ taken' = [taken EXCEPT ![i] = Open]
          /\ Goto(i, "enroll")
          /\ UNCHANGED faults
       \/ /\ \/ (drain.on \/ ~up) /\ UNCHANGED faults
             \/ Fault
          /\ Goto(i, "idle")
          /\ UNCHANGED taken
    /\ UNCHANGED <<container, database, drain, counts, lock, todo, busy, cur, seen,
                   cancelled, joins, checker, req, history>>

\* The account is fetched, and the host becomes a drain target unless it is one.
EnrollHost(i) ==
    /\ pc[i] = "enroll"
    /\ \/ /\ ~drain.on
          /\ drain' = [on |-> TRUE, tag |-> i, snap |-> taken[i], attempts |-> 0]
          /\ owed' = {}
          /\ Goto(i, "seed")
          /\ UNCHANGED faults
       \/ /\ \/ drain.on /\ UNCHANGED faults
             \/ Fault
          /\ Goto(i, "idle")
          /\ UNCHANGED <<drain, owed>>
    /\ taken' = [taken EXCEPT ![i] = {}]
    /\ UNCHANGED <<container, database, counts, lock, todo, busy, cur, seen, cancelled, joins,
                   checker, req, emptied, settled>>

\* seedSessionUserCache asks the host, and stores what it got later.
Seed(c) ==
    /\ pc[c] = "seed"
    /\ \/ /\ Works(c) /\ up
          /\ seen' = [seen EXCEPT ![c] = users]
          /\ Goto(c, "seeded")
       \/ /\ Fails(c) \/ (~up /\ UNCHANGED faults)
          /\ Goto(c, "lock")
          /\ UNCHANGED seen
    /\ UNCHANGED <<container, database, drain, counts, lock, todo, busy, cur, taken,
                   cancelled, joins, checker, req, history>>

Seeded(c) ==
    /\ pc[c] = "seeded"
    /\ counts' = seen[c]
    /\ seen' = [seen EXCEPT ![c] = NoCounts]
    /\ Goto(c, "lock")
    /\ UNCHANGED <<container, database, drain, lock, todo, busy, cur, taken, cancelled, joins,
                   checker, req, history, faults>>

\* The ticker of Run: reconcileAllDraining.
ReconcileAllDraining ==
    /\ pc[Tick] = "idle"
    /\ drain.on
    /\ Goto(Tick, "lock")
    /\ UNCHANGED <<container, database, drain, counts, lock, local, cancelled, joins, checker,
                   req, history, faults>>

--------------------------------------------------------------------------------
(* reconcileHost *)

\* Mutant: the host is not looked up again once the lock is held.
LockUnchecked(c) ==
    /\ pc[c] = "lock" /\ lock = Nobody
    /\ Works(c)
    /\ lock' = c
    /\ todo' = [todo EXCEPT ![c] = rows]
    /\ emptied' = {w \in Worlds : users[w] = 0}
    /\ settled' = FALSE
    /\ Goto(c, "next")
    /\ UNCHANGED <<container, database, drain, counts, busy, cur, seen, taken, cancelled,
                   joins, checker, req, owed>>

\* The host's lock is taken.  Is the host still draining?  Its RUNNING rows are listed.
Lock(c) ==
    /\ pc[c] = "lock" /\ lock = Nobody
    /\ \/ /\ drain.on /\ Works(c)
          /\ lock' = c
          /\ todo' = [todo EXCEPT ![c] = rows]
          /\ emptied' = {w \in Worlds : users[w] = 0}
          /\ settled' = (events = <<>> /\ ~reset
                         /\ \A w \in Worlds : req[w] \in {"none", "done"})
          /\ Goto(c, "next")
          /\ UNCHANGED <<busy, cur, seen, taken>>
       \/ /\ \/ drain.on /\ Fails(c)
             \/ ~drain.on /\ UNCHANGED faults
          /\ Return(c)
    /\ UNCHANGED <<container, database, drain, counts, cancelled, joins, checker, req, owed>>

\* Mutant: a cached zero is believed as well.
CountCached(c, w) ==
    /\ Works(c)
    /\ cur' = [cur EXCEPT ![c] = {w}]
    /\ seen' = [seen EXCEPT ![c] = [NoCounts EXCEPT ![w] =
                     IF counts[w] = Unknown THEN users[w] ELSE counts[w]]]
    /\ Goto(c, "note")
    /\ UNCHANGED <<todo, busy, taken>>

\* userCountForSession: a positive cached count is believed, otherwise the host is asked.
UserCountForSession(c, w) ==
    \/ /\ counts[w] > 0
       /\ Skip(c, w)
       /\ UNCHANGED faults
    \/ /\ counts[w] <= 0
       /\ \/ Fails(c)
          \/ (~up \/ users[w] = Closed) /\ UNCHANGED faults
       /\ Skip(c, w)
    \/ /\ counts[w] <= 0
       /\ Works(c) /\ up /\ users[w] # Closed
       /\ cur' = [cur EXCEPT ![c] = {w}]
       /\ seen' = [seen EXCEPT ![c] = [NoCounts EXCEPT ![w] = users[w]]]
       /\ Goto(c, "note")
       /\ UNCHANGED <<todo, busy, taken>>

NextWorld(c) ==
    /\ pc[c] = "next"
    /\ \E w \in todo[c] : UserCountForSession(c, w)
    /\ UNCHANGED <<container, database, drain, counts, lock, cancelled, joins, checker,
                   req, history>>

\* fetchUserCountRPC: its result is cached, and an empty world is going to be stopped.
Note(c) ==
    /\ pc[c] = "note"
    /\ \E w \in cur[c] :
         /\ counts' = [counts EXCEPT ![w] = seen[c][w]]
         /\ \/ seen[c][w] > 0 /\ Continue(c, TRUE)
            \/ /\ seen[c][w] <= 0
               /\ Goto(c, "stop")
               /\ UNCHANGED local
    /\ UNCHANGED <<container, database, drain, lock, cancelled, joins, checker, req, history,
                   faults>>

\* SessionStopper.StopSession: the call of the host.  A failure may hide that it stopped.
Stop(c) ==
    /\ pc[c] = "stop"
    /\ \E w \in cur[c] :
         \/ /\ up /\ users[w] # Closed
            /\ users' = [users EXCEPT ![w] = Closed]
            /\ Emit("ended", w)
            /\ owed' = owed \cup (cur[c] \cap drain.snap)
            /\ \/ Works(c) /\ Goto(c, "save") /\ UNCHANGED local
               \/ Fails(c) /\ Continue(c, TRUE)
         \/ /\ \/ Fails(c)
               \/ (~up \/ users[w] = Closed) /\ UNCHANGED faults
            /\ Continue(c, TRUE)
            /\ UNCHANGED <<users, events, owed>>
    /\ UNCHANGED <<up, image, reset, database, drain, counts, lock, cancelled, joins, checker,
                   req, emptied, settled>>

\* SessionStopper.StopSession: the row becomes ENDED, and forgetSession.
Save(c) ==
    /\ pc[c] = "save"
    /\ \E w \in cur[c] :
         \/ /\ Works(c)
            /\ rows' = rows \ {w}
            /\ counts' = [counts EXCEPT ![w] = Unknown]
            /\ Continue(c, FALSE)
         \/ /\ Fails(c)
            /\ Continue(c, TRUE)
            /\ UNCHANGED <<rows, counts>>
    /\ UNCHANGED <<container, status, drain, lock, cancelled, joins, checker, req, history>>

\* The end of the loop, when sessions remain.
SessionsRemain(c) ==
    /\ pc[c] = "next" /\ todo[c] = {} /\ busy[c]
    /\ Return(c)
    /\ UNCHANGED <<container, database, drain, counts, cancelled, joins, checker, req,
                   owed, faults>>

--------------------------------------------------------------------------------
(* hostRepo.Restart and what follows *)

\* recordRestartFailure.
RestartFailed(c) ==
    /\ IF drain.on /\ drain.attempts + 1 >= MaxAttempts
       THEN drain' = NotDraining /\ counts' = NoCounts /\ owed' = {}
       ELSE /\ drain' = IF drain.on THEN [drain EXCEPT !.attempts = @ + 1] ELSE drain
            /\ UNCHANGED <<counts, owed>>
    /\ Return(c)

\* The container and everything in it is gone.
Down ==
    /\ up' = FALSE
    /\ users' = [w \in Worlds |-> Closed]
    /\ events' = <<>>

\* GetHost and the status STOPPING.  Only a RUNNING host is stopped first.
RestartBegin(c) ==
    /\ pc[c] = "next" /\ todo[c] = {} /\ ~busy[c]
    /\ \/ /\ Works(c)
          /\ status' = "STOPPING"
          /\ Goto(c, IF status = "RUNNING" THEN "stopping" ELSE "removing")
          /\ UNCHANGED <<drain, counts, lock, local, history>>
       \/ Fails(c) /\ RestartFailed(c) /\ UNCHANGED status
    /\ UNCHANGED <<container, rows, cancelled, joins, checker, req>>

RestartStop(c) ==
    /\ pc[c] = "stopping"
    /\ \/ /\ Works(c)
          /\ Down
          /\ Goto(c, "removing")
          /\ UNCHANGED <<drain, counts, lock, local, history>>
       \/ Fails(c) /\ RestartFailed(c) /\ UNCHANGED <<up, users, events>>
    /\ UNCHANGED <<image, reset, database, cancelled, joins, checker, req>>

\* Remove is forced; then the row's memo, policy, status and instance count.
RestartRemove(c) ==
    /\ pc[c] = "removing"
    /\ \/ /\ Works(c)
          /\ Down
          /\ status' = "STARTING"
          /\ Goto(c, "starting")
          /\ UNCHANGED <<drain, counts, lock, local, history>>
       \/ Fails(c) /\ RestartFailed(c) /\ UNCHANGED <<up, users, events, status>>
    /\ UNCHANGED <<image, reset, rows, cancelled, joins, checker, req>>

\* Mutant: the worlds are asked for when the host is restarted.
SnapAtRestart == Open

\* The worlds that the new container opens.
StartWorlds == drain.snap

\* connector.Start, then the row's connect string, status and configuration.  When only the
\* last write fails, the error comes from a host that is upgraded.  A container whose Start
\* was told of an error, or whose connect string was not stored, is known to no row: for the
\* orchestrator there is none.
RestartStart(c) ==
    /\ pc[c] = "starting"
    /\ \/ /\ up' = TRUE
          /\ image' = drain.tag
          /\ users' = [w \in Worlds |-> IF w \in StartWorlds THEN 0 ELSE Closed]
          /\ reset' = TRUE
          /\ status' = "RUNNING"
          /\ \/ Works(c) /\ Goto(c, "leave") /\ UNCHANGED <<drain, counts, lock, local, history>>
             \/ Fails(c) /\ RestartFailed(c)
       \/ /\ Fails(c) /\ RestartFailed(c)
          /\ UNCHANGED <<up, image, users, reset, status>>
    /\ UNCHANGED <<events, rows, cancelled, joins, checker, req>>

LeaveDrain(c) ==
    /\ pc[c] = "leave"
    /\ drain' = NotDraining
    /\ counts' = NoCounts
    /\ owed' = {}
    /\ Return(c)
    /\ UNCHANGED <<container, database, cancelled, joins, checker, req, faults>>

\* The controller is restarted: drainTargets, sessionUsers and lastTag are lost.
ControllerRestart ==
    /\ Fault
    /\ drain' = NotDraining
    /\ counts' = NoCounts
    /\ lock' = Nobody
    /\ pc' = [c \in Callers |-> "idle"]
    /\ todo' = [c \in Callers |-> {}]
    /\ busy' = [c \in Callers |-> FALSE]
    /\ cur' = [c \in Callers |-> {}]
    /\ seen' = [c \in Callers |-> NoCounts]
    /\ taken' = [c \in Callers |-> {}]
    /\ cancelled' = FALSE
    /\ lastTag' = 0
    /\ req' = [w \in Worlds |-> IF req[w] = "none" THEN "none" ELSE "done"]
    /\ emptied' = {} /\ settled' = FALSE /\ owed' = {}
    /\ UNCHANGED <<container, database, newest, joins>>

--------------------------------------------------------------------------------
Reconcile(c) ==
    \/ Lock(c) \/ NextWorld(c) \/ Note(c) \/ Stop(c) \/ Save(c) \/ SessionsRemain(c)
    \/ RestartBegin(c) \/ RestartStop(c) \/ RestartRemove(c) \/ RestartStart(c)
    \/ LeaveDrain(c)

Next ==
    \/ \E w \in Worlds : Join(w) \/ Leave(w) \/ Close(w)
    \/ \E w \in Worlds : Admit(w) \/ StartWorld(w) \/ Upsert(w)
    \/ Evict
    \/ HandleHostEvent \/ HandleHostEventStreamReset \/ WatcherReconcile
    \/ Publish \/ CheckNewImages
    \/ \E i \in Images : HandleNewImage(i) \/ EnrollSnapshot(i) \/ EnrollHost(i)
    \/ ReconcileAllDraining
    \/ \E c \in Callers : Seed(c) \/ Seeded(c) \/ Reconcile(c)
    \/ ControllerRestart

Spec == Init /\ [][Next]_vars

\* The tickers and goroutines go on, a mutex that is free again and again is granted,
\* and a host whose row is RUNNING has its events delivered.  Users, images and faults
\* need not come.
Fairness ==
    /\ \A w \in Worlds : WF_vars(StartWorld(w)) /\ WF_vars(Upsert(w))
    /\ WF_vars(HandleHostEvent) /\ WF_vars(HandleHostEventStreamReset)
    /\ WF_vars(WatcherReconcile)
    /\ WF_vars(ReconcileAllDraining)
    /\ \A i \in Images : WF_vars(HandleNewImage(i) \/ EnrollSnapshot(i) \/ EnrollHost(i))
    /\ \A c \in Callers : /\ SF_vars(Lock(c))
                          /\ WF_vars(Seed(c) \/ Seeded(c) \/ Reconcile(c))

FairSpec == Spec /\ Fairness

--------------------------------------------------------------------------------
(* Properties *)

\* The orchestrator stops a session only if the host was seen to have no user in it
\* since this reconcile took the lock: userCountForSession never believes a cached
\* zero, whatever events were lost or repeated.
StopIsVerified == \A c \in Callers : pc[c] = "stop" => cur[c] \subseteq emptied

\* Ticker, stream and image goroutines do not restart the host at the same time, nor
\* once more after one of them has done it (reconcileHost's lock, and the look at
\* drainTargets under it).
RestartIsExclusive ==
    /\ \A c, d \in Callers : pc[c] \in Section /\ pc[d] \in Section => c = d
    /\ \A c \in Callers : pc[c] \in Restarting => drain.on

\* A restart never takes a world with it when, as its reconcile listed the rows, no
\* event and no StartSession was on its way: rows are all that reconcileHost looks at,
\* and the drain keeps new worlds out.
QuietRestartCutsNobody ==
    \A c \in Callers : pc[c] = "stopping" /\ settled => Open = {}

\* A restart that succeeds opens every world that the orchestrator stopped for it and
\* that was open when enrollHost took its snapshot.
WorldsComeBack == [][up' /\ ~up => owed \subseteq Open']_vars

\* When users have left for good, and the rows and counts that reconcileHost relies on
\* come to agree with the host, a drain comes to an end: the host is upgraded or given
\* up after maxRestartAttempts.
Agree ==
    /\ \A w \in Worlds : users[w] <= 0
    /\ \A w \in rows : users[w] = 0 /\ counts[w] <= 0
DrainEnds == <>[]Agree => [](drain.on => <>~drain.on)

================================================================================
