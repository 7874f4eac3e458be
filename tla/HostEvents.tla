------------------------------- MODULE HostEvents -------------------------------
(***************************************************************************)
(* The event path of one controller: worker.HostEventWatcher keeps a stream *)
(* per RUNNING host, dispatches each event to SessionStateSyncHandler and   *)
(* SessionLifecycleHandler in this order, and then stores a checkpoint from *)
(* which the stream is resumed.  What the handlers keep is the row of a     *)
(* session in the sessions table and its snapshot in SessionStateCache.     *)
(*                                                                          *)
(* One session is modelled: the handlers treat sessions independently.  It  *)
(* may end and start again, on the same host or on another one.  Every host *)
(* buffers its events; an event is named by its position in the host's log. *)
(* Requests of users (StartSession, StopSession, ...) are not part of this  *)
(* module.                                                                  *)
(***************************************************************************)
EXTENDS Integers, Sequences

CONSTANTS
    Hosts,
    None,       \* no host
    Miss,       \* no entry in the cache
    MaxEvents,  \* bound: events of all hosts
    MaxUsers,   \* bound: users in the session
    MaxEvicted, \* bound: events that fall out of a host's buffer
    MaxFaults   \* bound: crashes, lost connections, flaps, failed calls

ASSUME ConstantsAssumption ==
    /\ None \notin Hosts
    /\ Miss \notin Nat
    /\ MaxUsers \in Nat
    /\ MaxEvents \in Nat /\ MaxEvicted \in Nat /\ MaxFaults \in Nat

VARIABLES
    \* the hosts
    now,        \* time of the latest event
    on,         \* the host that runs the session, or None
    users,      \* users in the session
    log,        \* the events of each host
    evicted,    \* how many of them have left its buffer
    running,    \* whether the hosts table says RUNNING
    \* the row of the session; time 0 is NULL
    status, owner, startedAt, endedAt,
    \* the cache: the user count of the snapshot and the host it was set for
    count, countOf,
    \* the stream of each host
    ckpt,       \* its row in host_event_checkpoints, 0 for none
    pc,         \* what the goroutine does
    last,       \* lastEventID, 0 for the empty string
    pos,        \* position of the event received last
    cancelled,  \* whether its context is cancelled
    seen,       \* user count a handler has read
    wasRunning, \* whether a resync found the row RUNNING on the host
    \* history
    handled,    \* events of each host that the handlers have dealt with
    missed,     \* events that they will not get, or not get again
    replayed,   \* whether an event was dispatched again
    resyncAt,   \* position up to which a resync has made up for events, 0 for none
    faults

hostVars == <<now, on, users, log, evicted>>
rowVars == <<status, owner, startedAt, endedAt>>
cacheVars == <<count, countOf>>
local == <<last, pos, cancelled, seen, wasRunning>>
history == <<handled, missed, replayed, resyncAt>>
vars == <<hostVars, running, rowVars, cacheVars, ckpt, pc, local, history, faults>>

--------------------------------------------------------------------------------
Kinds == {"started", "ended", "params", "saved", "joined", "left"}
Times == 0..MaxEvents
Events == [kind : Kinds, t : 1..MaxEvents, users : 0..MaxUsers]
\* Where a stream goroutine may be: not there, between two connections, receiving,
\* in a handler, storing the checkpoint, and in the three parts of a resync.
PCs == {"off", "closed", "open", "sync", "bump", "lifecycle", "apply", "save",
        "reset", "relist", "rebuild", "downgrade"}

TypeOK ==
    /\ now \in Times
    /\ on \in Hosts \cup {None}
    /\ users \in 0..MaxUsers
    /\ log \in [Hosts -> Seq(Events)]
    /\ evicted \in [Hosts -> 0..MaxEvicted]
    /\ running \in [Hosts -> BOOLEAN]
    /\ status \in {"ABSENT", "RUNNING", "ENDED", "UNKNOWN"}
    /\ owner \in Hosts \cup {None}
    /\ startedAt \in Times /\ endedAt \in Times
    /\ count \in Nat \cup {Miss}
    /\ countOf \in Hosts \cup {None}
    /\ ckpt \in [Hosts -> Times]
    /\ pc \in [Hosts -> PCs]
    /\ last \in [Hosts -> Times] /\ pos \in [Hosts -> Times]
    /\ cancelled \in [Hosts -> BOOLEAN]
    /\ seen \in [Hosts -> Nat \cup {Miss}]
    /\ wasRunning \in [Hosts -> BOOLEAN]
    /\ handled \in [Hosts -> SUBSET Times] /\ missed \in [Hosts -> SUBSET Times]
    /\ replayed \in BOOLEAN
    /\ resyncAt \in [Hosts -> Times]
    /\ faults \in 0..MaxFaults

Init ==
    /\ now = 0
    /\ on = None
    /\ users = 0
    /\ log = [h \in Hosts |-> <<>>]
    /\ evicted = [h \in Hosts |-> 0]
    /\ running = [h \in Hosts |-> TRUE]
    /\ status = "ABSENT" /\ owner = None /\ startedAt = 0 /\ endedAt = 0
    /\ count = Miss /\ countOf = None
    /\ ckpt = [h \in Hosts |-> 0]
    /\ pc = [h \in Hosts |-> "off"]
    /\ last = [h \in Hosts |-> 0]
    /\ pos = [h \in Hosts |-> 0]
    /\ cancelled = [h \in Hosts |-> FALSE]
    /\ seen = [h \in Hosts |-> Miss]
    /\ wasRunning = [h \in Hosts |-> FALSE]
    /\ handled = [h \in Hosts |-> {}] /\ missed = [h \in Hosts |-> {}]
    /\ replayed = FALSE
    /\ resyncAt = [h \in Hosts |-> 0]
    /\ faults = 0

Fault == faults < MaxFaults /\ faults' = faults + 1
Goto(h, s) == pc' = [pc EXCEPT ![h] = s]

CacheSet(h, n) == count' = n /\ countOf' = h
CacheDelete == count' = Miss /\ countOf' = None

\* The history variables after the handlers are done with the current event of h.
Dealt(h) ==
    /\ handled' = [handled EXCEPT ![h] = @ \cup {pos[h]}]
    /\ UNCHANGED <<missed, replayed, resyncAt>>

--------------------------------------------------------------------------------
(* The hosts *)

\* Host h appends an event about the session, which has n users then.  The clocks
\* of the hosts agree, and no two events of the session are simultaneous.
Emit(h, kind, n) ==
    /\ now < MaxEvents
    /\ now' = now + 1
    /\ users' = n
    /\ log' = [log EXCEPT ![h] = Append(@, [kind |-> kind, t |-> now + 1, users |-> n])]
    /\ UNCHANGED <<evicted, running, rowVars, cacheVars, ckpt, pc, local, history, faults>>

StartWorld(h) == on = None /\ on' = h /\ Emit(h, "started", 0)
EndWorld(h) == on = h /\ on' = None /\ Emit(h, "ended", 0)
Join(h) == on = h /\ users < MaxUsers /\ on' = on /\ Emit(h, "joined", users + 1)
Left(h) == on = h /\ users > 0 /\ on' = on /\ Emit(h, "left", users - 1)
Change(h) == on = h /\ on' = on /\ (Emit(h, "params", users) \/ Emit(h, "saved", users))

\* The oldest event leaves the ring buffer.
Evict(h) ==
    /\ evicted[h] < Len(log[h]) /\ evicted[h] < MaxEvicted
    /\ evicted' = [evicted EXCEPT ![h] = @ + 1]
    /\ UNCHANGED <<now, on, users, log, running, rowVars, cacheVars, ckpt, pc, local, history, faults>>

\* The row of the host leaves RUNNING and comes back.
Flap(h) ==
    /\ running' = [running EXCEPT ![h] = ~@]
    /\ IF running[h] THEN Fault ELSE faults' = faults
    /\ UNCHANGED <<hostVars, rowVars, cacheVars, ckpt, pc, local, history>>

--------------------------------------------------------------------------------
(* Streams: reconcile, runHostStream, streamOnce *)

\* Mutant: a stream that was cancelled keeps its entry in w.streams.
StartStreamOnce(h) ==
    /\ running[h] /\ pc[h] = "off" /\ handled[h] = {}
    /\ Goto(h, "closed")
    /\ last' = [last EXCEPT ![h] = ckpt[h]]
    /\ UNCHANGED <<hostVars, running, rowVars, cacheVars, ckpt, pos, cancelled, seen, wasRunning, history, faults>>

\* reconcile starts the goroutine, which loads the checkpoint; when that fails it
\* goes on without one.
StartStream(h) ==
    /\ running[h] /\ pc[h] = "off"
    /\ Goto(h, "closed")
    /\ \/ last' = [last EXCEPT ![h] = ckpt[h]] /\ faults' = faults
       \/ last' = [last EXCEPT ![h] = 0] /\ Fault
    /\ UNCHANGED <<hostVars, running, rowVars, cacheVars, ckpt, pos, cancelled, seen, wasRunning, history>>

Cancel(h) ==
    /\ ~running[h] /\ pc[h] # "off" /\ ~cancelled[h]
    /\ cancelled' = [cancelled EXCEPT ![h] = TRUE]
    /\ UNCHANGED <<hostVars, running, rowVars, cacheVars, ckpt, pc, last, pos, seen, wasRunning, history, faults>>

\* The goroutine returns and forgets what it held.
Forget(h) ==
    /\ Goto(h, "off")
    /\ last' = [last EXCEPT ![h] = 0]
    /\ pos' = [pos EXCEPT ![h] = 0]
    /\ cancelled' = [cancelled EXCEPT ![h] = FALSE]
    /\ seen' = [seen EXCEPT ![h] = Miss]
    /\ wasRunning' = [wasRunning EXCEPT ![h] = FALSE]

StopStream(h) ==
    /\ cancelled[h] /\ pc[h] \in {"closed", "open"}
    /\ Forget(h)
    /\ UNCHANGED <<hostVars, running, rowVars, cacheVars, ckpt, history, faults>>

\* WatchHostEvents with an empty AfterEventId delivers what happens from now on.
ConnectLive(h) ==
    /\ pc[h] = "closed" /\ last[h] = 0
    /\ Goto(h, "open")
    /\ pos' = [pos EXCEPT ![h] = Len(log[h])]
    /\ missed' = [missed EXCEPT ![h] = @ \cup ((1..Len(log[h])) \ handled[h])]
    /\ UNCHANGED <<hostVars, running, rowVars, cacheVars, ckpt, last, cancelled, seen, wasRunning,
                   handled, replayed, resyncAt, faults>>

\* The host replays what it has after the event, if that is not older than the oldest
\* one in its buffer (WatchHostEventsRequest.after_event_id) ...
Resume(h) ==
    /\ pc[h] = "closed" /\ last[h] # 0 /\ last[h] > evicted[h]
    /\ Goto(h, "open")
    /\ pos' = [pos EXCEPT ![h] = last[h]]
    /\ UNCHANGED <<hostVars, running, rowVars, cacheVars, ckpt, last, cancelled, seen, wasRunning,
                   history, faults>>

\* ... and fails with codes.OutOfRange otherwise.
OutOfRange(h) ==
    /\ pc[h] = "closed" /\ last[h] # 0 /\ last[h] <= evicted[h]
    /\ Goto(h, "reset")
    /\ last' = [last EXCEPT ![h] = 0]
    /\ \/ ~cancelled[h] /\ ckpt' = [ckpt EXCEPT ![h] = 0] /\ faults' = faults
       \/ cancelled[h] /\ UNCHANGED <<ckpt, faults>>
       \/ UNCHANGED ckpt /\ Fault
    /\ UNCHANGED <<hostVars, running, rowVars, cacheVars, pos, cancelled, seen, wasRunning, history>>

Disconnect(h) ==
    /\ pc[h] = "open"
    /\ Goto(h, "closed")
    /\ Fault
    /\ UNCHANGED <<hostVars, running, rowVars, cacheVars, ckpt, local, history>>

Recv(h) ==
    /\ pc[h] = "open" /\ pos[h] < Len(log[h])
    /\ Goto(h, "sync")
    /\ pos' = [pos EXCEPT ![h] = @ + 1]
    /\ replayed' = (replayed \/ pos[h] + 1 \in handled[h])
    /\ UNCHANGED <<hostVars, running, rowVars, cacheVars, ckpt, last, cancelled, seen, wasRunning,
                   handled, missed, resyncAt, faults>>

\* Mutant: the checkpoint is stored under a context of its own.
SaveDetached(h) ==
    /\ pc[h] = "save"
    /\ Goto(h, "open")
    /\ last' = [last EXCEPT ![h] = pos[h]]
    /\ ckpt' = [ckpt EXCEPT ![h] = pos[h]]
    /\ UNCHANGED <<hostVars, running, rowVars, cacheVars, pos, cancelled, seen, wasRunning, history, faults>>

\* lastEventID advances, and UpsertCheckpoint runs under the stream's context.
Save(h) ==
    /\ pc[h] = "save"
    /\ Goto(h, "open")
    /\ last' = [last EXCEPT ![h] = pos[h]]
    /\ \/ ~cancelled[h] /\ ckpt' = [ckpt EXCEPT ![h] = pos[h]] /\ faults' = faults
       \/ cancelled[h] /\ UNCHANGED <<ckpt, faults>>
       \/ UNCHANGED ckpt /\ Fault
    /\ UNCHANGED <<hostVars, running, rowVars, cacheVars, pos, cancelled, seen, wasRunning, history>>

\* The process dies and is started again.
Crash ==
    /\ Fault
    /\ pc' = [h \in Hosts |-> "off"]
    /\ last' = [h \in Hosts |-> 0]
    /\ pos' = [h \in Hosts |-> 0]
    /\ cancelled' = [h \in Hosts |-> FALSE]
    /\ seen' = [h \in Hosts |-> Miss]
    /\ wasRunning' = [h \in Hosts |-> FALSE]
    /\ CacheDelete
    /\ resyncAt' = [h \in Hosts |-> IF pc[h] \in {"rebuild", "downgrade"} THEN 0 ELSE resyncAt[h]]
    /\ UNCHANGED <<hostVars, running, rowVars, ckpt, handled, missed, replayed>>

--------------------------------------------------------------------------------
(* SessionStateSyncHandler *)

Event(h) == log[h][pos[h]]
Kind(h) == Event(h).kind
Delta(kind) == CASE kind = "joined" -> 1 [] kind = "left" -> -1 [] kind = "saved" -> 0

\* Mutant: the end of a session leaves its snapshot in the cache.
SyncKeepsEnded(h) ==
    /\ pc[h] = "sync" /\ Kind(h) \in {"started", "params", "ended"}
    /\ IF Kind(h) = "params"
       THEN CacheSet(h, Event(h).users) /\ Goto(h, "save") /\ Dealt(h)
       ELSE UNCHANGED cacheVars /\ Goto(h, "lifecycle") /\ UNCHANGED history
    /\ UNCHANGED <<hostVars, running, rowVars, ckpt, local, faults>>

\* The cache is changed at once by a snapshot and by the end of the session.
Sync(h) ==
    /\ pc[h] = "sync" /\ Kind(h) \in {"started", "params", "ended"}
    /\ CASE Kind(h) = "params"  -> CacheSet(h, Event(h).users)
         [] Kind(h) = "ended"   -> CacheDelete
         [] Kind(h) = "started" -> UNCHANGED cacheVars
    /\ IF Kind(h) = "params" THEN Goto(h, "save") /\ Dealt(h)
       ELSE Goto(h, "lifecycle") /\ UNCHANGED history
    /\ UNCHANGED <<hostVars, running, rowVars, ckpt, local, faults>>

\* bumpUsersCount and applyWorldSaved read the snapshot first ...
SyncRead(h) ==
    /\ pc[h] = "sync" /\ Kind(h) \in {"joined", "left", "saved"}
    /\ seen' = [seen EXCEPT ![h] = count]
    /\ IF count = Miss THEN Goto(h, "save") /\ Dealt(h)
       ELSE Goto(h, "bump") /\ UNCHANGED history
    /\ UNCHANGED <<hostVars, running, rowVars, cacheVars, ckpt, last, pos, cancelled, wasRunning, faults>>

\* ... and set a changed copy of it.
Bump(h) ==
    /\ pc[h] = "bump"
    /\ LET n == seen[h] + Delta(Kind(h)) IN CacheSet(h, IF n < 0 THEN 0 ELSE n)
    /\ seen' = [seen EXCEPT ![h] = Miss]
    /\ Goto(h, "save") /\ Dealt(h)
    /\ UNCHANGED <<hostVars, running, rowVars, ckpt, last, pos, cancelled, wasRunning, faults>>

\* HandleHostEventStreamReset: the RUNNING row of the host, or an error ...
ResetList(h) ==
    /\ pc[h] = "reset"
    /\ \/ /\ ~cancelled[h] /\ Goto(h, "relist") /\ faults' = faults
          /\ wasRunning' = [wasRunning EXCEPT ![h] = (status = "RUNNING" /\ owner = h)]
       \/ /\ IF cancelled[h] THEN faults' = faults ELSE Fault
          /\ Goto(h, "closed") /\ UNCHANGED wasRunning
    /\ UNCHANGED <<hostVars, running, rowVars, cacheVars, ckpt, last, pos, cancelled, seen, history>>

\* ... the sessions that the host reports, or an error ...
ResetFetch(h) ==
    /\ pc[h] = "relist"
    /\ \/ /\ ~cancelled[h] /\ Goto(h, "rebuild") /\ faults' = faults
          /\ seen' = [seen EXCEPT ![h] = IF on = h THEN users ELSE Miss]
          /\ resyncAt' = [resyncAt EXCEPT ![h] = Len(log[h])]
       \/ /\ IF cancelled[h] THEN faults' = faults ELSE Fault
          /\ Goto(h, "closed") /\ UNCHANGED <<seen, resyncAt>>
    /\ UNCHANGED <<hostVars, running, rowVars, cacheVars, ckpt, last, pos, cancelled, wasRunning,
                   handled, missed, replayed>>

\* ... the cache (Set, PruneHost) ...
ResetRebuild(h) ==
    /\ pc[h] = "rebuild"
    /\ Goto(h, "downgrade")
    /\ IF seen[h] # Miss THEN CacheSet(h, seen[h])
       ELSE IF countOf = h THEN CacheDelete ELSE UNCHANGED cacheVars
    /\ UNCHANGED <<hostVars, running, rowVars, ckpt, local, history, faults>>

\* Mutant: rows that the host does not report are left alone.
ResetDowngradeForgotten(h) ==
    /\ pc[h] = "downgrade"
    /\ Goto(h, "closed")
    /\ seen' = [seen EXCEPT ![h] = Miss]
    /\ UNCHANGED <<hostVars, running, rowVars, cacheVars, ckpt, last, pos, cancelled, wasRunning,
                   history, faults>>

\* ... and DowngradeToUnknownIfRunning; streamOnce then returns its error.
ResetDowngrade(h) ==
    /\ pc[h] = "downgrade"
    /\ Goto(h, "closed")
    /\ \/ /\ wasRunning[h] /\ seen[h] = Miss /\ ~cancelled[h]
          /\ status' = IF status = "RUNNING" THEN "UNKNOWN" ELSE status
          /\ UNCHANGED <<resyncAt, faults>>
       \/ /\ wasRunning[h] /\ seen[h] = Miss
          /\ resyncAt' = [resyncAt EXCEPT ![h] = 0]
          /\ IF cancelled[h] THEN faults' = faults ELSE Fault
          /\ UNCHANGED status
       \/ ~(wasRunning[h] /\ seen[h] = Miss) /\ UNCHANGED <<status, resyncAt, faults>>
    /\ seen' = [seen EXCEPT ![h] = Miss]
    /\ UNCHANGED <<hostVars, running, owner, startedAt, endedAt, cacheVars, ckpt, last, pos, cancelled,
                   wasRunning, handled, missed, replayed>>

--------------------------------------------------------------------------------
(* SessionLifecycleHandler *)

\* A database call of the handler fails: the event is given up and, unless the
\* context is cancelled, the stream goes on.
HandlerFails(h) ==
    /\ pc[h] \in {"lifecycle", "apply"}
    /\ Goto(h, "save")
    /\ \/ cancelled[h] /\ UNCHANGED <<missed, faults>>
       \/ missed' = [missed EXCEPT ![h] = @ \cup {pos[h]}] /\ Fault
    /\ UNCHANGED <<hostVars, running, rowVars, cacheVars, ckpt, local, handled, replayed, resyncAt>>

\* InsertFromEvent: ON CONFLICT DO NOTHING.
InsertFromEvent(h) ==
    /\ pc[h] = "lifecycle" /\ Kind(h) = "started" /\ ~cancelled[h]
    /\ Goto(h, "apply")
    /\ IF status = "ABSENT"
       THEN status' = "RUNNING" /\ owner' = h /\ startedAt' = Event(h).t /\ endedAt' = 0
       ELSE UNCHANGED rowVars
    /\ UNCHANGED <<hostVars, running, cacheVars, ckpt, local, history, faults>>

\* Mutant: the update does not compare started_at.
ApplySessionStartedAlways(h) ==
    /\ pc[h] = "apply" /\ Kind(h) = "started" /\ ~cancelled[h]
    /\ Goto(h, "save") /\ Dealt(h)
    /\ status' = "RUNNING" /\ owner' = h /\ startedAt' = Event(h).t /\ endedAt' = 0
    /\ UNCHANGED <<hostVars, running, cacheVars, ckpt, local, faults>>

ApplySessionStarted(h) ==
    /\ pc[h] = "apply" /\ Kind(h) = "started" /\ ~cancelled[h]
    /\ Goto(h, "save") /\ Dealt(h)
    /\ IF startedAt < Event(h).t
       THEN status' = "RUNNING" /\ owner' = h /\ startedAt' = Event(h).t /\ endedAt' = 0
       ELSE UNCHANGED rowVars
    /\ UNCHANGED <<hostVars, running, cacheVars, ckpt, local, faults>>

\* handleSessionEnded reads the row and returns unless it is about this start ...
CheckEnded(h) ==
    /\ pc[h] = "lifecycle" /\ Kind(h) = "ended" /\ ~cancelled[h]
    /\ IF status # "ABSENT" /\ owner = h /\ Event(h).t >= startedAt
       THEN Goto(h, "apply") /\ UNCHANGED history
       ELSE Goto(h, "save") /\ Dealt(h)
    /\ UNCHANGED <<hostVars, running, rowVars, cacheVars, ckpt, local, faults>>

\* Mutant: the update does not test host_id.
ApplySessionEndedAnyHost(h) ==
    /\ pc[h] = "apply" /\ Kind(h) = "ended" /\ ~cancelled[h]
    /\ Goto(h, "save") /\ Dealt(h)
    /\ IF endedAt < Event(h).t
       THEN status' = "ENDED" /\ endedAt' = Event(h).t
       ELSE UNCHANGED <<status, endedAt>>
    /\ UNCHANGED <<hostVars, running, owner, startedAt, cacheVars, ckpt, local, faults>>

\* ... and updates it, if the host still owns it and the end is news.
ApplySessionEnded(h) ==
    /\ pc[h] = "apply" /\ Kind(h) = "ended" /\ ~cancelled[h]
    /\ Goto(h, "save") /\ Dealt(h)
    /\ IF owner = h /\ endedAt < Event(h).t
       THEN status' = "ENDED" /\ endedAt' = Event(h).t
       ELSE UNCHANGED <<status, endedAt>>
    /\ UNCHANGED <<hostVars, running, owner, startedAt, cacheVars, ckpt, local, faults>>

--------------------------------------------------------------------------------
World(h) == StartWorld(h) \/ EndWorld(h) \/ Join(h) \/ Left(h) \/ Change(h) \/ Evict(h) \/ Flap(h)
Connecting(h) == ConnectLive(h) \/ Resume(h) \/ OutOfRange(h)
Handling(h) ==
    \/ Sync(h) \/ SyncRead(h) \/ Bump(h)
    \/ InsertFromEvent(h) \/ ApplySessionStarted(h)
    \/ CheckEnded(h) \/ ApplySessionEnded(h)
    \/ HandlerFails(h) \/ Save(h)
Resync(h) == ResetList(h) \/ ResetFetch(h) \/ ResetRebuild(h) \/ ResetDowngrade(h)
Stream(h) == StopStream(h) \/ Connecting(h) \/ Recv(h) \/ Handling(h) \/ Resync(h)

Next ==
    \/ \E h \in Hosts : World(h) \/ StartStream(h) \/ Cancel(h) \/ Stream(h) \/ Disconnect(h)
    \/ Crash

Spec == Init /\ [][Next]_vars

\* The ticker of reconcile, the retry loop and the handlers go on; nothing obliges
\* a host to do anything but to come back.
Fairness ==
    \A h \in Hosts :
        /\ WF_vars(StartStream(h)) /\ WF_vars(Cancel(h)) /\ WF_vars(Stream(h))
        /\ WF_vars(~running[h] /\ Flap(h))

FairSpec == Spec /\ Fairness

--------------------------------------------------------------------------------
(* Correctness *)

\* Every stream is connected and has handled what its host has to tell.
CaughtUp == \A h \in Hosts : pc[h] = "open" /\ ~cancelled[h] /\ pos[h] = Len(log[h])

NothingMissed == \A h \in Hosts : missed[h] = {}

\* What the hosts say the row should be.
RowIsRight ==
    IF on # None
    THEN status = "RUNNING" /\ owner = on /\ endedAt = 0
    ELSE IF now = 0 THEN status = "ABSENT" ELSE status = "ENDED" /\ endedAt >= startedAt

\* The row follows the hosts through replays, moves between hosts, cancelled
\* streams, lost checkpoints and crashes, as long as no event was missed: the
\* handlers may see events again, and those of two hosts in any order.
RowConverges == CaughtUp /\ NothingMissed => RowIsRight

\* A late SessionEnded never ends a later start: an ended row ended after it began.
EndedAfterStart == status = "ENDED" => endedAt >= startedAt

\* No event, however late, takes the row back to an earlier start.
StartedNeverGoesBack == [][startedAt' >= startedAt]_vars

\* With one host the count in the cache is the live one, unless events were
\* dispatched again or missed.
CountIsLive == CaughtUp /\ NothingMissed /\ ~replayed => count \in {Miss, users}

RunningIsReal == status = "RUNNING" => on = owner

\* A resync makes up for the events before it: no row stays RUNNING for a session
\* that its host does not run.
ResyncHeals ==
    (CaughtUp /\ \A h \in Hosts : \A n \in missed[h] : n <= resyncAt[h]) => RunningIsReal

\* A session that has ended does not stay RUNNING, unless an event was missed.
EndIsNoticed ==
    (on = None /\ status = "RUNNING") ~> (on # None \/ status # "RUNNING" \/ ~NothingMissed)
================================================================================
