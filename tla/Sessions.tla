-------------------------------- MODULE Sessions --------------------------------
(***************************************************************************)
(* Requests on a session (SessionUsecase) that run concurrently with each   *)
(* other and with the event handlers of its host.  Both write the row in    *)
(* the sessions table and the snapshot in SessionStateCache: a request      *)
(* reads the row, calls the host, writes the whole row back (Upsert) and    *)
(* then changes the cache, and every one of these is a step of its own.     *)
(*                                                                          *)
(* One session on one host.  Its events arrive once and in order, possibly  *)
(* late; what becomes of lost and repeated events is the subject of         *)
(* HostEvents.  Permission checks are left out.                             *)
(***************************************************************************)
EXTENDS Naturals, Sequences

CONSTANTS
    Requests,   \* requests that may be made
    Absent,     \* no row
    Miss,       \* no entry in the cache
    Stamp,      \* occurred_at of SessionStarted; the session's own StartedAt is 1
    MaxVersion, \* bound: changes of the session's parameters
    MaxFaults   \* bound: failed calls

ASSUME ConstantsAssumption ==
    /\ Stamp \in {1, 2}
    /\ MaxVersion \in Nat /\ MaxFaults \in Nat
    /\ Miss \notin Nat

VARIABLES
    \* the host
    world,      \* "none", "running" or "gone"
    version,    \* version of the session's parameters
    events,     \* the events that the handlers have not dealt with
    half,       \* whether the first half of the first one is done
    \* the controller
    row,        \* the row of the session
    cache,      \* version of the cached snapshot
    \* requests
    kind, pc,
    copy,       \* the row as the request has read and changed it
    got,        \* version that the host has answered with
    \* history
    deleted,    \* whether a DeleteSession has removed the row
    late,       \* whether a request wrote what it knew before the end, after the end
    faults

host == <<world, version, events>>
handler == <<events, half>>
requestVars == <<kind, pc, copy, got>>
history == <<deleted, late>>
vars == <<world, version, events, half, row, cache, kind, pc, copy, got, deleted, late, faults>>

--------------------------------------------------------------------------------
Kinds == {"StartSession", "StopSession", "GetSession", "UpdateSessionParameters",
          "UpdateSessionExtraSettings", "DeleteSession"}
PCs == {"new", "load", "look", "fetch", "keep", "heal", "crash", "start", "stop", "update",
        "reread", "upsert", "set", "delete", "forget", "done"}
Versions == 0..MaxVersion

Row(status, startedAt, endedAt, created, memo, params) ==
    [status |-> status, startedAt |-> startedAt, endedAt |-> endedAt,
     created |-> created, memo |-> memo, params |-> params]

\* ended_at: 0 for NULL, 1 for the time of the event, 2 for the later time at which
\* StopSession sets it.
Rows == [status : {"RUNNING", "CRASHED", "ENDED"}, startedAt : 1..2, endedAt : 0..2,
         created : BOOLEAN, memo : BOOLEAN, params : Versions]

ASSUME AbsentAssumption == Absent \notin Rows

Events == {<<"started">>, <<"ended">>} \cup ({"params"} \X Versions)

TypeOK ==
    /\ world \in {"none", "running", "gone"}
    /\ version \in Versions
    /\ events \in Seq(Events)
    /\ half \in BOOLEAN
    /\ row \in Rows \cup {Absent}
    /\ cache \in Versions \cup {Miss}
    /\ kind \in [Requests -> Kinds] /\ pc \in [Requests -> PCs]
    /\ copy \in [Requests -> Rows \cup {Absent}]
    /\ got \in [Requests -> Versions]
    /\ deleted \in BOOLEAN /\ late \in BOOLEAN
    /\ faults \in 0..MaxFaults

Init ==
    /\ world = "none" /\ version = 0
    /\ events = <<>> /\ half = FALSE
    /\ row = Absent /\ cache = Miss
    /\ kind \in [Requests -> Kinds]
    /\ pc = [r \in Requests |-> "new"]
    /\ copy = [r \in Requests |-> Absent]
    /\ got = [r \in Requests |-> 0]
    /\ deleted = FALSE /\ late = FALSE
    /\ faults = 0

Fault == faults < MaxFaults /\ faults' = faults + 1
Goto(r, s) == pc' = [pc EXCEPT ![r] = s]
Emit(e) == events' = Append(events, e)

--------------------------------------------------------------------------------
(* Statements of SessionRepository *)

\* Mutant: created_by is taken from the new row.
UpsertWithoutCoalesce(new) == row' = new

\* Upsert: created_by keeps a value that it has.
Upsert(new) ==
    row' = IF row = Absent THEN new
           ELSE Row(new.status, new.startedAt, new.endedAt, row.created \/ new.created,
                    new.memo, new.params)

WithStatus(r, s) == Row(s, r.startedAt, r.endedAt, r.created, r.memo, r.params)

UpdateStatus(s) == row' = IF row = Absent THEN Absent ELSE WithStatus(row, s)

--------------------------------------------------------------------------------
(* The host and its events *)

Change ==
    /\ world = "running" /\ version < MaxVersion
    /\ version' = version + 1
    /\ Emit(<<"params", version + 1>>)
    /\ UNCHANGED <<world, half, row, cache, requestVars, history, faults>>

EndWorld ==
    /\ world = "running"
    /\ world' = "gone"
    /\ Emit(<<"ended">>)
    /\ UNCHANGED <<version, half, row, cache, requestVars, history, faults>>

Handles(name) == events # <<>> /\ Head(events)[1] = name
HandlerDone == events' = Tail(events) /\ half' = FALSE

\* handleSessionStarted: InsertFromEvent, which leaves a row alone ...
InsertFromEvent ==
    /\ Handles("started") /\ ~half
    /\ half' = TRUE
    /\ row' = IF row = Absent THEN Row("RUNNING", Stamp, 0, FALSE, FALSE, 0) ELSE row
    /\ UNCHANGED <<host, cache, requestVars, history, faults>>

\* ... and ApplySessionStarted.
ApplySessionStarted ==
    /\ Handles("started") /\ half
    /\ HandlerDone
    /\ row' = IF row # Absent /\ row.startedAt < Stamp
              THEN Row("RUNNING", Stamp, 0, row.created, row.memo, row.params) ELSE row
    /\ UNCHANGED <<world, version, cache, requestVars, history, faults>>

\* applySessionParametersChanged: the cache, then the row.
CacheParameters ==
    /\ Handles("params") /\ ~half
    /\ half' = TRUE
    /\ cache' = Head(events)[2]
    /\ UNCHANGED <<host, row, requestVars, history, faults>>

ApplySessionParametersChanged ==
    /\ Handles("params") /\ half
    /\ HandlerDone
    /\ row' = IF row = Absent THEN row
              ELSE Row(row.status, row.startedAt, row.endedAt, row.created, row.memo, Head(events)[2])
    /\ UNCHANGED <<world, version, cache, requestVars, history, faults>>

\* Mutant: the snapshot stays in the cache.
KeepEnded ==
    /\ Handles("ended") /\ ~half
    /\ half' = TRUE
    /\ UNCHANGED <<host, row, cache, requestVars, history, faults>>

\* applySessionEnded of the cache, then handleSessionEnded, which reads and updates
\* the row: its two statements cannot be told apart when the session starts once.
ForgetEnded ==
    /\ Handles("ended") /\ ~half
    /\ half' = TRUE
    /\ cache' = Miss
    /\ UNCHANGED <<host, row, requestVars, history, faults>>

ApplySessionEnded ==
    /\ Handles("ended") /\ half
    /\ HandlerDone
    /\ row' = IF row # Absent /\ row.endedAt = 0
              THEN Row("ENDED", row.startedAt, 1, row.created, row.memo, row.params) ELSE row
    /\ UNCHANGED <<world, version, cache, requestVars, history, faults>>

\* The end of the session has been dealt with: in the row, and in the cache, where
\* that is the first half of the event.
EndHandled == world = "gone" /\ events = <<>>
EndForgotten == EndHandled \/ (half /\ Handles("ended"))

--------------------------------------------------------------------------------
(* StartSession *)

\* StartWorld of the host; its answer may be lost.
StartWorld(r) ==
    /\ pc[r] = "start" /\ world = "none"
    /\ world' = "running"
    /\ Emit(<<"started">>)
    /\ \/ Goto(r, "upsert") /\ faults' = faults
       \/ Goto(r, "done") /\ Fault
    /\ copy' = [copy EXCEPT ![r] = Row("RUNNING", 1, 0, TRUE, TRUE, 0)]
    /\ UNCHANGED <<version, half, row, cache, kind, got, history>>

(* StopSession *)

\* StopSession of the host, which fails when the session is not there.
StopWorld(r) ==
    /\ pc[r] = "stop"
    /\ IF world = "running"
       THEN /\ world' = "gone"
            /\ Emit(<<"ended">>)
            /\ \/ Goto(r, "upsert") /\ faults' = faults
               \/ Goto(r, "done") /\ Fault
       ELSE Goto(r, "done") /\ UNCHANGED <<world, events, faults>>
    /\ copy' = [copy EXCEPT ![r] = Row("ENDED", @.startedAt, 2, @.created, @.memo, @.params)]
    /\ UNCHANGED <<version, half, row, cache, kind, got, history>>

(* UpdateSessionParameters *)

UpdateWorld(r) ==
    /\ pc[r] = "update"
    /\ \/ /\ world = "running" /\ version < MaxVersion
          /\ version' = version + 1
          /\ Emit(<<"params", version + 1>>)
          /\ copy' = [copy EXCEPT ![r] =
                        Row(@.status, @.startedAt, @.endedAt, @.created, @.memo, version + 1)]
          /\ Goto(r, "reread") /\ faults' = faults
       \/ /\ Goto(r, "done")
          /\ IF world = "running" THEN Fault ELSE faults' = faults
          /\ UNCHANGED <<version, events, copy>>
    /\ UNCHANGED <<world, half, row, cache, kind, got, history>>

\* GetSession of the host, for the snapshot that will be cached.
Reread(r) ==
    /\ pc[r] = "reread"
    /\ \/ /\ world = "running"
          /\ Goto(r, "upsert") /\ got' = [got EXCEPT ![r] = version] /\ faults' = faults
       \/ /\ Goto(r, "done") /\ UNCHANGED got
          /\ IF world = "running" THEN Fault ELSE faults' = faults
    /\ UNCHANGED <<host, half, row, cache, kind, copy, history>>

--------------------------------------------------------------------------------
(* What the requests have in common *)

Begin(r) ==
    /\ pc[r] = "new"
    /\ Goto(r, IF kind[r] = "StartSession" THEN "start" ELSE "load")
    /\ UNCHANGED <<host, half, row, cache, kind, copy, got, history, faults>>

\* Where a request goes with the row it has loaded.
AfterLoad(k, s) ==
    CASE k = "StopSession"             -> "stop"
      [] k = "UpdateSessionParameters" -> "update"
      [] k = "DeleteSession"           -> "delete"
      [] k = "GetSession"              -> IF s = "ENDED" THEN "done" ELSE "look"
      [] k = "UpdateSessionExtraSettings" -> IF s = "ENDED" THEN "upsert" ELSE "look"

Load(r) ==
    /\ pc[r] = "load"
    /\ copy' = [copy EXCEPT ![r] = row]
    /\ Goto(r, IF row = Absent THEN "done" ELSE AfterLoad(kind[r], row.status))
    /\ UNCHANGED <<host, half, row, cache, kind, got, history, faults>>

\* GetSession returns to the request that has called it.
Return(r) == Goto(r, IF kind[r] = "UpdateSessionExtraSettings" THEN "upsert" ELSE "done")

\* Mutant: without a snapshot the session counts as crashed.
LookWithoutFetch(r) ==
    /\ pc[r] = "look"
    /\ CASE cache = Miss -> Goto(r, "crash")
         [] cache # Miss /\ copy[r].status # "RUNNING" -> Goto(r, "heal")
         [] cache # Miss /\ copy[r].status = "RUNNING" -> Return(r)
    /\ UNCHANGED <<host, half, row, cache, kind, copy, got, history, faults>>

\* GetSession: the cache ...
Look(r) ==
    /\ pc[r] = "look"
    /\ CASE cache = Miss -> Goto(r, "fetch")
         [] cache # Miss /\ copy[r].status # "RUNNING" -> Goto(r, "heal")
         [] cache # Miss /\ copy[r].status = "RUNNING" -> Return(r)
    /\ UNCHANGED <<host, half, row, cache, kind, copy, got, history, faults>>

\* ... or else the host, which may fail to answer ...
Fetch(r) ==
    /\ pc[r] = "fetch"
    /\ \/ /\ world = "running"
          /\ Goto(r, "keep") /\ got' = [got EXCEPT ![r] = version] /\ faults' = faults
       \/ /\ IF copy[r].status = "CRASHED" THEN Return(r) ELSE Goto(r, "crash")
          /\ IF world = "running" THEN Fault ELSE faults' = faults
          /\ UNCHANGED got
    /\ UNCHANGED <<host, half, row, cache, kind, copy, history>>

\* ... and whose snapshot is cached.
Keep(r) ==
    /\ pc[r] = "keep"
    /\ cache' = got[r]
    /\ IF copy[r].status = "RUNNING" THEN Return(r) ELSE Goto(r, "heal")
    /\ late' = (late \/ EndForgotten)
    /\ UNCHANGED <<host, half, row, kind, copy, got, deleted, faults>>

\* UpdateStatus tests nothing, and its error is ignored.
SetStatus(r, s) ==
    /\ \/ UpdateStatus(s) /\ faults' = faults
       \/ UNCHANGED row /\ Fault
    /\ copy' = [copy EXCEPT ![r] = WithStatus(@, s)]
    /\ Return(r)
    /\ late' = (late \/ EndHandled \/ (row # Absent /\ row.endedAt # 0))
    /\ UNCHANGED <<host, half, cache, kind, got, deleted>>

Heal(r) == pc[r] = "heal" /\ SetStatus(r, "RUNNING")
Crash(r) == pc[r] = "crash" /\ SetStatus(r, "CRASHED")

\* The whole row is written back; an error, with or without effect, ends the request.
WriteBack(r) ==
    /\ pc[r] = "upsert"
    /\ LET new == IF kind[r] = "UpdateSessionExtraSettings"
                  THEN Row(copy[r].status, copy[r].startedAt, copy[r].endedAt, copy[r].created,
                           ~copy[r].memo, copy[r].params)
                  ELSE copy[r]
       IN  \/ /\ Upsert(new)
              /\ late' = (late \/ (EndHandled /\ new.status # "ENDED"))
              /\ \/ /\ Goto(r, IF kind[r] = "UpdateSessionExtraSettings" THEN "done" ELSE "set")
                    /\ faults' = faults
                 \/ Goto(r, "done") /\ Fault
           \/ UNCHANGED <<row, late>> /\ Goto(r, "done") /\ Fault
    /\ UNCHANGED <<host, half, cache, kind, copy, got, deleted>>

\* stateCache.Set of StartSession and UpdateSessionParameters, Delete of StopSession.
SetCache(r) ==
    /\ pc[r] = "set"
    /\ cache' = IF kind[r] = "StopSession" THEN Miss ELSE got[r]
    /\ late' = (late \/ (EndForgotten /\ kind[r] # "StopSession"))
    /\ Goto(r, "done")
    /\ UNCHANGED <<host, half, row, kind, copy, got, deleted, faults>>

\* DeleteSession: the row, and the cache unless the answer was lost.
Delete(r) ==
    /\ pc[r] = "delete"
    /\ row' = Absent
    /\ deleted' = TRUE
    /\ \/ Goto(r, "forget") /\ faults' = faults
       \/ Goto(r, "done") /\ Fault
    /\ UNCHANGED <<host, half, cache, kind, copy, got, late>>

Forget(r) ==
    /\ pc[r] = "forget"
    /\ cache' = Miss
    /\ Goto(r, "done")
    /\ UNCHANGED <<host, half, row, kind, copy, got, history, faults>>

--------------------------------------------------------------------------------
Handler ==
    \/ InsertFromEvent \/ ApplySessionStarted
    \/ CacheParameters \/ ApplySessionParametersChanged
    \/ ForgetEnded \/ ApplySessionEnded

Request(r) ==
    \/ Begin(r) \/ Load(r)
    \/ StartWorld(r) \/ StopWorld(r) \/ UpdateWorld(r) \/ Reread(r)
    \/ Look(r) \/ Fetch(r) \/ Keep(r) \/ Heal(r) \/ Crash(r)
    \/ WriteBack(r) \/ SetCache(r) \/ Delete(r) \/ Forget(r)

Next == Change \/ EndWorld \/ Handler \/ \E r \in Requests : Request(r)

Spec == Init /\ [][Next]_vars

--------------------------------------------------------------------------------
(* Correctness *)

\* No request is under way and every event was dealt with.
Quiet == events = <<>> /\ \A r \in Requests : pc[r] \in {"new", "done"}

\* A session that has ended is ENDED or deleted and out of the cache, however the
\* requests and the events about it were interleaved, unless a request that knew
\* the session before its end wrote after it.
EndConverges ==
    Quiet /\ world = "gone" /\ ~late =>
        /\ row = Absent \/ (row.status = "ENDED" /\ row.endedAt # 0)
        /\ cache = Miss

\* A session that runs has a RUNNING row, whoever was first to insert it, unless
\* it was deleted or a call has failed.
RunningConverges ==
    Quiet /\ world = "running" /\ ~deleted =>
        row # Absent /\ (row.status = "RUNNING" \/ faults > 0)

\* Who has created the session is not forgotten: neither by the handlers, nor by a
\* request that has read the row before StartSession wrote it.
CreatorIsKept ==
    [][row # Absent /\ row.created /\ row' # Absent => row'.created]_vars

================================================================================
