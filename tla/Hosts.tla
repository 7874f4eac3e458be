--------------------------------- MODULE Hosts ---------------------------------
(***************************************************************************)
(* The life of one headless host: its row in `hosts`, the Docker containers *)
(* that are started for it, the requests that start, restart, stop, kill,   *)
(* delete and configure it (HeadlessHostUsecase, HeadlessHostRepository),   *)
(* and worker.DockerEventWatcher, which writes what Docker reports to the   *)
(* row.  Requests take no common lock: each statement and each call is a    *)
(* step of its own.  Sessions of the host are in modules HostEvents,        *)
(* HostUpgrade and Sessions.                                                *)
(***************************************************************************)
EXTENDS Integers, Sequences

CONSTANTS
    Requests,    \* goroutines that serve a request
    MaxBoxes,    \* bound: containers
    MaxRequests, \* bound: requests that are made
    MaxEvents,   \* bound: Docker events that are not handled yet
    MaxFaults    \* bound: failed calls, lost streams and restarts of the controller

ASSUME ConstantsAssumption ==
    /\ MaxBoxes \in Nat \ {0}
    /\ MaxRequests \in Nat
    /\ MaxEvents \in Nat
    /\ MaxFaults \in Nat

Boxes == 1..MaxBoxes
NoBox == 0

VARIABLES
    \* Docker
    box,        \* state of each container
    tag,        \* instance number in the log tag of each container, 0 before it is made
    setup,      \* StartupConfig of each container: "kept" or "empty"
    events,     \* events in the subscription of the watcher
    subscribed,
    \* the database
    row,
    \* requests
    op, pc, loc,
    made,       \* how many requests were made
    \* DockerEventWatcher
    wpc,
    listed,     \* statuses of the containers, as syncAllStatuses listed them
    wnew,       \* the status to be written
    \* history
    tidy,       \* since a Restart of its own nothing failed and no request met another
    missed,     \* containers that ended unwatched, or before their Start or Restart was over
    existed,    \* whether the host has ever had a row
    stopped,    \* the last request was a Stop, and the container ended when it was told to
    lost,       \* containers that run although their Start was told of an error
    faults, crashed

docker == <<box, tag, setup, events, subscribed>>
request == <<op, pc, loc>>
watcher == <<wpc, listed, wnew>>
history == <<tidy, missed, existed, stopped>>
vars == <<docker, row, request, made, watcher, history, faults, crashed, lost>>

--------------------------------------------------------------------------------
Statuses == {"UNKNOWN", "STARTING", "RUNNING", "STOPPING", "EXITED", "CRASHED"}
BoxStates == {"none", "running", "exited", "failed", "gone"}
Actions == {"start", "kill", "die0", "die1", "stop", "destroy"}
Configs == {"kept", "empty"}
Ops == {"none", "start", "restart", "upgrade", "stop", "kill", "delete", "update"}
PCs == {"idle", "find", "read", "stopping", "stop", "wait", "rpc", "kill", "remove",
        "starting", "count", "start", "connect", "running", "config", "exited",
        "insert", "undoStop", "undoRemove", "delete"}
NoRow == [exists |-> FALSE, status |-> "UNKNOWN", connect |-> NoBox, count |-> 0,
          config |-> "kept"]
NotListed == [b \in Boxes |-> "missing"]
Blank == [connect |-> NoBox, was |-> FALSE, config |-> "kept", count |-> 0, new |-> NoBox]

TypeOK ==
    /\ box \in [Boxes -> BoxStates]
    /\ tag \in [Boxes -> Nat]
    /\ setup \in [Boxes -> Configs]
    /\ events \in Seq([box : Boxes, action : Actions]) /\ Len(events) <= MaxEvents
    /\ subscribed \in BOOLEAN
    /\ row \in [exists : BOOLEAN, status : Statuses, connect : 0..MaxBoxes,
                count : Nat, config : Configs]
    /\ op \in [Requests -> Ops]
    /\ pc \in [Requests -> PCs]
    /\ loc \in [Requests -> [connect : 0..MaxBoxes, was : BOOLEAN, config : Configs,
                             count : Nat, new : 0..MaxBoxes]]
    /\ made \in 0..MaxRequests
    /\ wpc \in {"list", "sync", "fix", "subscribe", "watch", "update"}
    /\ listed \in [Boxes -> Statuses \cup {"missing"}]
    /\ wnew \in Statuses
    /\ tidy \in BOOLEAN /\ existed \in BOOLEAN /\ stopped \in BOOLEAN /\ crashed \in BOOLEAN
    /\ missed \in SUBSET Boxes /\ lost \in SUBSET Boxes
    /\ faults \in 0..MaxFaults

\* The controller starts, with no host yet or with one whose container runs or has died
\* while nobody watched.
Init ==
    /\ events = <<>> /\ subscribed = FALSE
    /\ setup = [b \in Boxes |-> "kept"]
    /\ op = [r \in Requests |-> "none"]
    /\ pc = [r \in Requests |-> "idle"]
    /\ loc = [r \in Requests |-> Blank]
    /\ made = 0
    /\ wpc = "list" /\ listed = NotListed /\ wnew = "UNKNOWN"
    /\ tidy = FALSE /\ missed = {} /\ stopped = FALSE /\ lost = {}
    /\ faults = 0 /\ crashed = FALSE
    /\ \/ /\ row = NoRow /\ existed = FALSE
          /\ box = [b \in Boxes |-> "none"]
          /\ tag = [b \in Boxes |-> 0]
       \/ /\ existed = TRUE
          /\ row = [exists |-> TRUE, status |-> "RUNNING", connect |-> 1, count |-> 1,
                    config |-> "kept"]
          /\ \E s \in {"running", "failed", "gone"} :
               box = [b \in Boxes |-> IF b = 1 THEN s ELSE "none"]
          /\ tag = [b \in Boxes |-> IF b = 1 THEN 1 ELSE 0]

--------------------------------------------------------------------------------
(* Docker, as the connector uses it; external. *)

Running(b) == b \in Boxes /\ box[b] = "running"
Exists(b) == b \in Boxes /\ box[b] \in {"running", "exited", "failed"}

\* What the container did is told to the watcher if it is subscribed.
Tell(b, actions) ==
    IF subscribed
    THEN /\ Len(events) + Len(actions) <= MaxEvents
         /\ events' = events \o [i \in 1..Len(actions) |-> [box |-> b, action |-> actions[i]]]
    ELSE UNCHANGED events

\* The container runs no longer.
Ends(b, state) ==
    /\ box' = [box EXCEPT ![b] = state]
    /\ missed' = IF ~subscribed \/ \E r \in Requests : loc[r].new = b
                 THEN missed \cup {b} ELSE missed

\* The process in the container ends by itself.
Die(b) ==
    /\ Running(b)
    /\ \/ Ends(b, "exited") /\ Tell(b, <<"die0">>)
       \/ Ends(b, "failed") /\ Tell(b, <<"die1">>)
    /\ UNCHANGED <<tag, setup, subscribed, row, request, made, watcher, tidy, existed,
                   stopped, faults, crashed, lost>>

\* A container that was told to stop has ended, with any exit code.
StopEnds(b) ==
    \/ Ends(b, "exited") /\ Tell(b, <<"die0", "stop">>)
    \/ Ends(b, "failed") /\ Tell(b, <<"die1", "stop">>)

ForceRemove(b) ==
    /\ Ends(b, "gone")
    /\ IF Running(b) THEN Tell(b, <<"kill", "die1", "destroy">>) ELSE Tell(b, <<"destroy">>)

--------------------------------------------------------------------------------
(* Requests *)

\* The step that follows, for each operation.
Then ==
    [start   |-> [start |-> "insert", insert |-> "idle"],
     restart |-> [read |-> "stopping", stopping |-> "stop", stop |-> "remove",
                  remove |-> "starting", starting |-> "count", count |-> "start",
                  start |-> "connect", connect |-> "running", running |-> "config",
                  config |-> "idle"],
     stop    |-> [read |-> "stopping", stopping |-> "rpc", rpc |-> "config",
                  config |-> "stop", stop |-> "exited", exited |-> "idle"],
     kill    |-> [read |-> "stopping", stopping |-> "kill", kill |-> "exited",
                  exited |-> "idle"],
     delete  |-> [read |-> "remove", remove |-> "delete", delete |-> "idle"],
     update  |-> [read |-> "rpc", rpc |-> "config", config |-> "idle"]]

Busy == {r \in Requests : pc[r] # "idle"}
Succ(r, step) == Then[IF op[r] = "upgrade" THEN "restart" ELSE op[r]][step]
Goto(r, step) == pc' = [pc EXCEPT ![r] = step]
Fault == faults < MaxFaults /\ faults' = faults + 1 /\ tidy' = FALSE
Fine == UNCHANGED <<faults, tidy>>
FailsIf(condition) == (condition /\ Fine) \/ Fault

\* The request of r ends; its local variables are forgotten.
Leave(r) ==
    /\ Goto(r, "idle")
    /\ op' = [op EXCEPT ![r] = "none"]
    /\ loc' = [loc EXCEPT ![r] = Blank]

\* ... goes on after `step`, with local variables l.
Go(r, step, l) ==
    IF Succ(r, step) = "idle"
    THEN Leave(r)
    ELSE /\ Goto(r, Succ(r, step))
         /\ loc' = [loc EXCEPT ![r] = l]
         /\ UNCHANGED op

\* UPDATE hosts SET ... WHERE id = $1.
Update(changed) == row' = IF row.exists THEN changed ELSE row

\* A request is made.  Start is the first that a host meets, and needs no row.
Begin(r, o) ==
    /\ pc[r] = "idle" /\ made < MaxRequests
    /\ made' = made + 1
    /\ op' = [op EXCEPT ![r] = o]
    /\ \/ o = "start" /\ ~existed /\ made = 0 /\ Goto(r, "start")
       \/ o = "restart" /\ row.exists /\ Goto(r, "find")
       \/ o \in {"upgrade", "stop", "kill", "delete", "update"} /\ row.exists /\ Goto(r, "read")
    /\ tidy' = (Busy = {} /\ (tidy \/ (subscribed /\ o \in {"start", "restart", "upgrade"})))
    /\ stopped' = FALSE
    /\ UNCHANGED <<docker, row, loc, watcher, missed, existed, faults, crashed, lost>>

\* HeadlessHostRestart: Find asks a RUNNING host for its settings, and has none when there
\* is no answer; of any other host they are in the row.
Find(r) ==
    /\ pc[r] = "find"
    /\ \/ /\ row.exists
          /\ Goto(r, "read")
          /\ \E c \in Configs :
               /\ loc' = [loc EXCEPT ![r].config = c]
               /\ IF row.status # "RUNNING" THEN c = row.config /\ Fine
                  ELSE \/ Running(row.connect) /\ c = setup[row.connect] /\ Fine
                       \/ ~Running(row.connect) /\ c = "empty" /\ Fine
                       \/ c = "empty" /\ Fault
          /\ UNCHANGED op
       \/ /\ FailsIf(~row.exists)
          /\ Leave(r)
    /\ UNCHANGED <<docker, row, made, watcher, missed, existed, stopped, crashed, lost>>

\* GetHost.
Read(r) ==
    /\ pc[r] = "read"
    /\ \/ /\ row.exists /\ Fine
          /\ Go(r, "read", [loc[r] EXCEPT !.connect = row.connect,
                                          !.was = (row.status = "RUNNING"),
                                          !.config = IF op[r] = "update" THEN row.config ELSE @])
       \/ /\ FailsIf(~row.exists)
          /\ Leave(r)
    /\ UNCHANGED <<docker, row, made, watcher, missed, existed, stopped, crashed, lost>>

\* UpdateHostStatus, whose error the callers ignore.
Status(r, step, status) ==
    /\ pc[r] = step
    /\ \/ Fine /\ Update([row EXCEPT !.status = status])
       \/ Fault /\ UNCHANGED row
    /\ Go(r, step, loc[r])
    /\ UNCHANGED <<docker, made, watcher, missed, existed, stopped, crashed, lost>>

Stopping(r) == Status(r, "stopping", "STOPPING")
Starting(r) == Status(r, "starting", "STARTING")
MarkRunning(r) == Status(r, "running", "RUNNING")
Exited(r) == Status(r, "exited", "EXITED")

\* ContainerStop begins: the container gets its signal.  Restart stops only a host that
\* was RUNNING.  A container that has ended needs no stop.
Stop(r) ==
    /\ pc[r] = "stop"
    /\ LET b == loc[r].connect
       IN  \/ /\ op[r] # "stop" /\ ~loc[r].was
              /\ Fine /\ Go(r, "stop", loc[r])
              /\ UNCHANGED events
           \/ /\ op[r] = "stop" \/ loc[r].was
              /\ \/ Running(b) /\ Fine /\ Goto(r, "wait") /\ Tell(b, <<"kill">>)
                    /\ UNCHANGED <<op, loc>>
                 \/ /\ Exists(b) /\ ~Running(b) /\ Fine
                    /\ Go(r, "stop", loc[r])
                    /\ UNCHANGED events
                 \/ /\ FailsIf(~Exists(b))
                    /\ Leave(r)
                    /\ UNCHANGED events
    /\ UNCHANGED <<box, tag, setup, subscribed, row, made, watcher, missed, existed, stopped,
                   crashed, lost>>

\* ContainerStop returns.
Wait(r) ==
    /\ pc[r] = "wait"
    /\ LET b == loc[r].connect
       IN  \/ /\ Running(b) /\ Fine /\ StopEnds(b) /\ Go(r, "stop", loc[r])
              /\ stopped' = (op[r] = "stop")
           \/ /\ ~Running(b) /\ Fine /\ Go(r, "stop", loc[r])
              /\ UNCHANGED <<box, events, missed, stopped>>
           \/ Fault /\ Leave(r) /\ UNCHANGED <<box, events, missed, stopped>>
    /\ UNCHANGED <<tag, setup, subscribed, row, made, watcher, existed, crashed, lost>>

\* ContainerKill fails for a container that does not run.
Kill(r) ==
    /\ pc[r] = "kill"
    /\ LET b == loc[r].connect
       IN  \/ /\ Running(b) /\ Fine
              /\ Ends(b, "failed") /\ Tell(b, <<"kill", "die1">>)
              /\ Go(r, "kill", loc[r])
           \/ /\ FailsIf(~Running(b))
              /\ Leave(r)
              /\ UNCHANGED <<box, events, missed>>
    /\ UNCHANGED <<tag, setup, subscribed, row, made, watcher, existed, stopped, crashed, lost>>

\* Remove is forced, and is content when there is no container.  It may fail, and so may
\* UpdateHostMemo and UpdateHostAutoUpdatePolicy, which Restart calls next, with the
\* container gone.
Remove(r) ==
    /\ pc[r] = "remove"
    /\ LET b == loc[r].connect
       IN  \/ Exists(b) /\ Fine /\ ForceRemove(b) /\ Go(r, "remove", loc[r])
           \/ ~Exists(b) /\ Fine /\ Go(r, "remove", loc[r]) /\ UNCHANGED <<box, events, missed>>
           \/ Exists(b) /\ Fault /\ ForceRemove(b) /\ Leave(r)
           \/ Fault /\ Leave(r) /\ UNCHANGED <<box, events, missed>>
    /\ UNCHANGED <<tag, setup, subscribed, row, made, watcher, existed, stopped, crashed, lost>>

\* GetRpcClient needs a running container; then its StartupConfig is asked for.  Update
\* asks only a host that was RUNNING.
Rpc(r) ==
    /\ pc[r] = "rpc"
    /\ LET b == loc[r].connect
       IN  \/ /\ op[r] = "update" /\ ~loc[r].was
              /\ Fine /\ Go(r, "rpc", loc[r])
           \/ /\ op[r] = "stop" \/ loc[r].was
              /\ \/ Running(b) /\ Fine /\ Go(r, "rpc", [loc[r] EXCEPT !.config = setup[b]])
                 \/ FailsIf(~Running(b)) /\ Leave(r)
    /\ UNCHANGED <<docker, row, made, watcher, missed, existed, stopped, crashed, lost>>

\* UpdateHostLastStartupConfig.
SaveConfig(r) ==
    /\ pc[r] = "config"
    /\ \/ /\ Fine
          /\ Update([row EXCEPT !.config = loc[r].config])
          /\ Go(r, "config", loc[r])
       \/ Fault /\ Leave(r) /\ UNCHANGED row
    /\ UNCHANGED <<docker, made, watcher, missed, existed, stopped, crashed, lost>>

\* Mutant: the count is read and not stored.
CountUnsaved(r) ==
    /\ pc[r] = "count"
    /\ row.exists /\ Fine
    /\ Go(r, "count", [loc[r] EXCEPT !.count = row.count + 1])
    /\ UNCHANGED <<docker, row, made, watcher, missed, existed, stopped, crashed, lost>>

\* IncrementHostInstanceCount, which fails without a row.
Count(r) ==
    /\ pc[r] = "count"
    /\ \/ /\ row.exists /\ Fine
          /\ row' = [row EXCEPT !.count = @ + 1]
          /\ Go(r, "count", [loc[r] EXCEPT !.count = row.count + 1])
       \/ /\ FailsIf(~row.exists)
          /\ Leave(r)
          /\ UNCHANGED row
    /\ UNCHANGED <<docker, made, watcher, missed, existed, stopped, crashed, lost>>

\* connector.Start.  An error may hide that the container runs, and nobody undoes that; one
\* that was created and does not run is left out.
StartBox(r) ==
    /\ pc[r] = "start"
    /\ \/ \E b \in Boxes :
             /\ tag[b] = 0 /\ \A a \in Boxes : a < b => tag[a] # 0
             /\ box' = [box EXCEPT ![b] = "running"]
             /\ tag' = [tag EXCEPT ![b] = IF op[r] = "start" THEN 1 ELSE loc[r].count]
             /\ setup' = [setup EXCEPT ![b] = loc[r].config]
             /\ Tell(b, <<"start">>)
             /\ \/ Fine /\ Go(r, "start", [loc[r] EXCEPT !.new = b]) /\ UNCHANGED lost
                \/ Fault /\ Leave(r) /\ lost' = lost \cup {b}
       \/ /\ Fault /\ Leave(r)
          /\ UNCHANGED <<box, tag, setup, events, lost>>
    /\ UNCHANGED <<subscribed, row, made, watcher, missed, existed, stopped, crashed>>

\* UpdateHostConnectString.
Connect(r) ==
    /\ pc[r] = "connect"
    /\ \/ /\ Fine
          /\ Update([row EXCEPT !.connect = loc[r].new])
          /\ Go(r, "connect", loc[r])
       \/ Fault /\ Leave(r) /\ UNCHANGED row
    /\ UNCHANGED <<docker, made, watcher, missed, existed, stopped, crashed, lost>>

\* CreateHost.  An error may hide that the row was inserted.
Insert(r) ==
    /\ pc[r] = "insert"
    /\ LET new == [exists |-> TRUE, status |-> "RUNNING", connect |-> loc[r].new,
                   count |-> 1, config |-> "kept"]
       IN  \/ Fine /\ row' = new /\ existed' = TRUE /\ Go(r, "insert", loc[r])
           \/ Fault /\ row' = new /\ existed' = TRUE /\ Goto(r, "undoStop") /\ UNCHANGED <<op, loc>>
           \/ Fault /\ Goto(r, "undoStop") /\ UNCHANGED <<row, existed, op, loc>>
    /\ UNCHANGED <<docker, made, watcher, missed, stopped, crashed, lost>>

\* Mutant: a new container is stopped only if the request's context still lives.
UndoStopCancelled(r) ==
    /\ pc[r] = "undoStop"
    /\ Leave(r)
    /\ UNCHANGED <<docker, row, made, watcher, tidy, missed, existed, stopped, faults, crashed,
                   lost>>

\* The container of a host that got no row is stopped and removed; the context of the
\* request does not matter, and neither does an error.
UndoStop(r) ==
    /\ pc[r] = "undoStop"
    /\ LET b == loc[r].new
       IN  \/ Running(b) /\ Fine /\ StopEnds(b)
           \/ ~Running(b) /\ Fine /\ UNCHANGED <<box, events, missed>>
           \/ Fault /\ UNCHANGED <<box, events, missed>>
    /\ Goto(r, "undoRemove")
    /\ UNCHANGED <<tag, setup, subscribed, row, op, loc, made, watcher, existed, stopped, crashed,
                   lost>>

UndoRemove(r) ==
    /\ pc[r] = "undoRemove"
    /\ LET b == loc[r].new
       IN  \/ Fine /\ ForceRemove(b)
           \/ Fault /\ UNCHANGED <<box, events, missed>>
    /\ Leave(r)
    /\ UNCHANGED <<tag, setup, subscribed, row, made, watcher, existed, stopped, crashed, lost>>

\* The logs and then the row are deleted.
Delete(r) ==
    /\ pc[r] = "delete"
    /\ \/ Fine /\ row' = NoRow
       \/ Fault /\ UNCHANGED row
    /\ Leave(r)
    /\ UNCHANGED <<docker, made, watcher, missed, existed, stopped, crashed, lost>>

--------------------------------------------------------------------------------
(* DockerEventWatcher *)

\* containerStatusToEntityStatus.
BoxStatus(b) == CASE box[b] = "running" -> "RUNNING"
                  [] box[b] = "exited" -> "EXITED"
                  [] box[b] = "failed" -> "CRASHED"
                  [] OTHER -> "missing"

\* syncAllStatuses: the containers are listed ...
ListStatuses ==
    /\ wpc = "list"
    /\ \/ wpc' = "sync" /\ listed' = [b \in Boxes |-> BoxStatus(b)] /\ Fine
       \/ wpc' = "subscribe" /\ UNCHANGED listed /\ Fault
    /\ UNCHANGED <<docker, row, request, made, wnew, missed, existed, stopped, crashed, lost>>

\* ... then the rows; a row that says something else ...
SyncStatus ==
    /\ wpc = "sync"
    /\ LET seen == IF row.exists THEN listed[row.connect] ELSE "missing"
           new == IF seen # "missing" THEN seen
                  ELSE IF row.status \in {"RUNNING", "STARTING"} THEN "CRASHED" ELSE row.status
       IN  \/ /\ row.exists /\ new # row.status /\ Fine
              /\ wpc' = "fix" /\ wnew' = new
           \/ /\ FailsIf(~row.exists \/ new = row.status)
              /\ wpc' = "subscribe" /\ UNCHANGED wnew
    /\ listed' = NotListed
    /\ UNCHANGED <<docker, row, request, made, missed, existed, stopped, crashed, lost>>

\* ... is written.
FixStatus ==
    /\ wpc = "fix"
    /\ \/ Fine /\ Update([row EXCEPT !.status = wnew])
       \/ Fault /\ UNCHANGED row
    /\ wpc' = "subscribe" /\ wnew' = "UNKNOWN"
    /\ UNCHANGED <<docker, request, made, listed, missed, existed, stopped, crashed, lost>>

SubscribeEvents ==
    /\ wpc = "subscribe"
    /\ subscribed' = TRUE
    /\ wpc' = "watch"
    /\ UNCHANGED <<box, tag, setup, events, row, request, made, listed, wnew, history, faults,
                   crashed, lost>>

\* Mutant: the start event is taken for one that says nothing.
StartUnknown(action) ==
    CASE action \in {"stop", "die0"} -> "EXITED"
      [] action \in {"die1", "kill"} -> "CRASHED"
      [] OTHER -> "UNKNOWN"

\* Mutant: the stop event is taken for one that says nothing.
StopUnknown(action) ==
    CASE action = "start" -> "RUNNING"
      [] action = "die0" -> "EXITED"
      [] action \in {"die1", "kill"} -> "CRASHED"
      [] OTHER -> "UNKNOWN"

EventToStatus(action) ==
    CASE action = "start" -> "RUNNING"
      [] action \in {"stop", "die0"} -> "EXITED"
      [] action \in {"die1", "kill"} -> "CRASHED"
      [] action = "destroy" -> "UNKNOWN"

\* handleEvent: the row of the container is looked up ...
HandleEvent ==
    /\ wpc = "watch" /\ events # <<>>
    /\ events' = Tail(events)
    /\ LET e == Head(events)
           found == row.exists /\ row.connect = e.box
           new == EventToStatus(e.action)
       IN  \/ /\ Fine
              /\ IF found /\ new \notin {"UNKNOWN", row.status}
                 THEN wpc' = "update" /\ wnew' = new /\ UNCHANGED listed
                 ELSE UNCHANGED watcher
           \/ Fault /\ UNCHANGED watcher
    /\ UNCHANGED <<box, tag, setup, subscribed, row, request, made, missed, existed, stopped,
                   crashed, lost>>

\* ... and written, by id.
ApplyEvent ==
    /\ wpc = "update"
    /\ \/ Fine /\ Update([row EXCEPT !.status = wnew])
       \/ Fault /\ UNCHANGED row
    /\ wpc' = "watch" /\ wnew' = "UNKNOWN"
    /\ UNCHANGED <<docker, request, made, listed, missed, existed, stopped, crashed, lost>>

\* The connection to Docker breaks.  What happens until the next one is not told.
Disconnect ==
    /\ subscribed /\ wpc = "watch"
    /\ Fault
    /\ subscribed' = FALSE /\ events' = <<>>
    /\ wpc' = "subscribe"
    /\ UNCHANGED <<box, tag, setup, row, request, made, listed, wnew, missed, existed, stopped,
                   crashed, lost>>

ControllerRestart ==
    /\ Fault
    /\ op' = [r \in Requests |-> "none"]
    /\ pc' = [r \in Requests |-> "idle"]
    /\ loc' = [r \in Requests |-> Blank]
    /\ events' = <<>> /\ subscribed' = FALSE
    /\ wpc' = "list" /\ listed' = NotListed /\ wnew' = "UNKNOWN"
    /\ crashed' = TRUE /\ stopped' = FALSE
    /\ UNCHANGED <<box, tag, setup, row, made, missed, existed, lost>>

--------------------------------------------------------------------------------
Serve(r) ==
    \/ Find(r) \/ Read(r) \/ Stopping(r) \/ Starting(r) \/ MarkRunning(r) \/ Exited(r)
    \/ Stop(r) \/ Wait(r) \/ Kill(r) \/ Remove(r) \/ Rpc(r) \/ SaveConfig(r)
    \/ Count(r) \/ StartBox(r) \/ Connect(r) \/ Insert(r) \/ UndoStop(r) \/ UndoRemove(r)
    \/ Delete(r)

Watch == ListStatuses \/ SyncStatus \/ FixStatus \/ SubscribeEvents \/ HandleEvent \/ ApplyEvent

Next ==
    \/ \E b \in Boxes : Die(b)
    \/ \E r \in Requests : Serve(r) \/ \E o \in Ops \ {"none"} : Begin(r, o)
    \/ Watch \/ Disconnect
    \/ ControllerRestart

Spec == Init /\ [][Next]_vars

--------------------------------------------------------------------------------
(* Properties *)

\* Two containers of the host never have the same instance number, and so the same log
\* tag, whatever restarts met or failed (IncrementHostInstanceCount).
InstanceIsUnique ==
    \A a, b \in Boxes : a # b /\ tag[a] # 0 => tag[a] # tag[b]

\* A container whose Start answered does not go on running for a host that never got its
\* row, unless the controller dies or a second failure meets the compensation.  One whose
\* Start was told of an error is not compensated, and may run on.
NoStartOrphan ==
    (~existed /\ Busy = {} /\ faults <= 1 /\ ~crashed) => \A b \in Boxes \ lost : ~Running(b)

\* Nothing is under way that may change the row.
Quiet == Busy = {} /\ wpc = "watch" /\ events = <<>>

\* A Start or Restart that met no other request and no failure leaves a row that, once
\* all events are handled, is RUNNING exactly as long as its container runs: events of
\* the old container that come late are overtaken by the start of the new one, as long
\* as the new one does not end before its Restart has.
StatusAgrees ==
    Quiet /\ tidy /\ row.exists /\ row.connect \notin missed =>
        (row.status = "RUNNING" <=> Running(row.connect))

\* An orderly Stop ends EXITED, although Docker tells of a kill first and the process
\* may end with an error.
StopEndsExited == Quiet /\ tidy /\ stopped => row.status = "EXITED"

================================================================================
