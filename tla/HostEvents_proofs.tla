--------------------------- MODULE HostEvents_proofs ----------------------------
(***************************************************************************)
(* Theorems about HostEvents, for any number of hosts, events, replays and  *)
(* faults.                                                                  *)
(***************************************************************************)
EXTENDS HostEvents, TLAPS

Dispatching == {"sync", "bump", "lifecycle", "apply", "save"}

\* The logs hold events, with times up to now.
LogOK == now \in Times /\ users \in 0..MaxUsers /\ log \in [Hosts -> Seq(Events)]

\* A stream, and the checkpoint it resumes from, stay within the log of the host,
\* and whoever handles an event has received it.
StreamOK ==
    /\ pc \in [Hosts -> PCs]
    /\ pos \in [Hosts -> Nat] /\ last \in [Hosts -> Nat] /\ ckpt \in [Hosts -> Nat]
    /\ \A h \in Hosts :
         /\ pos[h] <= Len(log[h]) /\ last[h] <= Len(log[h]) /\ ckpt[h] <= Len(log[h])
         /\ pc[h] \in Dispatching => pos[h] >= 1

\* A row that was never inserted has no start.
RowOK ==
    /\ status \in {"ABSENT", "RUNNING", "ENDED", "UNKNOWN"}
    /\ startedAt \in Times /\ endedAt \in Times
    /\ status = "ABSENT" => startedAt = 0

\* An execution of handleSessionEnded that has passed its checks is about the
\* current start of the session, as long as its host owns the row.
EndIsCurrent ==
    \A h \in Hosts :
        pc[h] = "apply" /\ Kind(h) = "ended" /\ owner = h => Event(h).t >= startedAt

Shape == LogOK /\ StreamOK
IInv == Shape /\ RowOK /\ EndIsCurrent /\ EndedAfterStart

--------------------------------------------------------------------------------
\* The actions of a host that put an event into its log.
Emits(h) == StartWorld(h) \/ EndWorld(h) \/ Join(h) \/ Left(h) \/ Change(h)

\* The other steps, which leave the logs alone.
Quiet ==
    \/ \E h \in Hosts : Evict(h) \/ Flap(h) \/ StartStream(h) \/ Cancel(h) \/ Disconnect(h)
                       \/ StopStream(h) \/ Connecting(h) \/ Recv(h) \/ Handling(h) \/ Resync(h)
    \/ Crash

LEMMA NextIsQuietOrEmits == [Next]_vars => (\E h \in Hosts : Emits(h)) \/ Quiet \/ UNCHANGED vars
BY DEF Next, World, Stream, Emits, Quiet

LEMMA QuietKeepsLog == Quiet => UNCHANGED <<now, on, users, log>>
<1> USE DEF hostVars
<1>1. ASSUME NEW h \in Hosts, Evict(h) \/ Flap(h) \/ StartStream(h) \/ Cancel(h) \/ Disconnect(h) \/ StopStream(h)
      PROVE  UNCHANGED <<now, on, users, log>>
  BY <1>1 DEF Evict, Flap, StartStream, Cancel, Disconnect, StopStream
<1>2. ASSUME NEW h \in Hosts, Connecting(h) \/ Recv(h) PROVE UNCHANGED <<now, on, users, log>>
  BY <1>2 DEF Connecting, ConnectLive, Resume, OutOfRange, Recv
<1>3. ASSUME NEW h \in Hosts, Handling(h) PROVE UNCHANGED <<now, on, users, log>>
  BY <1>3 DEF Handling, Sync, SyncRead, Bump, InsertFromEvent, ApplySessionStarted, CheckEnded,
              ApplySessionEnded, HandlerFails, Save
<1>4. ASSUME NEW h \in Hosts, Resync(h) PROVE UNCHANGED <<now, on, users, log>>
  BY <1>4 DEF Resync, ResetList, ResetFetch, ResetRebuild, ResetDowngrade
<1>5. ASSUME Crash PROVE UNCHANGED <<now, on, users, log>>
  BY <1>5 DEF Crash
<1>6. QED
  BY <1>1, <1>2, <1>3, <1>4, <1>5 DEF Quiet

\* The event a handler works on is one of the host's events.
LEMMA EventType ==
    ASSUME Shape, NEW h \in Hosts, pc[h] \in Dispatching
    PROVE  Event(h) \in Events /\ Event(h).t \in 1..MaxEvents
<1>1. log[h] \in Seq(Events) /\ pos[h] \in 1..Len(log[h])
  BY DEF Shape, LogOK, StreamOK
<1>2. log[h][pos[h]] \in Events
  BY <1>1
<1>3. QED
  BY <1>2 DEF Event, Events

\* What an emission does to the logs.
LEMMA EmitLog ==
    ASSUME Shape, NEW g \in Hosts, NEW k \in Kinds, NEW n \in 0..MaxUsers, Emit(g, k, n),
           NEW h \in Hosts
    PROVE  /\ log'[h] \in Seq(Events)
           /\ Len(log[h]) \in Nat /\ Len(log[h]) <= Len(log'[h])
           /\ \A p \in 1..Len(log[h]) : log'[h][p] = log[h][p]
<1> DEFINE e == [kind |-> k, t |-> now + 1, users |-> n]
<1>1. now \in Nat /\ now + 1 \in 1..MaxEvents
  BY ConstantsAssumption DEF Shape, LogOK, Times, Emit
<1>2. e \in Events
  BY <1>1 DEF Events
<1>3. log[h] \in Seq(Events)
  BY DEF Shape, LogOK
<1>4. log'[h] = IF h = g THEN Append(log[h], e) ELSE log[h]
  BY DEF Emit, Shape, LogOK
<1> HIDE DEF e
<1>5. CASE h = g
  BY <1>2, <1>3, <1>4, <1>5
<1>6. CASE h # g
  BY <1>3, <1>4, <1>6
<1>7. QED
  BY <1>5, <1>6

LEMMA EmitsIsEmit ==
    ASSUME Shape, NEW h \in Hosts, Emits(h)
    PROVE  \E k \in Kinds, n \in 0..MaxUsers : Emit(h, k, n)
<1>1. users \in 0..MaxUsers /\ 0 \in 0..MaxUsers
  BY ConstantsAssumption DEF Shape, LogOK
<1>2. CASE StartWorld(h) \/ EndWorld(h)
  BY <1>1, <1>2 DEF StartWorld, EndWorld, Kinds
<1>3. CASE Join(h)
  <2>1. users + 1 \in 0..MaxUsers
    BY <1>1, <1>3, ConstantsAssumption DEF Join
  <2>2. QED
    BY <1>3, <2>1 DEF Join, Kinds
<1>4. CASE Left(h)
  <2>1. users - 1 \in 0..MaxUsers
    BY <1>1, <1>4, ConstantsAssumption DEF Left
  <2>2. QED
    BY <1>4, <2>1 DEF Left, Kinds
<1>5. CASE Change(h)
  BY <1>1, <1>5 DEF Change, Kinds
<1>6. QED
  BY <1>2, <1>3, <1>4, <1>5 DEF Emits

\* Logs only grow, streams stay within them.
LEMMA ShapeStep == Shape /\ [Next]_vars => Shape'
<1> SUFFICES ASSUME Shape, [Next]_vars PROVE Shape'
  OBVIOUS
<1>1. ASSUME NEW g \in Hosts, Emits(g) PROVE Shape'
  <2>1. PICK k \in Kinds, n \in 0..MaxUsers : Emit(g, k, n)
    BY <1>1, EmitsIsEmit
  <2>2. \A h \in Hosts : /\ log'[h] \in Seq(Events)
                        /\ Len(log[h]) \in Nat /\ Len(log'[h]) \in Nat
                        /\ Len(log[h]) <= Len(log'[h])
    BY <2>1, EmitLog
  <2>3. log' = [h \in Hosts |-> log'[h]]
    BY <2>1 DEF Emit, Shape, LogOK
  <2>4. now' \in Times /\ users' \in 0..MaxUsers
    BY <2>1, ConstantsAssumption DEF Emit, Shape, LogOK, Times
  <2>5. LogOK'
    BY <2>2, <2>3, <2>4 DEF LogOK
  <2>6. UNCHANGED <<pc, pos, last, ckpt>>
    BY <2>1 DEF Emit, local
  <2>7. StreamOK'
    BY <2>2, <2>6 DEF Shape, StreamOK
  <2>8. QED
    BY <2>5, <2>7 DEF Shape
<1>2. ASSUME Quiet PROVE Shape'
  <2>1. UNCHANGED <<now, on, users, log>> /\ \A h \in Hosts : Len(log[h]) \in Nat
    BY <1>2, QuietKeepsLog DEF Shape, LogOK
  <2>2. LogOK'
    BY <2>1 DEF Shape, LogOK
  <2>3. StreamOK
    BY DEF Shape
  <2> USE DEF local
  <2>4. ASSUME NEW h \in Hosts, Evict(h) PROVE StreamOK'
    BY <2>1, <2>3, <2>4 DEF Evict, StreamOK, PCs, Dispatching
  <2>5. ASSUME NEW h \in Hosts, Flap(h) PROVE StreamOK'
    BY <2>1, <2>3, <2>5 DEF Flap, StreamOK, PCs, Dispatching
  <2>6. ASSUME NEW h \in Hosts, StartStream(h) PROVE StreamOK'
    <3>1. PICK n \in Nat : n <= Len(log[h]) /\ last' = [last EXCEPT ![h] = n]
      <4>1. CASE last' = [last EXCEPT ![h] = ckpt[h]]
        <5>1. ckpt[h] \in Nat /\ ckpt[h] <= Len(log[h])
          BY <2>3 DEF StreamOK
        <5>2. QED
          BY <4>1, <5>1
      <4>2. CASE last' = [last EXCEPT ![h] = 0]
        <5>1. 0 <= Len(log[h])
          BY <2>1
        <5>2. QED
          BY <4>2, <5>1
      <4>3. QED
        BY <2>6, <4>1, <4>2 DEF StartStream
    <3>2. last' \in [Hosts -> Nat] /\ \A g \in Hosts : last'[g] <= Len(log[g])
      BY <2>3, <3>1 DEF StreamOK
    <3>3. UNCHANGED <<pos, ckpt>> /\ pc' = [pc EXCEPT ![h] = "closed"]
      BY <2>6 DEF StartStream, Goto
    <3>4. QED
      BY <2>1, <2>3, <3>2, <3>3 DEF StreamOK, PCs, Dispatching
  <2>7. ASSUME NEW h \in Hosts, Cancel(h) PROVE StreamOK'
    BY <2>1, <2>3, <2>7 DEF Cancel, StreamOK, PCs, Dispatching
  <2>8. ASSUME NEW h \in Hosts, Disconnect(h) PROVE StreamOK'
    BY <2>1, <2>3, <2>8 DEF Disconnect, Goto, StreamOK, PCs, Dispatching
  <2>9. ASSUME NEW h \in Hosts, StopStream(h) PROVE StreamOK'
    BY <2>1, <2>3, <2>9 DEF StopStream, Goto, Forget, StreamOK, PCs, Dispatching
  <2>10. ASSUME NEW h \in Hosts, ConnectLive(h) PROVE StreamOK'
    BY <2>1, <2>3, <2>10 DEF ConnectLive, Goto, StreamOK, PCs, Dispatching
  <2>11. ASSUME NEW h \in Hosts, Resume(h) PROVE StreamOK'
    BY <2>1, <2>3, <2>11 DEF Resume, Goto, StreamOK, PCs, Dispatching
  <2>12. ASSUME NEW h \in Hosts, OutOfRange(h) PROVE StreamOK'
    <3>1. CASE ckpt' = [ckpt EXCEPT ![h] = 0]
      BY <2>1, <2>3, <2>12, <3>1 DEF OutOfRange, Goto, StreamOK, PCs, Dispatching
    <3>2. CASE ckpt' = ckpt
      BY <2>1, <2>3, <2>12, <3>2 DEF OutOfRange, Goto, StreamOK, PCs, Dispatching
    <3>3. QED
      BY <2>12, <3>1, <3>2 DEF OutOfRange
  <2>13. ASSUME NEW h \in Hosts, Recv(h) PROVE StreamOK'
    BY <2>1, <2>3, <2>13 DEF Recv, Goto, StreamOK, PCs, Dispatching
  <2>14. ASSUME NEW h \in Hosts, Save(h) PROVE StreamOK'
    BY <2>1, <2>3, <2>14 DEF Save, Goto, StreamOK, PCs, Dispatching
  <2>15. ASSUME NEW h \in Hosts, Sync(h) PROVE StreamOK'
    BY <2>1, <2>3, <2>15 DEF Sync, Goto, StreamOK, PCs, Dispatching
  <2>16. ASSUME NEW h \in Hosts, SyncRead(h) PROVE StreamOK'
    BY <2>1, <2>3, <2>16 DEF SyncRead, Goto, StreamOK, PCs, Dispatching
  <2>17. ASSUME NEW h \in Hosts, Bump(h) PROVE StreamOK'
    BY <2>1, <2>3, <2>17 DEF Bump, Goto, StreamOK, PCs, Dispatching
  <2>18. ASSUME NEW h \in Hosts, InsertFromEvent(h) PROVE StreamOK'
    BY <2>1, <2>3, <2>18 DEF InsertFromEvent, Goto, StreamOK, PCs, Dispatching
  <2>19. ASSUME NEW h \in Hosts, ApplySessionStarted(h) PROVE StreamOK'
    BY <2>1, <2>3, <2>19 DEF ApplySessionStarted, Goto, StreamOK, PCs, Dispatching
  <2>20. ASSUME NEW h \in Hosts, CheckEnded(h) PROVE StreamOK'
    BY <2>1, <2>3, <2>20 DEF CheckEnded, Goto, StreamOK, PCs, Dispatching
  <2>21. ASSUME NEW h \in Hosts, ApplySessionEnded(h) PROVE StreamOK'
    BY <2>1, <2>3, <2>21 DEF ApplySessionEnded, Goto, StreamOK, PCs, Dispatching
  <2>22. ASSUME NEW h \in Hosts, HandlerFails(h) PROVE StreamOK'
    BY <2>1, <2>3, <2>22 DEF HandlerFails, Goto, StreamOK, PCs, Dispatching
  <2>23. ASSUME NEW h \in Hosts, ResetList(h) PROVE StreamOK'
    BY <2>1, <2>3, <2>23 DEF ResetList, Goto, StreamOK, PCs, Dispatching
  <2>24. ASSUME NEW h \in Hosts, ResetFetch(h) PROVE StreamOK'
    BY <2>1, <2>3, <2>24 DEF ResetFetch, Goto, StreamOK, PCs, Dispatching
  <2>25. ASSUME NEW h \in Hosts, ResetRebuild(h) PROVE StreamOK'
    BY <2>1, <2>3, <2>25 DEF ResetRebuild, Goto, StreamOK, PCs, Dispatching
  <2>26. ASSUME NEW h \in Hosts, ResetDowngrade(h) PROVE StreamOK'
    BY <2>1, <2>3, <2>26 DEF ResetDowngrade, Goto, StreamOK, PCs, Dispatching
  <2>27. ASSUME Crash PROVE StreamOK'
    BY <2>1, <2>3, <2>27 DEF Crash, StreamOK, PCs, Dispatching
  <2>28. StreamOK'
    BY <1>2, <2>4, <2>5, <2>6, <2>7, <2>8, <2>9, <2>10, <2>11, <2>12, <2>13, <2>14, <2>15, <2>16, <2>17, <2>18, <2>19, <2>20, <2>21, <2>22, <2>23, <2>24, <2>25, <2>26, <2>27
    DEF Quiet, Connecting, Handling, Resync
  <2>29. QED
    BY <2>2, <2>28 DEF Shape
<1>3. CASE UNCHANGED vars
  BY <1>3 DEF vars, hostVars, local, Shape, LogOK, StreamOK
<1>4. QED
  BY <1>1, <1>2, <1>3, NextIsQuietOrEmits

--------------------------------------------------------------------------------
\* The steps that touch the row.
RowSteps(h) ==
    InsertFromEvent(h) \/ ApplySessionStarted(h) \/ ApplySessionEnded(h) \/ ResetDowngrade(h)

\* All others leave it alone.
LEMMA RowKept == [Next]_vars => UNCHANGED rowVars \/ \E h \in Hosts : RowSteps(h)
<1> USE DEF rowVars
<1>1. ASSUME NEW h \in Hosts, World(h) PROVE UNCHANGED rowVars
  BY <1>1 DEF World, StartWorld, EndWorld, Join, Left, Change, Emit, Evict, Flap
<1>2. ASSUME NEW h \in Hosts, StartStream(h) \/ Cancel(h) \/ Disconnect(h) \/ StopStream(h) \/ Recv(h)
      PROVE  UNCHANGED rowVars
  BY <1>2 DEF StartStream, Cancel, Disconnect, StopStream, Recv
<1>3. ASSUME NEW h \in Hosts, Connecting(h) PROVE UNCHANGED rowVars
  BY <1>3 DEF Connecting, ConnectLive, Resume, OutOfRange
<1>4. ASSUME NEW h \in Hosts, Handling(h) PROVE UNCHANGED rowVars \/ RowSteps(h)
  BY <1>4 DEF Handling, RowSteps, Sync, SyncRead, Bump, CheckEnded, HandlerFails, Save
<1>5. ASSUME NEW h \in Hosts, Resync(h) PROVE UNCHANGED rowVars \/ RowSteps(h)
  BY <1>5 DEF Resync, RowSteps, ResetList, ResetFetch, ResetRebuild
<1>6. ASSUME Crash PROVE UNCHANGED rowVars
  BY <1>6 DEF Crash
<1>7. CASE UNCHANGED vars
  BY <1>7 DEF vars
<1>8. QED
  BY <1>1, <1>2, <1>3, <1>4, <1>5, <1>6, <1>7 DEF Next, Stream

\* Started times only grow, an end is applied only to the start it belongs to, and
\* a row that is not there has no times.
LEMMA RowStep ==
    ASSUME IInv, [Next]_vars
    PROVE  RowOK' /\ EndedAfterStart' /\ startedAt' >= startedAt
<1> USE ConstantsAssumption DEF Times
<1>1. CASE UNCHANGED rowVars
  BY <1>1 DEF rowVars, IInv, RowOK, EndedAfterStart
<1>2. ASSUME NEW h \in Hosts, InsertFromEvent(h) \/ ApplySessionStarted(h)
      PROVE  RowOK' /\ EndedAfterStart' /\ startedAt' >= startedAt
  <2>1. Event(h).t \in 1..MaxEvents
    BY <1>2, EventType DEF IInv, Dispatching, InsertFromEvent, ApplySessionStarted
  <2>2. CASE InsertFromEvent(h)
    BY <2>1, <2>2 DEF InsertFromEvent, rowVars, IInv, RowOK, EndedAfterStart
  <2>3. CASE ApplySessionStarted(h)
    BY <2>1, <2>3 DEF ApplySessionStarted, rowVars, IInv, RowOK, EndedAfterStart
  <2>4. QED
    BY <1>2, <2>2, <2>3
<1>3. ASSUME NEW h \in Hosts, ApplySessionEnded(h)
      PROVE  RowOK' /\ EndedAfterStart' /\ startedAt' >= startedAt
  <2>1. Event(h).t \in 1..MaxEvents
    BY <1>3, EventType DEF IInv, Dispatching, ApplySessionEnded
  <2>2. owner = h => Event(h).t >= startedAt
    BY <1>3 DEF ApplySessionEnded, IInv, EndIsCurrent
  <2>3. QED
    BY <1>3, <2>1, <2>2 DEF ApplySessionEnded, IInv, RowOK, EndedAfterStart
<1>4. ASSUME NEW h \in Hosts, ResetDowngrade(h)
      PROVE  RowOK' /\ EndedAfterStart' /\ startedAt' >= startedAt
  <2>1. UNCHANGED <<startedAt, endedAt>>
    BY <1>4 DEF ResetDowngrade
  <2>2. status' = status \/ status' = "UNKNOWN"
    BY <1>4 DEF ResetDowngrade
  <2>3. QED
    BY <2>1, <2>2 DEF IInv, RowOK, EndedAfterStart
<1>5. QED
  BY <1>1, <1>2, <1>3, <1>4, RowKept DEF RowSteps

\* A stream moves alone: a step that takes host h into "apply" is its own, and what
\* handles an event keeps it.
LEMMA ApplyIsEntered ==
    ASSUME Shape, [Next]_vars, NEW h \in Hosts, pc'[h] = "apply"
    PROVE  \/ pc[h] = "apply" /\ Event(h)' = Event(h)
           \/ (InsertFromEvent(h) \/ CheckEnded(h)) /\ Event(h)' = Event(h)
<1>0. pc \in [Hosts -> PCs] /\ pos \in [Hosts -> Nat]
  BY DEF Shape, StreamOK
<1>1. ASSUME NEW g \in Hosts, Emits(g) PROVE pc[h] = "apply" /\ Event(h)' = Event(h)
  <2>1. PICK k \in Kinds, n \in 0..MaxUsers : Emit(g, k, n)
    BY <1>1, EmitsIsEmit
  <2>2. pc[h] = "apply" /\ pos' = pos
    BY <2>1 DEF Emit, local
  <2>3. pos[h] \in 1..Len(log[h])
    BY <2>1, <2>2, EmitLog DEF Shape, StreamOK, Dispatching
  <2>4. QED
    BY <2>1, <2>2, <2>3, EmitLog DEF Event
<1>2. ASSUME Quiet, pc[h] = "apply" /\ pos'[h] = pos[h] PROVE Event(h)' = Event(h)
  BY <1>2, QuietKeepsLog DEF Event
<1>3. ASSUME NEW g \in Hosts, Evict(g) \/ Flap(g) \/ StartStream(g) \/ Cancel(g) \/ Disconnect(g) \/ StopStream(g)
      PROVE  pc[h] = "apply" /\ pos'[h] = pos[h]
  BY <1>0, <1>3 DEF Evict, Flap, StartStream, Cancel, Disconnect, StopStream, Forget, Goto, local
<1>4. ASSUME NEW g \in Hosts, Connecting(g) \/ Recv(g) PROVE pc[h] = "apply" /\ pos'[h] = pos[h]
  BY <1>0, <1>4 DEF Connecting, ConnectLive, Resume, OutOfRange, Recv, Goto
<1>5. ASSUME NEW g \in Hosts, Sync(g) \/ SyncRead(g) \/ Bump(g) \/ HandlerFails(g) \/ Save(g)
      PROVE  pc[h] = "apply" /\ pos'[h] = pos[h]
  BY <1>0, <1>5 DEF Sync, SyncRead, Bump, HandlerFails, Save, Goto, local
<1>6. ASSUME NEW g \in Hosts, Resync(g) \/ ApplySessionStarted(g) \/ ApplySessionEnded(g)
      PROVE  pc[h] = "apply" /\ pos'[h] = pos[h]
  BY <1>0, <1>6 DEF Resync, ResetList, ResetFetch, ResetRebuild, ResetDowngrade,
                    ApplySessionStarted, ApplySessionEnded, Goto, local
<1>7. ASSUME NEW g \in Hosts, InsertFromEvent(g) \/ CheckEnded(g)
      PROVE  pos'[h] = pos[h] /\ (g = h \/ pc[h] = "apply")
  BY <1>0, <1>7 DEF InsertFromEvent, CheckEnded, Goto, local
<1>8. ~Crash
  BY DEF Crash
<1>9. CASE UNCHANGED vars
  BY <1>9 DEF vars, hostVars, local, Event
<1>10. CASE Quiet
  <2>1. \/ pc[h] = "apply" /\ pos'[h] = pos[h]
        \/ (InsertFromEvent(h) \/ CheckEnded(h)) /\ pos'[h] = pos[h]
    BY <1>3, <1>4, <1>5, <1>6, <1>7, <1>8, <1>10 DEF Quiet, Handling
  <2>2. Event(h)' = Event(h)
    BY <1>10, <2>1, QuietKeepsLog DEF Event
  <2>3. QED
    BY <2>1, <2>2
<1>11. QED
  BY <1>1, <1>9, <1>10, NextIsQuietOrEmits

LEMMA EndIsCurrentStep == ASSUME IInv, [Next]_vars PROVE EndIsCurrent'
<1> SUFFICES ASSUME NEW h \in Hosts, pc'[h] = "apply", Kind(h)' = "ended", owner' = h
             PROVE  Event(h)'.t >= startedAt'
  BY DEF EndIsCurrent
<1>1. \/ pc[h] = "apply" /\ Event(h)' = Event(h)
      \/ (InsertFromEvent(h) \/ CheckEnded(h)) /\ Event(h)' = Event(h)
  BY ApplyIsEntered DEF IInv
<1>2. Event(h)' = Event(h) /\ Kind(h) = "ended"
  BY <1>1 DEF Kind
<1>3. CASE CheckEnded(h)
  <2>1. Event(h).t >= startedAt
    BY <1>3 DEF CheckEnded, IInv, Shape, StreamOK, Goto
  <2>2. QED
    BY <1>2, <1>3, <2>1 DEF CheckEnded, rowVars
<1>4. CASE pc[h] = "apply"
  <2>1. CASE UNCHANGED rowVars
    BY <1>2, <1>4, <2>1 DEF rowVars, IInv, EndIsCurrent
  <2>2. ASSUME NEW g \in Hosts, RowSteps(g) PROVE Event(h)'.t >= startedAt'
    <3>1. CASE ResetDowngrade(g) \/ ApplySessionEnded(g)
      BY <1>2, <1>4, <3>1 DEF ResetDowngrade, ApplySessionEnded, IInv, EndIsCurrent
    <3>2. CASE InsertFromEvent(g) \/ ApplySessionStarted(g)
      <4>1. g # h
        BY <1>2, <1>4, <3>2 DEF InsertFromEvent, ApplySessionStarted
      <4>2. owner = h /\ startedAt' = startedAt
        BY <3>2, <4>1 DEF InsertFromEvent, ApplySessionStarted, rowVars
      <4>3. QED
        BY <1>2, <1>4, <4>2 DEF IInv, EndIsCurrent
    <3>3. QED
      BY <2>2, <3>1, <3>2 DEF RowSteps
  <2>3. QED
    BY <2>1, <2>2, RowKept
<1>5. QED
  BY <1>1, <1>2, <1>3, <1>4 DEF InsertFromEvent

LEMMA Inductive == Spec => []IInv
<1>1. Init => IInv
  <2> SUFFICES ASSUME Init PROVE IInv
    OBVIOUS
  <2> USE ConstantsAssumption
  <2>1. LogOK
    BY DEF Init, LogOK, Times
  <2>2. StreamOK
    BY DEF Init, StreamOK, PCs, Dispatching
  <2>3. RowOK /\ EndIsCurrent /\ EndedAfterStart
    BY DEF Init, RowOK, EndIsCurrent, EndedAfterStart, Times
  <2>4. QED
    BY <2>1, <2>2, <2>3 DEF IInv, Shape
<1>2. IInv /\ [Next]_vars => IInv'
  BY ShapeStep, RowStep, EndIsCurrentStep DEF IInv
<1>3. QED
  BY <1>1, <1>2, PTL DEF Spec

--------------------------------------------------------------------------------
\* However late, repeated or interleaved the events of the hosts arrive, a row that
\* says ENDED does not end before its start: handleSessionEnded reads the row and
\* updates it in two steps, and the host_id test of the second one is what makes
\* the comparison of the first one still valid.
THEOREM EndedAfterStartTheorem == Spec => []EndedAfterStart
<1>1. IInv => EndedAfterStart
  BY DEF IInv
<1>2. QED
  BY <1>1, Inductive, PTL

\* started_at never goes back, so no replay and no late stream revives an earlier
\* start of the session.
THEOREM StartedTheorem == Spec => StartedNeverGoesBack
<1>1. IInv /\ [Next]_vars => [startedAt' >= startedAt]_vars
  BY RowStep
<1>2. QED
  BY <1>1, Inductive, PTL DEF Spec, StartedNeverGoesBack

--------------------------------------------------------------------------------
(* What a step does to one stream *)

\* The types of what the goroutines, the hosts and the history hold.
GoroutineOK ==
    /\ evicted \in [Hosts -> Nat]
    /\ cancelled \in [Hosts -> BOOLEAN] /\ wasRunning \in [Hosts -> BOOLEAN]
    /\ seen \in [Hosts -> Nat \cup {Miss}] /\ count \in Nat \cup {Miss}
    /\ \A h \in Hosts : pc[h] = "bump" => seen[h] \in Nat /\ Kind(h) \in {"joined", "left", "saved"}
    /\ handled \in [Hosts -> SUBSET Nat] /\ missed \in [Hosts -> SUBSET Nat]
    /\ resyncAt \in [Hosts -> Nat]

\* Types, and that a stream stands at an event of its log.
Typed == Shape /\ GoroutineOK

SamePlace(h) == pos'[h] = pos[h] /\ last'[h] = last[h] /\ ckpt'[h] = ckpt[h]
SameFlags(h) == cancelled'[h] = cancelled[h] /\ seen'[h] = seen[h] /\ wasRunning'[h] = wasRunning[h]
SamePast(h) == handled'[h] = handled[h] /\ missed'[h] = missed[h] /\ resyncAt'[h] = resyncAt[h]
From(h, S, s) == pc[h] \in S /\ pc'[h] = s

\* The ways in which a step can change the stream of h.
Stays(h) == pc'[h] = pc[h] /\ SamePlace(h) /\ SameFlags(h) /\ SamePast(h)
Starts(h) ==
    /\ From(h, {"off"}, "closed") /\ last'[h] \in {ckpt[h], 0}
    /\ pos'[h] = pos[h] /\ ckpt'[h] = ckpt[h] /\ SameFlags(h) /\ SamePast(h)
Cancels(h) ==
    /\ pc'[h] = pc[h] /\ pc[h] # "off" /\ ~cancelled[h] /\ cancelled'[h]
    /\ seen'[h] = seen[h] /\ wasRunning'[h] = wasRunning[h] /\ SamePlace(h) /\ SamePast(h)
Stops(h) ==
    /\ From(h, {"closed", "open"}, "off") /\ last'[h] = 0 /\ pos'[h] = 0 /\ ckpt'[h] = ckpt[h]
    /\ ~cancelled'[h] /\ SamePast(h)
Dies(h) ==
    /\ pc'[h] = "off" /\ last'[h] = 0 /\ pos'[h] = 0 /\ ckpt'[h] = ckpt[h] /\ ~cancelled'[h]
    /\ handled'[h] = handled[h] /\ missed'[h] = missed[h]
    /\ resyncAt'[h] = IF pc[h] \in {"rebuild", "downgrade"} THEN 0 ELSE resyncAt[h]
GoesLive(h) ==
    /\ From(h, {"closed"}, "open") /\ last[h] = 0 /\ last'[h] = 0 /\ ckpt'[h] = ckpt[h]
    /\ pos'[h] = Len(log[h]) /\ SameFlags(h)
    /\ handled'[h] = handled[h] /\ resyncAt'[h] = resyncAt[h]
    /\ missed'[h] = missed[h] \cup ((1..Len(log[h])) \ handled[h])
Resumes(h) ==
    /\ From(h, {"closed"}, "open") /\ last[h] # 0 /\ last[h] > evicted[h]
    /\ pos'[h] = last[h] /\ last'[h] = last[h] /\ ckpt'[h] = ckpt[h] /\ SameFlags(h) /\ SamePast(h)
Refused(h) ==
    /\ From(h, {"closed"}, "reset") /\ last[h] # 0 /\ last[h] <= evicted[h]
    /\ last'[h] = 0 /\ ckpt'[h] \in {0, ckpt[h]} /\ pos'[h] = pos[h] /\ SameFlags(h) /\ SamePast(h)
Breaks(h) == From(h, {"open"}, "closed") /\ SamePlace(h) /\ SameFlags(h) /\ SamePast(h)
Gets(h) ==
    /\ From(h, {"open"}, "sync") /\ pos[h] < Len(log[h]) /\ pos'[h] = pos[h] + 1
    /\ last'[h] = last[h] /\ ckpt'[h] = ckpt[h] /\ SameFlags(h) /\ SamePast(h)
Stores(h) ==
    /\ From(h, {"save"}, "open") /\ pos'[h] = pos[h] /\ last'[h] = pos[h]
    /\ \/ ~cancelled[h] /\ ckpt'[h] = pos[h]
       \/ ckpt'[h] = ckpt[h]
    /\ SameFlags(h) /\ SamePast(h)
\* The handlers of the event are done ...
Deals(h) ==
    /\ From(h, {"sync", "bump", "lifecycle", "apply"}, "save") /\ SamePlace(h)
    /\ Kind(h) \in {"started", "ended"} => ~cancelled[h]
    /\ handled'[h] = handled[h] \cup {pos[h]} /\ missed'[h] = missed[h] /\ resyncAt'[h] = resyncAt[h]
    /\ cancelled'[h] = cancelled[h] /\ wasRunning'[h] = wasRunning[h]
\* ... or still at it.
Works(h) ==
    /\ pc[h] \in {"sync", "lifecycle"} /\ pc'[h] \in {"bump", "lifecycle", "apply"}
    /\ SamePlace(h) /\ SamePast(h) /\ cancelled'[h] = cancelled[h] /\ wasRunning'[h] = wasRunning[h]
Fails(h) ==
    /\ From(h, {"lifecycle", "apply"}, "save") /\ SamePlace(h) /\ SameFlags(h)
    /\ handled'[h] = handled[h] /\ resyncAt'[h] = resyncAt[h]
    /\ \/ cancelled[h] /\ missed'[h] = missed[h]
       \/ missed'[h] = missed[h] \cup {pos[h]}
Lists(h) ==
    /\ From(h, {"reset"}, "relist") /\ SamePlace(h) /\ SamePast(h)
    /\ cancelled'[h] = cancelled[h] /\ seen'[h] = seen[h]
    /\ wasRunning'[h] = (status = "RUNNING" /\ owner = h)
Fetches(h) ==
    /\ From(h, {"relist"}, "rebuild") /\ SamePlace(h)
    /\ handled'[h] = handled[h] /\ missed'[h] = missed[h] /\ resyncAt'[h] = Len(log[h])
    /\ seen'[h] = (IF on = h THEN users ELSE Miss)
    /\ cancelled'[h] = cancelled[h] /\ wasRunning'[h] = wasRunning[h]
GivesUp(h) == From(h, {"reset", "relist"}, "closed") /\ SamePlace(h) /\ SameFlags(h) /\ SamePast(h)
Rebuilds(h) == From(h, {"rebuild"}, "downgrade") /\ SamePlace(h) /\ SameFlags(h) /\ SamePast(h)
Ends(h) ==
    /\ From(h, {"downgrade"}, "closed") /\ SamePlace(h)
    /\ cancelled'[h] = cancelled[h] /\ handled'[h] = handled[h] /\ missed'[h] = missed[h]
    /\ \/ resyncAt'[h] = 0
       \/ resyncAt'[h] = resyncAt[h] /\ (wasRunning[h] /\ seen[h] = Miss => status' # "RUNNING")

Moves(h) ==
    \/ Starts(h) \/ Cancels(h) \/ Stops(h) \/ Dies(h) \/ GoesLive(h) \/ Resumes(h) \/ Refused(h)
    \/ Breaks(h) \/ Gets(h) \/ Stores(h) \/ Deals(h) \/ Works(h) \/ Fails(h)
    \/ Lists(h) \/ Fetches(h) \/ GivesUp(h) \/ Rebuilds(h) \/ Ends(h)

\* A step of the stream or the host g leaves the streams of the others alone.
LEMMA Alone ==
    ASSUME Typed, NEW g \in Hosts, NEW h \in Hosts, g # h,
           Emits(g) \/ Evict(g) \/ Flap(g) \/ StartStream(g) \/ Cancel(g) \/ Disconnect(g)
           \/ StopStream(g) \/ Connecting(g) \/ Recv(g) \/ Handling(g) \/ Resync(g)
    PROVE  Stays(h) /\ evicted'[h] = evicted[h]
<1> USE DEF Typed, Shape, StreamOK, GoroutineOK, Stays, SamePlace, SameFlags, SamePast, local, history, hostVars
<1>1. CASE Emits(g)
  BY <1>1 DEF Emits, StartWorld, EndWorld, Join, Left, Change, Emit
<1>2. CASE Evict(g) \/ Flap(g) \/ StartStream(g) \/ Cancel(g) \/ Disconnect(g) \/ StopStream(g)
  BY <1>2 DEF Evict, Flap, StartStream, Cancel, Disconnect, StopStream, Forget, Goto
<1>3. CASE Connecting(g) \/ Recv(g)
  BY <1>3 DEF Connecting, ConnectLive, Resume, OutOfRange, Recv, Goto
<1>4. CASE Handling(g)
  <2>1. CASE Sync(g) \/ SyncRead(g) \/ Bump(g)
    BY <2>1 DEF Sync, SyncRead, Bump, Goto, Dealt
  <2>2. CASE InsertFromEvent(g) \/ ApplySessionStarted(g) \/ CheckEnded(g) \/ ApplySessionEnded(g)
    BY <2>2 DEF InsertFromEvent, ApplySessionStarted, CheckEnded, ApplySessionEnded, Goto, Dealt
  <2>3. CASE HandlerFails(g) \/ Save(g)
    BY <2>3 DEF HandlerFails, Save, Goto
  <2>4. QED
    BY <1>4, <2>1, <2>2, <2>3 DEF Handling
<1>5. CASE Resync(g)
  <2>1. CASE ResetList(g) \/ ResetFetch(g)
    BY <2>1 DEF ResetList, ResetFetch, Goto
  <2>2. CASE ResetRebuild(g) \/ ResetDowngrade(g)
    BY <2>2 DEF ResetRebuild, ResetDowngrade, Goto
  <2>3. QED
    BY <1>5, <2>1, <2>2 DEF Resync
<1>6. QED
  BY <1>1, <1>2, <1>3, <1>4, <1>5

\* Every step of stream h is one of the moves.
LEMMA Own ==
    ASSUME Typed, NEW h \in Hosts
    PROVE  /\ Evict(h) => Stays(h)
           /\ Flap(h) => Stays(h)
           /\ StartStream(h) => Starts(h)
           /\ Cancel(h) => Cancels(h)
           /\ StopStream(h) => Stops(h)
           /\ ConnectLive(h) => GoesLive(h)
           /\ Resume(h) => Resumes(h)
           /\ OutOfRange(h) => Refused(h)
           /\ Disconnect(h) => Breaks(h)
           /\ Recv(h) => Gets(h)
           /\ Save(h) => Stores(h)
           /\ Sync(h) => Deals(h) \/ Works(h)
           /\ SyncRead(h) => Deals(h) \/ Works(h)
           /\ Bump(h) => Deals(h)
           /\ InsertFromEvent(h) => Works(h)
           /\ ApplySessionStarted(h) => Deals(h)
           /\ CheckEnded(h) => Deals(h) \/ Works(h)
           /\ ApplySessionEnded(h) => Deals(h)
           /\ HandlerFails(h) => Fails(h)
           /\ ResetList(h) => Lists(h) \/ GivesUp(h)
           /\ ResetFetch(h) => Fetches(h) \/ GivesUp(h)
           /\ ResetRebuild(h) => Rebuilds(h)
           /\ ResetDowngrade(h) => Ends(h)
           /\ Emits(h) => Stays(h)
           /\ Crash => Dies(h)
<1> USE DEF Typed, Shape, StreamOK, GoroutineOK, SamePlace, SameFlags, SamePast, From, local, history, hostVars, Goto
<1>1. ASSUME Evict(h) PROVE Stays(h)
  BY <1>1 DEF Evict, Stays
<1>2. ASSUME Flap(h) PROVE Stays(h)
  BY <1>2 DEF Flap, Stays
<1>3. ASSUME StartStream(h) PROVE Starts(h)
  BY <1>3 DEF StartStream, Starts
<1>4. ASSUME Cancel(h) PROVE Cancels(h)
  BY <1>4 DEF Cancel, Cancels
<1>5. ASSUME StopStream(h) PROVE Stops(h)
  BY <1>5 DEF StopStream, Forget, Stops
<1>6. ASSUME ConnectLive(h) PROVE GoesLive(h)
  BY <1>6 DEF ConnectLive, GoesLive
<1>7. ASSUME Resume(h) PROVE Resumes(h)
  BY <1>7 DEF Resume, Resumes
<1>8. ASSUME OutOfRange(h) PROVE Refused(h)
  BY <1>8 DEF OutOfRange, Refused
<1>9. ASSUME Disconnect(h) PROVE Breaks(h)
  BY <1>9 DEF Disconnect, Breaks
<1>10. ASSUME Recv(h) PROVE Gets(h)
  BY <1>10 DEF Recv, Gets
<1>11. ASSUME Save(h) PROVE Stores(h)
  BY <1>11 DEF Save, Stores
<1>12. ASSUME Sync(h) PROVE Deals(h) \/ Works(h)
  BY <1>12 DEF Sync, Dealt, Deals, Works
<1>13. ASSUME SyncRead(h) PROVE Deals(h) \/ Works(h)
  BY <1>13 DEF SyncRead, Dealt, Deals, Works
<1>14. ASSUME Bump(h) PROVE Deals(h)
  BY <1>14 DEF Bump, Dealt, Dispatching, Deals
<1>15. ASSUME InsertFromEvent(h) PROVE Works(h)
  BY <1>15 DEF InsertFromEvent, Works
<1>16. ASSUME ApplySessionStarted(h) PROVE Deals(h)
  BY <1>16 DEF ApplySessionStarted, Dealt, Deals
<1>17. ASSUME CheckEnded(h) PROVE Deals(h) \/ Works(h)
  BY <1>17 DEF CheckEnded, Dealt, Deals, Works
<1>18. ASSUME ApplySessionEnded(h) PROVE Deals(h)
  BY <1>18 DEF ApplySessionEnded, Dealt, Deals
<1>19. ASSUME HandlerFails(h) PROVE Fails(h)
  BY <1>19 DEF HandlerFails, Fails
<1>20. ASSUME ResetList(h) PROVE Lists(h) \/ GivesUp(h)
  BY <1>20 DEF ResetList, Lists, GivesUp
<1>21. ASSUME ResetFetch(h) PROVE Fetches(h) \/ GivesUp(h)
  BY <1>21 DEF ResetFetch, Fetches, GivesUp
<1>22. ASSUME ResetRebuild(h) PROVE Rebuilds(h)
  BY <1>22 DEF ResetRebuild, Rebuilds
<1>23. ASSUME ResetDowngrade(h) PROVE Ends(h)
  BY <1>23 DEF ResetDowngrade, Ends
<1>24. ASSUME Emits(h) PROVE Stays(h)
  BY <1>24 DEF Emits, StartWorld, EndWorld, Join, Left, Change, Emit, Stays
<1>25. ASSUME Crash PROVE Dies(h)
  BY <1>25 DEF Crash, Dies
<1>26. QED
  BY <1>1, <1>2, <1>3, <1>4, <1>5, <1>6, <1>7, <1>8, <1>9, <1>10, <1>11, <1>12, <1>13, <1>14, <1>15, <1>16, <1>17, <1>18, <1>19, <1>20, <1>21, <1>22, <1>23, <1>24, <1>25

\* The step of any actor, as it looks to the stream of h: a host's buffer only loses
\* events, and its log only grows.
LEMMA StreamMoves ==
    ASSUME Typed, [Next]_vars, NEW h \in Hosts
    PROVE  (Stays(h) \/ Moves(h)) /\ evicted[h] <= evicted'[h]
<1>1. ASSUME NEW g \in Hosts, g # h, 
             Emits(g) \/ Evict(g) \/ Flap(g) \/ StartStream(g) \/ Cancel(g) \/ Disconnect(g)
             \/ StopStream(g) \/ Connecting(g) \/ Recv(g) \/ Handling(g) \/ Resync(g)
      PROVE  Stays(h) /\ evicted[h] <= evicted'[h]
  BY <1>1, Alone DEF Typed, GoroutineOK
<1>2. ASSUME Emits(h) \/ Evict(h) \/ Flap(h) \/ StartStream(h) \/ Cancel(h) \/ Disconnect(h)
             \/ StopStream(h) \/ Connecting(h) \/ Recv(h) \/ Handling(h) \/ Resync(h)
      PROVE  Stays(h) \/ Moves(h)
  BY <1>2, Own DEF Moves, Connecting, Handling, Resync
<1>3. evicted[h] <= evicted'[h]
  <2> USE DEF Typed, GoroutineOK, hostVars
  <2>1. ASSUME NEW g \in Hosts, Evict(g) PROVE evicted[h] <= evicted'[h]
    BY <2>1 DEF Evict
  <2>2. ASSUME NEW g \in Hosts, Emits(g) \/ Flap(g) \/ StartStream(g) \/ Cancel(g) \/ Disconnect(g) \/ StopStream(g)
        PROVE  evicted' = evicted
    BY <2>2 DEF Emits, StartWorld, EndWorld, Join, Left, Change, Emit, Flap, StartStream, Cancel, Disconnect, StopStream
  <2>3. ASSUME NEW g \in Hosts, Connecting(g) \/ Recv(g) \/ Resync(g) PROVE evicted' = evicted
    BY <2>3 DEF Connecting, ConnectLive, Resume, OutOfRange, Recv, Resync, ResetList, ResetFetch, ResetRebuild, ResetDowngrade
  <2>4. ASSUME NEW g \in Hosts, Handling(g) PROVE evicted' = evicted
    BY <2>4 DEF Handling, Sync, SyncRead, Bump, InsertFromEvent, ApplySessionStarted, CheckEnded,
                ApplySessionEnded, HandlerFails, Save
  <2>5. Crash \/ UNCHANGED vars => evicted' = evicted
    BY DEF Crash, vars
  <2>6. evicted'[h] = evicted[h] => evicted[h] <= evicted'[h]
    OBVIOUS
  <2>7. QED
    BY <2>1, <2>2, <2>3, <2>4, <2>5, <2>6, NextIsQuietOrEmits DEF Quiet
<1>4. Crash => Moves(h)
  BY Own DEF Moves
<1>5. UNCHANGED vars => Stays(h)
  BY DEF vars, local, history, Stays, SamePlace, SameFlags, SamePast
<1>6. QED
  BY <1>1, <1>2, <1>3, <1>4, <1>5, NextIsQuietOrEmits DEF Quiet

\* Logs only grow.
LEMMA LogsGrow ==
    ASSUME Shape, [Next]_vars, NEW h \in Hosts
    PROVE  /\ Len(log[h]) \in Nat /\ Len(log'[h]) \in Nat /\ Len(log[h]) <= Len(log'[h])
           /\ \A p \in 1..Len(log[h]) : log'[h][p] = log[h][p]
<1>1. ASSUME NEW g \in Hosts, Emits(g)
      PROVE  /\ Len(log[h]) \in Nat /\ Len(log'[h]) \in Nat /\ Len(log[h]) <= Len(log'[h])
             /\ \A p \in 1..Len(log[h]) : log'[h][p] = log[h][p]
  <2>1. PICK k \in Kinds, n \in 0..MaxUsers : Emit(g, k, n)
    BY <1>1, EmitsIsEmit
  <2>2. log'[h] \in Seq(Events)
    BY <2>1, EmitLog
  <2>3. QED
    BY <2>1, <2>2, EmitLog
<1>2. Len(log[h]) \in Nat
  BY DEF Shape, LogOK
<1>3. Quiet \/ UNCHANGED vars => log' = log
  BY QuietKeepsLog DEF vars, hostVars
<1>4. QED
  BY <1>1, <1>2, <1>3, NextIsQuietOrEmits

\* An event that is being handled stays the same.
LEMMA EventKept ==
    ASSUME Shape, [Next]_vars, NEW h \in Hosts, pc[h] \in Dispatching, pos'[h] = pos[h]
    PROVE  Event(h)' = Event(h) /\ Kind(h)' = Kind(h)
<1>1. pos[h] \in 1..Len(log[h])
  BY LogsGrow DEF Shape, StreamOK
<1>2. Event(h)' = Event(h)
  BY <1>1, LogsGrow DEF Event
<1>3. QED
  BY <1>2 DEF Kind

\* The steps that change the snapshot in the cache.
CacheSteps(h) == Sync(h) \/ Bump(h) \/ ResetRebuild(h)

\* Only a crash and the uses of the cache change the cached count.
LEMMA CountKept == [Next]_vars => count' = count \/ Crash \/ \E h \in Hosts : CacheSteps(h)
<1> USE DEF cacheVars
<1>1. ASSUME NEW h \in Hosts, World(h) PROVE count' = count
  BY <1>1 DEF World, StartWorld, EndWorld, Join, Left, Change, Emit, Evict, Flap
<1>2. ASSUME NEW h \in Hosts, StartStream(h) \/ Cancel(h) \/ Disconnect(h) \/ StopStream(h) \/ Recv(h)
      PROVE  count' = count
  BY <1>2 DEF StartStream, Cancel, Disconnect, StopStream, Recv
<1>3. ASSUME NEW h \in Hosts, Connecting(h) PROVE count' = count
  BY <1>3 DEF Connecting, ConnectLive, Resume, OutOfRange
<1>4. ASSUME NEW h \in Hosts, Handling(h) PROVE count' = count \/ CacheSteps(h)
  BY <1>4 DEF Handling, CacheSteps, SyncRead, InsertFromEvent, ApplySessionStarted, CheckEnded,
              ApplySessionEnded, HandlerFails, Save
<1>5. ASSUME NEW h \in Hosts, Resync(h) PROVE count' = count \/ CacheSteps(h)
  BY <1>5 DEF Resync, CacheSteps, ResetList, ResetFetch, ResetDowngrade
<1>6. CASE UNCHANGED vars
  BY <1>6 DEF vars
<1>7. QED
  BY <1>1, <1>2, <1>3, <1>4, <1>5, <1>6 DEF Next, Stream

\* The cached count stays a number or is missing.
LEMMA CountType == ASSUME Typed, [Next]_vars PROVE count' \in Nat \cup {Miss}
<1> USE DEF Typed, GoroutineOK
<1>1. ASSUME NEW h \in Hosts, Sync(h) PROVE count' \in Nat \cup {Miss}
  <2>1. Event(h) \in Events
    BY <1>1, EventType DEF Sync, Dispatching
  <2>2. Event(h).users \in Nat
    BY <2>1, ConstantsAssumption DEF Events
  <2>3. QED
    BY <1>1, <2>2 DEF Sync, CacheSet, CacheDelete, cacheVars
<1>2. ASSUME NEW h \in Hosts, Bump(h) PROVE count' \in Nat \cup {Miss}
  <2>1. seen[h] \in Nat /\ Kind(h) \in {"joined", "left", "saved"}
    BY <1>2 DEF Bump
  <2>2. Delta(Kind(h)) \in {1, -1, 0}
    BY <2>1 DEF Delta
  <2>3. count' = IF seen[h] + Delta(Kind(h)) < 0 THEN 0 ELSE seen[h] + Delta(Kind(h))
    BY <1>2 DEF Bump, CacheSet
  <2>4. QED
    BY <2>1, <2>2, <2>3
<1>3. ASSUME NEW h \in Hosts, ResetRebuild(h) PROVE count' \in Nat \cup {Miss}
  BY <1>3 DEF ResetRebuild, CacheSet, CacheDelete, cacheVars
<1>4. Crash => count' = Miss
  BY DEF Crash, CacheDelete
<1>5. QED
  BY <1>1, <1>2, <1>3, <1>4, CountKept DEF CacheSteps

\* Every step keeps the types.
LEMMA TypedStep == ASSUME Typed, [Next]_vars PROVE Typed'
<1> USE DEF Typed, GoroutineOK, local, history, hostVars, Goto
<1>0. pc \in [Hosts -> PCs] /\ pos \in [Hosts -> Nat] /\ \A h \in Hosts : Len(log[h]) \in Nat
  BY LogsGrow DEF Shape, StreamOK
<1> DEFINE Funs ==
        /\ evicted \in [Hosts -> Nat]
        /\ cancelled \in [Hosts -> BOOLEAN] /\ wasRunning \in [Hosts -> BOOLEAN]
        /\ seen \in [Hosts -> Nat \cup {Miss}]
        /\ handled \in [Hosts -> SUBSET Nat] /\ missed \in [Hosts -> SUBSET Nat]
        /\ resyncAt \in [Hosts -> Nat]
<1>1. Funs
  OBVIOUS
<1>2. Funs'
  <2>1. ASSUME NEW g \in Hosts, Emits(g) PROVE Funs'
    BY <1>1, <2>1 DEF Emits, StartWorld, EndWorld, Join, Left, Change, Emit
  <2>2. ASSUME NEW g \in Hosts, Evict(g) PROVE Funs'
    BY <1>1, <2>2 DEF Evict
  <2>3. ASSUME NEW g \in Hosts, Flap(g) \/ StartStream(g) \/ Cancel(g) \/ Disconnect(g) \/ StopStream(g) PROVE Funs'
    BY <1>1, <2>3 DEF Flap, StartStream, Cancel, Disconnect, StopStream, Forget
  <2>4. ASSUME NEW g \in Hosts, Resume(g) \/ OutOfRange(g) \/ Recv(g) PROVE Funs'
    BY <1>1, <2>4 DEF Resume, OutOfRange, Recv
  <2>5. ASSUME NEW g \in Hosts, ConnectLive(g) PROVE Funs'
    BY <1>0, <1>1, <2>5 DEF ConnectLive
  <2>0. ASSUME NEW g \in Hosts, Dealt(g)
        PROVE  handled' \in [Hosts -> SUBSET Nat] /\ UNCHANGED <<missed, resyncAt>>
    <3>1. handled[g] \cup {pos[g]} \in SUBSET Nat
      BY <1>0, <1>1
    <3>2. QED
      BY <1>1, <2>0, <3>1 DEF Dealt
  <2>6. ASSUME NEW g \in Hosts, Sync(g) \/ SyncRead(g) \/ Bump(g) PROVE Funs'
    <3>1. CASE Sync(g)
      BY <1>1, <2>0, <3>1 DEF Sync
    <3>2. CASE SyncRead(g)
      BY <1>1, <2>0, <3>2 DEF SyncRead
    <3>3. CASE Bump(g)
      BY <1>1, <2>0, <3>3 DEF Bump
    <3>4. QED
      BY <2>6, <3>1, <3>2, <3>3
  <2>7. ASSUME NEW g \in Hosts, InsertFromEvent(g) \/ ApplySessionStarted(g) \/ CheckEnded(g) \/ ApplySessionEnded(g)
        PROVE  Funs'
    BY <1>1, <2>0, <2>7 DEF InsertFromEvent, ApplySessionStarted, CheckEnded, ApplySessionEnded
  <2>8. ASSUME NEW g \in Hosts, HandlerFails(g) \/ Save(g) PROVE Funs'
    BY <1>0, <1>1, <2>8 DEF HandlerFails, Save
  <2>9. ASSUME NEW g \in Hosts, ResetList(g) \/ ResetRebuild(g) PROVE Funs'
    BY <1>1, <2>9 DEF ResetList, ResetRebuild
  <2>10. ASSUME NEW g \in Hosts, ResetFetch(g) PROVE Funs'
    <3>1. users \in Nat
      BY ConstantsAssumption DEF Shape, LogOK
    <3>2. UNCHANGED <<evicted, cancelled, wasRunning, handled, missed>>
      BY <2>10 DEF ResetFetch
    <3>3. seen' \in [Hosts -> Nat \cup {Miss}]
      BY <1>1, <2>10, <3>1 DEF ResetFetch
    <3>4. resyncAt' \in [Hosts -> Nat]
      BY <1>0, <1>1, <2>10 DEF ResetFetch
    <3>5. QED
      BY <1>1, <3>2, <3>3, <3>4
  <2>11. ASSUME NEW g \in Hosts, ResetDowngrade(g) PROVE Funs'
    BY <1>1, <2>11 DEF ResetDowngrade
  <2>12. ASSUME Crash PROVE Funs'
    BY <1>1, <2>12 DEF Crash
  <2>13. CASE UNCHANGED vars
    BY <1>1, <2>13 DEF vars
  <2>14. QED
    BY <2>1, <2>2, <2>3, <2>4, <2>5, <2>6, <2>7, <2>8, <2>9, <2>10, <2>11, <2>12, <2>13, NextIsQuietOrEmits
       DEF Quiet, Connecting, Handling, Resync
<1>3. ASSUME NEW h \in Hosts, pc'[h] = "bump"
      PROVE  seen'[h] \in Nat /\ Kind(h)' \in {"joined", "left", "saved"}
  <2>1. CASE Stays(h) \/ Cancels(h)
    <3>1. pc[h] = "bump" /\ pos'[h] = pos[h] /\ seen'[h] = seen[h]
      BY <1>3, <2>1 DEF Stays, Cancels, SamePlace, SameFlags
    <3>2. QED
      BY <3>1, EventKept DEF Dispatching
  <2>2. CASE Works(h)
    <3>1. SyncRead(h)
      <4>1. ASSUME NEW g \in Hosts, g # h,
                   Emits(g) \/ Evict(g) \/ Flap(g) \/ StartStream(g) \/ Cancel(g) \/ Disconnect(g)
                   \/ StopStream(g) \/ Connecting(g) \/ Recv(g) \/ Handling(g) \/ Resync(g)
            PROVE  FALSE
        BY <1>3, <2>2, <4>1, Alone DEF Works, Stays
      <4>2. ~Crash /\ ~UNCHANGED vars /\ ~Emits(h)
        BY <1>0, <1>3, <2>2 DEF Works, Crash, vars, Emits, StartWorld, EndWorld, Join, Left, Change, Emit
      <4>3. ~(Evict(h) \/ Flap(h) \/ StartStream(h) \/ Cancel(h) \/ Disconnect(h) \/ StopStream(h))
        BY <1>0, <1>3, <2>2 DEF Works, Evict, Flap, StartStream, Cancel, Disconnect, StopStream, Forget
      <4>4. ~(Connecting(h) \/ Recv(h) \/ Resync(h))
        BY <1>0, <1>3, <2>2 DEF Works, Connecting, ConnectLive, Resume, OutOfRange, Recv, Resync, ResetList,
             ResetFetch, ResetRebuild, ResetDowngrade
      <4>5. ~(Sync(h) \/ Bump(h) \/ HandlerFails(h) \/ Save(h))
        BY <1>0, <1>3, <2>2 DEF Works, Sync, Bump, HandlerFails, Save
      <4>6. ~(InsertFromEvent(h) \/ ApplySessionStarted(h) \/ CheckEnded(h) \/ ApplySessionEnded(h))
        BY <1>0, <1>3, <2>2 DEF Works, InsertFromEvent, ApplySessionStarted, CheckEnded, ApplySessionEnded
      <4>7. QED
        BY <4>1, <4>2, <4>3, <4>4, <4>5, <4>6, NextIsQuietOrEmits DEF Quiet, Handling
    <3>2. Kind(h)' = Kind(h)
      BY <2>2, EventKept DEF Works, SamePlace, Dispatching
    <3>3. count # Miss /\ seen'[h] = count
      BY <1>0, <1>3, <3>1 DEF SyncRead
    <3>4. QED
      BY <3>1, <3>2, <3>3 DEF SyncRead
  <2>3. QED
    BY <1>3, <2>1, <2>2, StreamMoves
       DEF Moves, Starts, Stops, Dies, GoesLive, Resumes, Refused, Breaks, Gets, Stores, Deals, Fails,
           Lists, Fetches, GivesUp, Rebuilds, Ends, From
<1>4. QED
  BY <1>2, <1>3, CountType, ShapeStep

LEMMA TypedInductive == Spec => []Typed
<1>1. Init => Typed
  <2> SUFFICES ASSUME Init PROVE Typed
    OBVIOUS
  <2> USE ConstantsAssumption
  <2>1. Shape
    BY DEF Init, Shape, LogOK, StreamOK, Times, PCs, Dispatching
  <2>2. GoroutineOK
    BY DEF Init, GoroutineOK
  <2>3. QED
    BY <2>1, <2>2 DEF Typed
<1>2. QED
  BY <1>1, TypedStep, PTL DEF Spec

--------------------------------------------------------------------------------
(* The logs *)
\* Event p of host h, by its kind and time.
Is(h, p, k) == p \in 1..Len(log[h]) /\ log[h][p].kind = k
Lifecycle(h, p) == Is(h, p, "started") \/ Is(h, p, "ended")
Time(h, p) == log[h][p].t

\* The session has ended on h with event q, and h has not started it again.
Final(h, q) == Is(h, q, "ended") /\ \A p \in 1..Len(log[h]) : Lifecycle(h, p) => p <= q

\* Times of events are up to now, grow along a log and are never the same on two hosts.
TimesOK ==
    /\ \A h \in Hosts : \A p \in 1..Len(log[h]) : Time(h, p) \in 1..now
    /\ \A h \in Hosts : \A p, q \in 1..Len(log[h]) : p < q => Time(h, p) < Time(h, q)
    /\ \A g, h \in Hosts : \A p \in 1..Len(log[g]), q \in 1..Len(log[h]) :
          Time(g, p) = Time(h, q) => g = h

\* Starts and ends alternate, whatever hosts they are on.
WorldOK ==
    /\ on \in Hosts \cup {None}
    /\ \A h \in Hosts : on # h =>
          \A p \in 1..Len(log[h]) : Is(h, p, "started") => \E q \in 1..Len(log[h]) : Final(h, q)
    /\ on # None => \E p \in 1..Len(log[on]) :
          /\ Is(on, p, "started")
          /\ \A h \in Hosts : \A q \in 1..Len(log[h]) : Lifecycle(h, q) => Time(h, q) <= Time(on, p)
    /\ now > 0 => \E h \in Hosts : \E p \in 1..Len(log[h]) : Is(h, p, "started")

--------------------------------------------------------------------------------
(* Positions: what a stream receives, and what it has dealt with *)
Resyncing == {"reset", "relist", "rebuild", "downgrade"}

\* Where a stream is, compared with what it has stored, with the buffer of its host
\* and with its last resync: nothing before a resync is received after it.
PosOK(h) ==
    /\ pc[h] = "off" => last[h] = 0 /\ ~cancelled[h]
    /\ last[h] # 0 => ckpt[h] <= last[h]
    /\ pc[h] = "open" => ckpt[h] <= pos[h] /\ last[h] <= pos[h] /\ resyncAt[h] <= pos[h]
    /\ pc[h] \in Dispatching => ckpt[h] < pos[h] /\ last[h] < pos[h] /\ resyncAt[h] < pos[h]
    /\ pc[h] \in Resyncing => last[h] = 0 /\ ckpt[h] <= evicted[h]
    /\ resyncAt[h] <= Len(log[h])
    /\ last[h] > evicted[h] => resyncAt[h] <= last[h]
    /\ ckpt[h] > evicted[h] => resyncAt[h] <= ckpt[h]

\* Events up to n were handled, or count as missed.
Covered(h, n) == \A p \in 1..n : p \in handled[h] \/ p \in missed[h]

\* What a stream that is not cancelled is past is covered, and so is what a stored
\* checkpoint says, whatever was cancelled before.
CoverOK(h) ==
    /\ Covered(h, ckpt[h])
    /\ ~cancelled[h] =>
         /\ Covered(h, last[h])
         /\ pc[h] \in {"open", "save"} => Covered(h, pos[h])
         /\ pc[h] \in Dispatching => Covered(h, pos[h] - 1)
    /\ \A p \in handled[h] : Lifecycle(h, p) => Covered(h, p)
    /\ handled[h] \subseteq 1..Len(log[h])

\* Every step keeps the order of checkpoint, position and last resync.
LEMMA PosStep ==
    ASSUME Typed, [Next]_vars, NEW h \in Hosts, PosOK(h)
    PROVE  PosOK(h)'
<1>0. /\ evicted[h] \in Nat /\ evicted'[h] \in Nat /\ evicted[h] <= evicted'[h]
      /\ Len(log[h]) \in Nat /\ Len(log'[h]) \in Nat /\ Len(log[h]) <= Len(log'[h])
  BY StreamMoves, LogsGrow, TypedStep DEF Typed, GoroutineOK
<1>1. /\ pos[h] \in Nat /\ last[h] \in Nat /\ ckpt[h] \in Nat /\ resyncAt[h] \in Nat
      /\ pos[h] <= Len(log[h]) /\ last[h] <= Len(log[h]) /\ ckpt[h] <= Len(log[h])
  BY DEF Typed, Shape, StreamOK, GoroutineOK
<1> USE <1>0, <1>1 DEF PosOK, SamePlace, SamePast, SameFlags, From, Resyncing, Dispatching
<1>2. CASE Stays(h)
  BY <1>2 DEF Stays
<1>3. CASE Starts(h)
  BY <1>3 DEF Starts
<1>4. CASE Cancels(h)
  BY <1>4 DEF Cancels
<1>5. CASE Stops(h)
  BY <1>5 DEF Stops
<1>6. CASE Dies(h)
  BY <1>6 DEF Dies
<1>7. CASE GoesLive(h)
  BY <1>7 DEF GoesLive
<1>8. CASE Resumes(h)
  BY <1>8 DEF Resumes
<1>9. CASE Refused(h)
  BY <1>9 DEF Refused
<1>10. CASE Breaks(h)
  BY <1>10 DEF Breaks
<1>11. CASE Gets(h)
  BY <1>11 DEF Gets
<1>12. CASE Stores(h)
  BY <1>12 DEF Stores
<1>13. CASE Deals(h)
  BY <1>13 DEF Deals
<1>14. CASE Works(h)
  BY <1>14 DEF Works
<1>15. CASE Fails(h)
  BY <1>15 DEF Fails
<1>16. CASE Lists(h)
  BY <1>16 DEF Lists
<1>17. CASE Fetches(h)
  BY <1>17 DEF Fetches
<1>18. CASE GivesUp(h)
  BY <1>18 DEF GivesUp
<1>19. CASE Rebuilds(h)
  BY <1>19 DEF Rebuilds
<1>20. CASE Ends(h)
  BY <1>20 DEF Ends
<1>21. QED
  BY <1>2, <1>3, <1>4, <1>5, <1>6, <1>7, <1>8, <1>9, <1>10, <1>11, <1>12, <1>13, <1>14, <1>15, <1>16, <1>17, <1>18, <1>19, <1>20, StreamMoves DEF Moves

\* What an event is does not change as the log grows.
LEMMA SameEvents ==
    ASSUME Shape, [Next]_vars, NEW h \in Hosts, NEW p \in 1..Len(log[h])
    PROVE  /\ p \in 1..Len(log'[h])
           /\ \A k : Is(h, p, k)' <=> Is(h, p, k)
           /\ Lifecycle(h, p)' <=> Lifecycle(h, p)
           /\ Time(h, p)' = Time(h, p)
BY LogsGrow DEF Is, Lifecycle, Time

\* Every step keeps what is covered.
LEMMA CoverStep ==
    ASSUME Typed, [Next]_vars, NEW h \in Hosts, PosOK(h), CoverOK(h)
    PROVE  CoverOK(h)'
<1>0. /\ Len(log[h]) \in Nat /\ Len(log'[h]) \in Nat /\ Len(log[h]) <= Len(log'[h])
      /\ pos[h] \in Nat /\ last[h] \in Nat /\ ckpt[h] \in Nat
      /\ pos[h] <= Len(log[h]) /\ last[h] <= Len(log[h]) /\ ckpt[h] <= Len(log[h])
      /\ pc[h] \in Dispatching => pos[h] >= 1
  BY LogsGrow DEF Typed, Shape, StreamOK, GoroutineOK
<1>1. \A p \in 1..Len(log[h]) : Lifecycle(h, p)' <=> Lifecycle(h, p)
  BY SameEvents DEF Typed
<1> DEFINE Past == \A p \in handled[h] : Lifecycle(h, p) => Covered(h, p)
           Ahead == /\ Covered(h, ckpt[h])
                    /\ ~cancelled[h] =>
                         /\ Covered(h, last[h])
                         /\ pc[h] \in {"open", "save"} => Covered(h, pos[h])
                         /\ pc[h] \in Dispatching => Covered(h, pos[h] - 1)
<1>2. Past /\ Ahead /\ handled[h] \subseteq 1..Len(log[h])
  BY DEF CoverOK
<1>3. SUFFICES Past' /\ Ahead' /\ handled'[h] \subseteq 1..Len(log'[h])
  BY DEF CoverOK
<1>4. ASSUME handled'[h] = handled[h], missed[h] \subseteq missed'[h]
      PROVE  Past' /\ handled'[h] \subseteq 1..Len(log'[h]) /\ \A n : Covered(h, n) => Covered(h, n)'
  <2>1. \A n : Covered(h, n) => Covered(h, n)'
    BY <1>4 DEF Covered
  <2>2. handled'[h] \subseteq 1..Len(log'[h])
    BY <1>0, <1>2, <1>4
  <2>3. QED
    BY <1>1, <1>2, <1>4, <2>1, <2>2
<1> USE DEF SamePlace, SamePast, SameFlags, From, Dispatching
<1>5. CASE Stays(h)
  <2>1. Past' /\ handled'[h] \subseteq 1..Len(log'[h]) /\ \A k : Covered(h, k) => Covered(h, k)'
    BY <1>4, <1>5 DEF Stays
  <2>2. Covered(h, 0)'
    BY DEF Covered
  <2>3. Ahead'
    BY <1>0, <1>2, <1>5, <2>1, <2>2 DEF Stays, PosOK, Resyncing
  <2>4. QED
    BY <2>1, <2>3
<1>6. CASE Starts(h)
  <2>1. Past' /\ handled'[h] \subseteq 1..Len(log'[h]) /\ \A k : Covered(h, k) => Covered(h, k)'
    BY <1>4, <1>6 DEF Starts
  <2>2. Covered(h, 0)'
    BY DEF Covered
  <2>3. Ahead'
    BY <1>0, <1>2, <1>6, <2>1, <2>2 DEF Starts, PosOK, Resyncing
  <2>4. QED
    BY <2>1, <2>3
<1>7. CASE Cancels(h)
  <2>1. Past' /\ handled'[h] \subseteq 1..Len(log'[h]) /\ \A k : Covered(h, k) => Covered(h, k)'
    BY <1>4, <1>7 DEF Cancels
  <2>2. Covered(h, 0)'
    BY DEF Covered
  <2>3. Ahead'
    BY <1>0, <1>2, <1>7, <2>1, <2>2 DEF Cancels, PosOK, Resyncing
  <2>4. QED
    BY <2>1, <2>3
<1>8. CASE Stops(h)
  <2>1. Past' /\ handled'[h] \subseteq 1..Len(log'[h]) /\ \A k : Covered(h, k) => Covered(h, k)'
    BY <1>4, <1>8 DEF Stops
  <2>2. Covered(h, 0)'
    BY DEF Covered
  <2>3. Ahead'
    BY <1>0, <1>2, <1>8, <2>1, <2>2 DEF Stops, PosOK, Resyncing
  <2>4. QED
    BY <2>1, <2>3
<1>9. CASE Dies(h)
  <2>1. Past' /\ handled'[h] \subseteq 1..Len(log'[h]) /\ \A k : Covered(h, k) => Covered(h, k)'
    BY <1>4, <1>9 DEF Dies
  <2>2. Covered(h, 0)'
    BY DEF Covered
  <2>3. Ahead'
    BY <1>0, <1>2, <1>9, <2>1, <2>2 DEF Dies, PosOK, Resyncing
  <2>4. QED
    BY <2>1, <2>3
<1>10. CASE GoesLive(h)
  <2>1. \A k \in Nat : k <= Len(log[h]) => Covered(h, k)'
    BY <1>0, <1>10 DEF GoesLive, Covered
  <2>2. Ahead'
    BY <1>0, <1>10, <2>1 DEF GoesLive
  <2>3. QED
    BY <1>4, <1>10, <2>2 DEF GoesLive
<1>11. CASE Resumes(h)
  <2>1. Past' /\ handled'[h] \subseteq 1..Len(log'[h]) /\ \A k : Covered(h, k) => Covered(h, k)'
    BY <1>4, <1>11 DEF Resumes
  <2>2. Covered(h, 0)'
    BY DEF Covered
  <2>3. Ahead'
    BY <1>0, <1>2, <1>11, <2>1, <2>2 DEF Resumes, PosOK, Resyncing
  <2>4. QED
    BY <2>1, <2>3
<1>12. CASE Refused(h)
  <2>1. Past' /\ handled'[h] \subseteq 1..Len(log'[h]) /\ \A k : Covered(h, k) => Covered(h, k)'
    BY <1>4, <1>12 DEF Refused
  <2>2. Covered(h, 0)'
    BY DEF Covered
  <2>3. Ahead'
    BY <1>0, <1>2, <1>12, <2>1, <2>2 DEF Refused, PosOK, Resyncing
  <2>4. QED
    BY <2>1, <2>3
<1>13. CASE Breaks(h)
  <2>1. Past' /\ handled'[h] \subseteq 1..Len(log'[h]) /\ \A k : Covered(h, k) => Covered(h, k)'
    BY <1>4, <1>13 DEF Breaks
  <2>2. Covered(h, 0)'
    BY DEF Covered
  <2>3. Ahead'
    BY <1>0, <1>2, <1>13, <2>1, <2>2 DEF Breaks, PosOK, Resyncing
  <2>4. QED
    BY <2>1, <2>3
<1>14. CASE Gets(h)
  <2>1. Past' /\ handled'[h] \subseteq 1..Len(log'[h]) /\ \A k : Covered(h, k) => Covered(h, k)'
    BY <1>4, <1>14 DEF Gets
  <2>2. Covered(h, 0)'
    BY DEF Covered
  <2>3. Ahead'
    BY <1>0, <1>2, <1>14, <2>1, <2>2 DEF Gets, PosOK, Resyncing
  <2>4. QED
    BY <2>1, <2>3
<1>15. CASE Stores(h)
  <2>1. Past' /\ handled'[h] \subseteq 1..Len(log'[h]) /\ \A k : Covered(h, k) => Covered(h, k)'
    BY <1>4, <1>15 DEF Stores
  <2>2. Covered(h, 0)'
    BY DEF Covered
  <2>3. Ahead'
    BY <1>0, <1>2, <1>15, <2>1, <2>2 DEF Stores, PosOK, Resyncing
  <2>4. QED
    BY <2>1, <2>3
<1>16. CASE Deals(h)
  <2>1. /\ pc[h] \in Dispatching /\ pos[h] \in 1..Len(log[h]) /\ pc'[h] = "save" /\ SamePlace(h)
        /\ handled'[h] = handled[h] \cup {pos[h]} /\ missed'[h] = missed[h] /\ cancelled'[h] = cancelled[h]
    BY <1>0, <1>16 DEF Deals
  <2>2. \A k : Covered(h, k) => Covered(h, k)'
    BY <2>1 DEF Covered
  <2>3. Covered(h, pos[h] - 1) => Covered(h, pos[h])'
    BY <1>0, <2>1 DEF Covered
  <2>4. Ahead'
    BY <1>2, <2>1, <2>2, <2>3
  <2>5. handled'[h] \subseteq 1..Len(log'[h])
    BY <1>0, <1>2, <2>1
  <2>6. ASSUME NEW p \in handled'[h], Lifecycle(h, p)' PROVE Covered(h, p)'
    <3>1. CASE p \in handled[h]
      BY <1>1, <1>2, <2>2, <2>6, <3>1
    <3>2. CASE p = pos[h]
      <4>1. Kind(h) \in {"started", "ended"}
        BY <1>1, <2>1, <2>6, <3>2 DEF Lifecycle, Is, Kind, Event
      <4>2. ~cancelled[h]
        BY <1>16, <4>1 DEF Deals
      <4>3. QED
        BY <1>2, <2>1, <2>3, <3>2, <4>2
    <3>3. QED
      BY <2>1, <3>1, <3>2
  <2>7. QED
    BY <2>4, <2>5, <2>6
<1>17. CASE Works(h)
  <2>1. Past' /\ handled'[h] \subseteq 1..Len(log'[h]) /\ \A k : Covered(h, k) => Covered(h, k)'
    BY <1>4, <1>17 DEF Works
  <2>2. Covered(h, 0)'
    BY DEF Covered
  <2>3. Ahead'
    BY <1>0, <1>2, <1>17, <2>1, <2>2 DEF Works, PosOK, Resyncing
  <2>4. QED
    BY <2>1, <2>3
<1>18. CASE Fails(h)
  <2>1. Past' /\ handled'[h] \subseteq 1..Len(log'[h]) /\ \A k : Covered(h, k) => Covered(h, k)'
    BY <1>4, <1>18 DEF Fails
  <2>2. missed'[h] = missed[h] \cup {pos[h]} /\ Covered(h, pos[h] - 1) => Covered(h, pos[h])'
    BY <1>0, <1>18 DEF Fails, Covered
  <2>3. Ahead'
    BY <1>2, <1>18, <2>1, <2>2 DEF Fails
  <2>4. QED
    BY <2>1, <2>3
<1>19. CASE Lists(h)
  <2>1. Past' /\ handled'[h] \subseteq 1..Len(log'[h]) /\ \A k : Covered(h, k) => Covered(h, k)'
    BY <1>4, <1>19 DEF Lists
  <2>2. Covered(h, 0)'
    BY DEF Covered
  <2>3. Ahead'
    BY <1>0, <1>2, <1>19, <2>1, <2>2 DEF Lists, PosOK, Resyncing
  <2>4. QED
    BY <2>1, <2>3
<1>20. CASE Fetches(h)
  <2>1. Past' /\ handled'[h] \subseteq 1..Len(log'[h]) /\ \A k : Covered(h, k) => Covered(h, k)'
    BY <1>4, <1>20 DEF Fetches
  <2>2. Covered(h, 0)'
    BY DEF Covered
  <2>3. Ahead'
    BY <1>0, <1>2, <1>20, <2>1, <2>2 DEF Fetches, PosOK, Resyncing
  <2>4. QED
    BY <2>1, <2>3
<1>21. CASE GivesUp(h)
  <2>1. Past' /\ handled'[h] \subseteq 1..Len(log'[h]) /\ \A k : Covered(h, k) => Covered(h, k)'
    BY <1>4, <1>21 DEF GivesUp
  <2>2. Covered(h, 0)'
    BY DEF Covered
  <2>3. Ahead'
    BY <1>0, <1>2, <1>21, <2>1, <2>2 DEF GivesUp, PosOK, Resyncing
  <2>4. QED
    BY <2>1, <2>3
<1>22. CASE Rebuilds(h)
  <2>1. Past' /\ handled'[h] \subseteq 1..Len(log'[h]) /\ \A k : Covered(h, k) => Covered(h, k)'
    BY <1>4, <1>22 DEF Rebuilds
  <2>2. Covered(h, 0)'
    BY DEF Covered
  <2>3. Ahead'
    BY <1>0, <1>2, <1>22, <2>1, <2>2 DEF Rebuilds, PosOK, Resyncing
  <2>4. QED
    BY <2>1, <2>3
<1>23. CASE Ends(h)
  <2>1. Past' /\ handled'[h] \subseteq 1..Len(log'[h]) /\ \A k : Covered(h, k) => Covered(h, k)'
    BY <1>4, <1>23 DEF Ends
  <2>2. Covered(h, 0)'
    BY DEF Covered
  <2>3. Ahead'
    BY <1>0, <1>2, <1>23, <2>1, <2>2 DEF Ends, PosOK, Resyncing
  <2>4. QED
    BY <2>1, <2>3
<1>24. QED
  BY <1>5, <1>6, <1>7, <1>8, <1>9, <1>10, <1>11, <1>12, <1>13, <1>14, <1>15, <1>16, <1>17, <1>18, <1>19, <1>20, <1>21, <1>22, <1>23, StreamMoves DEF Moves

\* What an emission appends, and what it means for where the session runs.
LEMMA Emission ==
    ASSUME Shape, NEW g \in Hosts, Emits(g)
    PROVE  \E L \in Nat :
               /\ L = Len(log[g]) + 1
               /\ now \in Nat /\ now' = now + 1
               /\ \A h \in Hosts : h # g => log'[h] = log[h]
               /\ Len(log'[g]) = L
               /\ Time(g, L)' = now + 1
               /\ \/ on = None /\ on' = g /\ Is(g, L, "started")' /\ ~Is(g, L, "ended")'
                  \/ on = g /\ on' = None /\ Is(g, L, "ended")' /\ ~Is(g, L, "started")'
                  \/ on = g /\ on' = g /\ ~Lifecycle(g, L)'
<1>0. PICK L \in Nat : L = Len(log[g]) + 1
  BY DEF Shape, LogOK
<1>1. ASSUME NEW k, NEW n, Emit(g, k, n)
      PROVE  /\ now \in Nat /\ now' = now + 1
             /\ \A h \in Hosts : h # g => log'[h] = log[h]
             /\ Len(log'[g]) = L /\ L \in Nat /\ L >= 1
             /\ log'[g][L].kind = k /\ log'[g][L].t = now + 1
  <2>1. now \in Nat /\ log \in [Hosts -> Seq(Events)]
    BY ConstantsAssumption DEF Shape, LogOK, Times
  <2> DEFINE e == [kind |-> k, t |-> now + 1, users |-> n]
  <2>2. now' = now + 1 /\ log' = [log EXCEPT ![g] = Append(log[g], e)]
    BY <1>1 DEF Emit
  <2> HIDE DEF e
  <2>3. log'[g] = Append(log[g], e) /\ log[g] \in Seq(Events)
    BY <2>1, <2>2
  <2>4. Len(Append(log[g], e)) = L /\ Append(log[g], e)[L] = e /\ L >= 1
    BY <1>0, <2>3
  <2>5. e.kind = k /\ e.t = now + 1
    BY DEF e
  <2>6. QED
    BY <2>1, <2>2, <2>3, <2>4, <2>5
<1> DEFINE Frame == /\ now \in Nat /\ now' = now + 1
                    /\ \A h \in Hosts : h # g => log'[h] = log[h]
                    /\ Len(log'[g]) = L /\ L \in Nat /\ L >= 1
                    /\ Time(g, L)' = now + 1
<1>2. CASE StartWorld(g)
  <2>1. Emit(g, "started", 0) /\ on = None /\ on' = g
    BY <1>2 DEF StartWorld
  <2>2. Frame /\ log'[g][L].kind = "started"
    BY <1>1, <2>1 DEF Time
  <2>3. QED
    BY <1>0, <2>1, <2>2 DEF Is
<1>3. CASE EndWorld(g)
  <2>1. Emit(g, "ended", 0) /\ on = g /\ on' = None
    BY <1>3 DEF EndWorld
  <2>2. Frame /\ log'[g][L].kind = "ended"
    BY <1>1, <2>1 DEF Time
  <2>3. QED
    BY <1>0, <2>1, <2>2 DEF Is
<1>4. CASE Join(g) \/ Left(g) \/ Change(g)
  <2>1. on = g /\ on' = g /\ \E k \in {"joined", "left", "params", "saved"} : \E n : Emit(g, k, n)
    BY <1>4 DEF Join, Left, Change
  <2>2. PICK k \in {"joined", "left", "params", "saved"} : \E n : Emit(g, k, n)
    BY <2>1
  <2>3. Frame /\ log'[g][L].kind = k
    BY <1>1, <2>2 DEF Time
  <2>4. QED
    BY <1>0, <2>1, <2>3 DEF Lifecycle, Is
<1>5. QED
  BY <1>2, <1>3, <1>4 DEF Emits

\* The hosts keep their logs in order, and take turns.
LEMMA WorldStep ==
    ASSUME Shape, TimesOK, WorldOK, [Next]_vars
    PROVE  TimesOK' /\ WorldOK'
<1> USE DEF TimesOK, WorldOK
<1>1. ASSUME UNCHANGED <<now, on, log>> PROVE TimesOK' /\ WorldOK'
  BY <1>1 DEF Final, Lifecycle, Is, Time
<1>2. ASSUME NEW g \in Hosts, Emits(g) PROVE TimesOK' /\ WorldOK'
  <2>0. PICK L \in Nat :
           /\ L = Len(log[g]) + 1
           /\ now \in Nat /\ now' = now + 1
           /\ \A h \in Hosts : h # g => log'[h] = log[h]
           /\ Len(log'[g]) = L
           /\ Time(g, L)' = now + 1
           /\ \/ on = None /\ on' = g /\ Is(g, L, "started")' /\ ~Is(g, L, "ended")'
              \/ on = g /\ on' = None /\ Is(g, L, "ended")' /\ ~Is(g, L, "started")'
              \/ on = g /\ on' = g /\ ~Lifecycle(g, L)'
    BY <1>2, Emission
  <2>1. /\ now \in Nat /\ now' = now + 1
        /\ \A h \in Hosts : h # g => log'[h] = log[h]
        /\ Len(log'[g]) = L
        /\ Time(g, L)' = now + 1
    BY <2>0
  <2>2. \/ on = None /\ on' = g /\ Is(g, L, "started")' /\ ~Is(g, L, "ended")'
        \/ on = g /\ on' = None /\ Is(g, L, "ended")' /\ ~Is(g, L, "started")'
        \/ on = g /\ on' = g /\ ~Lifecycle(g, L)'
    BY <2>0
  <2>3. Len(log[g]) \in Nat /\ L = Len(log[g]) + 1 /\ \A h \in Hosts : Len(log[h]) \in Nat
    BY <2>0, LogsGrow
  <2>4. \A h \in Hosts : \A p \in 1..Len(log'[h]) : p \in 1..Len(log[h]) \/ (h = g /\ p = L)
    BY <2>1, <2>3
  <2>5. \A h \in Hosts : \A p \in 1..Len(log[h]) :
           /\ p \in 1..Len(log'[h]) /\ Time(h, p)' = Time(h, p) /\ Time(h, p) \in 1..now
           /\ Lifecycle(h, p)' <=> Lifecycle(h, p)
           /\ Is(h, p, "started")' <=> Is(h, p, "started")
           /\ Is(h, p, "ended")' <=> Is(h, p, "ended")
    BY SameEvents
  <2>6. L \in 1..Len(log'[g]) /\ \A p \in 1..Len(log[g]) : p < L
    BY <2>1, <2>3
  <2>7. TimesOK'
    <3>1. \A h \in Hosts : \A p \in 1..Len(log'[h]) : Time(h, p)' \in 1..now'
      BY <2>1, <2>4, <2>5
    <3>2. \A h \in Hosts : \A p, q \in 1..Len(log'[h]) : p < q => Time(h, p)' < Time(h, q)'
      <4> SUFFICES ASSUME NEW h \in Hosts, NEW p \in 1..Len(log'[h]), NEW q \in 1..Len(log'[h]), p < q
                   PROVE  Time(h, p)' < Time(h, q)'
        OBVIOUS
      <4>1. CASE q \in 1..Len(log[h])
        <5>1. p \in 1..Len(log[h])
          BY <2>3, <4>1
        <5>2. QED
          BY <2>5, <4>1, <5>1
      <4>2. CASE h = g /\ q = L
        <5>1. p \in 1..Len(log[h])
          BY <2>4, <4>2
        <5>2. QED
          BY <2>1, <2>5, <4>2, <5>1
      <4>3. QED
        BY <2>4, <4>1, <4>2
    <3>3. ASSUME NEW f \in Hosts, NEW h \in Hosts, NEW p \in 1..Len(log'[f]), NEW q \in 1..Len(log'[h]),
                 Time(f, p)' = Time(h, q)'
          PROVE  f = h
      <4>1. CASE p \in 1..Len(log[f]) /\ q \in 1..Len(log[h])
        BY <2>5, <3>3, <4>1
      <4>2. CASE p \in 1..Len(log[f]) /\ h = g /\ q = L
        BY <2>1, <2>5, <3>3, <4>2
      <4>3. CASE f = g /\ p = L /\ q \in 1..Len(log[h])
        BY <2>1, <2>5, <3>3, <4>3
      <4>4. QED
        BY <2>4, <4>1, <4>2, <4>3
    <3>4. QED
      BY <3>1, <3>2, <3>3
  <2>8. on' \in Hosts \cup {None}
    BY <2>2
  <2>9. ASSUME NEW h \in Hosts, on' # h, NEW p \in 1..Len(log'[h]), Is(h, p, "started")'
        PROVE  \E q \in 1..Len(log'[h]) : Final(h, q)'
    <3>1. CASE h # g
      <4>1. on # h /\ p \in 1..Len(log[h]) /\ Is(h, p, "started")
        BY <2>2, <2>4, <2>5, <2>9, <3>1, ConstantsAssumption
      <4>2. PICK q \in 1..Len(log[h]) : Final(h, q)
        BY <4>1
      <4>3. Final(h, q)' /\ q \in 1..Len(log'[h])
        BY <2>1, <3>1, <4>2 DEF Final, Lifecycle, Is
      <4>4. QED
        BY <4>3
    <3>2. CASE h = g
      <4>1. Is(g, L, "ended")'
        BY <2>2, <2>9, <3>2
      <4>2. \A q \in 1..Len(log'[g]) : q <= L
        BY <2>1, <2>3
      <4>3. Final(g, L)'
        BY <4>1, <4>2 DEF Final
      <4>4. QED
        BY <2>6, <3>2, <4>3
    <3>3. QED
      BY <3>1, <3>2
  <2>10. ASSUME on' # None
         PROVE  \E p \in 1..Len(log'[on']) :
                   /\ Is(on, p, "started")'
                   /\ \A h \in Hosts : \A q \in 1..Len(log'[h]) : Lifecycle(h, q)' => Time(h, q)' <= Time(on, p)'
    <3>1. on' = g
      BY <2>2, <2>10
    <3>2. CASE on = None
      <4>1. Is(g, L, "started")'
        BY <2>2, <3>2, ConstantsAssumption
      <4>2. \A h \in Hosts : \A q \in 1..Len(log'[h]) : Time(h, q)' <= now + 1
        BY <2>1, <2>4, <2>5
      <4>3. Is(on, L, "started")' /\ Time(on, L)' = now + 1
        BY <2>1, <3>1, <4>1 DEF Is, Time
      <4>4. QED
        BY <2>6, <3>1, <4>2, <4>3
    <3>3. CASE on = g
      <4>1. ~Lifecycle(g, L)'
        BY <2>2, <3>1, <3>3, ConstantsAssumption
      <4>2. PICK p \in 1..Len(log[g]) :
               /\ Is(g, p, "started")
               /\ \A h \in Hosts : \A q \in 1..Len(log[h]) : Lifecycle(h, q) => Time(h, q) <= Time(g, p)
        BY <3>3, ConstantsAssumption
      <4>3. Is(on, p, "started")' /\ Time(on, p)' = Time(g, p)
        BY <2>5, <3>1, <4>2 DEF Is, Time
      <4>4. \A h \in Hosts : \A q \in 1..Len(log'[h]) : Lifecycle(h, q)' => Time(h, q)' <= Time(g, p)
        BY <2>4, <2>5, <4>1, <4>2
      <4>5. QED
        BY <2>5, <3>1, <4>2, <4>3, <4>4
    <3>4. QED
      BY <2>2, <3>2, <3>3
  <2>11. \E h \in Hosts : \E p \in 1..Len(log'[h]) : Is(h, p, "started")'
    <3>1. CASE on = None
      BY <2>2, <2>6, <3>1, ConstantsAssumption
    <3>2. CASE on = g
      <4>1. PICK p \in 1..Len(log[g]) : Is(g, p, "started")
        BY <3>2, ConstantsAssumption
      <4>2. QED
        BY <2>5, <4>1
    <3>3. QED
      BY <2>2, <3>1, <3>2
  <2>12. WorldOK'
    BY <2>8, <2>9, <2>10, <2>11
  <2>13. QED
    BY <2>7, <2>12
<1>3. QED
  BY <1>1, <1>2, NextIsQuietOrEmits, QuietKeepsLog DEF vars, hostVars

--------------------------------------------------------------------------------
(* The row follows what was handled *)

\* What the row says comes from events, and a handled start is not lost.
RowSays ==
    /\ status = "ABSENT" => owner = None
    /\ status # "ABSENT" => owner \in Hosts /\ \E p \in 1..Len(log[owner]) :
          Is(owner, p, "started") /\ Time(owner, p) = startedAt
    /\ status = "ENDED" => \E p \in 1..Len(log[owner]) : Is(owner, p, "ended") /\ Time(owner, p) = endedAt
    /\ status # "ENDED" => endedAt = 0
    /\ \A h \in Hosts : \A p \in handled[h] : Is(h, p, "started") => Time(h, p) <= startedAt

\* After event r, and if nothing after r was missed: a handled end of the host that owns
\* the row has reached it, unless it is older than the row's start.
Heard(h, r) ==
    (\A n \in missed[h] : n <= r) =>
        \A p \in handled[h] :
            Is(h, p, "ended") /\ p > r /\ status # "ABSENT" /\ owner = h /\ startedAt < Time(h, p)
                => Time(h, p) <= endedAt

HeardOK == \A h \in Hosts : Heard(h, 0) /\ Heard(h, resyncAt[h])

\* The event that stream h works on.
LEMMA Current ==
    ASSUME Typed, NEW h \in Hosts, pc[h] \in Dispatching
    PROVE  /\ pos[h] \in 1..Len(log[h]) /\ pos[h] \in Nat
           /\ Event(h).t = Time(h, pos[h]) /\ Time(h, pos[h]) \in 1..MaxEvents
           /\ \A k : Kind(h) = k <=> Is(h, pos[h], k)
<1>1. pos[h] \in Nat /\ pos[h] >= 1 /\ pos[h] <= Len(log[h]) /\ Len(log[h]) \in Nat
  BY DEF Typed, Shape, StreamOK, LogOK
<1>2. pos[h] \in 1..Len(log[h])
  BY <1>1
<1>3. Event(h).t \in 1..MaxEvents
  BY EventType DEF Typed
<1>4. QED
  BY <1>1, <1>2, <1>3 DEF Event, Kind, Is, Time

\* The three changes of the row.
RowStarts(h) ==
    /\ pc[h] \in {"lifecycle", "apply"} /\ Is(h, pos[h], "started")
    /\ startedAt < Time(h, pos[h])
    /\ status' = "RUNNING" /\ owner' = h /\ startedAt' = Time(h, pos[h]) /\ endedAt' = 0
RowEnds(h) ==
    /\ pc[h] = "apply" /\ Is(h, pos[h], "ended")
    /\ owner = h /\ endedAt < Time(h, pos[h])
    /\ status' = "ENDED" /\ endedAt' = Time(h, pos[h]) /\ UNCHANGED <<owner, startedAt>>
RowUnknown(h) ==
    /\ pc[h] = "downgrade" /\ wasRunning[h] /\ seen[h] = Miss
    /\ status = "RUNNING" /\ status' = "UNKNOWN" /\ UNCHANGED <<owner, startedAt, endedAt>>

\* The row changes by a start, an end or a resync, and in no other way.
LEMMA RowChanges ==
    ASSUME Typed, IInv, [Next]_vars
    PROVE  UNCHANGED rowVars \/ \E h \in Hosts : RowStarts(h) \/ RowEnds(h) \/ RowUnknown(h)
<1> USE DEF rowVars
<1>1. ASSUME NEW h \in Hosts, InsertFromEvent(h) PROVE UNCHANGED rowVars \/ RowStarts(h)
  <2>1. pc[h] \in Dispatching
    BY <1>1 DEF InsertFromEvent, Dispatching
  <2>2. status = "ABSENT" => startedAt < Time(h, pos[h])
    BY <2>1, Current DEF IInv, RowOK
  <2>3. QED
    BY <1>1, <2>1, <2>2, Current DEF InsertFromEvent, RowStarts
<1>2. ASSUME NEW h \in Hosts, ApplySessionStarted(h) PROVE UNCHANGED rowVars \/ RowStarts(h)
  <2>1. pc[h] \in Dispatching
    BY <1>2 DEF ApplySessionStarted, Dispatching
  <2>2. QED
    BY <1>2, <2>1, Current DEF ApplySessionStarted, RowStarts
<1>3. ASSUME NEW h \in Hosts, ApplySessionEnded(h) PROVE UNCHANGED rowVars \/ RowEnds(h)
  <2>1. pc[h] \in Dispatching
    BY <1>3 DEF ApplySessionEnded, Dispatching
  <2>2. QED
    BY <1>3, <2>1, Current DEF ApplySessionEnded, RowEnds
<1>4. ASSUME NEW h \in Hosts, ResetDowngrade(h) PROVE UNCHANGED rowVars \/ RowUnknown(h)
  BY <1>4 DEF ResetDowngrade, RowUnknown
<1>5. QED
  BY <1>1, <1>2, <1>3, <1>4, RowKept DEF RowSteps

\* An event becomes handled only when its handlers are done with it: a start is then in
\* the row, and an end too unless it does not concern the row.
LEMMA HandledGrows ==
    ASSUME Typed, IInv, [Next]_vars, NEW h \in Hosts
    PROVE  \/ handled'[h] = handled[h]
           \/ /\ pc[h] \in Dispatching /\ handled'[h] = handled[h] \cup {pos[h]} /\ missed'[h] = missed[h]
              /\ Is(h, pos[h], "started") => Time(h, pos[h]) <= startedAt'
              /\ Is(h, pos[h], "ended") =>
                    status' = "ABSENT" \/ owner' # h \/ Time(h, pos[h]) < startedAt' \/ Time(h, pos[h]) <= endedAt'
<1> DEFINE New ==
       /\ pc[h] \in Dispatching /\ handled'[h] = handled[h] \cup {pos[h]} /\ missed'[h] = missed[h]
       /\ Is(h, pos[h], "started") => Time(h, pos[h]) <= startedAt'
       /\ Is(h, pos[h], "ended") =>
             status' = "ABSENT" \/ owner' # h \/ Time(h, pos[h]) < startedAt' \/ Time(h, pos[h]) <= endedAt'
<1>0. handled \in [Hosts -> SUBSET Nat] /\ missed \in [Hosts -> SUBSET Nat] /\ pc \in [Hosts -> PCs]
  BY DEF Typed, Shape, StreamOK, GoroutineOK
<1>11. startedAt \in Nat /\ endedAt \in Nat
  BY ConstantsAssumption DEF IInv, RowOK, Times
<1>1. ASSUME Sync(h) \/ SyncRead(h) PROVE handled'[h] = handled[h] \/ New
  <2>1. pc[h] \in Dispatching
    BY <1>1 DEF Sync, SyncRead, Dispatching
  <2>2. CASE handled' # handled
    <3>1. Dealt(h) /\ Kind(h) \notin {"started", "ended"}
      BY <1>1, <2>2 DEF Sync, SyncRead, history
    <3>2. QED
      BY <1>0, <2>1, <3>1, Current DEF Dealt
  <2>3. QED
    BY <2>2
<1>2. ASSUME Bump(h) PROVE handled'[h] = handled[h] \/ New
  <2>1. pc[h] \in Dispatching /\ Dealt(h)
    BY <1>2 DEF Bump, Dispatching
  <2>2. Kind(h) \in {"joined", "left", "saved"}
    BY <1>2 DEF Bump, Typed, GoroutineOK
  <2>3. ~Is(h, pos[h], "started") /\ ~Is(h, pos[h], "ended")
    BY <2>2 DEF Is, Kind, Event
  <2>4. QED
    BY <1>0, <2>1, <2>3 DEF Dealt
<1>3. ASSUME ApplySessionStarted(h) PROVE New
  <2>1. pc[h] \in Dispatching /\ Dealt(h) /\ Kind(h) = "started"
    BY <1>3 DEF ApplySessionStarted, Dispatching
  <2>2. Is(h, pos[h], "started") /\ Time(h, pos[h]) = Event(h).t /\ Event(h).t \in Nat
    BY <2>1, Current
  <2>3. ~Is(h, pos[h], "ended")
    BY <2>2 DEF Is
  <2>4. ~(startedAt < Event(h).t) => Event(h).t <= startedAt'
    BY <1>11, <1>3, <2>2 DEF ApplySessionStarted, rowVars
  <2>5. startedAt < Event(h).t => Event(h).t <= startedAt'
    BY <1>3, <2>2 DEF ApplySessionStarted, rowVars
  <2>6. QED
    BY <1>0, <2>1, <2>2, <2>3, <2>4, <2>5 DEF Dealt
<1>4. ASSUME CheckEnded(h) PROVE handled'[h] = handled[h] \/ New
  <2>1. pc[h] \in Dispatching /\ Kind(h) = "ended" /\ UNCHANGED rowVars
    BY <1>4 DEF CheckEnded, Dispatching
  <2>2. Is(h, pos[h], "ended") /\ Time(h, pos[h]) = Event(h).t /\ ~Is(h, pos[h], "started")
    BY <2>1, Current DEF Is
  <2>3. CASE status # "ABSENT" /\ owner = h /\ Event(h).t >= startedAt
    BY <1>4, <2>3 DEF CheckEnded, history
  <2>4. CASE ~(status # "ABSENT" /\ owner = h /\ Event(h).t >= startedAt)
    <3>1. Dealt(h)
      BY <1>4, <2>4 DEF CheckEnded
    <3>2. CASE status = "ABSENT" \/ owner # h
      BY <1>0, <2>1, <2>2, <3>1, <3>2 DEF Dealt, rowVars
    <3>3. CASE ~(Event(h).t >= startedAt)
      <4>1. Event(h).t < startedAt'
        BY <1>11, <2>1, <2>2, <3>3, Current DEF rowVars
      <4>2. QED
        BY <1>0, <2>1, <2>2, <3>1, <4>1 DEF Dealt
    <3>4. QED
      BY <2>4, <3>2, <3>3
  <2>5. QED
    BY <2>3, <2>4
<1>5. ASSUME ApplySessionEnded(h) PROVE New
  <2>1. pc[h] \in Dispatching /\ Dealt(h) /\ Kind(h) = "ended"
    BY <1>5 DEF ApplySessionEnded, Dispatching
  <2>2. Is(h, pos[h], "ended") /\ Time(h, pos[h]) = Event(h).t /\ Event(h).t \in Nat
    BY <2>1, Current
  <2>3. owner' # h \/ Event(h).t <= endedAt'
    BY <1>11, <1>5, <2>2 DEF ApplySessionEnded
  <2>4. ~Is(h, pos[h], "started")
    BY <2>2 DEF Is
  <2>5. QED
    BY <1>0, <2>1, <2>2, <2>3, <2>4 DEF Dealt
<1>6. ASSUME Stays(h) \/ Starts(h) \/ Cancels(h) \/ Stops(h) \/ Dies(h) \/ GoesLive(h) \/ Resumes(h)
             \/ Refused(h) \/ Breaks(h) \/ Gets(h) \/ Stores(h) \/ Works(h) \/ Fails(h)
             \/ Lists(h) \/ Fetches(h) \/ GivesUp(h) \/ Rebuilds(h) \/ Ends(h)
      PROVE  handled'[h] = handled[h]
  BY <1>6 DEF Stays, Starts, Cancels, Stops, Dies, GoesLive, Resumes, Refused, Breaks, Gets, Stores, Works,
              Fails, Lists, Fetches, GivesUp, Rebuilds, Ends, SamePast
<1>7. ASSUME NEW g \in Hosts, g # h,
             Emits(g) \/ Evict(g) \/ Flap(g) \/ StartStream(g) \/ Cancel(g) \/ Disconnect(g)
             \/ StopStream(g) \/ Connecting(g) \/ Recv(g) \/ Handling(g) \/ Resync(g)
      PROVE  handled'[h] = handled[h]
  BY <1>6, <1>7, Alone
<1>8. ASSUME Emits(h) \/ Evict(h) \/ Flap(h) \/ StartStream(h) \/ Cancel(h) \/ Disconnect(h)
             \/ StopStream(h) \/ Connecting(h) \/ Recv(h) \/ Resync(h)
             \/ InsertFromEvent(h) \/ HandlerFails(h) \/ Save(h) \/ Crash
      PROVE  handled'[h] = handled[h]
  BY <1>6, <1>8, Own DEF Connecting, Resync
<1>9. UNCHANGED vars => handled'[h] = handled[h]
  BY DEF vars, history
<1>10. QED
  BY <1>1, <1>2, <1>3, <1>4, <1>5, <1>7, <1>8, <1>9, NextIsQuietOrEmits DEF Quiet, Handling

\* The order in which times and positions agree.
LEMMA InOrder ==
    ASSUME TimesOK, Shape, NEW h \in Hosts, NEW p \in 1..Len(log[h]), NEW q \in 1..Len(log[h]), Time(h, p) < Time(h, q)
    PROVE  p < q
<1>1. Len(log[h]) \in Nat /\ now \in Nat
  BY ConstantsAssumption DEF Shape, LogOK, Times
<1>2. Time(h, p) \in Nat /\ Time(h, q) \in Nat /\ p \in Nat /\ q \in Nat
  BY <1>1 DEF TimesOK
<1>3. q < p => Time(h, q) < Time(h, p)
  BY DEF TimesOK
<1>4. p # q
  BY <1>2
<1>5. QED
  BY <1>2, <1>3, <1>4

\* What the row, the streams and the logs have to do with each other.
RInv == Typed /\ IInv /\ TimesOK /\ WorldOK /\ (\A h \in Hosts : PosOK(h) /\ CoverOK(h)) /\ RowSays /\ HeardOK

\* Every step keeps what the row says.
LEMMA RowSaysStep == ASSUME RInv, [Next]_vars PROVE RowSays'
<1> USE DEF RInv
<1>1. Shape
  BY DEF Typed
<1>2. \A h \in Hosts : \A p \in 1..Len(log[h]) :
         /\ p \in 1..Len(log'[h]) /\ Time(h, p)' = Time(h, p)
         /\ Is(h, p, "started")' <=> Is(h, p, "started")
         /\ Is(h, p, "ended")' <=> Is(h, p, "ended")
  BY <1>1, SameEvents
<1>3. startedAt \in Nat /\ endedAt \in Nat /\ startedAt' \in Nat /\ startedAt <= startedAt'
  <2>1. startedAt \in Nat /\ endedAt \in Nat
    BY ConstantsAssumption DEF IInv, RowOK, Times
  <2>2. RowOK' /\ startedAt' >= startedAt
    BY RowStep
  <2>3. QED
    BY <2>1, <2>2, ConstantsAssumption DEF RowOK, Times
<1>4. \A h \in Hosts : \A p \in handled'[h] : Is(h, p, "started")' => Time(h, p)' <= startedAt'
  <2> SUFFICES ASSUME NEW h \in Hosts, NEW p \in handled'[h], Is(h, p, "started")'
               PROVE  Time(h, p)' <= startedAt'
    OBVIOUS
  <2>1. CASE p \in handled[h]
    <3>1. p \in 1..Len(log[h])
      BY <2>1 DEF CoverOK
    <3>2. Time(h, p) <= startedAt /\ Time(h, p) \in Nat
      BY <1>1, <1>2, <2>1, <3>1, ConstantsAssumption DEF RowSays, TimesOK, Shape, LogOK, Times
    <3>3. QED
      BY <1>2, <1>3, <3>1, <3>2
  <2>2. CASE p \notin handled[h]
    <3>1. p = pos[h] /\ pc[h] \in Dispatching /\ (Is(h, p, "started") => Time(h, p) <= startedAt')
      BY <2>2, HandledGrows
    <3>2. p \in 1..Len(log[h])
      BY <3>1, Current
    <3>3. QED
      BY <1>2, <3>1, <3>2
  <2>3. QED
    BY <2>1, <2>2
<1> DEFINE Rest ==
      /\ status = "ABSENT" => owner = None
      /\ status # "ABSENT" => owner \in Hosts /\ \E p \in 1..Len(log[owner]) :
            Is(owner, p, "started") /\ Time(owner, p) = startedAt
      /\ status = "ENDED" => \E p \in 1..Len(log[owner]) : Is(owner, p, "ended") /\ Time(owner, p) = endedAt
      /\ status # "ENDED" => endedAt = 0
<1>5. Rest
  BY DEF RowSays
<1>6. ASSUME UNCHANGED <<owner, startedAt>>, status # "ABSENT", status' # "ABSENT"
      PROVE  owner' \in Hosts /\ \E p \in 1..Len(log'[owner']) : Is(owner, p, "started")' /\ Time(owner, p)' = startedAt'
  <2>1. owner \in Hosts /\ owner' = owner
    BY <1>5, <1>6
  <2>2. PICK p \in 1..Len(log[owner]) : Is(owner, p, "started") /\ Time(owner, p) = startedAt
    BY <1>5, <1>6
  <2>3. p \in 1..Len(log'[owner]) /\ Is(owner, p, "started")' /\ Time(owner, p)' = startedAt
    BY <1>2, <1>6, <2>1, <2>2 DEF Is, Time
  <2>4. QED
    BY <1>6, <2>1, <2>3
<1>7. CASE UNCHANGED rowVars
  <2>1. status = "ENDED" => \E p \in 1..Len(log'[owner']) : Is(owner, p, "ended")' /\ Time(owner, p)' = endedAt'
    <3> SUFFICES ASSUME status = "ENDED" PROVE \E p \in 1..Len(log'[owner']) : Is(owner, p, "ended")' /\ Time(owner, p)' = endedAt'
      OBVIOUS
    <3>1. owner \in Hosts /\ owner' = owner /\ endedAt' = endedAt
      BY <1>5, <1>7 DEF rowVars
    <3>2. PICK p \in 1..Len(log[owner]) : Is(owner, p, "ended") /\ Time(owner, p) = endedAt
      BY <1>5
    <3>3. p \in 1..Len(log'[owner]) /\ Is(owner, p, "ended")' /\ Time(owner, p)' = endedAt
      BY <1>2, <3>1, <3>2 DEF Is, Time
    <3>4. QED
      BY <3>1, <3>3
  <2>2. QED
    BY <1>4, <1>5, <1>6, <1>7, <2>1 DEF rowVars, RowSays
<1>8. ASSUME NEW h \in Hosts, RowStarts(h) PROVE RowSays'
  <2>1. pos[h] \in 1..Len(log[h]) /\ owner' = h /\ status' = "RUNNING" /\ endedAt' = 0 /\ startedAt' = Time(h, pos[h])
        /\ Is(h, pos[h], "started")
    BY <1>8 DEF RowStarts, Is
  <2>2. PICK p : p = pos[h]
    OBVIOUS
  <2>3. p \in 1..Len(log'[owner']) /\ Is(owner, p, "started")' /\ Time(owner, p)' = startedAt'
    BY <1>2, <2>1, <2>2 DEF Is, Time
  <2>4. QED
    BY <1>4, <2>1, <2>3 DEF RowSays
<1>9. ASSUME NEW h \in Hosts, RowEnds(h) PROVE RowSays'
  <2>1. pos[h] \in 1..Len(log[h]) /\ owner = h /\ owner' = h /\ status' = "ENDED" /\ endedAt' = Time(h, pos[h])
        /\ startedAt' = startedAt /\ Is(h, pos[h], "ended")
    BY <1>9 DEF RowEnds, Is
  <2>2. PICK p : p = pos[h]
    OBVIOUS
  <2>3. p \in 1..Len(log'[owner']) /\ Is(owner, p, "ended")' /\ Time(owner, p)' = endedAt'
    BY <1>2, <2>1, <2>2 DEF Is, Time
  <2>4. status # "ABSENT"
    BY <1>5, <2>1, ConstantsAssumption
  <2>5. QED
    BY <1>4, <1>6, <2>1, <2>3, <2>4 DEF RowSays
<1>10. ASSUME NEW h \in Hosts, RowUnknown(h) PROVE RowSays'
  BY <1>4, <1>5, <1>6, <1>10 DEF RowUnknown, RowSays
<1>11. QED
  BY <1>7, <1>8, <1>9, <1>10, RowChanges

\* The argument for a position r before which nothing is received any more.
LEMMA HeardKept ==
    ASSUME RInv, [Next]_vars, NEW h \in Hosts, NEW r \in Nat, Heard(h, r),
           pc[h] \in Dispatching => pos[h] > r
    PROVE  Heard(h, r)'
<1> USE DEF RInv
<1>1. Shape
  BY DEF Typed
<1> SUFFICES ASSUME \A n \in missed'[h] : n <= r, NEW p \in handled'[h], Is(h, p, "ended")', p > r,
                    status' # "ABSENT", owner' = h, startedAt' < Time(h, p)'
             PROVE  Time(h, p)' <= endedAt'
  BY DEF Heard
<1>2. missed[h] \subseteq missed'[h]
  BY StreamMoves DEF Moves, Stays, Starts, Cancels, Stops, Dies, GoesLive, Resumes, Refused, Breaks, Gets, Stores,
     Deals, Works, Fails, Lists, Fetches, GivesUp, Rebuilds, Ends, SamePast
<1>3. startedAt \in Nat /\ endedAt \in Nat
  BY ConstantsAssumption DEF IInv, RowOK, Times
<1>4. CASE p \notin handled[h]
  <2>1. /\ p = pos[h] /\ pc[h] \in Dispatching
        /\ Is(h, p, "ended") =>
             status' = "ABSENT" \/ owner' # h \/ Time(h, p) < startedAt' \/ Time(h, p) <= endedAt'
    BY <1>4, HandledGrows
  <2>2. p \in 1..Len(log[h])
    BY <2>1, Current
  <2>3. Is(h, p, "ended") /\ Time(h, p)' = Time(h, p)
    BY <1>1, <2>2, SameEvents
  <2>4. ~(Time(h, p) < startedAt')
    <3>1. Time(h, p) \in Nat
      BY <1>1, <2>2, ConstantsAssumption DEF TimesOK, Shape, LogOK, Times
    <3>2. startedAt' \in Nat
      BY RowStep, ConstantsAssumption DEF RowOK, Times
    <3>3. QED
      BY <2>3, <3>1, <3>2
  <2>5. QED
    BY <2>1, <2>3, <2>4
<1>5. CASE p \in handled[h]
  <2>1. p \in 1..Len(log[h])
    BY <1>5 DEF CoverOK
  <2>2. Is(h, p, "ended") /\ Time(h, p)' = Time(h, p) /\ Time(h, p) \in Nat
    BY <1>1, <2>1, SameEvents, ConstantsAssumption DEF TimesOK, Shape, LogOK, Times
  <2>3. status # "ABSENT" /\ owner = h /\ startedAt < Time(h, p) => Time(h, p) <= endedAt
    BY <1>2, <1>5, <2>2 DEF Heard
  <2>4. CASE UNCHANGED rowVars
    BY <2>2, <2>3, <2>4 DEF rowVars
  <2>5. ASSUME NEW g \in Hosts, RowUnknown(g) PROVE Time(h, p)' <= endedAt'
    BY <2>2, <2>3, <2>5 DEF RowUnknown
  <2>6. ASSUME NEW g \in Hosts, RowEnds(g) PROVE Time(h, p)' <= endedAt'
    <3>1. owner = h /\ g = h /\ startedAt' = startedAt /\ endedAt < Time(h, pos[h]) /\ endedAt' = Time(h, pos[h])
          /\ pos[h] \in 1..Len(log[h])
      BY <2>6 DEF RowEnds, Is
    <3>2. status # "ABSENT"
      BY <3>1, ConstantsAssumption DEF RowSays
    <3>3. Time(h, pos[h]) \in Nat
      BY <1>1, <3>1, ConstantsAssumption DEF TimesOK, Shape, LogOK, Times
    <3>4. QED
      BY <1>3, <2>2, <2>3, <3>1, <3>2, <3>3
  <2>7. ASSUME NEW g \in Hosts, RowStarts(g) PROVE FALSE
    <3>1. g = h /\ pc[h] \in Dispatching /\ Is(h, pos[h], "started") /\ pos[h] \in 1..Len(log[h])
          /\ startedAt < Time(h, pos[h]) /\ startedAt' = Time(h, pos[h])
      BY <2>7 DEF RowStarts, Is, Dispatching
    <3>2. pos[h] < p
      BY <1>1, <2>1, <2>2, <3>1, InOrder
    <3>3. pos[h] \in handled[h] \/ pos[h] \in missed[h]
      <4>1. Covered(h, p)
        BY <1>5, <2>2 DEF CoverOK, Lifecycle
      <4>2. pos[h] \in 1..p
        BY <2>1, <3>1, <3>2
      <4>3. QED
        BY <4>1, <4>2 DEF Covered
    <3>4. pos[h] \notin missed[h]
      <4>1. pos[h] > r /\ pos[h] \in Nat
        BY <3>1
      <4>2. ~(pos[h] <= r)
        BY <4>1
      <4>3. QED
        BY <1>2, <4>2
    <3>5. Time(h, pos[h]) <= startedAt
      BY <3>1, <3>3, <3>4 DEF RowSays
    <3>6. Time(h, pos[h]) \in Nat
      BY <1>1, <3>1, ConstantsAssumption DEF TimesOK, Shape, LogOK, Times
    <3>7. QED
      BY <1>3, <3>1, <3>5, <3>6
  <2>8. QED
    BY <2>4, <2>5, <2>6, <2>7, RowChanges
<1>6. QED
  BY <1>4, <1>5

\* Every step keeps what was heard, from the beginning and since the last resync.
LEMMA HeardStep == ASSUME RInv, [Next]_vars PROVE HeardOK'
<1> SUFFICES ASSUME NEW h \in Hosts PROVE Heard(h, 0)' /\ Heard(h, resyncAt[h])'
  BY DEF HeardOK
<1> USE DEF RInv
<1>1. resyncAt[h] \in Nat /\ (pc[h] \in Dispatching => pos[h] > 0 /\ pos[h] > resyncAt[h])
  BY DEF Typed, Shape, StreamOK, GoroutineOK, PosOK
<1>2. Heard(h, 0)'
  BY <1>1, HeardKept DEF HeardOK
<1>3. PICK r \in Nat : r = resyncAt[h]
  BY <1>1
<1>4. Heard(h, r) /\ (pc[h] \in Dispatching => pos[h] > r)
  BY <1>1, <1>3 DEF HeardOK, Heard
<1>5. Heard(h, r)'
  BY <1>4, HeardKept
<1>6. CASE resyncAt'[h] = r
  BY <1>2, <1>5, <1>6 DEF Heard
<1>7. CASE resyncAt'[h] = 0
  BY <1>2, <1>7 DEF Heard
<1>8. CASE Fetches(h)
  <2>1. resyncAt'[h] = Len(log[h]) /\ handled'[h] = handled[h] /\ handled[h] \subseteq 1..Len(log[h])
    BY <1>8 DEF Fetches, CoverOK
  <2>2. \A p \in handled'[h] : ~(p > resyncAt'[h])
    BY <2>1, LogsGrow DEF Typed
  <2>3. QED
    BY <1>2, <2>2 DEF Heard
<1>9. QED
  BY <1>2, <1>3, <1>6, <1>7, <1>8, StreamMoves DEF Moves, Stays, Starts, Cancels, Stops, Dies, GoesLive, Resumes, Refused,
     Breaks, Gets, Stores, Deals, Works, Fails, Lists, GivesUp, Rebuilds, Ends, SamePast

--------------------------------------------------------------------------------
(* Resyncs *)

\* Some event of h was not handled.
Behind(h) == \E p \in 1..Len(log[h]) : p \notin handled[h]

\* h can go on only by a connection that misses what was not handled.
Lost(h) ==
    /\ pc[h] \in {"off", "closed"} \cup Resyncing
    /\ ckpt[h] <= evicted[h] /\ last[h] <= evicted[h]

RowRuns(h) == status = "RUNNING" /\ owner = h

\* The session has ended on h after the last resync.
EndedSince(h) == \E q \in 1..Len(log[h]) : Final(h, q) /\ q > resyncAt[h]

\* What a resync has read stays true enough until it writes, because nothing but the
\* stream itself makes the row RUNNING on its host; and once it has written, the row
\* is RUNNING without the host only if the host has ended the session since.
ResyncOK(h) ==
    /\ pc[h] \in {"relist", "rebuild", "downgrade"} /\ ~wasRunning[h] => ~RowRuns(h)
    /\ pc[h] = "relist" /\ wasRunning[h] /\ missed[h] = {} => on = h \/ Behind(h)
    /\ pc[h] \in {"rebuild", "downgrade"} /\ wasRunning[h] /\ seen[h] = Miss /\ missed[h] = {} => Behind(h)
    /\ pc[h] \in {"rebuild", "downgrade"} /\ seen[h] # Miss /\ on # h => EndedSince(h)
    /\ pc[h] \notin {"rebuild", "downgrade"} /\ RowRuns(h) /\ on # h => EndedSince(h)

\* A row that a resync has taken back to UNKNOWN waits for an event that will count as
\* missed.
UnknownOK == status = "UNKNOWN" /\ NothingMissed => \E h \in Hosts : Lost(h) /\ Behind(h)

\* The inductive invariant of RowConverges and ResyncHeals.
FullInv == RInv /\ (\A h \in Hosts : ResyncOK(h)) /\ UnknownOK

\* A step of the row makes it RUNNING on h only while h handles a start.
LEMMA RunsAgain ==
    ASSUME RInv, [Next]_vars, NEW h \in Hosts, RowRuns(h)'
    PROVE  (RowRuns(h) /\ UNCHANGED rowVars) \/ RowStarts(h)
BY RowChanges DEF RInv, RowRuns, RowStarts, RowEnds, RowUnknown, rowVars

\* A row that runs on h, while h does not, is due to an end that h has not handled, if
\* nothing that matters was missed.
LEMMA EndIsDue ==
    ASSUME RInv, NEW h \in Hosts, RowRuns(h), on # h, NEW r \in {0, resyncAt[h]},
           NEW q \in 1..Len(log[h]), Final(h, q), q > r, \A n \in missed[h] : n <= r
    PROVE  q \notin handled[h]
<1> USE DEF RInv
<1> SUFFICES ASSUME q \in handled[h] PROVE FALSE
  OBVIOUS
<1>1. PICK s \in 1..Len(log[h]) : Is(h, s, "started") /\ Time(h, s) = startedAt
  BY DEF RowSays, RowRuns
<1>2. s <= q /\ Is(h, q, "ended")
  BY <1>1 DEF Final, Lifecycle
<1>3. s # q
  BY <1>1, <1>2 DEF Is
<1>4. Len(log[h]) \in Nat /\ now \in Nat
  BY ConstantsAssumption DEF Typed, Shape, LogOK, Times
<1>5. s < q
  BY <1>2, <1>3, <1>4
<1>6. startedAt < Time(h, q) /\ Time(h, q) \in 1..now
  BY <1>1, <1>5 DEF TimesOK
<1>7. Heard(h, r)
  BY DEF HeardOK
<1>8. Time(h, q) <= endedAt
  BY <1>2, <1>6, <1>7 DEF Heard, RowRuns
<1>9. endedAt = 0
  BY DEF RowSays, RowRuns
<1>10. QED
  BY <1>4, <1>6, <1>8, <1>9

\* If h does not run the session but the row says so, then h has ended it.
LEMMA HasEnded ==
    ASSUME RInv, NEW h \in Hosts, RowRuns(h), on # h
    PROVE  \E q \in 1..Len(log[h]) : Final(h, q)
<1>1. PICK s \in 1..Len(log[h]) : Is(h, s, "started")
  BY DEF RInv, RowSays, RowRuns
<1>2. QED
  BY <1>1 DEF RInv, WorldOK

\* How "behind" and "ended" move with the log.
LEMMA LogFacts ==
    ASSUME RInv, [Next]_vars, NEW h \in Hosts
    PROVE  /\ Behind(h) /\ handled'[h] = handled[h] => Behind(h)'
           /\ on = h /\ on' # h /\ handled'[h] = handled[h] => Behind(h)'
           /\ on = h /\ on' # h => \E q \in 1..Len(log'[h]) : Final(h, q)' /\ q > Len(log[h])
           /\ on # h /\ on' # h => log'[h] = log[h]
           /\ on # h /\ on' # h => \A q : Final(h, q) => Final(h, q)'
<1> USE DEF RInv
<1>1. /\ Shape /\ Len(log[h]) \in Nat /\ Len(log'[h]) \in Nat /\ Len(log[h]) <= Len(log'[h])
      /\ handled[h] \subseteq 1..Len(log[h])
  BY LogsGrow DEF Typed, CoverOK
<1>2. Behind(h) /\ handled'[h] = handled[h] => Behind(h)'
  BY <1>1 DEF Behind
<1>3. ASSUME NEW g \in Hosts, Emits(g), on = h, on' # h
      PROVE  /\ \E q \in 1..Len(log'[h]) : Final(h, q)' /\ q > Len(log[h])
             /\ handled'[h] = handled[h] => Behind(h)'
  <2>1. PICK L \in Nat : /\ L = Len(log[g]) + 1 /\ Len(log'[g]) = L
                         /\ \/ on = None /\ on' = g
                            \/ on = g /\ on' = None /\ Is(g, L, "ended")'
                            \/ on = g /\ on' = g
    BY <1>1, <1>3, Emission
  <2>2. g = h /\ Is(h, L, "ended")'
    BY <1>3, <2>1, ConstantsAssumption
  <2>3. \A p \in 1..Len(log'[h]) : p <= L
    BY <2>1, <2>2
  <2>4. Final(h, L)'
    BY <2>2, <2>3 DEF Final
  <2>5. L \in 1..Len(log'[h]) /\ L > Len(log[h]) /\ L \notin handled[h]
    BY <1>1, <2>1, <2>2
  <2>6. QED
    BY <2>4, <2>5 DEF Behind
<1>4. ASSUME NEW g \in Hosts, Emits(g), on # h, on' # h PROVE log'[h] = log[h]
  BY <1>1, <1>4, Emission
<1>5. Quiet \/ UNCHANGED vars => log' = log /\ on' = on
  BY QuietKeepsLog DEF vars, hostVars
<1>6. on # h /\ on' # h => log'[h] = log[h]
  BY <1>4, <1>5, NextIsQuietOrEmits
<1>7. on # h /\ on' # h => \A q : Final(h, q) => Final(h, q)'
  BY <1>6 DEF Final, Lifecycle, Is
<1>8. QED
  BY <1>2, <1>3, <1>5, <1>6, <1>7, NextIsQuietOrEmits

\* Every step keeps what a resync has read, and what one has left behind.
LEMMA ResyncStep ==
    ASSUME FullInv, [Next]_vars, WorldOK', NEW h \in Hosts
    PROVE  ResyncOK(h)'
<1> USE DEF FullInv
<1>1. RInv /\ ResyncOK(h) /\ PosOK(h) /\ Typed
  BY DEF RInv
<1>2. /\ Len(log[h]) \in Nat /\ Len(log'[h]) \in Nat /\ resyncAt[h] \in Nat /\ resyncAt[h] <= Len(log[h])
      /\ users \in Nat /\ wasRunning[h] \in BOOLEAN
  BY <1>1, LogsGrow, ConstantsAssumption DEF Typed, GoroutineOK, PosOK, Shape, LogOK
<1> USE DEF SamePlace, SamePast, SameFlags, From
<1>3. ASSUME pc[h] \in Dispatching
      PROVE  pc'[h] \in Dispatching \cup {"off", "open"} /\ resyncAt'[h] = resyncAt[h]
  BY <1>1, <1>3, StreamMoves DEF Moves, Stays, Starts, Cancels, Stops, Dies, GoesLive, Resumes, Refused,
     Breaks, Gets, Stores, Deals, Works, Fails, Lists, Fetches, GivesUp, Rebuilds, Ends, Dispatching
<1>4. ASSUME pc'[h] \in {"relist", "rebuild", "downgrade"}
      PROVE  \/ Lists(h) \/ Fetches(h)
             \/ /\ pc[h] \in {"relist", "rebuild", "downgrade"} /\ SamePast(h)
                /\ pc[h] = "relist" <=> pc'[h] = "relist"
                /\ seen'[h] = seen[h] /\ wasRunning'[h] = wasRunning[h]
  BY <1>1, <1>4, StreamMoves DEF Moves, Stays, Starts, Cancels, Stops, Dies, GoesLive, Resumes, Refused,
     Breaks, Gets, Stores, Deals, Works, Fails, Lists, Fetches, GivesUp, Rebuilds, Ends
<1> DEFINE Keeps == /\ pc[h] \in {"relist", "rebuild", "downgrade"} /\ SamePast(h)
                    /\ pc[h] = "relist" <=> pc'[h] = "relist"
                    /\ seen'[h] = seen[h] /\ wasRunning'[h] = wasRunning[h]
<1>5. ASSUME pc'[h] \in {"relist", "rebuild", "downgrade"}, ~wasRunning'[h], RowRuns(h)' PROVE FALSE
  <2>1. RowRuns(h) /\ pc[h] \notin Dispatching
    <3>1. ~RowStarts(h)
      BY <1>3, <1>5 DEF RowStarts, Dispatching
    <3>2. QED
      BY <1>1, <1>3, <1>5, <3>1, RunsAgain DEF Dispatching
  <2>2. CASE Lists(h)
    BY <1>5, <2>1, <2>2 DEF Lists, RowRuns
  <2>3. CASE Fetches(h) \/ Keeps
    BY <1>1, <1>5, <2>1, <2>3 DEF Fetches, ResyncOK
  <2>4. QED
    BY <1>4, <1>5, <2>2, <2>3
<1>6. ASSUME pc'[h] = "relist", wasRunning'[h], missed'[h] = {}, on' # h PROVE Behind(h)'
  <2>1. CASE Lists(h)
    <3>1. RowRuns(h) /\ missed[h] = {} /\ handled'[h] = handled[h]
      BY <1>6, <2>1 DEF Lists, RowRuns
    <3>2. CASE on = h
      BY <1>1, <1>6, <3>1, <3>2, LogFacts
    <3>3. CASE on # h
      <4>1. PICK q \in 1..Len(log[h]) : Final(h, q)
        BY <1>1, <3>1, <3>3, HasEnded
      <4>2. q > 0
        BY <1>2
      <4>3. q \notin handled[h]
        BY <1>1, <3>1, <3>3, <4>1, <4>2, EndIsDue
      <4>4. Behind(h)
        BY <4>3 DEF Behind
      <4>5. QED
        BY <1>1, <3>1, <4>4, LogFacts
    <3>4. QED
      BY <3>2, <3>3
  <2>2. CASE Keeps
    <3>1. on = h \/ Behind(h)
      BY <1>1, <1>6, <2>2 DEF ResyncOK
    <3>2. QED
      BY <1>1, <1>6, <2>2, <3>1, LogFacts
  <2>3. QED
    BY <1>4, <1>6, <2>1, <2>2 DEF Fetches
<1>7. ASSUME pc'[h] \in {"rebuild", "downgrade"}, wasRunning'[h], seen'[h] = Miss, missed'[h] = {} PROVE Behind(h)'
  <2>1. CASE Fetches(h)
    <3>1. on # h
      BY <1>2, <1>7, <2>1, ConstantsAssumption DEF Fetches
    <3>2. Behind(h)
      BY <1>1, <1>7, <2>1, <3>1 DEF Fetches, ResyncOK
    <3>3. QED
      BY <1>1, <2>1, <3>2, LogFacts DEF Fetches
  <2>2. CASE Keeps
    <3>1. Behind(h)
      BY <1>1, <1>7, <2>2 DEF ResyncOK
    <3>2. QED
      BY <1>1, <2>2, <3>1, LogFacts
  <2>3. QED
    BY <1>4, <1>7, <2>1, <2>2 DEF Lists
<1>8. ASSUME EndedSince(h), on # h, on' # h, resyncAt'[h] = resyncAt[h] PROVE EndedSince(h)'
  <2>1. PICK q \in 1..Len(log[h]) : Final(h, q) /\ q > resyncAt[h]
    BY <1>8 DEF EndedSince
  <2>2. log'[h] = log[h] /\ Final(h, q)'
    BY <1>1, <1>8, <2>1, LogFacts
  <2>3. QED
    BY <1>8, <2>1, <2>2 DEF EndedSince
<1>9. ASSUME on = h, on' # h, resyncAt'[h] \in Nat, resyncAt'[h] <= Len(log[h]) PROVE EndedSince(h)'
  <2>1. PICK q \in 1..Len(log'[h]) : Final(h, q)' /\ q > Len(log[h])
    BY <1>1, <1>9, LogFacts
  <2>2. q > resyncAt'[h]
    BY <1>2, <1>9, <2>1
  <2>3. QED
    BY <2>1, <2>2 DEF EndedSince
<1>10. ASSUME pc'[h] \in {"rebuild", "downgrade"}, seen'[h] # Miss, on' # h PROVE EndedSince(h)'
  <2>1. CASE Fetches(h)
    <3>1. on = h /\ resyncAt'[h] = Len(log[h])
      BY <1>10, <2>1 DEF Fetches
    <3>2. QED
      BY <1>2, <1>9, <1>10, <3>1
  <2>2. CASE Keeps
    <3>1. on # h => EndedSince(h)
      BY <1>1, <1>10, <2>2 DEF ResyncOK
    <3>2. QED
      BY <1>2, <1>8, <1>9, <1>10, <2>2, <3>1
  <2>3. QED
    BY <1>4, <1>10, <2>1, <2>2 DEF Lists
<1>11. ASSUME pc'[h] \notin {"rebuild", "downgrade"}, RowRuns(h)', on' # h PROVE EndedSince(h)'
  <2>1. CASE RowStarts(h)
    <3>1. pc[h] \in Dispatching /\ pos[h] \in 1..Len(log[h]) /\ Is(h, pos[h], "started")
      BY <2>1 DEF RowStarts, Is, Dispatching
    <3>2. PICK s \in 1..Len(log[h]) : s = pos[h]
      BY <3>1
    <3>3. resyncAt[h] < s /\ resyncAt'[h] = resyncAt[h]
      BY <1>1, <1>3, <3>1, <3>2 DEF PosOK
    <3>4. Is(h, s, "started")' /\ s \in 1..Len(log'[h])
      BY <1>1, <3>1, <3>2, SameEvents DEF Typed
    <3>5. PICK q \in 1..Len(log'[h]) : Final(h, q)'
      BY <1>11, <3>4 DEF WorldOK
    <3>6. s <= q
      BY <3>4, <3>5 DEF Final, Lifecycle
    <3>7. q > resyncAt'[h]
      BY <1>2, <3>3, <3>6
    <3>8. QED
      BY <3>5, <3>7 DEF EndedSince
  <2>2. CASE RowRuns(h) /\ UNCHANGED rowVars
    <3>1. resyncAt'[h] = resyncAt[h] \/ resyncAt'[h] = 0
      BY <1>1, <1>11, StreamMoves DEF Moves, Stays, Starts, Cancels, Stops, Dies, GoesLive, Resumes, Refused,
         Breaks, Gets, Stores, Deals, Works, Fails, Lists, Fetches, GivesUp, Rebuilds, Ends
    <3>2. CASE on = h
      BY <1>2, <1>9, <1>11, <3>1, <3>2
    <3>3. CASE on # h /\ resyncAt'[h] = 0
      <4>1. PICK q \in 1..Len(log[h]) : Final(h, q)
        BY <1>1, <2>2, <3>3, HasEnded
      <4>2. log'[h] = log[h] /\ Final(h, q)'
        BY <1>1, <1>11, <3>3, <4>1, LogFacts
      <4>3. q > resyncAt'[h]
        BY <1>2, <3>3
      <4>4. QED
        BY <4>2, <4>3 DEF EndedSince
    <3>4. CASE on # h /\ resyncAt'[h] = resyncAt[h] /\ pc[h] \notin {"rebuild", "downgrade"}
      <4>1. EndedSince(h)
        BY <1>1, <2>2, <3>4 DEF ResyncOK
      <4>2. QED
        BY <1>8, <1>11, <3>4, <4>1
    <3>5. CASE on # h /\ resyncAt'[h] = resyncAt[h] /\ resyncAt'[h] # 0 /\ pc[h] \in {"rebuild", "downgrade"}
      <4>1. Ends(h)
        BY <1>1, <1>11, <3>5, StreamMoves DEF Moves, Stays, Starts, Cancels, Stops, Dies, GoesLive, Resumes, Refused,
           Breaks, Gets, Stores, Deals, Works, Fails, Lists, Fetches, GivesUp, Rebuilds
      <4>2. ~(wasRunning[h] /\ seen[h] = Miss)
        BY <1>11, <3>5, <4>1 DEF Ends, RowRuns
      <4>3. wasRunning[h]
        BY <1>1, <2>2, <3>5 DEF ResyncOK
      <4>4. EndedSince(h)
        BY <1>1, <3>5, <4>2, <4>3 DEF ResyncOK
      <4>5. QED
        BY <1>8, <1>11, <3>5, <4>4
    <3>6. QED
      BY <3>1, <3>2, <3>3, <3>4, <3>5
  <2>3. QED
    BY <1>1, <1>11, <2>1, <2>2, RunsAgain
<1>12. QED
  BY <1>5, <1>6, <1>7, <1>10, <1>11 DEF ResyncOK

\* A row is taken back to UNKNOWN only while an event of its host is still to be missed.
LEMMA UnknownStep == ASSUME FullInv, [Next]_vars PROVE UnknownOK'
<1> USE DEF FullInv
<1> SUFFICES ASSUME status' = "UNKNOWN", \A h \in Hosts : missed'[h] = {}
             PROVE  \E h \in Hosts : Lost(h)' /\ Behind(h)'
  BY DEF UnknownOK, NothingMissed
<1> USE DEF SamePlace, SamePast, SameFlags, From
<1>1. RInv /\ Typed /\ NothingMissed
  <2>1. \A h \in Hosts : missed[h] \subseteq missed'[h]
    BY StreamMoves DEF RInv, Moves, Stays, Starts, Cancels, Stops, Dies, GoesLive, Resumes, Refused,
       Breaks, Gets, Stores, Deals, Works, Fails, Lists, Fetches, GivesUp, Rebuilds, Ends
  <2>2. QED
    BY <2>1 DEF RInv, NothingMissed
<1>2. ASSUME NEW h \in Hosts, Lost(h), Behind(h) PROVE Lost(h)' /\ Behind(h)'
  <2>1. /\ evicted[h] \in Nat /\ evicted'[h] \in Nat /\ evicted[h] <= evicted'[h]
        /\ last[h] \in Nat /\ ckpt[h] \in Nat
    BY <1>1, StreamMoves, TypedStep DEF Typed, Shape, StreamOK, GoroutineOK
  <2>2. ~GoesLive(h)
    <3>1. PICK p \in 1..Len(log[h]) : p \notin handled[h]
      BY <1>2 DEF Behind
    <3>2. QED
      BY <3>1 DEF GoesLive
  <2>3. ~Resumes(h)
    BY <1>2, <2>1 DEF Lost, Resumes
  <2>4. ~(Breaks(h) \/ Gets(h) \/ Stores(h) \/ Deals(h) \/ Works(h) \/ Fails(h))
    BY <1>2 DEF Lost, Breaks, Gets, Stores, Deals, Works, Fails, Resyncing
  <2>5. /\ Stays(h) \/ Starts(h) \/ Cancels(h) \/ Stops(h) \/ Dies(h) \/ Refused(h)
           \/ Lists(h) \/ Fetches(h) \/ GivesUp(h) \/ Rebuilds(h) \/ Ends(h)
    BY <1>1, <2>2, <2>3, <2>4, StreamMoves DEF Moves
  <2>6. handled'[h] = handled[h]
    BY <2>5 DEF Stays, Starts, Cancels, Stops, Dies, Refused, Lists, Fetches, GivesUp, Rebuilds, Ends
  <2>7. ASSUME Stays(h) \/ Cancels(h) PROVE Lost(h)'
    BY <1>2, <2>1, <2>7 DEF Stays, Cancels, Lost, Resyncing
  <2>8. ASSUME Starts(h) \/ Stops(h) \/ Dies(h) \/ Refused(h) PROVE Lost(h)'
    BY <1>2, <2>1, <2>8 DEF Starts, Stops, Dies, Refused, Lost, Resyncing
  <2>9. ASSUME Lists(h) \/ Fetches(h) \/ GivesUp(h) \/ Rebuilds(h) \/ Ends(h) PROVE Lost(h)'
    BY <1>2, <2>1, <2>9 DEF Lists, Fetches, GivesUp, Rebuilds, Ends, Lost, Resyncing
  <2>10. Behind(h)'
    BY <1>1, <1>2, <2>6, LogFacts
  <2>11. QED
    BY <2>5, <2>7, <2>8, <2>9, <2>10
<1>3. CASE UNCHANGED rowVars
  <2>1. PICK h \in Hosts : Lost(h) /\ Behind(h)
    BY <1>1, <1>3 DEF rowVars, UnknownOK
  <2>2. QED
    BY <1>2, <2>1
<1>4. ASSUME NEW h \in Hosts, RowUnknown(h) PROVE \E g \in Hosts : Lost(g)' /\ Behind(g)'
  <2>1. Behind(h)
    BY <1>1, <1>4 DEF RowUnknown, ResyncOK, NothingMissed
  <2>2. PosOK(h) /\ evicted[h] \in Nat
    BY <1>1 DEF RInv, Typed, GoroutineOK
  <2>3. Lost(h)
    BY <1>4, <2>2 DEF RowUnknown, Lost, PosOK, Resyncing
  <2>4. QED
    BY <1>2, <2>1, <2>3
<1>5. QED
  BY <1>1, <1>3, <1>4, RowChanges DEF RInv, RowStarts, RowEnds

\* Init and every step give FullInv.
LEMMA FullInductive == Spec => []FullInv
<1>1. Init => FullInv
  <2> SUFFICES ASSUME Init PROVE FullInv
    OBVIOUS
  <2> USE ConstantsAssumption
  <2>1. \A h \in Hosts : log[h] = <<>> /\ Len(log[h]) = 0 /\ 1..Len(log[h]) = {}
    <3>1. \A h \in Hosts : log[h] = <<>>
      BY DEF Init
    <3>2. Len(<<>>) = 0 /\ 1..0 = {}
      OBVIOUS
    <3>3. QED
      BY <3>1, <3>2
  <2>2. TimesOK
    BY <2>1 DEF TimesOK
  <2>3. WorldOK
    BY <2>1 DEF Init, WorldOK
  <2>4. \A h \in Hosts : PosOK(h)
    <3> SUFFICES ASSUME NEW h \in Hosts PROVE PosOK(h)
      OBVIOUS
    <3>1. pc[h] = "off" /\ last[h] = 0 /\ ckpt[h] = 0 /\ pos[h] = 0 /\ resyncAt[h] = 0 /\ evicted[h] = 0
          /\ ~cancelled[h]
      BY DEF Init
    <3>2. QED
      BY <2>1, <3>1 DEF PosOK, Dispatching, Resyncing
  <2>5. \A h \in Hosts : CoverOK(h)
    BY <2>1 DEF Init, CoverOK, Covered, Dispatching
  <2>6. RowSays /\ HeardOK
    BY <2>1 DEF Init, RowSays, HeardOK, Heard
  <2>7. \A h \in Hosts : ResyncOK(h)
    BY DEF Init, ResyncOK, RowRuns
  <2>8. UnknownOK
    BY DEF Init, UnknownOK
  <2>9. Typed /\ IInv => FullInv
    BY <2>2, <2>3, <2>4, <2>5, <2>6, <2>7, <2>8 DEF FullInv, RInv
  <2>10. Shape
    BY DEF Init, Shape, LogOK, StreamOK, Times, PCs, Dispatching
  <2>11. GoroutineOK
    BY DEF Init, GoroutineOK
  <2>12. RowOK /\ EndIsCurrent /\ EndedAfterStart
    BY DEF Init, RowOK, EndIsCurrent, EndedAfterStart, Times
  <2>13. QED
    BY <2>9, <2>10, <2>11, <2>12 DEF Typed, IInv
<1>2. FullInv /\ [Next]_vars => FullInv'
  <2> SUFFICES ASSUME FullInv, [Next]_vars PROVE FullInv'
    OBVIOUS
  <2>1. RInv /\ Typed /\ Shape /\ IInv /\ TimesOK /\ WorldOK /\ \A h \in Hosts : PosOK(h) /\ CoverOK(h)
    BY DEF FullInv, RInv, Typed
  <2>2. Typed' /\ TimesOK' /\ WorldOK'
    BY <2>1, TypedStep, WorldStep
  <2>3. IInv'
    BY <2>1, ShapeStep, RowStep, EndIsCurrentStep DEF IInv
  <2>4. \A h \in Hosts : PosOK(h)' /\ CoverOK(h)'
    BY <2>1, PosStep, CoverStep
  <2>5. RowSays' /\ HeardOK'
    BY <2>1, RowSaysStep, HeardStep
  <2>6. \A h \in Hosts : ResyncOK(h)'
    BY <2>2, ResyncStep
  <2>7. UnknownOK'
    BY UnknownStep
  <2>8. QED
    BY <2>2, <2>3, <2>4, <2>5, <2>6, <2>7 DEF FullInv, RInv
<1>3. QED
  BY <1>1, <1>2, PTL DEF Spec

\* Who has caught up without a miss has handled every event.
LEMMA AllHandled ==
    ASSUME FullInv, CaughtUp, NEW h \in Hosts
    PROVE  \A p \in 1..Len(log[h]) : p \in handled[h] \/ p \in missed[h]
BY DEF FullInv, RInv, CaughtUp, CoverOK, Covered

\* With everything delivered and nothing missed the row is what the hosts say.
LEMMA FullImpliesRow == FullInv => RowConverges
<1> SUFFICES ASSUME FullInv, CaughtUp, NothingMissed PROVE RowIsRight
  BY DEF RowConverges
<1> USE DEF FullInv, RInv
<1>1. \A h \in Hosts : \A p \in 1..Len(log[h]) : p \in handled[h]
  BY AllHandled DEF NothingMissed
<1>2. now \in Nat /\ startedAt \in Nat /\ endedAt \in Nat /\ \A h \in Hosts : Len(log[h]) \in Nat
  BY ConstantsAssumption DEF Typed, Shape, LogOK, IInv, RowOK, Times
<1>3. status # "UNKNOWN"
  BY DEF UnknownOK, NothingMissed, Lost, CaughtUp, Resyncing
<1>4. status \in {"ABSENT", "RUNNING", "ENDED", "UNKNOWN"}
  BY DEF IInv, RowOK
<1>5. CASE on # None
  <2>1. on \in Hosts
    BY <1>5 DEF WorldOK
  <2>2. PICK p \in 1..Len(log[on]) :
           /\ Is(on, p, "started")
           /\ \A h \in Hosts : \A q \in 1..Len(log[h]) : Lifecycle(h, q) => Time(h, q) <= Time(on, p)
    BY <1>5 DEF WorldOK
  <2>3. Time(on, p) \in 1..now /\ Time(on, p) <= startedAt
    BY <1>1, <2>1, <2>2 DEF RowSays, TimesOK
  <2>4. status # "ABSENT"
    BY <1>2, <2>3 DEF IInv, RowOK
  <2>5. PICK s \in 1..Len(log[owner]) : owner \in Hosts /\ Is(owner, s, "started") /\ Time(owner, s) = startedAt
    BY <2>4 DEF RowSays
  <2>6. startedAt <= Time(on, p)
    BY <2>2, <2>5 DEF Lifecycle
  <2>7. startedAt = Time(on, p)
    BY <1>2, <2>3, <2>6
  <2>8. owner = on
    BY <2>1, <2>2, <2>5, <2>7 DEF TimesOK
  <2>9. status # "ENDED"
    <3> SUFFICES ASSUME status = "ENDED" PROVE FALSE
      OBVIOUS
    <3>1. PICK e \in 1..Len(log[on]) : Is(on, e, "ended") /\ Time(on, e) = endedAt
      BY <2>8 DEF RowSays
    <3>2. endedAt <= Time(on, p) /\ endedAt >= startedAt
      BY <2>1, <2>2, <3>1 DEF Lifecycle, IInv, EndedAfterStart
    <3>3. Time(on, e) = Time(on, p)
      BY <1>2, <2>7, <3>1, <3>2
    <3>4. e = p
      <4>1. ~(e < p) /\ ~(p < e)
        BY <1>2, <2>1, <2>3, <3>3 DEF TimesOK
      <4>2. e \in Nat /\ p \in Nat
        BY <1>2, <2>1
      <4>3. QED
        BY <4>1, <4>2
    <3>5. QED
      BY <2>2, <3>1, <3>4 DEF Is
  <2>10. endedAt = 0
    BY <2>9 DEF RowSays
  <2>11. QED
    BY <1>3, <1>4, <1>5, <2>4, <2>8, <2>9, <2>10 DEF RowIsRight
<1>6. CASE on = None /\ now = 0
  <2>1. status = "ABSENT"
    <3> SUFFICES ASSUME status # "ABSENT" PROVE FALSE
      OBVIOUS
    <3>1. PICK s \in 1..Len(log[owner]) : owner \in Hosts
      BY DEF RowSays
    <3>2. Time(owner, s) \in 1..now
      BY <3>1 DEF TimesOK
    <3>3. QED
      BY <1>6, <3>2
  <2>2. QED
    BY <1>6, <2>1 DEF RowIsRight
<1>7. CASE on = None /\ now # 0
  <2>1. PICK g \in Hosts : \E p \in 1..Len(log[g]) : Is(g, p, "started")
    BY <1>2, <1>7 DEF WorldOK
  <2>2. PICK p \in 1..Len(log[g]) : Is(g, p, "started")
    BY <2>1
  <2>3. Time(g, p) \in 1..now /\ Time(g, p) <= startedAt
    BY <1>1, <2>2 DEF RowSays, TimesOK
  <2>4. status # "ABSENT"
    BY <1>2, <2>3 DEF IInv, RowOK
  <2>5. owner \in Hosts /\ \E s \in 1..Len(log[owner]) : Is(owner, s, "started") /\ Time(owner, s) = startedAt
    BY <2>4 DEF RowSays
  <2>6. on # owner
    BY <1>7, <2>5, ConstantsAssumption
  <2>7. PICK q \in 1..Len(log[owner]) : Final(owner, q)
    BY <2>5, <2>6 DEF WorldOK
  <2>8. status # "RUNNING"
    <3> SUFFICES ASSUME status = "RUNNING" PROVE FALSE
      OBVIOUS
    <3>1. RowRuns(owner) /\ q > 0 /\ missed[owner] = {}
      BY <1>2, <2>5 DEF RowRuns, NothingMissed
    <3>2. q \notin handled[owner]
      BY <2>5, <2>6, <2>7, <3>1, EndIsDue
    <3>3. QED
      BY <1>1, <2>5, <3>2
  <2>9. QED
    BY <1>3, <1>4, <1>7, <2>4, <2>8 DEF RowIsRight, IInv, EndedAfterStart
<1>8. QED
  BY <1>5, <1>6, <1>7

\* With nothing missed since the last resync a RUNNING row has a running session.
LEMMA FullImpliesResync == FullInv => ResyncHeals
<1> SUFFICES ASSUME FullInv, CaughtUp, \A h \in Hosts : \A n \in missed[h] : n <= resyncAt[h],
                    status = "RUNNING", on # owner
             PROVE  FALSE
  BY DEF ResyncHeals, RunningIsReal
<1> USE DEF FullInv, RInv
<1>1. owner \in Hosts /\ RowRuns(owner)
  BY DEF RowSays, RowRuns
<1>2. EndedSince(owner)
  BY <1>1 DEF ResyncOK, CaughtUp
<1>3. PICK q \in 1..Len(log[owner]) : Final(owner, q) /\ q > resyncAt[owner]
  BY <1>2 DEF EndedSince
<1>4. q \notin handled[owner]
  BY <1>1, <1>3, EndIsDue
<1>5. q \in missed[owner]
  BY <1>1, <1>4, AllHandled
<1>6. Len(log[owner]) \in Nat /\ resyncAt[owner] \in Nat /\ q <= resyncAt[owner]
  BY <1>1, <1>5 DEF Typed, GoroutineOK, Shape, LogOK
<1>7. QED
  BY <1>3, <1>6

\* When every stream is connected and no event was missed, the row in the sessions
\* table says what the hosts say: for any number of hosts, moves of the session,
\* replays, evictions, cancelled streams, lost checkpoints, failed resyncs and
\* crashes.  It needs that a host which has refused a resume point goes on refusing it.
THEOREM RowTheorem == Spec => []RowConverges
BY FullInductive, FullImpliesRow, PTL

\* A resync makes up for what was missed before it, although it reads the row, asks the
\* host and updates the row in three steps: once all streams have caught up, no row
\* says RUNNING for a session that its host does not run, unless something was missed
\* after the resync.
THEOREM ResyncTheorem == Spec => []ResyncHeals
BY FullInductive, FullImpliesResync, PTL

--------------------------------------------------------------------------------
(* The count in the cache, with one host *)

\* Users in the session after event q of h.
UsersAt(h, q) == IF q = 0 THEN 0 ELSE log[h][q].users

\* What an event says about the users follows from the event before it.
UsersOK(h) ==
    /\ users = UsersAt(h, Len(log[h]))
    /\ on = None => users = 0
    /\ \A p \in 1..Len(log[h]) :
         /\ log[h][p].kind \in {"started", "saved"} => UsersAt(h, p) = UsersAt(h, p - 1)
         /\ log[h][p].kind = "joined" => UsersAt(h, p) = UsersAt(h, p - 1) + 1
         /\ log[h][p].kind = "left" => UsersAt(h, p) = UsersAt(h, p - 1) - 1

\* Only a start or an end can be passed over without being handled or missed, when the
\* stream is cancelled.
Passed(h, n) == \A p \in 1..n : p \in handled[h] \/ p \in missed[h] \/ Lifecycle(h, p)

\* Passed, at the places where a stream is or may resume.
PassedOK(h) ==
    /\ \A n \in handled[h] : Passed(h, n)
    /\ Passed(h, ckpt[h]) /\ Passed(h, last[h])
    /\ pc[h] \in {"open", "save"} => Passed(h, pos[h])
    /\ pc[h] \in Dispatching => Passed(h, pos[h] - 1)
    /\ pc[h] \in {"lifecycle", "apply"} => Lifecycle(h, pos[h])

\* The stream has been further than q: what is received after q was handled before.
Beyond(h, q) == \E n \in handled[h] : n > q
\* The cache holds the count after event q, or nothing.
Fits(h, q) == count \in {Miss, UsersAt(h, q)}
\* The latest event was handled.
Heeded(h) == Len(log[h]) = 0 \/ Len(log[h]) \in handled[h]

\* The count is the one at the position of the stream, and at the positions from which
\* it may be resumed, unless it is about to receive an event again.
CountOK(h) ==
    missed[h] = {} /\ ~replayed =>
      /\ pc[h] \in {"open", "lifecycle", "apply", "save"} => Beyond(h, pos[h]) \/ Fits(h, pos[h])
      /\ pc[h] \in {"sync", "bump", "lifecycle", "apply"} => pos[h] \notin handled[h]
      /\ pc[h] \in {"sync", "bump"} => Beyond(h, pos[h]) \/ Fits(h, pos[h] - 1)
      /\ pc[h] = "bump" => seen[h] = count
      /\ last[h] > evicted[h] => Beyond(h, last[h]) \/ Fits(h, last[h])
      /\ ckpt[h] > evicted[h] => Beyond(h, ckpt[h]) \/ Fits(h, ckpt[h])
      /\ Heeded(h) => Fits(h, Len(log[h]))
      /\ pc[h] = "rebuild" /\ Heeded(h) => seen[h] \in {Miss, users}

\* Every event says how many users there are after it.
LEMMA UsersStep ==
    ASSUME Typed, NEW h \in Hosts, Hosts = {h}, UsersOK(h), [Next]_vars
    PROVE  UsersOK(h)'
<1>1. log[h] \in Seq(Events) /\ Len(log[h]) \in Nat /\ users \in Nat
  BY ConstantsAssumption DEF Typed, Shape, LogOK
<1>2. ASSUME UNCHANGED <<on, users, log>> PROVE UsersOK(h)'
  BY <1>2 DEF UsersOK, UsersAt
<1>3. ASSUME NEW k, NEW n, Emit(h, k, n),
             k \in {"started", "saved"} => n = users,
             k = "joined" => n = users + 1,
             k = "left" => n = users - 1,
             on' = None => n = 0
      PROVE  UsersOK(h)'
  <2> DEFINE e == [kind |-> k, t |-> now + 1, users |-> n]
  <2>1. log' = [log EXCEPT ![h] = Append(log[h], e)] /\ users' = n
    BY <1>3 DEF Emit
  <2>2. e.kind = k /\ e.users = n
    OBVIOUS
  <2> HIDE DEF e
  <2>3. log'[h] = Append(log[h], e)
    BY <2>1 DEF Typed, Shape, LogOK
  <2>4. PICK L \in Nat : L = Len(log[h]) + 1
    BY <1>1
  <2>5. Len(log'[h]) = L /\ log'[h][L] = e /\ \A p \in 1..Len(log[h]) : log'[h][p] = log[h][p]
    BY <1>1, <2>3, <2>4
  <2>6. \A q \in 0..Len(log[h]) : UsersAt(h, q)' = UsersAt(h, q)
    BY <1>1, <2>5 DEF UsersAt
  <2>7. UsersAt(h, L)' = n /\ UsersAt(h, L - 1)' = users
    <3>1. L # 0 /\ L - 1 = Len(log[h]) /\ L - 1 \in 0..Len(log[h])
      BY <1>1, <2>4
    <3>2. UsersAt(h, L)' = n
      BY <2>2, <2>5, <3>1 DEF UsersAt
    <3>3. UsersAt(h, L - 1)' = UsersAt(h, L - 1)
      BY <2>6, <3>1
    <3>4. QED
      BY <3>1, <3>2, <3>3 DEF UsersOK
  <2>8. ASSUME NEW p \in 1..Len(log'[h])
        PROVE  /\ log'[h][p].kind \in {"started", "saved"} => UsersAt(h, p)' = UsersAt(h, p - 1)'
               /\ log'[h][p].kind = "joined" => UsersAt(h, p)' = UsersAt(h, p - 1)' + 1
               /\ log'[h][p].kind = "left" => UsersAt(h, p)' = UsersAt(h, p - 1)' - 1
    <3>1. CASE p = L
      BY <1>3, <2>2, <2>5, <2>7, <3>1
    <3>2. CASE p # L
      <4>1. p \in 1..Len(log[h]) /\ p \in 0..Len(log[h]) /\ p - 1 \in 0..Len(log[h])
        BY <1>1, <2>4, <2>5, <3>2
      <4>2. log'[h][p] = log[h][p] /\ UsersAt(h, p)' = UsersAt(h, p) /\ UsersAt(h, p - 1)' = UsersAt(h, p - 1)
        BY <2>5, <2>6, <4>1
      <4>3. QED
        BY <4>1, <4>2 DEF UsersOK
    <3>3. QED
      BY <3>1, <3>2
  <2>9. UsersAt(h, Len(log[h]))' = n
    BY <2>5, <2>7
  <2>10. QED
    BY <1>3, <2>1, <2>8, <2>9 DEF UsersOK
<1>4. ASSUME Emits(h) PROVE UsersOK(h)'
  <2>1. on = None => users = 0
    BY DEF UsersOK
  <2>2. CASE StartWorld(h)
    BY <1>3, <2>1, <2>2, ConstantsAssumption DEF StartWorld
  <2>3. CASE EndWorld(h)
    BY <1>3, <2>3 DEF EndWorld
  <2>4. CASE Join(h)
    BY <1>3, <2>4, ConstantsAssumption DEF Join
  <2>5. CASE Left(h)
    BY <1>3, <2>5, ConstantsAssumption DEF Left
  <2>6. CASE Change(h)
    BY <1>3, <2>6, ConstantsAssumption DEF Change
  <2>7. QED
    BY <1>4, <2>2, <2>3, <2>4, <2>5, <2>6 DEF Emits
<1>5. QED
  BY <1>2, <1>4, NextIsQuietOrEmits, QuietKeepsLog DEF vars, hostVars

\* The moves of the only stream, with what they do to the count.
Untouched(h) ==
    /\ count' = count
    /\ \/ Stays(h) \/ Starts(h) \/ Cancels(h) \/ Stops(h) \/ GoesLive(h) \/ Resumes(h) \/ Refused(h)
       \/ Breaks(h) \/ Stores(h) \/ Fails(h) \/ Lists(h) \/ Fetches(h) \/ GivesUp(h) \/ Ends(h)
       \/ Gets(h) /\ (pos[h] + 1 \in handled[h] => replayed')
       \/ Works(h) /\ pc[h] = "lifecycle" /\ pc'[h] = "apply"
       \/ Deals(h) /\ pc[h] \in {"lifecycle", "apply"}
Reads(h) ==
    /\ Works(h) /\ pc[h] = "sync" /\ pc'[h] = "bump" /\ Kind(h) \in {"joined", "left", "saved"}
    /\ count' = count /\ seen'[h] = count
Passes(h) ==
    /\ Works(h) /\ pc[h] = "sync" /\ pc'[h] = "lifecycle" /\ Kind(h) \in {"started", "ended"}
    /\ count' = IF Kind(h) = "ended" THEN Miss ELSE count
Counts(h) ==
    /\ Deals(h) /\ pc[h] \in {"sync", "bump"}
    /\ \/ Kind(h) = "params" /\ count' = Event(h).users
       \/ Kind(h) \in {"joined", "left", "saved"} /\ count' = Miss
       \/ /\ Kind(h) \in {"joined", "left", "saved"} /\ pc[h] = "bump"
          /\ count' = IF seen[h] + Delta(Kind(h)) < 0 THEN 0 ELSE seen[h] + Delta(Kind(h))
Resets(h) == Rebuilds(h) /\ count' \in {Miss, count, seen[h]} /\ (seen[h] # Miss => count' = seen[h])

\* Each step of a single host is one of these moves, and replayed is not taken back.
LEMMA CountMoves ==
    ASSUME Typed, NEW h \in Hosts, Hosts = {h}, [Next]_vars
    PROVE  /\ Untouched(h) \/ Reads(h) \/ Passes(h) \/ Counts(h) \/ Resets(h) \/ (Dies(h) /\ count' = Miss)
           /\ replayed => replayed'
<1> USE DEF cacheVars, history
<1>1. ASSUME Emits(h) \/ Evict(h) \/ Flap(h) PROVE Untouched(h) /\ replayed' = replayed
  <2>1. Stays(h)
    BY <1>1, Own
  <2>2. count' = count /\ replayed' = replayed
    BY <1>1 DEF Emits, StartWorld, EndWorld, Join, Left, Change, Emit, Evict, Flap
  <2>3. QED
    BY <2>1, <2>2 DEF Untouched
<1>2. ASSUME StartStream(h) \/ Cancel(h) \/ Disconnect(h) \/ StopStream(h) PROVE Untouched(h) /\ replayed' = replayed
  <2>1. Starts(h) \/ Cancels(h) \/ Breaks(h) \/ Stops(h)
    BY <1>2, Own
  <2>2. count' = count /\ replayed' = replayed
    BY <1>2 DEF StartStream, Cancel, Disconnect, StopStream
  <2>3. QED
    BY <2>1, <2>2 DEF Untouched
<1>3. ASSUME Connecting(h) PROVE Untouched(h) /\ replayed' = replayed
  <2>1. GoesLive(h) \/ Resumes(h) \/ Refused(h)
    BY <1>3, Own DEF Connecting
  <2>2. count' = count /\ replayed' = replayed
    BY <1>3 DEF Connecting, ConnectLive, Resume, OutOfRange
  <2>3. QED
    BY <2>1, <2>2 DEF Untouched
<1>4. ASSUME Recv(h) PROVE Untouched(h) /\ (replayed => replayed')
  <2>1. Gets(h)
    BY <1>4, Own
  <2>2. count' = count /\ replayed' = (replayed \/ pos[h] + 1 \in handled[h])
    BY <1>4 DEF Recv
  <2>3. QED
    BY <2>1, <2>2 DEF Untouched
<1>5. ASSUME HandlerFails(h) \/ Save(h) PROVE Untouched(h) /\ replayed' = replayed
  <2>1. Fails(h) \/ Stores(h)
    BY <1>5, Own
  <2>2. count' = count /\ replayed' = replayed
    BY <1>5 DEF HandlerFails, Save
  <2>3. QED
    BY <2>1, <2>2 DEF Untouched
<1>6. ASSUME InsertFromEvent(h) \/ ApplySessionStarted(h) \/ CheckEnded(h) \/ ApplySessionEnded(h)
      PROVE  Untouched(h) /\ replayed' = replayed
  <2>1. Works(h) \/ Deals(h)
    BY <1>6, Own
  <2>2. count' = count /\ replayed' = replayed /\ pc[h] \in {"lifecycle", "apply"}
    BY <1>6 DEF InsertFromEvent, ApplySessionStarted, CheckEnded, ApplySessionEnded, Dealt
  <2>3. Works(h) => pc[h] = "lifecycle" /\ pc'[h] = "apply"
    BY <1>6 DEF Typed, Shape, StreamOK, InsertFromEvent, ApplySessionStarted, CheckEnded, ApplySessionEnded, Goto, Works
  <2>4. QED
    BY <2>1, <2>2, <2>3 DEF Untouched
<1>7. ASSUME Sync(h) PROVE (Passes(h) \/ Counts(h)) /\ replayed' = replayed
  <2>1. Works(h) \/ Deals(h)
    BY <1>7, Own
  <2>2. replayed' = replayed /\ pc[h] = "sync" /\ Kind(h) \in {"started", "params", "ended"}
    BY <1>7 DEF Sync, Dealt
  <2>3. CASE Kind(h) = "params"
    <3>1. pc'[h] = "save" /\ count' = Event(h).users
      BY <1>7, <2>3 DEF Typed, Shape, StreamOK, Sync, Goto, CacheSet
    <3>2. QED
      BY <2>1, <2>2, <2>3, <3>1 DEF Counts, Works
  <2>4. CASE Kind(h) # "params"
    <3>1. pc'[h] = "lifecycle" /\ count' = IF Kind(h) = "ended" THEN Miss ELSE count
      BY <1>7, <2>2, <2>4 DEF Typed, Shape, StreamOK, Sync, Goto, CacheDelete
    <3>2. QED
      BY <2>1, <2>2, <2>4, <3>1 DEF Passes, Deals, From
  <2>5. QED
    BY <2>2, <2>3, <2>4
<1>8. ASSUME SyncRead(h) PROVE (Reads(h) \/ Counts(h)) /\ replayed' = replayed
  <2>1. Works(h) \/ Deals(h)
    BY <1>8, Own
  <2>2. /\ replayed' = replayed /\ pc[h] = "sync" /\ Kind(h) \in {"joined", "left", "saved"}
        /\ count' = count /\ seen'[h] = count
        /\ pc'[h] = IF count = Miss THEN "save" ELSE "bump"
    BY <1>8 DEF Typed, Shape, StreamOK, GoroutineOK, SyncRead, Dealt, Goto
  <2>3. QED
    BY <2>1, <2>2 DEF Reads, Counts, Works, Deals, From
<1>9. ASSUME Bump(h) PROVE Counts(h) /\ replayed' = replayed
  <2>1. Deals(h)
    BY <1>9, Own
  <2>2. /\ replayed' = replayed /\ pc[h] = "bump"
        /\ count' = IF seen[h] + Delta(Kind(h)) < 0 THEN 0 ELSE seen[h] + Delta(Kind(h))
    BY <1>9 DEF Bump, Dealt, CacheSet
  <2>3. Kind(h) \in {"joined", "left", "saved"}
    BY <2>2 DEF Typed, GoroutineOK
  <2>4. QED
    BY <2>1, <2>2, <2>3 DEF Counts
<1>10. ASSUME ResetList(h) \/ ResetFetch(h) \/ ResetDowngrade(h) PROVE Untouched(h) /\ replayed' = replayed
  <2>1. Lists(h) \/ Fetches(h) \/ GivesUp(h) \/ Ends(h)
    BY <1>10, Own
  <2>2. count' = count /\ replayed' = replayed
    BY <1>10 DEF ResetList, ResetFetch, ResetDowngrade
  <2>3. QED
    BY <2>1, <2>2 DEF Untouched
<1>11. ASSUME ResetRebuild(h) PROVE Resets(h) /\ replayed' = replayed
  <2>1. Rebuilds(h)
    BY <1>11, Own
  <2>2. replayed' = replayed /\ count' \in {Miss, count, seen[h]} /\ (seen[h] # Miss => count' = seen[h])
    BY <1>11 DEF ResetRebuild, CacheSet, CacheDelete
  <2>3. QED
    BY <2>1, <2>2 DEF Resets
<1>12. ASSUME Crash PROVE Dies(h) /\ count' = Miss /\ replayed' = replayed
  <2>1. Dies(h)
    BY <1>12, Own
  <2>2. QED
    BY <1>12, <2>1 DEF Crash, CacheDelete
<1>13. ASSUME UNCHANGED vars PROVE Untouched(h) /\ replayed' = replayed
  BY <1>13 DEF vars, local, Untouched, Stays, SamePlace, SameFlags, SamePast
<1>14. QED
  BY <1>1, <1>2, <1>3, <1>4, <1>5, <1>6, <1>7, <1>8, <1>9, <1>10, <1>11, <1>12, <1>13, NextIsQuietOrEmits
  DEF Quiet, Handling, Resync

\* Every step keeps PassedOK.
LEMMA PassedStep ==
    ASSUME Typed, NEW h \in Hosts, Hosts = {h}, [Next]_vars, CoverOK(h), PassedOK(h)
    PROVE  PassedOK(h)'
<1>0. /\ Len(log[h]) \in Nat /\ pos[h] \in Nat /\ last[h] \in Nat /\ ckpt[h] \in Nat
      /\ pos[h] <= Len(log[h]) /\ last[h] <= Len(log[h]) /\ ckpt[h] <= Len(log[h])
      /\ pc[h] \in Dispatching => pos[h] \in 1..Len(log[h])
      /\ handled[h] \subseteq 1..Len(log[h])
  BY DEF Typed, Shape, LogOK, StreamOK, CoverOK
<1> USE DEF SamePlace, SamePast, SameFlags, From, Dispatching
<1>1. handled[h] \subseteq handled'[h] /\ missed[h] \subseteq missed'[h]
  BY StreamMoves DEF Moves, Stays, Starts, Cancels, Stops, Dies, GoesLive, Resumes, Refused,
     Breaks, Gets, Stores, Deals, Works, Fails, Lists, Fetches, GivesUp, Rebuilds, Ends
<1>2. \A p \in 1..Len(log[h]) : Lifecycle(h, p)' <=> Lifecycle(h, p)
  BY SameEvents DEF Typed
<1>3. \A n \in 0..Len(log[h]) : Passed(h, n) => Passed(h, n)'
  BY <1>0, <1>1, <1>2 DEF Passed
<1>4. \A n \in handled[h] : Passed(h, n)'
  BY <1>0, <1>3 DEF PassedOK
<1>5. Passed(h, 0)'
  BY DEF Passed
<1>6. Passed(h, ckpt[h]) /\ Passed(h, last[h])
  BY DEF PassedOK
<1>7. ASSUME pc[h] \in Dispatching, pos'[h] = pos[h] PROVE Lifecycle(h, pos[h])' <=> Lifecycle(h, pos[h])
  BY <1>0, <1>2, <1>7
<1> DEFINE Here == /\ Passed(h, ckpt[h]) /\ Passed(h, last[h])
                   /\ pc[h] \in {"open", "save"} => Passed(h, pos[h])
                   /\ pc[h] \in Dispatching => Passed(h, pos[h] - 1)
                   /\ pc[h] \in {"lifecycle", "apply"} => Lifecycle(h, pos[h])
<1>8. Here
  BY DEF PassedOK
<1>9. SUFFICES (\A n \in handled'[h] : Passed(h, n)') /\ Here'
  BY DEF PassedOK
<1>10. /\ Passed(h, ckpt[h])' \/ ckpt'[h] # ckpt[h]
       /\ Passed(h, last[h])' \/ last'[h] # last[h]
  BY <1>0, <1>3, <1>6
<1>11. CASE Stays(h) \/ Cancels(h)
  <2>1. handled'[h] = handled[h] /\ pc'[h] = pc[h] /\ SamePlace(h)
    BY <1>11 DEF Stays, Cancels
  <2>2. pos[h] \in 0..Len(log[h]) /\ (pc[h] \in Dispatching => pos[h] - 1 \in 0..Len(log[h]))
    BY <1>0
  <2>3. QED
    BY <1>3, <1>4, <1>7, <1>8, <1>10, <2>1, <2>2
<1>12. CASE Starts(h) \/ Stops(h) \/ Dies(h) \/ Refused(h)
  <2>1. handled'[h] = handled[h] /\ pc'[h] \in {"closed", "off", "reset"} /\ ckpt'[h] \in {ckpt[h], 0} /\ last'[h] \in {ckpt[h], 0}
    BY <1>12 DEF Starts, Stops, Dies, Refused
  <2>2. QED
    BY <1>0, <1>3, <1>4, <1>5, <1>6, <2>1
<1>13. CASE Breaks(h) \/ Lists(h) \/ Fetches(h) \/ GivesUp(h) \/ Rebuilds(h) \/ Ends(h)
  <2>1. /\ handled'[h] = handled[h] /\ SamePlace(h)
        /\ pc'[h] \in {"closed", "relist", "rebuild", "downgrade"}
    BY <1>13 DEF Breaks, Lists, Fetches, GivesUp, Rebuilds, Ends
  <2>2. QED
    BY <1>4, <1>10, <2>1
<1>14. CASE GoesLive(h)
  <2>1. Passed(h, Len(log[h])) \/ \A p \in 1..Len(log[h]) : p \in handled'[h] \/ p \in missed'[h]
    BY <1>14 DEF GoesLive
  <2>2. /\ handled'[h] = handled[h] /\ ckpt'[h] = ckpt[h] /\ last'[h] = last[h] /\ pos'[h] = Len(log[h]) /\ pc'[h] = "open"
    BY <1>14 DEF GoesLive
  <2>3. Passed(h, Len(log[h])) => \A p \in 1..Len(log[h]) : p \in handled'[h] \/ p \in missed'[h] \/ Lifecycle(h, p)'
    BY <1>1, <1>2 DEF Passed
  <2>4. Passed(h, pos[h])'
    BY <2>1, <2>2, <2>3 DEF Passed
  <2>5. QED
    BY <1>4, <1>10, <2>2, <2>4
<1>15. CASE Resumes(h)
  <2>1. handled'[h] = handled[h] /\ ckpt'[h] = ckpt[h] /\ last'[h] = last[h] /\ pos'[h] = last[h] /\ pc'[h] = "open"
    BY <1>15 DEF Resumes
  <2>2. QED
    BY <1>4, <1>10, <2>1
<1>16. CASE Gets(h)
  <2>1. /\ handled'[h] = handled[h] /\ ckpt'[h] = ckpt[h] /\ last'[h] = last[h] /\ pos'[h] = pos[h] + 1 /\ pc'[h] = "sync"
        /\ pc[h] = "open"
    BY <1>16 DEF Gets
  <2>2. pos'[h] - 1 = pos[h] /\ pos[h] \in 0..Len(log[h])
    BY <1>0, <2>1
  <2>3. Passed(h, pos[h] - 1)'
    BY <1>3, <1>8, <2>1, <2>2
  <2>4. QED
    BY <1>4, <1>10, <2>1, <2>3
<1>17. CASE Stores(h)
  <2>1. /\ handled'[h] = handled[h] /\ ckpt'[h] \in {ckpt[h], pos[h]} /\ last'[h] = pos[h] /\ pos'[h] = pos[h]
        /\ pc'[h] = "open" /\ pc[h] = "save"
    BY <1>17 DEF Stores
  <2>2. Passed(h, pos[h])' /\ Passed(h, last[h])'
    BY <1>0, <1>3, <1>8, <2>1
  <2>3. Passed(h, ckpt[h])'
    BY <1>0, <1>3, <1>8, <2>1
  <2>4. QED
    BY <1>4, <2>1, <2>2, <2>3
<1>18. CASE Works(h)
  <2>1. handled'[h] = handled[h] /\ SamePlace(h) /\ pc[h] \in {"sync", "lifecycle"} /\ pc'[h] \in {"bump", "lifecycle", "apply"}
    BY <1>18 DEF Works
  <2>2. pc'[h] \in {"lifecycle", "apply"} => Lifecycle(h, pos[h])
    <3>1. Reads(h) \/ Passes(h) \/ pc[h] = "lifecycle"
      BY <2>1, CountMoves DEF Untouched, Counts, Resets, Deals, Rebuilds, Dies,
         Stays, Starts, Cancels, Stops, GoesLive, Resumes, Refused, Breaks, Gets, Stores, Fails, Lists, Fetches, GivesUp, Ends
    <3>2. CASE Passes(h)
      <4>1. Kind(h) = "started" \/ Kind(h) = "ended"
        BY <3>2 DEF Passes
      <4>2. \A k : Kind(h) = k <=> Is(h, pos[h], k)
        BY <2>1, Current
      <4>3. QED
        BY <4>1, <4>2 DEF Lifecycle
    <3>3. QED
      BY <1>8, <2>1, <3>1, <3>2 DEF Reads
  <2>3. pos[h] - 1 \in 0..Len(log[h]) /\ Passed(h, pos[h] - 1)
    BY <1>0, <1>8, <2>1
  <2>4. Passed(h, pos[h] - 1)'
    BY <1>3, <2>1, <2>3
  <2>5. pc'[h] \in {"lifecycle", "apply"} => Lifecycle(h, pos[h])'
    BY <1>7, <2>1, <2>2
  <2>6. QED
    BY <1>4, <1>10, <2>1, <2>4, <2>5
<1>19. CASE Deals(h) \/ Fails(h)
  <2>1. /\ SamePlace(h) /\ pc[h] \in {"sync", "bump", "lifecycle", "apply"} /\ pc'[h] = "save"
        /\ handled'[h] \subseteq handled[h] \cup {pos[h]}
        /\ pos[h] \in handled'[h] \/ pc[h] \in {"lifecycle", "apply"}
    BY <1>19 DEF Deals, Fails
  <2>2. pos[h] - 1 \in 0..Len(log[h]) /\ Passed(h, pos[h] - 1) /\ pos[h] \in 1..Len(log[h])
    BY <1>0, <1>8, <2>1
  <2>3. Passed(h, pos[h] - 1)'
    BY <1>3, <2>1, <2>2
  <2>4. \A p \in 1..pos[h] : p = pos[h] \/ p \in 1..(pos[h] - 1)
    BY <2>2
  <2>5. pos[h] \in handled'[h] \/ Lifecycle(h, pos[h])'
    BY <1>7, <1>8, <2>1
  <2>6. Passed(h, pos[h])'
    <3>1. \A p \in 1..(pos[h] - 1) : p \in handled'[h] \/ p \in missed'[h] \/ Lifecycle(h, p)'
      BY <1>3, <2>2 DEF Passed
    <3>2. pos'[h] = pos[h]
      BY <2>1
    <3>3. QED
      BY <2>4, <2>5, <3>1, <3>2 DEF Passed
  <2>7. \A n \in handled'[h] : Passed(h, n)'
    BY <1>4, <2>1, <2>6
  <2>8. QED
    BY <1>10, <2>1, <2>3, <2>6, <2>7
<1>20. QED
  BY <1>11, <1>12, <1>13, <1>14, <1>15, <1>16, <1>17, <1>18, <1>19, StreamMoves DEF Moves

\* A handler that sets the count has received the event for the first time and nothing
\* after it, and so it sets the count after the event.
LEMMA CountsRight ==
    ASSUME Typed, NEW h \in Hosts, UsersOK(h), PassedOK(h), CountOK(h),
           missed[h] = {}, ~replayed, Counts(h)
    PROVE  count' \in {Miss, UsersAt(h, pos[h])} /\ ~Beyond(h, pos[h])
<1> USE DEF Dispatching
<1>1. /\ pc[h] \in {"sync", "bump"} /\ pos[h] \in 1..Len(log[h]) /\ pos[h] \in Nat /\ Len(log[h]) \in Nat
      /\ \A k : Kind(h) = k <=> Is(h, pos[h], k)
      /\ Kind(h) = log[h][pos[h]].kind /\ Event(h) = log[h][pos[h]]
  <2>1. pc[h] \in {"sync", "bump"} /\ pc[h] \in Dispatching
    BY DEF Counts
  <2>2. Len(log[h]) \in Nat
    BY DEF Typed, Shape, LogOK
  <2>3. Kind(h) = log[h][pos[h]].kind /\ Event(h) = log[h][pos[h]]
    BY DEF Kind, Event
  <2>4. QED
    BY <2>1, <2>2, <2>3, Current
<1>2. ~Lifecycle(h, pos[h])
  <2>1. Kind(h) # "started" /\ Kind(h) # "ended"
    BY DEF Counts
  <2>2. QED
    BY <1>1, <2>1 DEF Lifecycle
<1>3. pos[h] \notin handled[h] /\ (Beyond(h, pos[h]) \/ Fits(h, pos[h] - 1))
  BY <1>1 DEF CountOK
<1>4. ~Beyond(h, pos[h])
  <2> SUFFICES ASSUME NEW n \in handled[h], n > pos[h] PROVE FALSE
    BY DEF Beyond
  <2>1. n \in Nat
    BY DEF Typed, GoroutineOK
  <2>2. pos[h] \in 1..n
    BY <1>1, <2>1
  <2>3. Passed(h, n)
    BY DEF PassedOK
  <2>4. QED
    BY <1>2, <1>3, <2>2, <2>3 DEF Passed
<1>5. count \in {Miss, UsersAt(h, pos[h] - 1)}
  BY <1>3, <1>4 DEF Fits
<1>6. UsersAt(h, pos[h]) = Event(h).users /\ UsersAt(h, pos[h]) \in Nat
  <2>1. Event(h) \in Events
    BY <1>1, EventType DEF Typed
  <2>2. Event(h).users \in Nat
    BY <2>1, ConstantsAssumption DEF Events
  <2>3. pos[h] # 0
    BY <1>1
  <2>4. QED
    BY <1>1, <2>2, <2>3 DEF UsersAt
<1>7. ASSUME Kind(h) \in {"joined", "left", "saved"}, pc[h] = "bump",
             count' = IF seen[h] + Delta(Kind(h)) < 0 THEN 0 ELSE seen[h] + Delta(Kind(h))
      PROVE  count' = UsersAt(h, pos[h])
  <2>1. seen[h] \in Nat /\ seen[h] = count
    BY <1>7 DEF Typed, GoroutineOK, CountOK
  <2>2. seen[h] = UsersAt(h, pos[h] - 1)
    BY <1>5, <2>1, ConstantsAssumption
  <2>3. UsersAt(h, pos[h]) = seen[h] + Delta(Kind(h))
    <3>1. CASE Kind(h) = "joined"
      BY <1>1, <2>2, <3>1 DEF UsersOK, Delta
    <3>2. CASE Kind(h) = "left"
      <4>1. UsersAt(h, pos[h]) = seen[h] - 1
        BY <1>1, <2>2, <3>2 DEF UsersOK
      <4>2. Delta("left") = -1
        BY DEF Delta
      <4>3. QED
        BY <2>1, <3>2, <4>1, <4>2
    <3>3. CASE Kind(h) = "saved"
      <4>1. UsersAt(h, pos[h]) = seen[h]
        BY <1>1, <2>2, <3>3 DEF UsersOK
      <4>2. Delta("saved") = 0
        BY DEF Delta
      <4>3. QED
        BY <2>1, <3>3, <4>1, <4>2
    <3>4. QED
      BY <1>7, <3>1, <3>2, <3>3
  <2>4. QED
    BY <1>6, <1>7, <2>3
<1>8. QED
  BY <1>4, <1>6, <1>7 DEF Counts

\* Every step keeps the count at the position of the stream.
LEMMA CountStep ==
    ASSUME Typed, NEW h \in Hosts, Hosts = {h}, [Next]_vars, PosOK(h), CoverOK(h),
           UsersOK(h), UsersOK(h)', PassedOK(h), CountOK(h)
    PROVE  CountOK(h)'
<1> DEFINE A(q) == Beyond(h, q) \/ Fits(h, q)
           C1 == pc[h] \in {"open", "lifecycle", "apply", "save"} => A(pos[h])
           C2 == pc[h] \in {"sync", "bump", "lifecycle", "apply"} => pos[h] \notin handled[h]
           C3 == pc[h] \in {"sync", "bump"} => Beyond(h, pos[h]) \/ Fits(h, pos[h] - 1)
           C4 == pc[h] = "bump" => seen[h] = count
           C5 == last[h] > evicted[h] => A(last[h])
           C6 == ckpt[h] > evicted[h] => A(ckpt[h])
           C7 == Heeded(h) => Fits(h, Len(log[h]))
           C8 == pc[h] = "rebuild" /\ Heeded(h) => seen[h] \in {Miss, users}
<1> SUFFICES ASSUME missed'[h] = {}, ~replayed'
             PROVE  C1' /\ C2' /\ C3' /\ C4' /\ C5' /\ C6' /\ C7' /\ C8'
  BY DEF CountOK
<1> USE DEF SamePlace, SamePast, SameFlags, From, Dispatching
<1>0. /\ Len(log[h]) \in Nat /\ Len(log'[h]) \in Nat /\ Len(log[h]) <= Len(log'[h])
      /\ pos[h] \in 0..Len(log[h]) /\ last[h] \in 0..Len(log[h]) /\ ckpt[h] \in 0..Len(log[h])
      /\ pos[h] \in Nat
      /\ pc[h] \in Dispatching => pos[h] \in 1..Len(log[h]) /\ pos[h] - 1 \in 0..Len(log[h])
      /\ evicted[h] \in Nat /\ evicted'[h] \in Nat /\ evicted[h] <= evicted'[h]
      /\ handled[h] \subseteq 1..Len(log[h])
  <2>1. /\ pos[h] \in Nat /\ last[h] \in Nat /\ ckpt[h] \in Nat
        /\ pos[h] <= Len(log[h]) /\ last[h] <= Len(log[h]) /\ ckpt[h] <= Len(log[h])
        /\ pc[h] \in Dispatching => pos[h] >= 1
    BY DEF Typed, Shape, StreamOK
  <2>2. /\ Len(log[h]) \in Nat /\ Len(log'[h]) \in Nat /\ Len(log[h]) <= Len(log'[h])
        /\ evicted[h] \in Nat /\ evicted'[h] \in Nat /\ evicted[h] <= evicted'[h]
    BY LogsGrow, StreamMoves, TypedStep DEF Typed, GoroutineOK
  <2>3. QED
    BY <2>1, <2>2 DEF CoverOK
<1>1. /\ missed[h] = {} /\ ~replayed /\ handled[h] \subseteq handled'[h]
      /\ handled'[h] \subseteq 1..Len(log[h])
  <2>1. missed[h] \subseteq missed'[h] /\ handled[h] \subseteq handled'[h]
    BY StreamMoves DEF Moves, Stays, Starts, Cancels, Stops, Dies, GoesLive, Resumes, Refused,
       Breaks, Gets, Stores, Deals, Works, Fails, Lists, Fetches, GivesUp, Rebuilds, Ends
  <2>2. handled'[h] = handled[h] \/ (pc[h] \in Dispatching /\ handled'[h] = handled[h] \cup {pos[h]})
    BY StreamMoves DEF Moves, Stays, Starts, Cancels, Stops, Dies, GoesLive, Resumes, Refused,
       Breaks, Gets, Stores, Deals, Works, Fails, Lists, Fetches, GivesUp, Rebuilds, Ends
  <2>3. handled'[h] \subseteq 1..Len(log[h])
    BY <1>0, <2>2
  <2>4. QED
    BY <2>1, <2>3, CountMoves
<1>2. C1 /\ C2 /\ C3 /\ C4 /\ C5 /\ C6 /\ C7 /\ C8
  BY <1>1 DEF CountOK
<1>3. \A q \in 0..Len(log[h]) : UsersAt(h, q)' = UsersAt(h, q)
  BY <1>0, LogsGrow DEF UsersAt, Typed
<1>4. \A q : Beyond(h, q) => Beyond(h, q)'
  BY <1>1 DEF Beyond
<1>5. ASSUME count' \in {count, Miss}
      PROVE  \A q \in 0..Len(log[h]) : (Fits(h, q) => Fits(h, q)') /\ (A(q) => A(q)')
  BY <1>3, <1>4, <1>5 DEF Fits
<1>6. Heeded(h)' => Len(log'[h]) = Len(log[h]) /\ users' = users
  <2>1. Heeded(h)' => Len(log'[h]) = Len(log[h])
    BY <1>0, <1>1 DEF Heeded
  <2>2. users = UsersAt(h, Len(log[h])) /\ users' = UsersAt(h, Len(log[h]))'
    BY DEF UsersOK
  <2>3. UsersAt(h, Len(log[h]))' = (IF Len(log'[h]) = 0 THEN 0 ELSE log'[h][Len(log'[h])].users)
    BY DEF UsersAt
  <2>4. Len(log[h]) \in 0..Len(log[h]) /\ \A p \in 1..Len(log[h]) : log'[h][p] = log[h][p]
    BY <1>0, LogsGrow DEF Typed
  <2>5. Len(log'[h]) = Len(log[h]) => users' = users
    BY <1>0, <2>2, <2>3, <2>4 DEF UsersAt
  <2>6. QED
    BY <2>1, <2>5
<1>7. ASSUME count' \in {count, Miss}, handled'[h] = handled[h] PROVE C7' /\ (Heeded(h)' => Heeded(h))
  <2>1. Heeded(h)' => Heeded(h)
    BY <1>6, <1>7 DEF Heeded
  <2>2. Heeded(h)' => Fits(h, Len(log[h]))'
    BY <1>0, <1>2, <1>5, <1>6, <1>7, <2>1
  <2>3. QED
    BY <2>1, <2>2
<1>8. CASE count' = count /\ (Stays(h) \/ Cancels(h))
  <2>1. handled'[h] = handled[h] /\ pc'[h] = pc[h] /\ seen'[h] = seen[h] /\ SamePlace(h)
    BY <1>8 DEF Stays, Cancels
  <2>2. \A q \in 0..Len(log[h]) : (Fits(h, q) => Fits(h, q)') /\ (A(q) => A(q)')
    BY <1>5, <1>8
  <2>3. C1' /\ C2' /\ C3' /\ C4'
    BY <1>0, <1>2, <1>4, <1>8, <2>1, <2>2
  <2>4. C5' /\ C6'
    BY <1>0, <1>2, <2>1, <2>2
  <2>5. C7' /\ C8'
    BY <1>2, <1>6, <1>7, <1>8, <2>1
  <2>6. QED
    BY <2>3, <2>4, <2>5
<1>9. CASE /\ count' \in {count, Miss} /\ (count' = count \/ Dies(h))
           /\ Starts(h) \/ Stops(h) \/ Refused(h) \/ Breaks(h) \/ Lists(h) \/ Fetches(h) \/ GivesUp(h) \/ Ends(h) \/ Dies(h)
  <2>1. /\ handled'[h] = handled[h] /\ pc'[h] \in {"off", "closed", "reset", "relist", "rebuild"}
        /\ last'[h] \in {last[h], ckpt[h], 0} /\ ckpt'[h] \in {ckpt[h], 0}
        /\ pc'[h] = "rebuild" => seen'[h] = IF on = h THEN users ELSE Miss
    BY <1>9 DEF Starts, Stops, Refused, Breaks, Lists, Fetches, GivesUp, Ends, Dies
  <2>2. \A q \in 0..Len(log[h]) : (Fits(h, q) => Fits(h, q)') /\ (A(q) => A(q)')
    BY <1>5, <1>9
  <2>3. C1' /\ C2' /\ C3' /\ C4'
    BY <2>1
  <2>4. C5' /\ C6'
    BY <1>0, <1>2, <2>1, <2>2
  <2>5. C7' /\ C8'
    BY <1>6, <1>7, <1>9, <2>1
  <2>6. QED
    BY <2>3, <2>4, <2>5
<1>10. CASE count' = count /\ GoesLive(h)
  <2>1. /\ handled'[h] = handled[h] /\ pc'[h] = "open" /\ pos'[h] = Len(log[h])
        /\ last'[h] = last[h] /\ ckpt'[h] = ckpt[h]
        /\ \A p \in 1..Len(log[h]) : p \in handled[h]
    BY <1>10 DEF GoesLive
  <2>2. \A q \in 0..Len(log[h]) : (Fits(h, q) => Fits(h, q)') /\ (A(q) => A(q)')
    BY <1>5, <1>10
  <2>3. Heeded(h)
    BY <1>0, <2>1 DEF Heeded
  <2>4. A(pos[h])'
    BY <1>0, <1>2, <2>1, <2>2, <2>3
  <2>5. C5' /\ C6'
    BY <1>0, <1>2, <2>1, <2>2
  <2>6. QED
    BY <1>7, <1>10, <2>1, <2>4, <2>5
<1>11. CASE count' = count /\ Resumes(h)
  <2>1. /\ handled'[h] = handled[h] /\ pc'[h] = "open" /\ pos'[h] = last[h] /\ last[h] > evicted[h]
        /\ last'[h] = last[h] /\ ckpt'[h] = ckpt[h]
    BY <1>11 DEF Resumes
  <2>2. \A q \in 0..Len(log[h]) : (Fits(h, q) => Fits(h, q)') /\ (A(q) => A(q)')
    BY <1>5, <1>11
  <2>3. A(pos[h])'
    BY <1>0, <1>2, <2>1, <2>2
  <2>4. C5' /\ C6'
    BY <1>0, <1>2, <2>1, <2>2
  <2>5. QED
    BY <1>7, <1>11, <2>1, <2>3, <2>4
<1>12. CASE count' = count /\ Gets(h) /\ (pos[h] + 1 \in handled[h] => replayed')
  <2>1. /\ handled'[h] = handled[h] /\ pc[h] = "open" /\ pc'[h] = "sync" /\ pos'[h] = pos[h] + 1
        /\ last'[h] = last[h] /\ ckpt'[h] = ckpt[h] /\ pos[h] + 1 \notin handled[h]
    BY <1>12 DEF Gets
  <2>2. \A q \in 0..Len(log[h]) : (Fits(h, q) => Fits(h, q)') /\ (A(q) => A(q)')
    BY <1>5, <1>12
  <2>3. Beyond(h, pos[h])' \/ Fits(h, pos[h] - 1)'
    <3>1. pos'[h] - 1 = pos[h]
      BY <1>0, <2>1
    <3>2. CASE Fits(h, pos[h])
      BY <1>0, <2>2, <3>1, <3>2
    <3>3. CASE Beyond(h, pos[h])
      <4>1. PICK n \in handled[h] : n > pos[h]
        BY <3>3 DEF Beyond
      <4>2. n \in Nat /\ n # pos[h] + 1
        BY <1>0, <2>1, <4>1
      <4>3. n > pos[h] + 1
        BY <1>0, <4>1, <4>2
      <4>4. QED
        BY <2>1, <4>1, <4>3 DEF Beyond
    <3>4. QED
      BY <1>2, <2>1, <3>2, <3>3
  <2>4. C5' /\ C6'
    BY <1>0, <1>2, <2>1, <2>2
  <2>5. QED
    BY <1>7, <1>12, <2>1, <2>3, <2>4
<1>13. CASE count' = count /\ Stores(h)
  <2>1. /\ handled'[h] = handled[h] /\ pc[h] = "save" /\ pc'[h] = "open" /\ pos'[h] = pos[h]
        /\ last'[h] = pos[h] /\ ckpt'[h] \in {ckpt[h], pos[h]}
    BY <1>13 DEF Stores
  <2>2. \A q \in 0..Len(log[h]) : (Fits(h, q) => Fits(h, q)') /\ (A(q) => A(q)')
    BY <1>5, <1>13
  <2>3. A(pos[h])' /\ A(last[h])'
    BY <1>0, <1>2, <2>1, <2>2
  <2>4. C6'
    BY <1>0, <1>2, <2>1, <2>2
  <2>5. QED
    BY <1>7, <1>13, <2>1, <2>3, <2>4
<1>14. CASE /\ count' = count /\ pc[h] \in {"lifecycle", "apply"}
            /\ Fails(h) \/ (Works(h) /\ pc'[h] = "apply") \/ Deals(h)
  <2>1. /\ pc'[h] \in {"apply", "save"} /\ SamePlace(h)
        /\ pc'[h] = "apply" => handled'[h] = handled[h]
        /\ handled'[h] \subseteq handled[h] \cup {pos[h]}
    BY <1>14 DEF Fails, Works, Deals
  <2>2. \A q \in 0..Len(log[h]) : (Fits(h, q) => Fits(h, q)') /\ (A(q) => A(q)')
    BY <1>5, <1>14
  <2>3. C1' /\ C2' /\ C3' /\ C4'
    BY <1>0, <1>2, <1>14, <2>1, <2>2
  <2>4. C5' /\ C6'
    BY <1>0, <1>2, <2>1, <2>2
  <2>5. C7'
    <3> SUFFICES ASSUME Heeded(h)' PROVE Fits(h, Len(log[h]))'
      OBVIOUS
    <3>1. Heeded(h) \/ pos[h] = Len(log[h])
      BY <1>6, <2>1 DEF Heeded
    <3>2. ~Beyond(h, Len(log[h]))
      BY <1>0 DEF Beyond
    <3>3. Fits(h, Len(log[h]))
      BY <1>2, <1>14, <3>1, <3>2
    <3>4. QED
      BY <1>0, <1>6, <2>2, <3>3
  <2>6. QED
    BY <2>1, <2>3, <2>4, <2>5
<1>15. CASE Reads(h)
  <2>1. /\ handled'[h] = handled[h] /\ pc[h] = "sync" /\ pc'[h] = "bump" /\ SamePlace(h)
        /\ count' = count /\ seen'[h] = count
    BY <1>15 DEF Reads, Works
  <2>2. \A q \in 0..Len(log[h]) : (Fits(h, q) => Fits(h, q)') /\ (A(q) => A(q)')
    BY <1>5, <2>1
  <2>3. C1' /\ C2' /\ C3' /\ C4'
    BY <1>0, <1>2, <1>4, <2>1, <2>2
  <2>4. C5' /\ C6'
    BY <1>0, <1>2, <2>1, <2>2
  <2>5. QED
    BY <1>7, <2>1, <2>3, <2>4
<1>16. CASE Passes(h)
  <2>1. /\ handled'[h] = handled[h] /\ pc[h] = "sync" /\ pc'[h] = "lifecycle" /\ SamePlace(h)
        /\ count' \in {count, Miss}
        /\ count' = Miss \/ (Kind(h) = "started" /\ count' = count)
    BY <1>16 DEF Passes, Works
  <2>2. \A q \in 0..Len(log[h]) : (Fits(h, q) => Fits(h, q)') /\ (A(q) => A(q)')
    BY <1>5, <2>1
  <2>3. A(pos[h])'
    <3>1. CASE count' = Miss
      BY <3>1 DEF Fits
    <3>2. CASE Kind(h) = "started" /\ count' = count
      <4>1. UsersAt(h, pos[h]) = UsersAt(h, pos[h] - 1)
        BY <1>0, <2>1, <3>2 DEF UsersOK, Kind, Event
      <4>2. A(pos[h])
        BY <1>2, <2>1, <4>1 DEF Fits
      <4>3. QED
        BY <1>0, <2>1, <2>2, <4>2
    <3>3. QED
      BY <2>1, <3>1, <3>2
  <2>4. C2' /\ C3' /\ C4' /\ C8'
    BY <1>2, <2>1
  <2>5. C5' /\ C6'
    BY <1>0, <1>2, <2>1, <2>2
  <2>6. QED
    BY <1>7, <2>1, <2>3, <2>4, <2>5
<1>17. CASE Counts(h)
  <2>1. /\ handled'[h] = handled[h] \cup {pos[h]} /\ pc[h] \in {"sync", "bump"} /\ pc'[h] = "save" /\ SamePlace(h)
    BY <1>17 DEF Counts, Deals
  <2>2. count' \in {Miss, UsersAt(h, pos[h])} /\ ~Beyond(h, pos[h])
    BY <1>1, <1>17, CountsRight
  <2>3. Fits(h, pos[h])'
    BY <1>0, <1>3, <2>1, <2>2 DEF Fits
  <2>4. Beyond(h, last[h])' /\ Beyond(h, ckpt[h])'
    <3>1. last[h] < pos[h] /\ ckpt[h] < pos[h]
      BY <2>1 DEF PosOK
    <3>2. QED
      BY <2>1, <3>1 DEF Beyond
  <2>5. C7'
    <3> SUFFICES ASSUME Heeded(h)' PROVE Fits(h, Len(log[h]))'
      OBVIOUS
    <3>1. Len(log'[h]) = Len(log[h]) /\ Len(log[h]) # 0
      BY <1>0, <1>6, <2>1
    <3>2. Len(log[h]) \in handled[h] \/ Len(log[h]) = pos[h]
      BY <2>1, <3>1 DEF Heeded
    <3>3. Len(log[h]) \in handled[h] => ~(Len(log[h]) > pos[h])
      BY <2>2 DEF Beyond
    <3>4. pos[h] = Len(log'[h]) /\ pos'[h] = Len(log'[h])
      BY <1>0, <2>1, <3>1, <3>2, <3>3
    <3>5. QED
      BY <2>3, <3>4
  <2>6. QED
    BY <2>1, <2>3, <2>4, <2>5
<1>18. CASE Resets(h)
  <2>1. /\ handled'[h] = handled[h] /\ pc[h] = "rebuild" /\ pc'[h] = "downgrade" /\ SamePlace(h)
        /\ count' \in {Miss, count, seen[h]}
    BY <1>18 DEF Resets, Rebuilds
  <2>2. last[h] = 0 /\ ckpt[h] <= evicted[h]
    BY <2>1 DEF PosOK, Resyncing
  <2>3. C5' /\ C6'
    BY <1>0, <2>1, <2>2
  <2>4. C7'
    <3> SUFFICES ASSUME Heeded(h)' PROVE Fits(h, Len(log[h]))'
      OBVIOUS
    <3>1. Len(log'[h]) = Len(log[h]) /\ users' = users
      BY <1>6
    <3>2. Heeded(h)
      BY <2>1, <3>1 DEF Heeded
    <3>3. count \in {Miss, UsersAt(h, Len(log[h]))} /\ seen[h] \in {Miss, users}
      BY <1>2, <2>1, <3>2 DEF Fits
    <3>4. count' \in {Miss, users}
      BY <2>1, <3>3 DEF UsersOK
    <3>5. users' = UsersAt(h, Len(log[h]))'
      BY DEF UsersOK
    <3>6. QED
      BY <3>1, <3>4, <3>5 DEF Fits
  <2>5. QED
    BY <2>1, <2>3, <2>4
<1>19. QED
  BY <1>8, <1>9, <1>10, <1>11, <1>12, <1>13, <1>14, <1>15, <1>16, <1>17, <1>18, CountMoves DEF Untouched, Fails

\* There is one host.
SingleHost == \E h : Hosts = {h}

\* With one host, and unless an event was dispatched again or missed, the count in the
\* cache is the number of users that the host reports, or there is none: although the
\* handlers read the snapshot and set it in two steps, resync sets it from what the
\* host said before, and streams are cancelled, resumed and lost at any point.
THEOREM CountTheorem == SingleHost => (Spec => []CountIsLive)
<1> SUFFICES ASSUME NEW CONSTANT h, Hosts = {h} PROVE Spec => []CountIsLive
  BY DEF SingleHost
<1> DEFINE CInv == UsersOK(h) /\ PassedOK(h) /\ CountOK(h)
<1>0. h \in Hosts
  OBVIOUS
<1>1. Init => CInv
  <2> SUFFICES ASSUME Init PROVE CInv
    OBVIOUS
  <2>1. Len(log[h]) = 0 /\ 1..Len(log[h]) = {} /\ 1..0 = {}
    <3>1. log[h] = <<>>
      BY <1>0 DEF Init
    <3>2. Len(<<>>) = 0 /\ 1..0 = {}
      OBVIOUS
    <3>3. QED
      BY <3>1, <3>2
  <2>2. /\ pc[h] = "off" /\ last[h] = 0 /\ ckpt[h] = 0 /\ evicted[h] = 0 /\ handled[h] = {}
        /\ users = 0 /\ count = Miss
    BY <1>0 DEF Init
  <2>3. UsersOK(h)
    BY <2>1, <2>2 DEF UsersOK, UsersAt
  <2>4. PassedOK(h)
    BY <2>1, <2>2 DEF PassedOK, Passed, Dispatching
  <2>5. CountOK(h)
    BY <2>1, <2>2 DEF CountOK, Fits
  <2>6. QED
    BY <2>3, <2>4, <2>5
<1>2. FullInv /\ CInv /\ [Next]_vars => CInv'
  <2> SUFFICES ASSUME FullInv, CInv, [Next]_vars PROVE CInv'
    OBVIOUS
  <2>1. Typed /\ PosOK(h) /\ CoverOK(h)
    BY <1>0 DEF FullInv, RInv
  <2>2. UsersOK(h)'
    BY <1>0, <2>1, UsersStep
  <2>3. PassedOK(h)'
    BY <1>0, <2>1, PassedStep
  <2>4. CountOK(h)'
    BY <1>0, <2>1, <2>2, CountStep
  <2>5. QED
    BY <2>2, <2>3, <2>4
<1>3. FullInv /\ CInv => CountIsLive
  <2> SUFFICES ASSUME FullInv, CInv, CaughtUp, NothingMissed, ~replayed PROVE count \in {Miss, users}
    BY DEF CountIsLive
  <2>1. pc[h] = "open" /\ pos[h] = Len(log[h]) /\ missed[h] = {}
    BY <1>0 DEF CaughtUp, NothingMissed
  <2>2. ~Beyond(h, Len(log[h]))
    <3>1. handled[h] \subseteq 1..Len(log[h]) /\ Len(log[h]) \in Nat
      BY <1>0 DEF FullInv, RInv, CoverOK, Typed, Shape, LogOK
    <3>2. QED
      BY <3>1 DEF Beyond
  <2>3. Fits(h, Len(log[h]))
    BY <2>1, <2>2 DEF CountOK
  <2>4. QED
    BY <2>3 DEF Fits, UsersOK
<1>4. QED
  BY <1>1, <1>2, <1>3, FullInductive, PTL DEF Spec

--------------------------------------------------------------------------------
(* Type correctness *)

\* What the bounds of the types need beyond the invariant above.
Bounded ==
    /\ \A h \in Hosts : Len(log[h]) <= now /\ missed[h] \subseteq 1..Len(log[h])
    /\ evicted \in [Hosts -> 0..MaxEvicted]
    /\ running \in [Hosts -> BOOLEAN]
    /\ countOf \in Hosts \cup {None}
    /\ replayed \in BOOLEAN
    /\ faults \in 0..MaxFaults

\* Every step keeps the bounds of the model.
LEMMA BoundedStep == ASSUME FullInv, Bounded, [Next]_vars PROVE Bounded'
<1> USE ConstantsAssumption DEF Bounded
<1>0. Typed /\ Shape
  BY DEF FullInv, RInv, Typed
<1>1. ASSUME NEW h \in Hosts PROVE Len(log'[h]) <= now'
  <2>1. Len(log[h]) \in Nat /\ now \in Nat /\ Len(log[h]) <= now
    BY <1>0 DEF Shape, LogOK, Times
  <2>2. ASSUME NEW g \in Hosts, Emits(g) PROVE Len(log'[h]) <= now'
    <3>1. PICK L \in Nat : /\ L = Len(log[g]) + 1 /\ now' = now + 1
                           /\ h # g => log'[h] = log[h]
                           /\ Len(log'[g]) = L
      BY <1>0, <2>2, Emission
    <3>2. QED
      BY <2>1, <3>1
  <2>3. QED
    BY <2>1, <2>2, NextIsQuietOrEmits, QuietKeepsLog DEF vars, hostVars
<1>2. ASSUME NEW h \in Hosts PROVE missed'[h] \subseteq 1..Len(log'[h])
  <2>1. Len(log[h]) \in Nat /\ Len(log'[h]) \in Nat /\ Len(log[h]) <= Len(log'[h])
    BY <1>0, LogsGrow
  <2>2. \/ missed'[h] = missed[h]
        \/ missed'[h] = missed[h] \cup ((1..Len(log[h])) \ handled[h])
        \/ (missed'[h] = missed[h] \cup {pos[h]} /\ pc[h] \in {"lifecycle", "apply"})
    BY <1>0, StreamMoves DEF Moves, Stays, Starts, Cancels, Stops, Dies, GoesLive, Resumes, Refused, SamePast, From,
       Breaks, Gets, Stores, Deals, Works, Fails, Lists, Fetches, GivesUp, Rebuilds, Ends
  <2>3. pc[h] \in {"lifecycle", "apply"} => pos[h] \in 1..Len(log[h])
    BY <1>0, Current DEF Dispatching
  <2>4. missed'[h] \subseteq 1..Len(log[h])
    BY <2>2, <2>3
  <2>5. QED
    BY <2>1, <2>4
<1> DEFINE Rest == /\ evicted \in [Hosts -> 0..MaxEvicted] /\ running \in [Hosts -> BOOLEAN]
                   /\ countOf \in Hosts \cup {None} /\ replayed \in BOOLEAN /\ faults \in 0..MaxFaults
<1> USE DEF hostVars, cacheVars, history, Fault
<1>3. ASSUME NEW h \in Hosts, Emits(h) \/ Flap(h) PROVE Rest'
  <2>1. CASE Emits(h)
    BY <2>1 DEF Emits, StartWorld, EndWorld, Join, Left, Change, Emit
  <2>2. CASE Flap(h)
    <3>1. running' = [running EXCEPT ![h] = ~running[h]]
      BY <2>2 DEF Flap
    <3>2. running' \in [Hosts -> BOOLEAN]
      BY <3>1, Zenon
    <3>3. UNCHANGED <<evicted, countOf, replayed>> /\ faults' \in 0..MaxFaults
      BY <2>2 DEF Flap
    <3>4. QED
      BY <3>2, <3>3
  <2>3. QED
    BY <1>3, <2>1, <2>2
<1>4. ASSUME NEW h \in Hosts, Evict(h) PROVE Rest'
  BY <1>4 DEF Evict
<1>5. ASSUME NEW h \in Hosts, StartStream(h) \/ Cancel(h) \/ Disconnect(h) \/ StopStream(h) PROVE Rest'
  BY <1>5 DEF StartStream, Cancel, Disconnect, StopStream
<1>6. ASSUME NEW h \in Hosts, Connecting(h) \/ Recv(h) PROVE Rest'
  <2>1. CASE Connecting(h)
    BY <2>1 DEF Connecting, ConnectLive, Resume, OutOfRange
  <2>2. CASE Recv(h)
    <3>1. replayed' = (replayed \/ pos[h] + 1 \in handled[h])
      BY <2>2 DEF Recv
    <3>2. replayed' \in BOOLEAN
      BY <3>1, Zenon
    <3>3. QED
      BY <2>2, <3>2 DEF Recv
  <2>3. QED
    BY <1>6, <2>1, <2>2
<1>7. ASSUME NEW h \in Hosts, Handling(h) PROVE Rest'
  <2>1. CASE Sync(h) \/ SyncRead(h) \/ Bump(h)
    BY <2>1 DEF Sync, SyncRead, Bump, CacheSet, CacheDelete, Dealt
  <2>2. CASE InsertFromEvent(h) \/ ApplySessionStarted(h) \/ CheckEnded(h) \/ ApplySessionEnded(h)
    BY <2>2 DEF InsertFromEvent, ApplySessionStarted, CheckEnded, ApplySessionEnded, Dealt
  <2>3. CASE HandlerFails(h) \/ Save(h)
    BY <2>3 DEF HandlerFails, Save
  <2>4. QED
    BY <1>7, <2>1, <2>2, <2>3 DEF Handling
<1>8. ASSUME NEW h \in Hosts, Resync(h) PROVE Rest'
  <2>1. CASE ResetList(h) \/ ResetFetch(h)
    BY <2>1 DEF ResetList, ResetFetch
  <2>2. CASE ResetRebuild(h) \/ ResetDowngrade(h)
    BY <2>2 DEF ResetRebuild, ResetDowngrade, CacheSet, CacheDelete
  <2>3. QED
    BY <1>8, <2>1, <2>2 DEF Resync
<1>9. ASSUME Crash PROVE Rest'
  BY <1>9 DEF Crash, CacheDelete
<1>10. ASSUME UNCHANGED vars PROVE Rest'
  BY <1>10 DEF vars
<1>11. Rest'
  BY <1>3, <1>4, <1>5, <1>6, <1>7, <1>8, <1>9, <1>10, NextIsQuietOrEmits DEF Quiet
<1>12. QED
  BY <1>1, <1>2, <1>11

\* The inductive invariant and the bounds give TypeOK.
LEMMA BoundedIsTyped == FullInv /\ Bounded => TypeOK
<1> SUFFICES ASSUME FullInv, Bounded PROVE TypeOK
  OBVIOUS
<1>1. /\ Typed /\ RowOK /\ on \in Hosts \cup {None} /\ owner \in Hosts \cup {None}
      /\ \A h \in Hosts : PosOK(h) /\ handled[h] \subseteq 1..Len(log[h])
  BY DEF FullInv, RInv, IInv, WorldOK, RowSays, CoverOK
<1>2. ASSUME NEW h \in Hosts PROVE Len(log[h]) \in Times /\ 0..Len(log[h]) \subseteq Times /\ 1..Len(log[h]) \subseteq Times
  <2>1. Len(log[h]) \in Nat /\ now \in Nat /\ now <= MaxEvents /\ Len(log[h]) <= now
    BY <1>1, ConstantsAssumption DEF Typed, Shape, LogOK, Times, Bounded
  <2>2. QED
    BY <2>1, ConstantsAssumption DEF Times
<1>3. ASSUME NEW h \in Hosts
      PROVE  /\ pos[h] \in Times /\ last[h] \in Times /\ ckpt[h] \in Times /\ resyncAt[h] \in Times
             /\ handled[h] \subseteq Times /\ missed[h] \subseteq Times
  <2>1. /\ pos[h] \in 0..Len(log[h]) /\ last[h] \in 0..Len(log[h]) /\ ckpt[h] \in 0..Len(log[h])
        /\ resyncAt[h] \in 0..Len(log[h])
    <3>1. /\ pos[h] \in Nat /\ last[h] \in Nat /\ ckpt[h] \in Nat /\ resyncAt[h] \in Nat /\ Len(log[h]) \in Nat
          /\ pos[h] <= Len(log[h]) /\ last[h] <= Len(log[h]) /\ ckpt[h] <= Len(log[h]) /\ resyncAt[h] <= Len(log[h])
      BY <1>1 DEF Typed, Shape, LogOK, StreamOK, GoroutineOK, PosOK
    <3>2. QED
      BY <3>1
  <2>2. handled[h] \subseteq 1..Len(log[h]) /\ missed[h] \subseteq 1..Len(log[h])
    BY <1>1 DEF Bounded
  <2>3. QED
    BY <1>2, <2>1, <2>2
<1>4. /\ pos \in [Hosts -> Times] /\ last \in [Hosts -> Times] /\ ckpt \in [Hosts -> Times] /\ resyncAt \in [Hosts -> Times]
      /\ handled \in [Hosts -> SUBSET Times] /\ missed \in [Hosts -> SUBSET Times]
  BY <1>1, <1>3 DEF Typed, Shape, StreamOK, GoroutineOK
<1>5. QED
  BY <1>1, <1>4 DEF TypeOK, Typed, Shape, LogOK, StreamOK, GoroutineOK, RowOK, Bounded

\* The variables keep their types and bounds: in particular positions, checkpoints and
\* resync marks never leave the log of their host.
THEOREM TypeCorrect == Spec => []TypeOK
<1>1. Init => Bounded
  <2> SUFFICES ASSUME Init PROVE Bounded
    OBVIOUS
  <2>1. \A h \in Hosts : Len(log[h]) = 0 /\ missed[h] = {}
    <3>1. \A h \in Hosts : log[h] = <<>> /\ missed[h] = {}
      BY DEF Init
    <3>2. Len(<<>>) = 0
      OBVIOUS
    <3>3. QED
      BY <3>1, <3>2
  <2>2. now = 0 /\ faults = 0 /\ countOf = None /\ replayed \in BOOLEAN
    BY DEF Init
  <2>3. evicted \in [Hosts -> 0..MaxEvicted] /\ running \in [Hosts -> BOOLEAN]
    BY ConstantsAssumption DEF Init
  <2>4. QED
    BY <2>1, <2>2, <2>3, ConstantsAssumption DEF Bounded
<1>2. FullInv /\ Bounded /\ [Next]_vars => Bounded'
  BY BoundedStep
<1>3. QED
  BY <1>1, <1>2, BoundedIsTyped, FullInductive, PTL DEF Spec
================================================================================
