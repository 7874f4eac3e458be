---------------------------- MODULE Sessions_proofs ----------------------------
(* Theorems about Sessions, for every set of requests and any number of changes. *)
EXTENDS Sessions, SequenceTheorems, TLAPS

--------------------------------------------------------------------------------
(* Types *)

\* Where a request has no copy of the row yet, or needs it no more.
Idle == {"new", "load", "start", "done"}

\* Where GetSession compares the row with the host.
Looking == {"look", "fetch", "keep", "heal", "crash"}

\* A request that works with a copy has one, and one that asks the host about a session
\* had not read that it has ended.
CopyAt(r) ==
    /\ pc[r] = "load" => kind[r] # "StartSession"
    /\ pc[r] \notin Idle => copy[r] \in Rows
    /\ pc[r] \in Looking => copy[r].status # "ENDED"

CopyInv == \A r \in Requests : CopyAt(r)

IInv == TypeOK /\ CopyInv

\* The fields of a row.
LEMMA RowType ==
    ASSUME NEW s \in {"RUNNING", "CRASHED", "ENDED"}, NEW a \in 1..2, NEW e \in 0..2,
           NEW c \in BOOLEAN, NEW m \in BOOLEAN, NEW p \in Versions
    PROVE  Row(s, a, e, c, m, p) \in Rows
BY DEF Row, Rows

\* And of a row that is there.
LEMMA RowFields ==
    ASSUME NEW x \in Rows
    PROVE  /\ x.status \in {"RUNNING", "CRASHED", "ENDED"} /\ x.startedAt \in 1..2
           /\ x.endedAt \in 0..2 /\ x.created \in BOOLEAN /\ x.memo \in BOOLEAN
           /\ x.params \in Versions /\ x # Absent
BY AbsentAssumption DEF Rows

\* A change of status leaves the rest of a row alone.
LEMMA StatusType ==
    ASSUME NEW x \in Rows, NEW s \in {"RUNNING", "CRASHED", "ENDED"}
    PROVE  /\ WithStatus(x, s) \in Rows /\ WithStatus(x, s).status = s
           /\ WithStatus(x, s).endedAt = x.endedAt /\ WithStatus(x, s).created = x.created
<1>1. WithStatus(x, s) \in Rows
  BY RowFields, RowType DEF WithStatus
<1>2. QED
  BY <1>1 DEF WithStatus, Row

\* Upsert writes the new row, but keeps a creator.
LEMMA UpsertType ==
    ASSUME row \in Rows \cup {Absent}, NEW new \in Rows, Upsert(new)
    PROVE  /\ row' \in Rows /\ row'.status = new.status /\ row'.endedAt = new.endedAt
           /\ row # Absent /\ row.created => row'.created
<1>1. CASE row = Absent
  BY <1>1 DEF Upsert
<1>2. CASE row # Absent
  <2>1. row \in Rows
    BY <1>2
  <2>2. (row.created \/ new.created) \in BOOLEAN
    OBVIOUS
  <2>3. row' = Row(new.status, new.startedAt, new.endedAt, row.created \/ new.created,
                   new.memo, new.params)
    BY <1>2 DEF Upsert
  <2>4. row' \in Rows
    BY <2>2, <2>3, RowFields, RowType
  <2>5. QED
    BY <2>3, <2>4 DEF Row
<1>3. QED
  BY <1>1, <1>2

\* The names of the events.
LEMMA EventNames ==
    /\ \A e \in Events : /\ e[1] \in {"started", "ended", "params"}
                         /\ e[1] = "params" => e[2] \in Versions
    /\ <<"started">> \in Events /\ <<"ended">> \in Events
    /\ \A v \in Versions : <<"params", v>> \in Events
BY DEF Events

\* What becomes of the queue when the host emits an event ...
LEMMA EmitFacts ==
    ASSUME events \in Seq(Events), NEW e \in Events, Emit(e)
    PROVE  /\ events' \in Seq(Events) /\ events' # <<>> /\ Len(events) \in Nat
           /\ Len(events') = Len(events) + 1
           /\ \A n \in 1..Len(events) : events'[n] = events[n]
           /\ events'[Len(events')] = e
           /\ Head(events') = IF events = <<>> THEN e ELSE Head(events)
<1>1. events' = Append(events, e)
  BY DEF Emit
<1>2. Len(events) \in Nat
  BY LenProperties
<1>3. /\ Append(events, e) \in Seq(Events) /\ Append(events, e) # <<>>
      /\ Len(Append(events, e)) = Len(events) + 1
      /\ \A n \in 1..Len(events) : Append(events, e)[n] = events[n]
      /\ Append(events, e)[Len(events) + 1] = e
  BY AppendProperties
<1>4. Head(Append(events, e)) = IF events = <<>> THEN e ELSE Head(events)
  BY HeadTailAppend
<1>5. QED
  BY <1>1, <1>2, <1>3, <1>4

\* ... and when a handler is done with the first one.
LEMMA TailFacts ==
    ASSUME events \in Seq(Events), events # <<>>
    PROVE  /\ Head(events) \in Events /\ Head(events) = events[1]
           /\ Tail(events) \in Seq(Events)
           /\ Len(events) \in Nat \ {0} /\ Len(Tail(events)) = Len(events) - 1
           /\ \A n \in 1..Len(Tail(events)) : Tail(events)[n] = events[n + 1]
           /\ Tail(events) = <<>> <=> Len(events) = 1
<1>1. Len(events) \in Nat /\ (events = <<>> <=> Len(events) = 0)
  BY LenProperties, EmptySeq
<1>2. /\ Head(events) \in Events /\ Tail(events) \in Seq(Events)
      /\ Len(Tail(events)) = Len(events) - 1
      /\ \A n \in 1..Len(Tail(events)) : Tail(events)[n] = events[n + 1]
  BY HeadTailProperties
<1>3. Tail(events) = <<>> <=> Len(Tail(events)) = 0
  BY <1>2, EmptySeq
<1>4. Head(events) = events[1]
  BY <1>1
<1>5. QED
  BY <1>1, <1>2, <1>3, <1>4

\* A request that takes a step and keeps a copy that fits.
LEMMA RequestOK ==
    ASSUME IInv, NEW r \in Requests, NEW s \in PCs, Goto(r, s), kind' = kind,
           NEW c \in Rows \cup {Absent}, copy' = [copy EXCEPT ![r] = c],
           s = "load" => kind[r] # "StartSession", s \notin Idle => c \in Rows,
           s \in Looking => c.status # "ENDED"
    PROVE  /\ pc' \in [Requests -> PCs] /\ copy' \in [Requests -> Rows \cup {Absent}]
           /\ CopyInv'
<1>1. /\ pc' \in [Requests -> PCs] /\ copy' \in [Requests -> Rows \cup {Absent}]
      /\ pc'[r] = s /\ copy'[r] = c
      /\ \A q \in Requests \ {r} : pc'[q] = pc[q] /\ copy'[q] = copy[q]
  BY DEF IInv, TypeOK, Goto
<1>2. CopyAt(r)'
  BY <1>1 DEF CopyAt
<1>3. \A q \in Requests \ {r} : CopyAt(q)'
  BY <1>1 DEF CopyAt, IInv, CopyInv
<1>4. QED
  BY <1>1, <1>2, <1>3 DEF CopyInv

\* The same for one that leaves its copy alone.
LEMMA RequestKeeps ==
    ASSUME IInv, NEW r \in Requests, NEW s \in PCs, Goto(r, s), UNCHANGED <<kind, copy>>,
           s = "load" => kind[r] # "StartSession", s \notin Idle => pc[r] \notin Idle,
           s \in Looking => pc[r] \in Looking
    PROVE  pc' \in [Requests -> PCs] /\ CopyInv'
<1>1. copy' = [copy EXCEPT ![r] = copy[r]] /\ copy[r] \in Rows \cup {Absent}
  BY DEF IInv, TypeOK
<1>2. (s \notin Idle => copy[r] \in Rows) /\ (s \in Looking => copy[r].status # "ENDED")
  BY DEF IInv, CopyInv, CopyAt
<1>3. QED
  BY <1>1, <1>2, RequestOK

\* Nobody has a copy at first.
LEMMA IInvInit == Init => IInv
<1> SUFFICES ASSUME Init PROVE IInv
  OBVIOUS
<1>1. 0 \in Versions /\ 0 \in 0..MaxFaults /\ <<>> \in Seq(Events)
  BY ConstantsAssumption, EmptySeq DEF Versions
<1>2. /\ events \in Seq(Events) /\ half \in BOOLEAN /\ deleted \in BOOLEAN /\ late \in BOOLEAN
      /\ world \in {"none", "running", "gone"} /\ version \in Versions /\ faults \in 0..MaxFaults
      /\ row \in Rows \cup {Absent} /\ cache \in Versions \cup {Miss}
  BY <1>1 DEF Init
<1>3. /\ kind \in [Requests -> Kinds] /\ pc \in [Requests -> PCs]
      /\ copy \in [Requests -> Rows \cup {Absent}] /\ got \in [Requests -> Versions]
  BY <1>1 DEF Init, PCs
<1>4. CopyInv
  BY DEF Init, CopyInv, CopyAt, Idle, Looking
<1>5. QED
  BY <1>2, <1>3, <1>4 DEF IInv, TypeOK

\* The handlers keep the types.
LEMMA HandlerType ==
    ASSUME IInv, Handler
    PROVE  IInv'
<1> USE DEF requestVars, history, host
<1>1. /\ events # <<>> /\ events \in Seq(Events) /\ UNCHANGED <<world, version, requestVars, history, faults>>
  BY DEF Handler, IInv, TypeOK, Handles, InsertFromEvent, ApplySessionStarted, CacheParameters,
         ApplySessionParametersChanged, ForgetEnded, ApplySessionEnded
<1>2. Head(events) \in Events /\ Tail(events) \in Seq(Events)
  BY <1>1, TailFacts
<1>3. events' \in Seq(Events) /\ half' \in BOOLEAN
  BY <1>1, <1>2 DEF Handler, HandlerDone, InsertFromEvent, ApplySessionStarted, CacheParameters,
                    ApplySessionParametersChanged, ForgetEnded, ApplySessionEnded
<1>4. Handles("params") => Head(events)[2] \in Versions
  BY <1>2, EventNames DEF Handles
<1>5. cache' \in Versions \cup {Miss}
  BY <1>4 DEF Handler, InsertFromEvent, ApplySessionStarted, CacheParameters,
              ApplySessionParametersChanged, ForgetEnded, ApplySessionEnded, IInv, TypeOK
<1>6. row' \in Rows \cup {Absent}
  <2>0. row \in Rows \cup {Absent} /\ Stamp \in 1..2 /\ 0 \in Versions
    BY ConstantsAssumption DEF IInv, TypeOK, Versions
  <2>1. CASE row' = row
    BY <2>0, <2>1
  <2>2. CASE row = Absent /\ row' = Row("RUNNING", Stamp, 0, FALSE, FALSE, 0)
    BY <2>0, <2>2 DEF Row, Rows
  <2>3. CASE row # Absent /\ row' = Row("RUNNING", Stamp, 0, row.created, row.memo, row.params)
    BY <2>0, <2>3 DEF Row, Rows
  <2>4. CASE /\ row # Absent /\ Handles("params")
             /\ row' = Row(row.status, row.startedAt, row.endedAt, row.created, row.memo, Head(events)[2])
    BY <1>4, <2>0, <2>4, RowType, RowFields
  <2>5. CASE row # Absent /\ row' = Row("ENDED", row.startedAt, 1, row.created, row.memo, row.params)
    BY <2>0, <2>5 DEF Row, Rows
  <2>6. QED
    BY <2>1, <2>2, <2>3, <2>4, <2>5
    DEF Handler, InsertFromEvent, ApplySessionStarted, CacheParameters,
        ApplySessionParametersChanged, ForgetEnded, ApplySessionEnded
<1>7. QED
  BY <1>1, <1>3, <1>5, <1>6 DEF IInv, TypeOK, CopyInv, CopyAt

\* Events and versions stay in their range when the host is asked to change something.
LEMMA HostType ==
    ASSUME IInv
    PROVE  /\ version < MaxVersion => version + 1 \in Versions
           /\ \A e \in Events : Emit(e) => events' \in Seq(Events)
           /\ Fault => faults' \in 0..MaxFaults
<1>1. version < MaxVersion => version + 1 \in Versions
  BY ConstantsAssumption DEF IInv, TypeOK, Versions
<1>2. \A e \in Events : Emit(e) => events' \in Seq(Events)
  BY EmitFacts DEF IInv, TypeOK
<1>3. Fault => faults' \in 0..MaxFaults
  BY ConstantsAssumption DEF IInv, TypeOK, Fault
<1>4. QED
  BY <1>1, <1>2, <1>3

\* Where a request goes after it has read the row.
LEMMA AfterLoadType ==
    ASSUME NEW k \in Kinds \ {"StartSession"}, NEW s
    PROVE  /\ AfterLoad(k, s) \in {"stop", "update", "delete", "done", "look", "upsert"}
           /\ AfterLoad(k, s) = "look" => s # "ENDED"
<1>1. CASE k = "StopSession"
  BY <1>1 DEF AfterLoad
<1>2. CASE k = "UpdateSessionParameters"
  BY <1>2 DEF AfterLoad
<1>3. CASE k = "DeleteSession"
  BY <1>3 DEF AfterLoad
<1>4. CASE k = "GetSession"
  BY <1>4 DEF AfterLoad
<1>5. CASE k = "UpdateSessionExtraSettings"
  BY <1>5 DEF AfterLoad
<1>6. QED
  BY <1>1, <1>2, <1>3, <1>4, <1>5 DEF Kinds

\* What WriteBack writes: the copy, whose memo UpdateSessionExtraSettings has changed.
Written(r) ==
    IF kind[r] = "UpdateSessionExtraSettings"
    THEN Row(copy[r].status, copy[r].startedAt, copy[r].endedAt, copy[r].created,
             ~copy[r].memo, copy[r].params)
    ELSE copy[r]

\* It is a row, with the status and the end of the copy.
LEMMA WrittenType ==
    ASSUME NEW r \in Requests, copy[r] \in Rows
    PROVE  /\ Written(r) \in Rows /\ Written(r).status = copy[r].status
           /\ Written(r).endedAt = copy[r].endedAt
<1>1. CASE kind[r] = "UpdateSessionExtraSettings"
  <2>1. (~copy[r].memo) \in BOOLEAN
    OBVIOUS
  <2>2. Written(r) = Row(copy[r].status, copy[r].startedAt, copy[r].endedAt, copy[r].created,
                         ~copy[r].memo, copy[r].params)
    BY <1>1 DEF Written
  <2>3. Written(r) \in Rows
    BY <2>1, <2>2 DEF Row, Rows
  <2>4. QED
    BY <2>2, <2>3 DEF Row
<1>2. CASE kind[r] # "UpdateSessionExtraSettings"
  BY <1>2 DEF Written
<1>3. QED
  BY <1>1, <1>2

\* The requests keep the types.
LEMMA RequestType ==
    ASSUME IInv, NEW r \in Requests, Request(r)
    PROVE  IInv'
<1> USE DEF requestVars, history, host
<1>q. /\ TypeOK /\ CopyAt(r)
      /\ copy[r] \in Rows \cup {Absent} /\ kind[r] \in Kinds /\ pc[r] \in PCs
  BY DEF IInv, TypeOK, CopyInv
<1>f. faults' = faults \/ Fault => faults' \in 0..MaxFaults
  BY <1>q, HostType DEF TypeOK
\* a step that changes the request, cache, got and history
<1>k. ASSUME NEW s \in PCs, Goto(r, s), UNCHANGED <<host, half, kind, copy>>,
             s = "load" => kind[r] # "StartSession", s \notin Idle => pc[r] \notin Idle,
             s \in Looking => pc[r] \in Looking,
             row' \in Rows \cup {Absent}, cache' \in Versions \cup {Miss},
             got' \in [Requests -> Versions], deleted' \in BOOLEAN, late' \in BOOLEAN,
             faults' = faults \/ Fault
      PROVE  IInv'
  <2>1. pc' \in [Requests -> PCs] /\ CopyInv'
    BY <1>k, RequestKeeps
  <2>2. QED
    BY <1>f, <1>k, <1>q, <2>1 DEF IInv, TypeOK
\* ... or its copy
<1>c. ASSUME NEW s \in PCs, Goto(r, s), UNCHANGED <<half, cache, kind, got, deleted>>,
             NEW c \in Rows \cup {Absent}, copy' = [copy EXCEPT ![r] = c],
             s = "load" => kind[r] # "StartSession", s \notin Idle => c \in Rows,
             s \in Looking => c.status # "ENDED",
             row' \in Rows \cup {Absent}, late' \in BOOLEAN, faults' = faults \/ Fault,
             world' \in {"none", "running", "gone"}, version' \in Versions, events' \in Seq(Events)
      PROVE  IInv'
  <2>1. /\ pc' \in [Requests -> PCs] /\ copy' \in [Requests -> Rows \cup {Absent}] /\ CopyInv'
    BY <1>c, RequestOK
  <2>2. QED
    BY <1>c, <1>f, <1>q, <2>1 DEF IInv, TypeOK
<1>1. CASE Begin(r)
  <2>1. PICK s \in {"start", "load"} : Goto(r, s) /\ (s = "load" => kind[r] # "StartSession")
    BY <1>1 DEF Begin
  <2>2. UNCHANGED <<host, half, row, cache, kind, copy, got, history, faults>>
    BY <1>1 DEF Begin
  <2>3. QED
    BY <1>k, <1>q, <2>1, <2>2 DEF TypeOK, PCs, Idle, Looking
<1>2. CASE Load(r)
  <2>1. /\ pc[r] = "load" /\ copy' = [copy EXCEPT ![r] = row]
        /\ UNCHANGED <<host, half, row, cache, kind, got, history, faults>>
    BY <1>2 DEF Load
  <2>2. kind[r] \in Kinds \ {"StartSession"}
    BY <1>q, <2>1 DEF CopyAt
  <2>3. CASE row = Absent
    <3>1. Goto(r, "done")
      BY <1>2, <2>3 DEF Load
    <3>2. QED
      BY <1>c, <1>q, <2>1, <2>3, <3>1 DEF TypeOK, PCs, Idle, Looking
  <2>4. CASE row # Absent
    <3>1. row \in Rows
      BY <1>q, <2>4 DEF TypeOK
    <3>2. PICK s \in {"stop", "update", "delete", "done", "look", "upsert"} :
            Goto(r, s) /\ (s = "look" => row.status # "ENDED")
      BY <1>2, <2>2, <2>4, AfterLoadType DEF Load
    <3>3. QED
      BY <1>c, <1>q, <2>1, <3>1, <3>2 DEF TypeOK, PCs, Idle, Looking
  <2>5. QED
    BY <2>3, <2>4
<1>3. CASE StartWorld(r)
  <2>1. Row("RUNNING", 1, 0, TRUE, TRUE, 0) \in Rows
    BY ConstantsAssumption DEF Row, Rows, Versions
  <2>2. PICK s \in {"upsert", "done"} : Goto(r, s)
    BY <1>3 DEF StartWorld
  <2>3. events' \in Seq(Events)
    BY <1>3, EventNames, HostType DEF StartWorld
  <2>4. QED
    BY <1>3, <1>c, <1>q, <2>1, <2>2, <2>3 DEF StartWorld, TypeOK, PCs, Idle, Looking
<1>4. CASE StopWorld(r)
  <2>1. copy[r] \in Rows
    BY <1>4, <1>q DEF StopWorld, CopyAt, Idle
  <2> DEFINE c == Row("ENDED", copy[r].startedAt, 2, copy[r].created, copy[r].memo, copy[r].params)
  <2>2. c \in Rows
    BY <2>1 DEF Row, Rows
  <2>3. copy' = [copy EXCEPT ![r] = c] /\ UNCHANGED <<version, half, row, cache, kind, got, history>>
    BY <1>4 DEF StopWorld
  <2>4. PICK s \in {"upsert", "done"} : Goto(r, s)
    BY <1>4 DEF StopWorld
  <2>5. events' \in Seq(Events) /\ world' \in {"none", "running", "gone"} /\ (faults' = faults \/ Fault)
    BY <1>4, <1>q, EventNames, HostType DEF StopWorld, TypeOK
  <2> HIDE DEF c
  <2>6. QED
    BY <1>c, <1>q, <2>2, <2>3, <2>4, <2>5 DEF TypeOK, PCs, Idle, Looking
<1>5. CASE UpdateWorld(r)
  <2>1. copy[r] \in Rows
    BY <1>5, <1>q DEF UpdateWorld, CopyAt, Idle
  <2>2. CASE UNCHANGED <<version, events, copy>>
    BY <1>5, <1>k, <1>q, <2>2 DEF UpdateWorld, TypeOK, PCs, Idle, Looking
  <2>3. CASE ~UNCHANGED <<version, events, copy>>
    <3> DEFINE c == Row(copy[r].status, copy[r].startedAt, copy[r].endedAt, copy[r].created,
                        copy[r].memo, version + 1)
    <3>1. /\ version' = version + 1 /\ version < MaxVersion /\ Emit(<<"params", version + 1>>)
          /\ copy' = [copy EXCEPT ![r] = c] /\ Goto(r, "reread") /\ faults' = faults
          /\ UNCHANGED <<world, half, row, cache, kind, got, history>>
      BY <1>5, <2>3 DEF UpdateWorld
    <3>2. version' \in Versions /\ events' \in Seq(Events)
      BY <3>1, EventNames, HostType
    <3>3. c \in Rows
      BY <2>1, <3>1, HostType, RowFields, RowType
    <3> HIDE DEF c
    <3>4. QED
      BY <1>c, <1>q, <3>1, <3>2, <3>3 DEF TypeOK, PCs, Idle, Looking
  <2>4. QED
    BY <2>2, <2>3
<1>6. CASE Reread(r)
  <2>1. PICK s \in {"upsert", "done"} : Goto(r, s)
    BY <1>6 DEF Reread
  <2>2. got' \in [Requests -> Versions]
    BY <1>6, <1>q DEF Reread, TypeOK
  <2>3. pc[r] = "reread" /\ UNCHANGED <<host, half, row, cache, kind, copy, history>> /\ (faults' = faults \/ Fault)
    BY <1>6 DEF Reread
  <2>4. QED
    BY <1>k, <1>q, <2>1, <2>2, <2>3 DEF TypeOK, PCs, Idle, Looking
<1>7. CASE Look(r)
  <2>1. PICK s \in {"fetch", "heal", "upsert", "done"} : Goto(r, s)
    BY <1>7 DEF Look, Return
  <2>2. pc[r] = "look" /\ UNCHANGED <<host, half, row, cache, kind, copy, got, history, faults>>
    BY <1>7 DEF Look
  <2>3. QED
    BY <1>k, <1>q, <2>1, <2>2 DEF TypeOK, PCs, Idle, Looking
<1>8. CASE Fetch(r)
  <2>1. PICK s \in {"keep", "crash", "upsert", "done"} : Goto(r, s)
    BY <1>8 DEF Fetch, Return
  <2>2. got' \in [Requests -> Versions]
    BY <1>8, <1>q DEF Fetch, TypeOK
  <2>3. pc[r] = "fetch" /\ UNCHANGED <<host, half, row, cache, kind, copy, history>> /\ (faults' = faults \/ Fault)
    BY <1>8 DEF Fetch
  <2>4. QED
    BY <1>k, <1>q, <2>1, <2>2, <2>3 DEF TypeOK, PCs, Idle, Looking
<1>9. CASE Keep(r)
  <2>1. PICK s \in {"heal", "upsert", "done"} : Goto(r, s)
    BY <1>9 DEF Keep, Return
  <2>2. cache' \in Versions \cup {Miss} /\ late' \in BOOLEAN
    BY <1>9, <1>q DEF Keep, TypeOK
  <2>3. pc[r] = "keep" /\ UNCHANGED <<host, half, row, kind, copy, got, deleted, faults>>
    BY <1>9 DEF Keep
  <2>4. QED
    BY <1>k, <1>q, <2>1, <2>2, <2>3 DEF TypeOK, PCs, Idle, Looking
<1>10. CASE Heal(r) \/ Crash(r)
  <2>1. copy[r] \in Rows
    BY <1>10, <1>q DEF Heal, Crash, CopyAt, Idle
  <2>2. PICK st \in {"RUNNING", "CRASHED"} : SetStatus(r, st)
    BY <1>10 DEF Heal, Crash
  <2>3. WithStatus(copy[r], st) \in Rows
    BY <2>1, StatusType
  <2>4. row' \in Rows \cup {Absent}
    BY <1>q, <2>2, StatusType DEF SetStatus, UpdateStatus, TypeOK
  <2>5. PICK s \in {"upsert", "done"} : Goto(r, s)
    BY <2>2 DEF SetStatus, Return
  <2>6. late' \in BOOLEAN
    BY <2>2 DEF SetStatus
  <2>7. /\ copy' = [copy EXCEPT ![r] = WithStatus(copy[r], st)] /\ (faults' = faults \/ Fault)
        /\ UNCHANGED <<host, half, cache, kind, got, deleted>>
    BY <2>2 DEF SetStatus
  <2>8. QED
    BY <1>c, <1>q, <2>3, <2>4, <2>5, <2>6, <2>7 DEF TypeOK, PCs, Idle, Looking
<1>11. CASE WriteBack(r)
  <2>1. pc[r] = "upsert" /\ copy[r] \in Rows
    BY <1>11, <1>q DEF WriteBack, CopyAt, Idle
  <2>2. row' \in Rows \cup {Absent}
    <3>1. Upsert(Written(r)) \/ row' = row
      BY <1>11 DEF WriteBack, Written
    <3>2. QED
      BY <1>q, <2>1, <3>1, UpsertType, WrittenType DEF TypeOK
  <2>3. PICK s \in {"set", "done"} : Goto(r, s)
    BY <1>11 DEF WriteBack
  <2>4. late' \in BOOLEAN
    BY <1>11, <1>q DEF WriteBack, TypeOK
  <2>5. UNCHANGED <<host, half, cache, kind, copy, got, deleted>> /\ (faults' = faults \/ Fault)
    BY <1>11 DEF WriteBack
  <2>6. QED
    BY <1>k, <1>q, <2>1, <2>2, <2>3, <2>4, <2>5 DEF TypeOK, PCs, Idle, Looking
<1>12. CASE SetCache(r)
  <2>1. cache' \in Versions \cup {Miss} /\ late' \in BOOLEAN
    BY <1>12, <1>q DEF SetCache, TypeOK
  <2>2. Goto(r, "done") /\ UNCHANGED <<host, half, row, kind, copy, got, deleted, faults>>
    BY <1>12 DEF SetCache
  <2>3. QED
    BY <1>k, <1>q, <2>1, <2>2 DEF TypeOK, PCs, Idle, Looking
<1>13. CASE Delete(r)
  <2>1. PICK s \in {"forget", "done"} : Goto(r, s)
    BY <1>13 DEF Delete
  <2>2. /\ pc[r] = "delete" /\ row' = Absent /\ deleted' = TRUE /\ (faults' = faults \/ Fault)
        /\ UNCHANGED <<host, half, cache, kind, copy, got, late>>
    BY <1>13 DEF Delete
  <2>3. QED
    BY <1>k, <1>q, <2>1, <2>2 DEF TypeOK, PCs, Idle, Looking
<1>14. CASE Forget(r)
  <2>1. cache' = Miss /\ Goto(r, "done") /\ UNCHANGED <<host, half, row, kind, copy, got, history, faults>>
    BY <1>14 DEF Forget
  <2>2. QED
    BY <1>k, <1>q, <2>1 DEF TypeOK, PCs, Idle, Looking
<1>15. QED
  BY <1>1, <1>2, <1>3, <1>4, <1>5, <1>6, <1>7, <1>8, <1>9, <1>10, <1>11, <1>12, <1>13, <1>14
     DEF Request

\* Every step does.
LEMMA IInvStep == IInv /\ [Next]_vars => IInv'
<1> SUFFICES ASSUME IInv, [Next]_vars PROVE IInv'
  OBVIOUS
<1> USE DEF requestVars, history, host
<1>1. CASE Change \/ EndWorld
  <2>1. /\ version' \in Versions /\ world' \in {"none", "running", "gone"}
        /\ UNCHANGED <<half, row, cache, requestVars, history, faults>>
    BY <1>1, HostType DEF Change, EndWorld, IInv, TypeOK
  <2>2. events' \in Seq(Events)
    BY <1>1, EventNames, HostType DEF Change, EndWorld
  <2>3. QED
    BY <2>1, <2>2 DEF IInv, TypeOK, CopyInv, CopyAt
<1>2. CASE UNCHANGED vars
  BY <1>2 DEF vars, IInv, TypeOK, CopyInv, CopyAt
<1>3. QED
  BY <1>1, <1>2, HandlerType, RequestType DEF Next

\* The row, the cache, the queue of events and the requests keep their types: no request
\* writes back a row that it has not read.
THEOREM TypeCorrect == Spec => []TypeOK
<1>1. IInv => TypeOK
  BY DEF IInv
<1>2. QED
  BY <1>1, IInvInit, IInvStep, PTL DEF Spec

\* So they are kept for ever.
LEMMA IInvHolds == Spec => []IInv
BY IInvInit, IInvStep, PTL DEF Spec

--------------------------------------------------------------------------------
(* The queue of events *)

\* Before the session exists there is nothing about it, and nobody has read its row.
NoneInv ==
    world = "none" => /\ events = <<>> /\ ~half /\ row = Absent
                      /\ \A r \in Requests : pc[r] \in Idle

\* The end of the session is the last event of its host.
OrderInv ==
    /\ world = "running" => \A n \in 1..Len(events) : events[n][1] # "ended"
    /\ world = "gone" /\ events # <<>> => events[Len(events)][1] = "ended"
    /\ half => events # <<>>

QInv == IInv /\ NoneInv /\ OrderInv

\* What a step outside the handlers does to the host: nothing, a start, a change or an end.
HostStays == UNCHANGED <<world, events>>
HostStarts == world = "none" /\ world' = "running" /\ Emit(<<"started">>)
HostChanges == world = "running" /\ world' = "running" /\ \E v \in Versions : Emit(<<"params", v>>)
HostEnds == world = "running" /\ world' = "gone" /\ Emit(<<"ended">>)
HostStep == half' = half /\ (HostStays \/ HostStarts \/ HostChanges \/ HostEnds)

\* What a handler does to it: the first half of an event or the second one.
FirstHalf == events # <<>> /\ ~half /\ half' /\ UNCHANGED <<world, events>>
SecondHalf == events # <<>> /\ half /\ HandlerDone /\ UNCHANGED world

\* Only StartWorld starts a session, and only a running one changes or ends.
LEMMA RequestHost ==
    ASSUME IInv, NEW r \in Requests, Request(r)
    PROVE  HostStep
<1>1. version < MaxVersion => version + 1 \in Versions
  BY HostType
<1>2. CASE StartWorld(r)
  BY <1>2 DEF StartWorld, HostStep, HostStarts
<1>3. CASE StopWorld(r)
  BY <1>3 DEF StopWorld, HostStep, HostStays, HostEnds
<1>4. CASE UpdateWorld(r)
  BY <1>1, <1>4 DEF UpdateWorld, HostStep, HostStays, HostChanges
<1>5. CASE Begin(r) \/ Load(r) \/ Reread(r) \/ Look(r) \/ Fetch(r) \/ Keep(r) \/ SetCache(r) \/ Delete(r) \/ Forget(r)
  BY <1>5 DEF Begin, Load, Reread, Look, Fetch, Keep, SetCache, Delete, Forget, host, HostStep, HostStays
<1>6. CASE Heal(r) \/ Crash(r) \/ WriteBack(r)
  BY <1>6 DEF Heal, Crash, SetStatus, WriteBack, host, HostStep, HostStays
<1>7. QED
  BY <1>2, <1>3, <1>4, <1>5, <1>6 DEF Request

\* So does every step, unless it is a handler's.
LEMMA StepHost ==
    ASSUME IInv, [Next]_vars
    PROVE  HostStep \/ FirstHalf \/ SecondHalf
<1>1. CASE Change \/ EndWorld
  <2>1. version < MaxVersion => version + 1 \in Versions
    BY HostType
  <2>2. QED
    BY <1>1, <2>1 DEF Change, EndWorld, HostStep, HostChanges, HostEnds
<1>2. CASE Handler
  BY <1>2 DEF Handler, InsertFromEvent, ApplySessionStarted, CacheParameters,
     ApplySessionParametersChanged, ForgetEnded, ApplySessionEnded, Handles, host, FirstHalf, SecondHalf
<1>3. CASE UNCHANGED vars
  BY <1>3 DEF vars, HostStep, HostStays
<1>4. QED
  BY <1>1, <1>2, <1>3, RequestHost DEF Next

\* The events keep their order.
LEMMA OrderStep ==
    ASSUME QInv, [Next]_vars
    PROVE  OrderInv'
<1>1. events \in Seq(Events) /\ OrderInv /\ (world = "none" => events = <<>>)
  BY DEF QInv, IInv, TypeOK, NoneInv
<1>2. <<"started">>[1] = "started" /\ <<"ended">>[1] = "ended" /\ (\A v \in Versions : <<"params", v>>[1] = "params")
  OBVIOUS
<1>3. CASE half' = half /\ HostStays
  BY <1>1, <1>3 DEF HostStays, OrderInv
<1>4. CASE half' = half /\ ~HostStays /\ HostStep
  <2>1. PICK e \in Events : /\ Emit(e) /\ world' \in {"running", "gone"}
                            /\ world' = "running" => e[1] # "ended" /\ world \in {"none", "running"}
                            /\ world' = "gone" => e[1] = "ended"
    BY <1>2, <1>4, EventNames DEF HostStep, HostStarts, HostChanges, HostEnds
  <2>2. /\ events' # <<>> /\ Len(events) \in Nat /\ Len(events') = Len(events) + 1
        /\ \A n \in 1..Len(events) : events'[n] = events[n]
        /\ events'[Len(events')] = e
    BY <1>1, <2>1, EmitFacts
  <2>3. ASSUME world' = "running" PROVE \A n \in 1..Len(events') : events'[n][1] # "ended"
    <3>1. \A n \in 1..Len(events) : events[n][1] # "ended"
      BY <1>1, <2>1, <2>3, EmptySeq DEF OrderInv
    <3>2. QED
      BY <2>1, <2>2, <2>3, <3>1
  <2>4. QED
    BY <2>1, <2>2, <2>3 DEF OrderInv
<1>5. CASE FirstHalf
  BY <1>1, <1>5 DEF FirstHalf, OrderInv
<1>6. CASE SecondHalf
  <2>1. events # <<>> /\ events' = Tail(events) /\ half' = FALSE /\ world' = world
    BY <1>6 DEF SecondHalf, HandlerDone
  <2>2. /\ Len(events) \in Nat \ {0} /\ Len(events') = Len(events) - 1
        /\ \A n \in 1..Len(events') : events'[n] = events[n + 1]
        /\ events' = <<>> <=> Len(events) = 1
    BY <1>1, <2>1, TailFacts
  <2>3. world' = "running" => \A n \in 1..Len(events') : events'[n][1] # "ended"
    BY <1>1, <2>1, <2>2 DEF OrderInv
  <2>4. ASSUME world' = "gone", events' # <<>> PROVE events'[Len(events')][1] = "ended"
    <3>1. Len(events') \in 1..Len(events') /\ Len(events') + 1 = Len(events)
      BY <2>2, <2>4
    <3>2. QED
      BY <1>1, <2>1, <2>2, <2>4, <3>1 DEF OrderInv
  <2>5. QED
    BY <2>1, <2>3, <2>4 DEF OrderInv
<1>7. QED
  BY <1>3, <1>4, <1>5, <1>6, StepHost DEF QInv, HostStep

\* Until a session starts its row stays absent and the requests find nothing.
LEMMA NoneStep ==
    ASSUME QInv, [Next]_vars
    PROVE  NoneInv'
<1> SUFFICES ASSUME world' = "none"
             PROVE  /\ events' = <<>> /\ ~half' /\ row' = Absent
                    /\ \A r \in Requests : pc'[r] \in Idle
  BY DEF NoneInv
<1> USE DEF requestVars, history, host
<1>1. world = "none"
  BY StepHost DEF QInv, HostStep, HostStays, HostStarts, HostChanges, HostEnds, FirstHalf, SecondHalf
<1>2. /\ events = <<>> /\ ~half /\ row = Absent /\ \A r \in Requests : pc[r] \in Idle
      /\ pc \in [Requests -> PCs]
  BY <1>1 DEF QInv, NoneInv, IInv, TypeOK
<1>3. CASE UNCHANGED vars
  BY <1>2, <1>3 DEF vars
<1>4. ASSUME NEW r \in Requests, Request(r)
      PROVE  UNCHANGED <<events, half, row>> /\ \E s \in Idle : Goto(r, s)
  <2>1. pc[r] \in Idle
    BY <1>2
  <2>2. Begin(r) \/ Load(r)
    BY <1>4, <2>1 DEF Request, Idle, StartWorld, StopWorld, UpdateWorld, Reread, Look, Fetch, Keep,
                      Heal, Crash, WriteBack, SetCache, Delete, Forget
  <2>3. QED
    BY <1>2, <2>2 DEF Begin, Load, Idle
<1>5. CASE \E r \in Requests : Request(r)
  <2>1. PICK r \in Requests : UNCHANGED <<events, half, row>> /\ \E s \in Idle : Goto(r, s)
    BY <1>4, <1>5
  <2>2. QED
    BY <1>2, <2>1 DEF Goto
<1>6. ~Change /\ ~EndWorld /\ ~Handler
  BY <1>1, <1>2 DEF Change, EndWorld, Handler, Handles, InsertFromEvent, ApplySessionStarted,
     CacheParameters, ApplySessionParametersChanged, ForgetEnded, ApplySessionEnded
<1>7. QED
  BY <1>3, <1>5, <1>6 DEF Next

\* At first there is no session and no event.
LEMMA QInvInit == Init => QInv
<1>1. Init => NoneInv /\ OrderInv
  BY EmptySeq DEF Init, NoneInv, OrderInv, Idle
<1>2. QED
  BY <1>1, IInvInit DEF QInv

\* Every step keeps it so.
LEMMA QInvStep == QInv /\ [Next]_vars => QInv'
BY IInvStep, OrderStep, NoneStep DEF QInv

\* The queue is in order in every state.
LEMMA QInvHolds == Spec => []QInv
BY QInvInit, QInvStep, PTL DEF Spec

--------------------------------------------------------------------------------
(* What a step does to the row *)

\* The row after the second half of SessionStarted, SessionParametersChanged and
\* SessionEnded, in terms of the row before.
LEMMA HandlerRow ==
    ASSUME IInv, Handler
    PROVE  \/ row' = row
           \/ row = Absent /\ row' \in Rows /\ row'.status = "RUNNING" /\ row'.endedAt = 0 /\ ~half
           \/ /\ row \in Rows /\ row' \in Rows /\ row'.created = row.created
              /\ \/ row'.status = "RUNNING" /\ row'.endedAt = 0 /\ Handles("started")
                 \/ row'.status = row.status /\ row'.endedAt = row.endedAt /\ Handles("params")
                 \/ row'.status = "ENDED" /\ row'.endedAt = 1 /\ Handles("ended")
<1>1. row' \in Rows \cup {Absent} /\ row \in Rows \cup {Absent}
  BY HandlerType DEF IInv, TypeOK
<1>2. CASE InsertFromEvent
  <2>1. CASE row = Absent
    <3>1. row' = Row("RUNNING", Stamp, 0, FALSE, FALSE, 0) /\ ~half
      BY <1>2, <2>1 DEF InsertFromEvent
    <3>2. row' \in Rows
      BY <3>1, ConstantsAssumption DEF Row, Rows, Versions
    <3>3. QED
      BY <2>1, <3>1, <3>2 DEF Row
  <2>2. QED
    BY <1>2, <2>1 DEF InsertFromEvent
<1>3. CASE ApplySessionStarted
  <2>1. CASE row' # row
    <3>1. /\ row' = Row("RUNNING", Stamp, 0, row.created, row.memo, row.params) /\ row # Absent
          /\ Handles("started")
      BY <1>3, <2>1 DEF ApplySessionStarted
    <3>2. row' \in Rows
      BY <1>1, <3>1, ConstantsAssumption DEF Row, Rows
    <3>3. QED
      BY <1>1, <3>1, <3>2 DEF Row
  <2>2. QED
    BY <2>1
<1>4. CASE ApplySessionParametersChanged
  <2>1. CASE row' # row
    <3>1. /\ row' = Row(row.status, row.startedAt, row.endedAt, row.created, row.memo, Head(events)[2])
          /\ row # Absent /\ Handles("params")
      BY <1>4, <2>1 DEF ApplySessionParametersChanged
    <3>2. events \in Seq(Events) /\ events # <<>> /\ Head(events) \in Events /\ Head(events)[1] = "params"
      BY <3>1, TailFacts DEF Handles, IInv, TypeOK
    <3>3. Head(events)[2] \in Versions
      BY <3>2, EventNames
    <3>4. row' \in Rows
      BY <1>1, <3>1, <3>3 DEF Row, Rows
    <3>5. QED
      BY <1>1, <3>1, <3>4 DEF Row
  <2>2. QED
    BY <2>1
<1>5. CASE ApplySessionEnded
  <2>1. CASE row' # row
    <3>1. /\ row' = Row("ENDED", row.startedAt, 1, row.created, row.memo, row.params)
          /\ row # Absent /\ Handles("ended")
      BY <1>5, <2>1 DEF ApplySessionEnded
    <3>2. row' \in Rows
      BY <1>1, <3>1 DEF Row, Rows
    <3>3. QED
      BY <1>1, <3>1, <3>2 DEF Row
  <2>2. QED
    BY <2>1
<1>6. CASE CacheParameters \/ ForgetEnded
  BY <1>6 DEF CacheParameters, ForgetEnded
<1>7. QED
  BY <1>2, <1>3, <1>4, <1>5, <1>6 DEF Handler

\* A request writes the row in three ways: a change of the status, an Upsert and a delete.
LEMMA RequestRow ==
    ASSUME IInv, NEW r \in Requests, Request(r)
    PROVE  \/ row' = row
           \/ /\ row \in Rows /\ row' \in Rows /\ row'.created = row.created
              /\ row'.endedAt = row.endedAt
              /\ \/ pc[r] = "heal" /\ row'.status = "RUNNING"
                 \/ pc[r] = "crash" /\ row'.status = "CRASHED"
           \/ /\ WriteBack(r) /\ row' \in Rows
              /\ row'.status = copy[r].status /\ row'.endedAt = copy[r].endedAt
              /\ row # Absent /\ row.created => row'.created
           \/ row' = Absent /\ deleted'
<1>1. row \in Rows \cup {Absent} /\ CopyAt(r)
  BY DEF IInv, TypeOK, CopyInv
<1>2. CASE Heal(r) \/ Crash(r)
  <2>1. PICK s \in {"RUNNING", "CRASHED"} : /\ SetStatus(r, s)
                                            /\ \/ s = "RUNNING" /\ pc[r] = "heal"
                                               \/ s = "CRASHED" /\ pc[r] = "crash"
    BY <1>2 DEF Heal, Crash
  <2>2. row' = row \/ (row # Absent /\ row' = WithStatus(row, s))
    BY <2>1 DEF SetStatus, UpdateStatus
  <2>3. CASE row # Absent /\ row' = WithStatus(row, s)
    <3>1. row \in Rows
      BY <1>1, <2>3
    <3>2. /\ WithStatus(row, s) \in Rows /\ WithStatus(row, s).status = s
          /\ WithStatus(row, s).endedAt = row.endedAt /\ WithStatus(row, s).created = row.created
      BY <3>1, StatusType
    <3>3. QED
      BY <2>1, <2>3, <3>1, <3>2
  <2>4. QED
    BY <2>2, <2>3
<1>3. CASE WriteBack(r)
  <2>1. copy[r] \in Rows
    BY <1>1, <1>3 DEF WriteBack, CopyAt, Idle
  <2>2. Upsert(Written(r)) \/ row' = row
    BY <1>3 DEF WriteBack, Written
  <2>3. QED
    BY <1>1, <1>3, <2>1, <2>2, UpsertType, WrittenType
<1>4. CASE Delete(r)
  BY <1>4 DEF Delete
<1>5. CASE Begin(r) \/ Load(r) \/ StartWorld(r) \/ StopWorld(r) \/ UpdateWorld(r) \/ Reread(r)
           \/ Look(r) \/ Fetch(r) \/ Keep(r) \/ SetCache(r) \/ Forget(r)
  BY <1>5 DEF Begin, Load, StartWorld, StopWorld, UpdateWorld, Reread, Look, Fetch, Keep, SetCache, Forget
<1>6. QED
  BY <1>2, <1>3, <1>4, <1>5 DEF Request

\* No step takes the creator out of the row.
LEMMA CreatorStep ==
    ASSUME IInv, [Next]_vars
    PROVE  row # Absent /\ row.created /\ row' # Absent => row'.created
<1>1. CASE Handler
  BY <1>1, HandlerRow
<1>2. CASE \E r \in Requests : Request(r)
  BY <1>2, RequestRow
<1>3. CASE Change \/ EndWorld \/ UNCHANGED vars
  BY <1>3 DEF Change, EndWorld, vars
<1>4. QED
  BY <1>1, <1>2, <1>3 DEF Next

\* Who has created a session is kept, by Upsert's COALESCE against the requests that have
\* read the row too early, and by the handlers because they write other columns.
THEOREM CreatorTheorem == Spec => CreatorIsKept
<1>1. IInv /\ [Next]_vars => [row # Absent /\ row.created /\ row' # Absent => row'.created]_vars
  BY CreatorStep
<1>2. QED
  BY <1>1, IInvHolds, PTL DEF Spec, CreatorIsKept

--------------------------------------------------------------------------------
(* The end of the session *)

\* A row is ENDED exactly when it has the time of its end.
Consistent(x) == x # Absent => (x.status = "ENDED" <=> x.endedAt # 0)

\* As long as no request has written late: the row and what the requests know of it are
\* consistent, the row is ENDED once the end was dealt with, and the snapshot is gone once
\* the first half of that was.
EndInv ==
    ~late => /\ Consistent(row) /\ \A r \in Requests : Consistent(copy[r])
             /\ EndHandled => row = Absent \/ row.status = "ENDED"
             /\ EndForgotten => cache = Miss

\* Nothing but a handler deals with the end of the session.
LEMMA HandledBefore ==
    ASSUME QInv, HostStep
    PROVE  (EndHandled' => EndHandled) /\ (EndForgotten' => EndForgotten)
<1>1. events \in Seq(Events) /\ half' = half /\ (half => events # <<>>)
  BY DEF QInv, IInv, TypeOK, OrderInv, HostStep
<1>2. CASE HostStays
  BY <1>1, <1>2 DEF HostStays, EndHandled, EndForgotten, Handles
<1>3. CASE HostStarts \/ HostChanges \/ HostEnds
  <2>1. PICK e \in Events : Emit(e)
    BY <1>3, EventNames DEF HostStarts, HostChanges, HostEnds
  <2>2. events' # <<>> /\ (events # <<>> => Head(events') = Head(events))
    BY <1>1, <2>1, EmitFacts
  <2>3. QED
    BY <1>1, <2>2 DEF EndHandled, EndForgotten, Handles
<1>4. QED
  BY <1>2, <1>3 DEF HostStep

\* The last event of a session that is gone is its end.
LEMMA LastIsEnded ==
    ASSUME QInv, events # <<>>, world = "gone", Tail(events) = <<>>
    PROVE  Handles("ended")
<1>1. Len(events) = 1 /\ Head(events) = events[1]
  BY TailFacts DEF QInv, IInv, TypeOK
<1>2. QED
  BY <1>1 DEF QInv, OrderInv, Handles

\* The handlers keep the row consistent and leave it ENDED and the cache empty.
LEMMA HandlerEnd ==
    ASSUME QInv, EndInv, Handler
    PROVE  EndInv'
<1> USE DEF requestVars, history, host
<1> SUFFICES ASSUME ~late'
             PROVE  /\ Consistent(row)' /\ \A r \in Requests : Consistent(copy[r])'
                    /\ EndHandled' => row' = Absent \/ row'.status = "ENDED"
                    /\ EndForgotten' => cache' = Miss
  BY DEF EndInv
<1>1. UNCHANGED <<world, copy, late>>
  BY DEF Handler, InsertFromEvent, ApplySessionStarted, CacheParameters,
         ApplySessionParametersChanged, ForgetEnded, ApplySessionEnded
<1>2. /\ Consistent(row) /\ \A r \in Requests : Consistent(copy[r])
      /\ EndHandled => row = Absent \/ row.status = "ENDED"
      /\ EndForgotten => cache = Miss
      /\ row \in Rows \cup {Absent}
  BY <1>1 DEF EndInv, QInv, IInv, TypeOK
<1>3. Consistent(row)'
  BY <1>2, HandlerRow, AbsentAssumption DEF Consistent, QInv
<1>4. \A r \in Requests : Consistent(copy[r])'
  BY <1>1, <1>2 DEF Consistent
<1>5. events # <<>> /\ ~EndHandled
  BY DEF Handler, InsertFromEvent, ApplySessionStarted, CacheParameters, ApplySessionParametersChanged,
         ForgetEnded, ApplySessionEnded, Handles, EndHandled
<1>6. CASE InsertFromEvent \/ CacheParameters
  <2>1. events' = events /\ ~Handles("ended")
    BY <1>6 DEF InsertFromEvent, CacheParameters, Handles
  <2>2. ~EndHandled' /\ ~EndForgotten'
    BY <1>5, <2>1 DEF EndHandled, EndForgotten, Handles
  <2>3. QED
    BY <1>3, <1>4, <2>2
<1>7. CASE ApplySessionStarted \/ ApplySessionParametersChanged
  <2>1. events' = Tail(events) /\ ~half' /\ ~Handles("ended")
    BY <1>7 DEF ApplySessionStarted, ApplySessionParametersChanged, Handles, HandlerDone
  <2>2. ~EndHandled'
    BY <1>1, <1>5, <2>1, LastIsEnded DEF EndHandled
  <2>3. ~EndForgotten'
    BY <2>1, <2>2 DEF EndForgotten
  <2>4. QED
    BY <1>3, <1>4, <2>2, <2>3
<1>8. CASE ForgetEnded
  <2>1. events' = events /\ cache' = Miss
    BY <1>8 DEF ForgetEnded
  <2>2. ~EndHandled'
    BY <1>5, <2>1 DEF EndHandled
  <2>3. QED
    BY <1>3, <1>4, <2>1, <2>2
<1>9. CASE ApplySessionEnded
  <2>1. half /\ Handles("ended") /\ cache' = cache
    BY <1>9 DEF ApplySessionEnded
  <2>2. cache' = Miss
    BY <1>2, <2>1 DEF EndForgotten
  <2>3. row' = Absent \/ row'.status = "ENDED"
    <3>1. CASE row # Absent /\ row.endedAt = 0
      BY <1>9, <3>1 DEF ApplySessionEnded, Row
    <3>2. CASE ~(row # Absent /\ row.endedAt = 0)
      BY <1>2, <1>9, <3>2 DEF ApplySessionEnded, Consistent
    <3>3. QED
      BY <3>1, <3>2
  <2>4. QED
    BY <1>3, <1>4, <2>2, <2>3
<1>10. QED
  BY <1>6, <1>7, <1>8, <1>9 DEF Handler

\* The copies of the requests stay consistent.
LEMMA CopyEnd ==
    ASSUME QInv, EndInv, NEW r \in Requests, Request(r), ~late
    PROVE  \A q \in Requests : Consistent(copy[q])'
<1>1. /\ Consistent(row) /\ \A q \in Requests : Consistent(copy[q])
      /\ CopyAt(r) /\ copy \in [Requests -> Rows \cup {Absent}]
  BY DEF EndInv, QInv, IInv, TypeOK, CopyInv
<1>2. ASSUME NEW c, Consistent(c), copy' = [copy EXCEPT ![r] = c]
      PROVE  \A q \in Requests : Consistent(copy[q])'
  BY <1>1, <1>2 DEF Consistent
<1>3. CASE copy' = copy
  BY <1>1, <1>3 DEF Consistent
<1>4. CASE Load(r)
  BY <1>1, <1>2, <1>4 DEF Load
<1>5. CASE StartWorld(r)
  <2>1. Consistent(Row("RUNNING", 1, 0, TRUE, TRUE, 0))
    BY DEF Row, Consistent
  <2>2. QED
    BY <1>2, <1>5, <2>1 DEF StartWorld
<1>6. CASE StopWorld(r)
  <2> DEFINE c == Row("ENDED", copy[r].startedAt, 2, copy[r].created, copy[r].memo, copy[r].params)
  <2>1. Consistent(c)
    BY DEF Row, Consistent
  <2>2. copy' = [copy EXCEPT ![r] = c]
    BY <1>6 DEF StopWorld
  <2> HIDE DEF c
  <2>3. QED
    BY <1>2, <2>1, <2>2
<1>7. CASE UpdateWorld(r) /\ copy' # copy
  <2> DEFINE c == Row(copy[r].status, copy[r].startedAt, copy[r].endedAt, copy[r].created,
                      copy[r].memo, version + 1)
  <2>1. copy[r] \in Rows
    BY <1>1, <1>7 DEF UpdateWorld, CopyAt, Idle
  <2>2. copy[r].status = "ENDED" <=> copy[r].endedAt # 0
    BY <1>1, <2>1, AbsentAssumption DEF Consistent
  <2>3. Consistent(c)
    BY <2>2 DEF Row, Consistent
  <2>4. copy' = [copy EXCEPT ![r] = c]
    BY <1>7 DEF UpdateWorld
  <2> HIDE DEF c
  <2>5. QED
    BY <1>2, <2>3, <2>4
<1>8. CASE Heal(r) \/ Crash(r)
  <2>1. PICK s \in {"RUNNING", "CRASHED"} : SetStatus(r, s)
    BY <1>8 DEF Heal, Crash
  <2>2. copy[r] \in Rows /\ copy[r].status # "ENDED"
    BY <1>1, <1>8 DEF Heal, Crash, CopyAt, Idle, Looking
  <2>3. copy[r].endedAt = 0
    BY <1>1, <2>2, AbsentAssumption DEF Consistent
  <2>4. WithStatus(copy[r], s).status = s /\ WithStatus(copy[r], s).endedAt = 0
    BY <2>2, <2>3, StatusType
  <2>5. Consistent(WithStatus(copy[r], s))
    BY <2>4 DEF Consistent
  <2>6. QED
    BY <1>2, <2>1, <2>5 DEF SetStatus
<1>9. CASE Begin(r) \/ Reread(r) \/ Look(r) \/ Fetch(r) \/ Keep(r) \/ WriteBack(r) \/ SetCache(r)
           \/ Delete(r) \/ Forget(r)
  BY <1>3, <1>9 DEF Begin, Reread, Look, Fetch, Keep, WriteBack, SetCache, Delete, Forget
<1>10. QED
  BY <1>3, <1>4, <1>5, <1>6, <1>7, <1>8, <1>9 DEF Request

\* What is written back before the end was dealt with, or is ENDED, does no harm.
LEMMA RequestEnd ==
    ASSUME QInv, EndInv, NEW r \in Requests, Request(r)
    PROVE  EndInv'
<1> USE DEF requestVars, history, host
<1> SUFFICES ASSUME ~late'
             PROVE  /\ Consistent(row)' /\ \A q \in Requests : Consistent(copy[q])'
                    /\ EndHandled' => row' = Absent \/ row'.status = "ENDED"
                    /\ EndForgotten' => cache' = Miss
  BY DEF EndInv
<1>1. ~late
  BY DEF Request, Begin, Load, StartWorld, StopWorld, UpdateWorld, Reread, Look, Fetch, Keep, Heal,
         Crash, SetStatus, WriteBack, SetCache, Delete, Forget
<1>2. /\ Consistent(row) /\ Consistent(copy[r]) /\ IInv /\ CopyAt(r)
      /\ EndHandled => row = Absent \/ row.status = "ENDED"
      /\ EndForgotten => cache = Miss
  BY <1>1 DEF EndInv, QInv, IInv, CopyInv
<1>3. (EndHandled' => EndHandled) /\ (EndForgotten' => EndForgotten)
  BY <1>2, HandledBefore, RequestHost
<1>4. \A q \in Requests : Consistent(copy[q])'
  BY <1>1, CopyEnd
<1>5. Consistent(row)' /\ (EndHandled' => row' = Absent \/ row'.status = "ENDED")
  <2>1. CASE row' = row
    BY <1>2, <1>3, <2>1 DEF Consistent
  <2>2. CASE row' = Absent
    BY <2>2 DEF Consistent
  <2>3. CASE /\ row \in Rows /\ row' \in Rows /\ row'.endedAt = row.endedAt
             /\ row'.status # "ENDED" /\ pc[r] \in {"heal", "crash"}
    <3>1. Heal(r) \/ Crash(r)
      BY <2>3 DEF Request, Begin, Load, StartWorld, StopWorld, UpdateWorld, Reread, Look, Fetch, Keep,
                  WriteBack, SetCache, Delete, Forget
    <3>2. ~EndHandled /\ ~(row # Absent /\ row.endedAt # 0)
      BY <3>1 DEF Heal, Crash, SetStatus
    <3>3. row'.endedAt = 0
      BY <2>3, <3>2, AbsentAssumption
    <3>4. QED
      BY <1>3, <2>3, <3>2, <3>3 DEF Consistent
  <2>4. CASE /\ WriteBack(r) /\ row' \in Rows /\ row' # row
             /\ row'.status = copy[r].status /\ row'.endedAt = copy[r].endedAt
    <3>1. copy[r] \in Rows
      BY <1>2, <2>4 DEF WriteBack, CopyAt, Idle
    <3>2. ~(EndHandled /\ Written(r).status # "ENDED")
      BY <2>4 DEF WriteBack, Written
    <3>3. EndHandled => copy[r].status = "ENDED"
      BY <3>1, <3>2, WrittenType
    <3>4. QED
      BY <1>2, <1>3, <2>4, <3>1, <3>3, AbsentAssumption DEF Consistent
  <2>5. QED
    BY <1>2, <2>1, <2>2, <2>3, <2>4, RequestRow
<1>6. EndForgotten' => cache' = Miss
  <2>1. CASE cache' = cache
    BY <1>2, <1>3, <2>1
  <2>2. CASE Keep(r) \/ SetCache(r)
    BY <1>3, <2>2 DEF Keep, SetCache
  <2>3. CASE Forget(r)
    BY <2>3 DEF Forget
  <2>4. cache' = cache \/ Keep(r) \/ SetCache(r) \/ Forget(r)
    BY DEF Request, Begin, Load, StartWorld, StopWorld, UpdateWorld, Reread, Look, Fetch, Heal, Crash,
           SetStatus, WriteBack, Delete
  <2>5. QED
    BY <2>1, <2>2, <2>3, <2>4
<1>7. QED
  BY <1>4, <1>5, <1>6

\* Every step keeps it so.
LEMMA EndStep == QInv /\ EndInv /\ [Next]_vars => EndInv'
<1> SUFFICES ASSUME QInv, EndInv, [Next]_vars PROVE EndInv'
  OBVIOUS
<1>1. CASE Change \/ EndWorld
  <2>1. UNCHANGED <<half, row, cache, copy, late>>
    BY <1>1 DEF Change, EndWorld, requestVars, history
  <2>2. version < MaxVersion => version + 1 \in Versions
    BY HostType DEF QInv
  <2>3. HostStep
    BY <1>1, <2>2 DEF Change, EndWorld, HostStep, HostChanges, HostEnds
  <2>4. (EndHandled' => EndHandled) /\ (EndForgotten' => EndForgotten)
    BY <2>3, HandledBefore
  <2>5. QED
    BY <2>1, <2>4 DEF EndInv, Consistent
<1>2. CASE UNCHANGED vars
  BY <1>2 DEF vars, EndInv, Consistent, EndHandled, EndForgotten, Handles
<1>3. QED
  BY <1>1, <1>2, HandlerEnd, RequestEnd DEF Next

\* However its requests and events are interleaved, a session that has ended is ENDED or
\* deleted and out of the cache, unless a request wrote late.
THEOREM EndTheorem == Spec => []EndConverges
<1>1. Init => EndInv
  BY DEF Init, EndInv, Consistent, EndHandled, EndForgotten, Handles
<1>2. EndInv => EndConverges
  BY DEF EndInv, EndConverges, Quiet, EndHandled, EndForgotten, Consistent
<1>3. QED
  BY <1>1, <1>2, QInvHolds, EndStep, PTL DEF Spec

--------------------------------------------------------------------------------
(* The running session *)

\* A row that is missing is about to be inserted by the first event, and without a failed
\* call nobody takes a running session for a crashed one.
RunInv ==
    /\ world # "none" /\ row = Absent /\ ~deleted => Handles("started") /\ ~half
    /\ world = "running" /\ faults = 0 =>
         /\ row # Absent => row.status = "RUNNING"
         /\ \A r \in Requests : pc[r] \notin Idle => pc[r] # "crash" /\ copy[r].status = "RUNNING"

\* The first event stays the first one until it was handled.
LEMMA StartedStays ==
    ASSUME QInv, HostStep, world' # "none", world # "none" => Handles("started") /\ ~half
    PROVE  Handles("started")' /\ ~half'
<1>1. events \in Seq(Events) /\ half' = half /\ (world = "none" => events = <<>> /\ ~half)
  BY DEF QInv, IInv, TypeOK, NoneInv, HostStep
<1>2. CASE HostStays
  BY <1>1, <1>2 DEF HostStays, Handles
<1>3. CASE HostStarts
  <2>1. events' # <<>> /\ Head(events') = <<"started">>
    BY <1>1, <1>3, EventNames, EmitFacts DEF HostStarts
  <2>2. QED
    BY <1>1, <1>3, <2>1 DEF HostStarts, Handles
<1>4. CASE HostChanges \/ HostEnds
  <2>1. world # "none" /\ \E e \in Events : Emit(e)
    BY <1>4, EventNames DEF HostChanges, HostEnds
  <2>2. events' # <<>> /\ (events # <<>> => Head(events') = Head(events))
    BY <1>1, <2>1, EmitFacts
  <2>3. QED
    BY <1>1, <2>1, <2>2 DEF Handles
<1>5. QED
  BY <1>2, <1>3, <1>4 DEF HostStep

\* A running session has no event about its end.
LEMMA NotEnded ==
    ASSUME QInv, world = "running"
    PROVE  ~Handles("ended")
<1> SUFFICES ASSUME Handles("ended") PROVE FALSE
  OBVIOUS
<1>1. events # <<>> /\ Head(events)[1] = "ended" /\ events \in Seq(Events)
  BY DEF Handles, QInv, IInv, TypeOK
<1>2. Len(events) \in Nat \ {0} /\ Head(events) = events[1]
  BY <1>1, TailFacts
<1>3. QED
  BY <1>1, <1>2 DEF QInv, OrderInv

\* A request moves itself only.
LEMMA RequestMoves ==
    ASSUME IInv, NEW r \in Requests, Request(r)
    PROVE  /\ \A q \in Requests \ {r} : pc'[q] = pc[q] /\ copy'[q] = copy[q]
           /\ faults' = faults \/ faults' = faults + 1
           /\ deleted => deleted'
<1> USE DEF history, host
<1>1. pc \in [Requests -> PCs] /\ copy \in [Requests -> Rows \cup {Absent}]
  BY DEF IInv, TypeOK
<1>2. \E s : Goto(r, s)
  BY DEF Request, Begin, Load, StartWorld, StopWorld, UpdateWorld, Reread, Look, Fetch, Keep, Heal,
         Crash, SetStatus, WriteBack, SetCache, Delete, Forget, Return
<1>3. copy' = copy \/ \E c : copy' = [copy EXCEPT ![r] = c]
  BY DEF Request, Begin, Load, StartWorld, StopWorld, UpdateWorld, Reread, Look, Fetch, Keep, Heal,
         Crash, SetStatus, WriteBack, SetCache, Delete, Forget
<1>4. faults' = faults \/ Fault
  BY DEF Request, Begin, Load, StartWorld, StopWorld, UpdateWorld, Reread, Look, Fetch, Keep, Heal,
         Crash, SetStatus, WriteBack, SetCache, Delete, Forget
<1>5. deleted => deleted'
  BY DEF Request, Begin, Load, StartWorld, StopWorld, UpdateWorld, Reread, Look, Fetch, Keep, Heal,
         Crash, SetStatus, WriteBack, SetCache, Delete, Forget
<1>6. \A q \in Requests \ {r} : pc'[q] = pc[q]
  BY <1>1, <1>2 DEF Goto
<1>7. \A q \in Requests \ {r} : copy'[q] = copy[q]
  BY <1>1, <1>3
<1>8. QED
  BY <1>4, <1>5, <1>6, <1>7 DEF Fault

\* A request that finds a running session, without a failed call, works with a RUNNING row.
LEMMA RequestCopy ==
    ASSUME QInv, RunInv, NEW r \in Requests, Request(r), world = "running", world' = "running",
           faults = 0, faults' = 0
    PROVE  pc'[r] \notin Idle => pc'[r] # "crash" /\ copy'[r].status = "RUNNING"
<1> SUFFICES ASSUME pc'[r] \notin Idle PROVE pc'[r] # "crash" /\ copy'[r].status = "RUNNING"
  OBVIOUS
<1>1. /\ row # Absent => row.status = "RUNNING"
      /\ pc[r] \notin Idle => pc[r] # "crash" /\ copy[r].status = "RUNNING"
      /\ row \in Rows \cup {Absent} /\ CopyAt(r) /\ kind[r] \in Kinds
      /\ pc \in [Requests -> PCs] /\ copy \in [Requests -> Rows \cup {Absent}]
  BY DEF RunInv, QInv, IInv, TypeOK, CopyInv
<1>2. ~Fault
  BY DEF Fault
<1>3. ASSUME NEW s, Goto(r, s) PROVE pc'[r] = s
  BY <1>1, <1>3 DEF Goto
<1>4. CASE Begin(r)
  <2>1. pc'[r] \in Idle
    BY <1>3, <1>4 DEF Begin, Idle
  <2>2. QED
    BY <2>1
<1>5. CASE Load(r)
  <2>1. copy'[r] = row /\ kind[r] \in Kinds \ {"StartSession"}
    BY <1>1, <1>5 DEF Load, CopyAt
  <2>2. row # Absent /\ pc'[r] = AfterLoad(kind[r], row.status)
    BY <1>3, <1>5 DEF Load, Idle
  <2>3. pc'[r] \in {"stop", "update", "delete", "done", "look", "upsert"}
    BY <2>1, <2>2, AfterLoadType
  <2>4. QED
    BY <1>1, <2>1, <2>2, <2>3
<1>6. CASE UpdateWorld(r)
  <2>1. copy[r].status = "RUNNING"
    BY <1>1, <1>6 DEF UpdateWorld, Idle
  <2>2. pc'[r] = "reread"
    BY <1>2, <1>3, <1>6 DEF UpdateWorld
  <2>3. copy' = [copy EXCEPT ![r] = Row(copy[r].status, copy[r].startedAt, copy[r].endedAt,
                                        copy[r].created, copy[r].memo, version + 1)]
    BY <1>2, <1>6 DEF UpdateWorld
  <2>4. copy'[r].status = "RUNNING"
    BY <1>1, <2>1, <2>3 DEF Row
  <2>5. QED
    BY <2>2, <2>4
<1>7. CASE Heal(r)
  <2>1. pc'[r] \in {"upsert", "done"}
    BY <1>3, <1>7 DEF Heal, SetStatus, Return
  <2>2. copy'[r] = WithStatus(copy[r], "RUNNING")
    BY <1>1, <1>7 DEF Heal, SetStatus
  <2>3. QED
    BY <2>1, <2>2 DEF WithStatus, Row
<1>8. CASE Reread(r) \/ Look(r) \/ Fetch(r) \/ Keep(r)
  <2>1. copy'[r].status = "RUNNING" /\ copy[r].status = "RUNNING"
    BY <1>1, <1>8 DEF Reread, Look, Fetch, Keep, Idle
  <2>2. \E s \in {"upsert", "done", "fetch", "heal", "keep"} : Goto(r, s)
    BY <1>2, <1>8 DEF Reread, Look, Fetch, Keep, Return
  <2>3. QED
    BY <1>3, <2>1, <2>2
<1>9. CASE WriteBack(r) \/ SetCache(r) \/ Delete(r) \/ Forget(r)
  <2>1. copy'[r].status = "RUNNING"
    BY <1>1, <1>9 DEF WriteBack, SetCache, Delete, Forget, Idle
  <2>2. \E s \in {"set", "done", "forget"} : Goto(r, s)
    BY <1>9 DEF WriteBack, SetCache, Delete, Forget
  <2>3. QED
    BY <1>3, <2>1, <2>2
<1>10. ~StartWorld(r) /\ ~StopWorld(r) /\ ~Crash(r)
  BY <1>1 DEF StartWorld, StopWorld, Crash, Idle
<1>11. QED
  BY <1>4, <1>5, <1>6, <1>7, <1>8, <1>9, <1>10 DEF Request

\* A request keeps the running session's row RUNNING.
LEMMA RequestRun ==
    ASSUME QInv, RunInv, NEW r \in Requests, Request(r)
    PROVE  RunInv'
<1>1. IInv /\ HostStep /\ faults \in Nat
  BY RequestHost DEF QInv, IInv, TypeOK
<1>2. /\ \A q \in Requests \ {r} : pc'[q] = pc[q] /\ copy'[q] = copy[q]
      /\ faults' = faults \/ faults' = faults + 1
      /\ deleted => deleted'
  BY <1>1, RequestMoves
<1>3. ASSUME world' # "none", row' = Absent, ~deleted' PROVE Handles("started")' /\ ~half'
  <2>0. row = Absent
    BY <1>1, <1>3, RequestRow, AbsentAssumption
  <2>1. ~deleted /\ row = Absent
    BY <1>2, <1>3, <2>0
  <2>2. world # "none" => Handles("started") /\ ~half
    BY <2>1 DEF RunInv
  <2>3. QED
    BY <1>1, <1>3, <2>2, StartedStays
<1>4. ASSUME world' = "running", faults' = 0
      PROVE  /\ row' # Absent => row'.status = "RUNNING"
             /\ \A q \in Requests : pc'[q] \notin Idle => pc'[q] # "crash" /\ copy'[q].status = "RUNNING"
  <2>1. faults = 0
    BY <1>1, <1>2, <1>4
  <2>2. CASE world = "none"
    <3>1. StartWorld(r)
      BY <1>4, <2>2 DEF Request, Begin, Load, StopWorld, UpdateWorld, Reread, Look, Fetch, Keep, Heal,
                  Crash, SetStatus, WriteBack, SetCache, Delete, Forget, host
    <3>2. row' = Absent /\ \A q \in Requests \ {r} : pc'[q] \in Idle
      BY <1>2, <2>2, <3>1 DEF StartWorld, QInv, NoneInv
    <3>3. pc'[r] \in {"upsert", "done"} /\ copy'[r] = Row("RUNNING", 1, 0, TRUE, TRUE, 0)
      BY <1>1, <3>1 DEF StartWorld, Goto, IInv, TypeOK
    <3>4. copy'[r].status = "RUNNING"
      BY <3>3 DEF Row
    <3>5. QED
      BY <3>2, <3>3, <3>4
  <2>3. CASE world # "none"
    <3>1. world = "running"
      BY <1>1, <1>4, <2>3 DEF HostStep, HostStays, HostStarts, HostChanges, HostEnds
    <3>2. /\ row # Absent => row.status = "RUNNING"
          /\ \A q \in Requests : pc[q] \notin Idle => pc[q] # "crash" /\ copy[q].status = "RUNNING"
      BY <2>1, <3>1 DEF RunInv
    <3>3. row' # Absent => row'.status = "RUNNING"
      <4>1. WriteBack(r) => copy[r].status = "RUNNING"
        BY <3>2 DEF WriteBack, Idle
      <4>2. pc[r] # "crash"
        BY <3>2 DEF Idle
      <4>3. QED
        BY <1>1, <3>2, <4>1, <4>2, RequestRow
    <3>4. pc'[r] \notin Idle => pc'[r] # "crash" /\ copy'[r].status = "RUNNING"
      BY <1>4, <2>1, <3>1, RequestCopy
    <3>5. QED
      BY <1>2, <3>2, <3>3, <3>4
  <2>4. QED
    BY <2>2, <2>3
<1>5. QED
  BY <1>3, <1>4 DEF RunInv

\* Every step does.
LEMMA RunStep == QInv /\ RunInv /\ [Next]_vars => RunInv'
<1> SUFFICES ASSUME QInv, RunInv, [Next]_vars PROVE RunInv'
  OBVIOUS
<1>1. CASE Change \/ EndWorld
  <2>1. UNCHANGED <<half, row, cache, pc, copy, deleted, faults>> /\ world = "running"
    BY <1>1 DEF Change, EndWorld, requestVars, history
  <2>2. version < MaxVersion => version + 1 \in Versions
    BY HostType DEF QInv
  <2>3. HostStep
    BY <1>1, <2>2 DEF Change, EndWorld, HostStep, HostChanges, HostEnds
  <2>4. Handles("started") /\ ~half /\ world' # "none" => Handles("started")' /\ ~half'
    BY <2>3, StartedStays
  <2>5. QED
    BY <2>1, <2>4 DEF RunInv
<1>2. CASE Handler
  <2>1. UNCHANGED <<world, pc, copy, deleted, faults>> /\ world # "none"
    BY <1>2 DEF Handler, InsertFromEvent, ApplySessionStarted, CacheParameters,
         ApplySessionParametersChanged, ForgetEnded, ApplySessionEnded, requestVars, history, host,
         Handles, QInv, NoneInv
  <2>2. row = Absent /\ row' = Absent => deleted
    <3>1. SUFFICES ASSUME row = Absent, row' = Absent, ~deleted PROVE FALSE
      OBVIOUS
    <3>2. Handles("started") /\ ~half
      BY <2>1, <3>1 DEF RunInv
    <3>3. InsertFromEvent
      BY <1>2, <3>2 DEF Handler, ApplySessionStarted, CacheParameters,
         ApplySessionParametersChanged, ForgetEnded, ApplySessionEnded, Handles
    <3>4. Absent = Row("RUNNING", Stamp, 0, FALSE, FALSE, 0)
      BY <3>1, <3>3 DEF InsertFromEvent
    <3>5. Row("RUNNING", Stamp, 0, FALSE, FALSE, 0) \in Rows
      BY ConstantsAssumption DEF Row, Rows, Versions
    <3>6. QED
      BY <3>4, <3>5, AbsentAssumption
  <2>3. row' = Absent => row = Absent
    BY <1>2, HandlerRow, AbsentAssumption DEF QInv
  <2>4. ASSUME world = "running", row = Absent \/ row.status = "RUNNING", row' # Absent
        PROVE  row'.status = "RUNNING"
    BY <1>2, <2>4, HandlerRow, NotEnded, AbsentAssumption DEF QInv
  <2>5. QED
    BY <2>1, <2>2, <2>3, <2>4 DEF RunInv
<1>3. CASE UNCHANGED vars
  BY <1>3 DEF vars, RunInv, Handles
<1>4. QED
  BY <1>1, <1>2, <1>3, RequestRun DEF Next

\* A running session has a RUNNING row, whether StartSession or its SessionStarted event
\* was first to insert it, unless it was deleted or a call has failed.
THEOREM RunningTheorem == Spec => []RunningConverges
<1>1. Init => RunInv
  BY DEF Init, RunInv
<1>2. QInv /\ RunInv => RunningConverges
  BY ConstantsAssumption DEF QInv, IInv, TypeOK, RunInv, RunningConverges, Quiet, Handles
<1>3. QED
  BY <1>1, <1>2, QInvHolds, RunStep, PTL DEF Spec
================================================================================
