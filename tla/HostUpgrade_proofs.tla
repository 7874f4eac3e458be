--------------------------- MODULE HostUpgrade_proofs ---------------------------
(* Theorems about HostUpgrade, for every set of worlds and images and all bounds. *)
EXTENDS HostUpgrade, TLAPS

\* The constants that stand for goroutines, counts and drains have their types.
LEMMA Goroutines == Tick \in Callers /\ Stream \in Callers /\ Images \subseteq Callers
BY ConstantsAssumption DEF Tick, Stream, Callers, Images

\* Closed, Unknown and zero are counts.
LEMMA SpecialCounts ==
    Closed \in Counts /\ Unknown \in Counts /\ 0 \in Counts /\ NoCounts \in [Worlds -> Counts]
BY ConstantsAssumption DEF Closed, Unknown, Counts, NoCounts

\* A host that is not drained has the type of one that is.
LEMMA NoDrain == NotDraining \in Drains
BY ConstantsAssumption DEF NotDraining, Drains

\* The local variables of the goroutines.
LocalOK ==
    /\ lock \in Callers \cup {Nobody}
    /\ pc \in [Callers -> PCs]
    /\ todo \in [Callers -> SUBSET Worlds]
    /\ busy \in [Callers -> BOOLEAN]
    /\ cur \in [Callers -> SUBSET Worlds]
    /\ seen \in [Callers -> [Worlds -> Counts]]
    /\ taken \in [Callers -> SUBSET Worlds]

\* Leaving reconcileHost, or going on with the next world, keeps them typed.
LEMMA LocalType ==
    ASSUME TypeOK, NEW c \in Callers
    PROVE  /\ Return(c) => LocalOK' /\ emptied' = {} /\ settled' = FALSE
           /\ \A left \in BOOLEAN : Continue(c, left) /\ lock' = lock => LocalOK'
           /\ \A w \in Worlds : Skip(c, w) /\ lock' = lock => LocalOK'
<1>1. ASSUME Return(c) PROVE LocalOK' /\ emptied' = {} /\ settled' = FALSE
  BY <1>1, SpecialCounts DEF Return, Goto, Forget, TypeOK, LocalOK, PCs
<1>2. ASSUME NEW left \in BOOLEAN, Continue(c, left), lock' = lock PROVE LocalOK'
  <2>1. busy' \in [Callers -> BOOLEAN]
    BY <1>2 DEF Continue, TypeOK
  <2>2. QED
    BY <1>2, <2>1, SpecialCounts DEF Continue, Goto, TypeOK, LocalOK, PCs, Section
<1>3. ASSUME NEW w \in Worlds, Skip(c, w), lock' = lock PROVE LocalOK'
  BY <1>3 DEF Skip, TypeOK, LocalOK
<1>4. QED
  BY <1>1, <1>2, <1>3

\* Every reachable state of the host, the database and the orchestrator has the declared
\* types; in particular a drain that is on has attempts left.
THEOREM TypeCorrect == Spec => []TypeOK
<1>1. Init => TypeOK
  <2> SUFFICES ASSUME Init PROVE TypeOK
    OBVIOUS
  <2>1. events \in Seq(Events) /\ rows \in SUBSET Worlds
    BY DEF Init, Open
  <2>2. req \in [Worlds -> {"none", "admitted", "opened", "done"}]
    BY DEF Init
  <2>3. drain \in Drains
    BY NoDrain DEF Init
  <2>4. LocalOK
    BY SpecialCounts DEF Init, LocalOK, PCs
  <2>5. QED
    <3>0. 0 \in 0..MaxImage /\ 0 \in 0..MaxJoins /\ 0 \in 0..MaxFaults
      BY ConstantsAssumption
    <3>1. /\ up \in BOOLEAN /\ image \in 0..MaxImage /\ users \in [Worlds -> Counts] /\ reset \in BOOLEAN
          /\ status \in {"RUNNING", "STOPPING", "STARTING"}
          /\ cancelled \in BOOLEAN /\ newest \in 0..MaxImage /\ lastTag \in 0..MaxImage
          /\ joins \in 0..MaxJoins /\ faults \in 0..MaxFaults
      BY <3>0, Zenon DEF Init
    <3>2. /\ counts \in [Worlds -> Counts]
          /\ emptied \in SUBSET Worlds /\ settled \in BOOLEAN /\ owed \in SUBSET Worlds
      BY SpecialCounts DEF Init
    <3>3. QED
      BY <2>1, <2>2, <2>3, <2>4, <3>1, <3>2 DEF TypeOK, LocalOK
<1>2. TypeOK /\ [Next]_vars => TypeOK'
  <2> SUFFICES ASSUME TypeOK, [Next]_vars PROVE TypeOK'
    OBVIOUS
  <2> USE DEF container, database, local, checker, history
  <2>e. ASSUME NEW kind \in Kinds, NEW w \in Worlds, Emit(kind, w)
        PROVE  events' \in Seq(Events)
    <3>1. [kind |-> kind, w |-> w] \in Events
      BY <2>e DEF Events
    <3>2. QED
      BY <2>e, <3>1 DEF Emit, TypeOK
  <2>f. ASSUME Fault PROVE faults' \in 0..MaxFaults
    BY <2>f, ConstantsAssumption DEF Fault, TypeOK
  <2>g. ASSUME NEW c \in Callers, Works(c) \/ Fails(c) PROVE faults' \in 0..MaxFaults
    BY <2>g, <2>f DEF Works, Fails, TypeOK
  <2>1. ASSUME NEW w \in Worlds, Join(w) PROVE TypeOK'
    <3>1. events' \in Seq(Events)
      BY <2>1, <2>e DEF Join, Kinds
    <3>2. users' \in [Worlds -> Counts] /\ joins' \in 0..MaxJoins
      BY <2>1, ConstantsAssumption DEF Join, TypeOK, Counts
    <3>3. QED
      BY <2>1, <3>1, <3>2 DEF Join, TypeOK
  <2>2. ASSUME NEW w \in Worlds, Leave(w) PROVE TypeOK'
    <3>1. events' \in Seq(Events)
      BY <2>2, <2>e DEF Leave, Kinds
    <3>2. users' \in [Worlds -> Counts] /\ emptied' \in SUBSET Worlds
      BY <2>2, ConstantsAssumption DEF Leave, TypeOK, Counts
    <3>3. QED
      BY <2>2, <3>1, <3>2 DEF Leave, TypeOK
  <2>3. ASSUME NEW w \in Worlds, Close(w) PROVE TypeOK'
    <3>1. events' \in Seq(Events)
      BY <2>3, <2>e DEF Close, Kinds
    <3>2. users' \in [Worlds -> Counts]
      BY <2>3, SpecialCounts DEF Close, TypeOK
    <3>3. QED
      BY <2>3, <3>1, <3>2 DEF Close, TypeOK
  <2>4. ASSUME Evict PROVE TypeOK'
    <3>1. events' \in Seq(Events)
      BY <2>4 DEF Evict
    <3>2. QED
      BY <2>4, <2>f, <3>1 DEF Evict, TypeOK
  <2>5. ASSUME NEW w \in Worlds, Admit(w) \/ Upsert(w) PROVE TypeOK'
    BY <2>5 DEF Admit, Upsert, TypeOK
  <2>6. ASSUME NEW w \in Worlds, StartWorld(w) PROVE TypeOK'
    <3>1. events' \in Seq(Events)
      BY <2>6, <2>e DEF StartWorld, Kinds, TypeOK
    <3>2. users' \in [Worlds -> Counts] /\ emptied' \in SUBSET Worlds
      BY <2>6, SpecialCounts DEF StartWorld, TypeOK
    <3>3. QED
      BY <2>6, <3>1, <3>2 DEF StartWorld, TypeOK
  <2>7. ASSUME HandleHostEvent PROVE TypeOK'
    <3>a. events \in Seq(Events) /\ events # <<>> /\ events' = Tail(events)
      BY <2>7 DEF HandleHostEvent, TypeOK
    <3>1. events' \in Seq(Events) /\ Head(events) \in Events
      BY <3>a
    <3> DEFINE e == Head(events)
    <3>b. e.kind \in Kinds /\ e.w \in Worlds
      BY <3>1 DEF Events
    <3>c. \/ rows' = rows \cup {e.w} /\ counts' = counts
          \/ rows' = rows \ {e.w} /\ counts' = [counts EXCEPT ![e.w] = Unknown]
          \/ rows' = rows /\ (Bump(e.w, 1) \/ Bump(e.w, -1))
      BY <2>7, <3>b DEF HandleHostEvent, Kinds
    <3> HIDE DEF e
    <3>d. ASSUME Bump(e.w, 1) \/ Bump(e.w, -1) PROVE counts' \in [Worlds -> Counts]
      <4>1. PICK d \in {1, -1} : Bump(e.w, d)
        BY <3>d
      <4>2. counts[e.w] \in Int
        BY <3>b, ConstantsAssumption DEF TypeOK, Counts
      <4>3. PICK n \in Int : counts' = [counts EXCEPT ![e.w] = IF n < 0 THEN 0 ELSE IF n > MaxUsers THEN MaxUsers ELSE n]
        <5>1. d \in Int /\ (IF counts[e.w] = Unknown THEN 0 ELSE counts[e.w]) + d \in Int
          BY <4>1, <4>2
        <5>2. QED
          BY <4>1, <5>1 DEF Bump
      <4>4. (IF n < 0 THEN 0 ELSE IF n > MaxUsers THEN MaxUsers ELSE n) \in Counts
        BY ConstantsAssumption DEF Counts
      <4>5. QED
        BY <4>3, <4>4 DEF TypeOK
    <3>2. rows' \in SUBSET Worlds /\ counts' \in [Worlds -> Counts]
      BY <3>b, <3>c, <3>d, SpecialCounts DEF TypeOK
    <3>3. pc' \in [Callers -> PCs]
      BY <2>7, Goroutines DEF HandleHostEvent, Goto, TypeOK, PCs
    <3>4. QED
      BY <2>7, <3>1, <3>2, <3>3 DEF HandleHostEvent, TypeOK
  <2>8. ASSUME HandleHostEventStreamReset PROVE TypeOK'
    <3>1. events' \in Seq(Events)
      BY <2>8 DEF HandleHostEventStreamReset
    <3>2. QED
      BY <2>8, <3>1, Goroutines, SpecialCounts DEF HandleHostEventStreamReset, Goto, TypeOK, PCs, Open
  <2>9. ASSUME WatcherReconcile \/ Publish \/ ReconcileAllDraining PROVE TypeOK'
    <3>1. CASE WatcherReconcile
      BY <3>1 DEF WatcherReconcile, TypeOK
    <3>2. CASE Publish
      BY <3>2, ConstantsAssumption DEF Publish, TypeOK
    <3>3. CASE ReconcileAllDraining
      BY <3>3, Goroutines DEF ReconcileAllDraining, Goto, TypeOK, PCs
    <3>4. QED
      BY <2>9, <3>1, <3>2, <3>3
  <2>10. ASSUME CheckNewImages PROVE TypeOK'
    BY <2>10, ConstantsAssumption DEF CheckNewImages, Goto, TypeOK, PCs, Callers
  <2>11. ASSUME NEW i \in Images, HandleNewImage(i) PROVE TypeOK'
    <3>1. faults' \in 0..MaxFaults
      BY <2>11, <2>f DEF HandleNewImage, TypeOK
    <3>2. QED
      BY <2>11, <3>1, Goroutines DEF HandleNewImage, Goto, TypeOK, PCs
  <2>12. ASSUME NEW i \in Images, EnrollSnapshot(i) PROVE TypeOK'
    <3>1. faults' \in 0..MaxFaults
      BY <2>12, <2>f DEF EnrollSnapshot, TypeOK
    <3>2. taken' \in [Callers -> SUBSET Worlds] /\ pc' \in [Callers -> PCs]
      <4>1. /\ taken \in [Callers -> SUBSET Worlds] /\ pc \in [Callers -> PCs]
            /\ Open \in SUBSET Worlds /\ i \in Callers
        BY Goroutines DEF TypeOK, Open
      <4>2. taken' = taken \/ taken' = [taken EXCEPT ![i] = Open]
        BY <2>12 DEF EnrollSnapshot
      <4>3. pc' = [pc EXCEPT ![i] = "enroll"] \/ pc' = [pc EXCEPT ![i] = "idle"]
        BY <2>12 DEF EnrollSnapshot, Goto
      <4>4. taken' \in [Callers -> SUBSET Worlds]
        BY <4>1, <4>2
      <4>5. pc' \in [Callers -> PCs]
        BY <4>1, <4>3 DEF PCs
      <4>6. QED
        BY <4>4, <4>5
    <3>3. QED
      BY <2>12, <3>1, <3>2 DEF EnrollSnapshot, TypeOK
  <2>13. ASSUME NEW i \in Images, EnrollHost(i) PROVE TypeOK'
    <3>1. faults' \in 0..MaxFaults
      BY <2>13, <2>f DEF EnrollHost, TypeOK
    <3>2. drain' \in Drains
      <4>1. i \in 0..MaxImage /\ taken[i] \in SUBSET Worlds /\ 0 \in 0..MaxAttempts-1
        BY Goroutines, ConstantsAssumption DEF TypeOK, Images
      <4>2. CASE drain' = drain
        BY <4>2 DEF TypeOK
      <4>3. CASE drain' = [on |-> TRUE, tag |-> i, snap |-> taken[i], attempts |-> 0]
        BY <4>1, <4>3 DEF Drains
      <4>4. QED
        BY <2>13, <4>2, <4>3 DEF EnrollHost
    <3>3. QED
      BY <2>13, <3>1, <3>2, Goroutines DEF EnrollHost, Goto, TypeOK, PCs
  <2>14. ASSUME NEW c \in Callers, Seed(c) \/ Seeded(c) PROVE TypeOK'
    <3>1. faults' \in 0..MaxFaults
      BY <2>14, <2>g DEF Seed, Seeded, TypeOK
    <3>2. seen' \in [Callers -> [Worlds -> Counts]] /\ counts' \in [Worlds -> Counts]
      <4>1. /\ seen \in [Callers -> [Worlds -> Counts]]
            /\ users \in [Worlds -> Counts] /\ counts \in [Worlds -> Counts]
        BY DEF TypeOK
      <4>2. \/ seen' = [seen EXCEPT ![c] = users]
            \/ seen' = seen
            \/ seen' = [seen EXCEPT ![c] = NoCounts]
        BY <2>14 DEF Seed, Seeded
      <4>3. counts' = counts \/ counts' = seen[c]
        BY <2>14 DEF Seed, Seeded
      <4>4. seen' \in [Callers -> [Worlds -> Counts]]
        BY <4>1, <4>2, SpecialCounts
      <4>5. counts' \in [Worlds -> Counts]
        BY <4>1, <4>3
      <4>6. QED
        BY <4>4, <4>5
    <3>3. QED
      BY <2>14, <3>1, <3>2 DEF Seed, Seeded, Goto, TypeOK, PCs
  <2>15. ASSUME NEW c \in Callers, Lock(c) PROVE TypeOK'
    <3>1. faults' \in 0..MaxFaults
      BY <2>15, <2>g DEF Lock, TypeOK
    <3>2. LocalOK' /\ emptied' \in SUBSET Worlds /\ settled' \in BOOLEAN
      <4>1. CASE Return(c)
        BY <4>1, LocalType
      <4>2. CASE ~Return(c)
        BY <2>15, <4>2 DEF Lock, Goto, TypeOK, LocalOK, PCs, Section
      <4>3. QED
        BY <4>1, <4>2
    <3>3. QED
      BY <2>15, <3>1, <3>2 DEF Lock, TypeOK, LocalOK
  <2>16. ASSUME NEW c \in Callers, NextWorld(c) PROVE TypeOK'
    <3>1. PICK w \in todo[c] : UserCountForSession(c, w)
      BY <2>16 DEF NextWorld
    <3>2. w \in Worlds
      BY DEF TypeOK
    <3>3. LocalOK'
      <4>1. CASE Skip(c, w)
        BY <2>16, <3>2, <4>1, LocalType DEF NextWorld
      <4>2. CASE ~Skip(c, w)
        <5>1. /\ cur' = [cur EXCEPT ![c] = {w}]
              /\ seen' = [seen EXCEPT ![c] = [NoCounts EXCEPT ![w] = users[w]]]
              /\ Goto(c, "note") /\ UNCHANGED <<todo, busy, taken, lock>>
          BY <2>16, <3>1, <4>2 DEF NextWorld, UserCountForSession
        <5>2. [NoCounts EXCEPT ![w] = users[w]] \in [Worlds -> Counts]
          BY <3>2, SpecialCounts DEF TypeOK
        <5>3. QED
          BY <3>2, <5>1, <5>2 DEF Goto, TypeOK, LocalOK, PCs, Section
      <4>3. QED
        BY <4>1, <4>2
    <3>4. faults' \in 0..MaxFaults
      BY <3>1, <2>g DEF UserCountForSession, TypeOK
    <3>5. QED
      BY <2>16, <3>3, <3>4 DEF NextWorld, TypeOK, LocalOK
  <2>17. ASSUME NEW c \in Callers, Note(c) PROVE TypeOK'
    <3>1. PICK w \in cur[c] :
            /\ counts' = [counts EXCEPT ![w] = seen[c][w]]
            /\ Continue(c, TRUE) \/ (Goto(c, "stop") /\ UNCHANGED local)
      BY <2>17 DEF Note
    <3>2. LocalOK'
      BY <2>17, <3>1, LocalType DEF Note, Goto, TypeOK, LocalOK, PCs, Section
    <3>3. counts' \in [Worlds -> Counts]
      BY <3>1 DEF TypeOK
    <3>4. QED
      BY <2>17, <3>2, <3>3 DEF Note, TypeOK, LocalOK
  <2>18. ASSUME NEW c \in Callers, Stop(c) PROVE TypeOK'
    <3>1. PICK w \in cur[c] :
            /\ \/ users' = [users EXCEPT ![w] = Closed] /\ Emit("ended", w)
                  /\ owed' = owed \cup (cur[c] \cap drain.snap)
               \/ UNCHANGED <<users, events, owed>>
            /\ \/ Goto(c, "save") /\ UNCHANGED local
               \/ Continue(c, TRUE)
            /\ Works(c) \/ Fails(c) \/ UNCHANGED faults
      BY <2>18 DEF Stop
    <3>2. w \in Worlds
      BY DEF TypeOK
    <3>3. LocalOK'
      <4>1. UNCHANGED lock
        BY <2>18 DEF Stop
      <4>2. CASE Continue(c, TRUE)
        BY <4>1, <4>2, LocalType
      <4>3. CASE Goto(c, "save") /\ UNCHANGED local
        BY <4>1, <4>3 DEF Goto, local, TypeOK, LocalOK, PCs, Section
      <4>4. QED
        BY <3>1, <4>2, <4>3
    <3>4. events' \in Seq(Events)
      BY <3>1, <3>2, <2>e DEF Kinds, TypeOK
    <3>5. users' \in [Worlds -> Counts] /\ owed' \in SUBSET Worlds
      <4>1. users \in [Worlds -> Counts] /\ owed \in SUBSET Worlds /\ cur[c] \in SUBSET Worlds
        BY DEF TypeOK
      <4>2. users' \in [Worlds -> Counts]
        BY <3>1, <4>1, SpecialCounts
      <4>3. owed' \in SUBSET Worlds
        BY <3>1, <4>1
      <4>4. QED
        BY <4>2, <4>3
    <3>6. faults' \in 0..MaxFaults
      BY <3>1, <2>g DEF TypeOK
    <3>7. QED
      BY <2>18, <3>3, <3>4, <3>5, <3>6 DEF Stop, TypeOK, LocalOK
  <2>19. ASSUME NEW c \in Callers, Save(c) PROVE TypeOK'
    <3>1. PICK w \in cur[c] :
            /\ \/ rows' = rows \ {w} /\ counts' = [counts EXCEPT ![w] = Unknown]
               \/ UNCHANGED <<rows, counts>>
            /\ Continue(c, TRUE) \/ Continue(c, FALSE)
            /\ Works(c) \/ Fails(c)
      BY <2>19 DEF Save
    <3>2. LocalOK'
      BY <2>19, <3>1, LocalType DEF Save
    <3>3. rows' \in SUBSET Worlds /\ counts' \in [Worlds -> Counts]
      <4>1. rows \in SUBSET Worlds /\ counts \in [Worlds -> Counts]
        BY DEF TypeOK
      <4>2. QED
        BY <3>1, <4>1, SpecialCounts
    <3>4. QED
      BY <2>19, <2>g, <3>1, <3>2, <3>3 DEF Save, TypeOK, LocalOK
  <2>20. ASSUME NEW c \in Callers, SessionsRemain(c) PROVE TypeOK'
    BY <2>20, LocalType DEF SessionsRemain, TypeOK, LocalOK
  <2>21. ASSUME NEW c \in Callers, RestartFailed(c)
         PROVE  /\ LocalOK' /\ emptied' = {} /\ settled' = FALSE
                /\ owed' \in SUBSET Worlds
                /\ counts' \in [Worlds -> Counts]
                /\ drain' \in Drains
    <3>1. /\ drain' \in Drains
          /\ owed' \in SUBSET Worlds /\ counts' \in [Worlds -> Counts]
      <4>1. CASE drain' = NotDraining /\ counts' = NoCounts /\ owed' = {}
        BY <4>1, NoDrain, SpecialCounts
      <4>2. CASE UNCHANGED <<drain, counts, owed>>
        BY <4>2 DEF TypeOK
      <4>3. CASE /\ drain.attempts + 1 < MaxAttempts
                 /\ drain' = [drain EXCEPT !.attempts = @ + 1] /\ UNCHANGED <<counts, owed>>
        <5>1. drain \in Drains /\ owed \in SUBSET Worlds /\ counts \in [Worlds -> Counts]
          BY DEF TypeOK
        <5>2. drain' \in Drains
          BY <4>3, <5>1, ConstantsAssumption DEF Drains
        <5>3. QED
          BY <4>3, <5>1, <5>2
      <4>4. QED
        BY <2>21, <4>1, <4>2, <4>3, ConstantsAssumption, SMTT(60) DEF RestartFailed, TypeOK, Drains
    <3>2. QED
      BY <2>21, <3>1, LocalType DEF RestartFailed
  <2>22. ASSUME Down PROVE /\ up' \in BOOLEAN /\ users' \in [Worlds -> Counts]
                           /\ events' \in Seq(Events)
    <3>1. events' \in Seq(Events)
      BY <2>22 DEF Down
    <3>2. QED
      BY <2>22, <3>1, SpecialCounts DEF Down
  <2>23. ASSUME NEW c \in Callers, RestartBegin(c) PROVE TypeOK'
    <3>1. faults' \in 0..MaxFaults
      BY <2>23, <2>g DEF RestartBegin
    <3>2. CASE RestartFailed(c)
      BY <2>23, <2>21, <3>1, <3>2 DEF RestartBegin, TypeOK, LocalOK
    <3>3. CASE ~RestartFailed(c)
      BY <2>23, <3>1, <3>3 DEF RestartBegin, TypeOK, Goto, PCs, Section, Restarting
    <3>4. QED
      BY <3>2, <3>3
  <2>24. ASSUME NEW c \in Callers, RestartStop(c) PROVE TypeOK'
    <3>1. faults' \in 0..MaxFaults
      BY <2>24, <2>g DEF RestartStop
    <3>2. CASE RestartFailed(c)
      BY <2>24, <2>21, <2>22, <3>1, <3>2 DEF RestartStop, TypeOK, LocalOK
    <3>3. CASE ~RestartFailed(c)
      BY <2>24, <2>22, <3>1, <3>3 DEF RestartStop, TypeOK, Goto, PCs, Section, Restarting
    <3>4. QED
      BY <3>2, <3>3
  <2>25. ASSUME NEW c \in Callers, RestartRemove(c) PROVE TypeOK'
    <3>1. faults' \in 0..MaxFaults
      BY <2>25, <2>g DEF RestartRemove
    <3>2. CASE RestartFailed(c)
      BY <2>25, <2>21, <2>22, <3>1, <3>2 DEF RestartRemove, TypeOK, LocalOK
    <3>3. CASE ~RestartFailed(c)
      BY <2>25, <2>22, <3>1, <3>3 DEF RestartRemove, TypeOK, Goto, PCs, Section, Restarting
    <3>4. QED
      BY <3>2, <3>3
  <2>26. ASSUME NEW c \in Callers, RestartStart(c) PROVE TypeOK'
    <3>1. faults' \in 0..MaxFaults
      BY <2>26, <2>g DEF RestartStart
    <3>2. /\ up' \in BOOLEAN /\ image' \in 0..MaxImage /\ users' \in [Worlds -> Counts]
          /\ reset' \in BOOLEAN /\ status' \in {"RUNNING", "STOPPING", "STARTING"}
      <4>1. /\ up \in BOOLEAN /\ image \in 0..MaxImage /\ users \in [Worlds -> Counts]
            /\ reset \in BOOLEAN /\ status \in {"RUNNING", "STOPPING", "STARTING"}
        BY DEF TypeOK
      <4>2. drain.tag \in 0..MaxImage
        BY DEF TypeOK, Drains
      <4>3. [w \in Worlds |-> IF w \in StartWorlds THEN 0 ELSE Closed] \in [Worlds -> Counts]
        BY SpecialCounts
      <4>4. \/ UNCHANGED <<up, image, users, reset, status>>
            \/ /\ up' = TRUE /\ image' = drain.tag /\ reset' = TRUE /\ status' = "RUNNING"
               /\ users' = [w \in Worlds |-> IF w \in StartWorlds THEN 0 ELSE Closed]
        BY <2>26 DEF RestartStart
      <4>5. users' \in [Worlds -> Counts]
        BY <4>1, <4>3, <4>4
      <4>6. image' \in 0..MaxImage
        BY <4>1, <4>2, <4>4
      <4>7. QED
        BY <4>1, <4>4, <4>5, <4>6
    <3>3. CASE RestartFailed(c)
      BY <2>26, <2>21, <3>1, <3>2, <3>3 DEF RestartStart, TypeOK, LocalOK
    <3>4. CASE ~RestartFailed(c)
      BY <2>26, <3>1, <3>2, <3>4 DEF RestartStart, TypeOK, Goto, PCs, Section, Restarting
    <3>5. QED
      BY <3>3, <3>4
  <2>27. ASSUME NEW c \in Callers, LeaveDrain(c) PROVE TypeOK'
    BY <2>27, LocalType, NoDrain, SpecialCounts DEF LeaveDrain, TypeOK, LocalOK
  <2>28. ASSUME ControllerRestart PROVE TypeOK'
    <3>1. req' \in [Worlds -> {"none", "admitted", "opened", "done"}]
      BY <2>28 DEF ControllerRestart
    <3>2. LocalOK'
      BY <2>28, SpecialCounts DEF ControllerRestart, LocalOK, PCs
    <3>3. faults' \in 0..MaxFaults
      BY <2>28, <2>f DEF ControllerRestart
    <3>4. lastTag' \in 0..MaxImage
      BY <2>28, ConstantsAssumption DEF ControllerRestart
    <3>5. drain' \in Drains /\ counts' \in [Worlds -> Counts]
      BY <2>28, NoDrain, SpecialCounts DEF ControllerRestart
    <3>6. cancelled' \in BOOLEAN /\ emptied' \in SUBSET Worlds /\ settled' \in BOOLEAN /\ owed' \in SUBSET Worlds
      BY <2>28 DEF ControllerRestart
    <3>7. UNCHANGED <<container, database, newest, joins>>
      BY <2>28 DEF ControllerRestart
    <3>8. QED
      BY <3>1, <3>2, <3>3, <3>4, <3>5, <3>6, <3>7 DEF TypeOK, LocalOK
  <2>29. CASE UNCHANGED vars
    BY <2>29 DEF vars, TypeOK
  <2>30. QED
    BY <2>1, <2>2, <2>3, <2>4, <2>5, <2>6, <2>7, <2>8, <2>9, <2>10, <2>11, <2>12, <2>13, <2>14,
       <2>15, <2>16, <2>17, <2>18, <2>19, <2>20, <2>23, <2>24, <2>25, <2>26, <2>27, <2>28, <2>29
       DEF Next, Reconcile
<1>3. QED
  BY <1>1, <1>2, PTL DEF Spec

--------------------------------------------------------------------------------
(* The critical section of reconcileHost *)

\* Who is between Lock and Unlock holds the host's lock, and the host is being drained.
LockInv == \A c \in Callers : pc[c] \in Section => lock = c /\ drain.on

\* A step of a goroutine outside of the section, into which it does not go.
LEMMA StaysOut ==
    ASSUME TypeOK, LockInv, NEW c \in Callers, NEW l \in PCs \ Section, Goto(c, l),
           lock' = lock, drain' = drain \/ drain'.on
    PROVE  LockInv'
BY DEF LockInv, TypeOK, Goto

\* A step within the section.
LEMMA StaysIn ==
    ASSUME TypeOK, LockInv, NEW c \in Callers, pc[c] \in Section,
           pc' = pc \/ \E l \in PCs : Goto(c, l), lock' = lock, drain' = drain
    PROVE  LockInv'
BY DEF LockInv, TypeOK, Goto

\* The section is left, or not entered.
LEMMA GoesOut ==
    ASSUME TypeOK, LockInv, NEW c \in Callers, pc[c] \in Section \/ lock = Nobody, Return(c)
    PROVE  LockInv'
<1>1. Nobody \notin Callers
  BY ConstantsAssumption DEF Nobody, Callers
<1>2. \A d \in Callers \ {c} : pc[d] \notin Section
  BY <1>1 DEF LockInv
<1>3. pc'[c] = "idle" /\ \A d \in Callers \ {c} : pc'[d] = pc[d]
  BY DEF Return, Goto, TypeOK
<1>4. "idle" \notin Section
  BY DEF Section, Restarting
<1>5. QED
  BY <1>2, <1>3, <1>4 DEF LockInv

\* No step lets a second goroutine in, or ends the drain under one that is in.
LEMMA LockStep == TypeOK /\ LockInv /\ [Next]_vars => LockInv'
<1> SUFFICES ASSUME TypeOK, LockInv, [Next]_vars PROVE LockInv'
  OBVIOUS
<1> USE DEF local
<1>s. /\ {"idle", "listing", "snapshot", "enroll", "seed", "seeded", "lock"} \subseteq PCs \ Section
      /\ {"next", "note", "stop", "save", "stopping", "removing", "starting", "leave"} \subseteq PCs \cap Section
  BY DEF PCs, Section, Restarting
<1>u. ASSUME UNCHANGED <<pc, lock, drain>> PROVE LockInv'
  BY <1>u DEF LockInv
<1>1. ASSUME NEW w \in Worlds,
             Join(w) \/ Leave(w) \/ Close(w) \/ Admit(w) \/ StartWorld(w) \/ Upsert(w)
      PROVE  LockInv'
  BY <1>1, <1>u DEF Join, Leave, Close, Admit, StartWorld, Upsert
<1>2. ASSUME Evict \/ WatcherReconcile \/ Publish PROVE LockInv'
  BY <1>2, <1>u DEF Evict, WatcherReconcile, Publish
<1>3. ASSUME HandleHostEvent PROVE LockInv'
  <2>1. \E l \in {"lock", "idle"} : Goto(Stream, l)
    BY <1>3 DEF HandleHostEvent
  <2>2. QED
    BY <1>3, <1>s, <2>1, StaysOut, Goroutines DEF HandleHostEvent
<1>4. ASSUME HandleHostEventStreamReset PROVE LockInv'
  <2>1. \E l \in {"seed", "idle"} : Goto(Stream, l)
    BY <1>4 DEF HandleHostEventStreamReset
  <2>2. QED
    BY <1>4, <1>s, <2>1, StaysOut, Goroutines DEF HandleHostEventStreamReset
<1>5. ASSUME CheckNewImages PROVE LockInv'
  <2>1. CASE UNCHANGED pc
    BY <1>5, <1>u, <2>1 DEF CheckNewImages
  <2>2. CASE Goto(newest, "listing")
    <3>1. newest \in Callers
      BY ConstantsAssumption DEF TypeOK, Callers
    <3>2. QED
      BY <1>5, <1>s, <2>2, <3>1, StaysOut DEF CheckNewImages
  <2>3. QED
    BY <1>5, <2>1, <2>2 DEF CheckNewImages
<1>6. ASSUME NEW i \in Images, HandleNewImage(i) \/ EnrollSnapshot(i) PROVE LockInv'
  <2>1. \E l \in {"snapshot", "idle", "enroll"} : Goto(i, l)
    BY <1>6 DEF HandleNewImage, EnrollSnapshot
  <2>2. QED
    BY <1>6, <1>s, <2>1, StaysOut, Goroutines DEF HandleNewImage, EnrollSnapshot
<1>7. ASSUME NEW i \in Images, EnrollHost(i) PROVE LockInv'
  <2>1. \E l \in {"seed", "idle"} : Goto(i, l)
    BY <1>7 DEF EnrollHost
  <2>2. (drain' = drain \/ drain'.on) /\ lock' = lock
    BY <1>7 DEF EnrollHost
  <2>3. QED
    BY <1>s, <2>1, <2>2, StaysOut, Goroutines
<1>8. ASSUME ReconcileAllDraining PROVE LockInv'
  BY <1>8, <1>s, StaysOut, Goroutines DEF ReconcileAllDraining
<1>9. ASSUME NEW c \in Callers, Seed(c) \/ Seeded(c) PROVE LockInv'
  <2>1. \E l \in {"seeded", "lock"} : Goto(c, l)
    BY <1>9 DEF Seed, Seeded
  <2>2. QED
    BY <1>9, <1>s, <2>1, StaysOut DEF Seed, Seeded
<1>10. ASSUME NEW c \in Callers, Lock(c) PROVE LockInv'
  <2>1. CASE Return(c)
    BY <1>10, <2>1, GoesOut DEF Lock
  <2>2. CASE ~Return(c)
    <3>1. drain.on /\ drain' = drain /\ lock = Nobody /\ lock' = c /\ Goto(c, "next")
      BY <1>10, <2>2 DEF Lock
    <3>2. Nobody \notin Callers
      BY ConstantsAssumption DEF Nobody, Callers
    <3>3. QED
      BY <3>1, <3>2 DEF LockInv, TypeOK, Goto
  <2>3. QED
    BY <2>1, <2>2
<1>11. ASSUME NEW c \in Callers, NextWorld(c) \/ Note(c) \/ Stop(c) \/ Save(c) PROVE LockInv'
  <2>1. pc' = pc \/ \E l \in {"next", "note", "stop", "save"} : Goto(c, l)
    BY <1>11 DEF NextWorld, UserCountForSession, Skip, Note, Stop, Save, Continue
  <2>2. pc[c] \in Section /\ lock' = lock /\ drain' = drain
    BY <1>11, <1>s DEF NextWorld, Note, Stop, Save
  <2>3. QED
    BY <1>s, <2>1, <2>2, StaysIn
<1>12. ASSUME NEW c \in Callers, SessionsRemain(c) PROVE LockInv'
  BY <1>12, <1>s, GoesOut DEF SessionsRemain
<1>13. ASSUME NEW c \in Callers,
              RestartBegin(c) \/ RestartStop(c) \/ RestartRemove(c) \/ RestartStart(c)
       PROVE  LockInv'
  <2>1. pc[c] \in Section
    BY <1>13, <1>s DEF RestartBegin, RestartStop, RestartRemove, RestartStart
  <2>2. CASE RestartFailed(c)
    BY <2>1, <2>2, GoesOut DEF RestartFailed
  <2>3. CASE ~RestartFailed(c)
    <3>1. /\ \E l \in {"stopping", "removing", "starting", "leave"} : Goto(c, l)
          /\ lock' = lock /\ drain' = drain
      BY <1>13, <2>3 DEF RestartBegin, RestartStop, RestartRemove, RestartStart
    <3>2. QED
      BY <1>s, <2>1, <3>1, StaysIn
  <2>4. QED
    BY <2>2, <2>3
<1>14. ASSUME NEW c \in Callers, LeaveDrain(c) PROVE LockInv'
  BY <1>14, <1>s, GoesOut DEF LeaveDrain
<1>15. ASSUME ControllerRestart PROVE LockInv'
  BY <1>15, <1>s DEF ControllerRestart, LockInv
<1>16. CASE UNCHANGED vars
  BY <1>16, <1>u DEF vars
<1>17. QED
  BY <1>1, <1>2, <1>3, <1>4, <1>5, <1>6, <1>7, <1>8, <1>9, <1>10, <1>11, <1>12, <1>13, <1>14,
     <1>15, <1>16 DEF Next, Reconcile

\* Types and lock discipline hold for ever.
LEMMA LockHolds == Spec => [](TypeOK /\ LockInv)
<1>1. Init => LockInv
  BY DEF Init, LockInv, Section, Restarting
<1>2. QED
  BY <1>1, LockStep, TypeCorrect, PTL DEF Spec

\* However ticker, stream and image goroutines interleave, whatever calls fail and
\* whenever the controller is restarted, at most one of them is within reconcileHost's
\* critical section, and a restart of the host is under way only while it is draining.
THEOREM ExclusiveTheorem == Spec => []RestartIsExclusive
<1>1. LockInv => RestartIsExclusive
  BY DEF LockInv, RestartIsExclusive, Section
<1>2. QED
  BY <1>1, LockHolds, PTL

--------------------------------------------------------------------------------
(* What is stopped was seen empty *)

\* From Lock to the restart, every world that has no user now has been without users
\* since the lock was taken; the world that is looked at was empty if its count says so.
EmptyAt(c) ==
    /\ pc[c] \in Section \ {"leave"} => \A w \in Worlds : users[w] = 0 => w \in emptied
    /\ pc[c] = "note" => \A w \in cur[c] : cur[c] = {w} /\ (seen[c][w] <= 0 => w \in emptied)
    /\ pc[c] = "stop" => cur[c] \subseteq emptied

EmptyInv == \A c \in Callers : EmptyAt(c)

\* A step outside of the section.
LEMMA EmptyOutside ==
    ASSUME TypeOK, EmptyInv, NEW c \in Callers, NEW l \in PCs \ Section, Goto(c, l),
           users' = users, emptied' = emptied, cur' = cur,
           \A d \in Callers \ {c} : seen'[d] = seen[d]
    PROVE  EmptyInv'
<1> SUFFICES ASSUME NEW d \in Callers PROVE EmptyAt(d)'
  BY DEF EmptyInv
<1>1. CASE d = c
  <2>1. pc'[c] \notin Section
    BY DEF Goto, TypeOK
  <2>2. "note" \in Section /\ "stop" \in Section
    BY DEF Section
  <2>3. QED
    BY <1>1, <2>1, <2>2 DEF EmptyAt
<1>2. CASE d # c
  <2>1. pc'[d] = pc[d] /\ seen'[d] = seen[d]
    BY <1>2 DEF Goto, TypeOK
  <2>2. EmptyAt(d)
    BY DEF EmptyInv
  <2>3. QED
    BY <2>1, <2>2 DEF EmptyAt
<1>3. QED
  BY <1>1, <1>2

\* A step of the goroutine that holds the lock or takes it.
LEMMA EmptyInside ==
    ASSUME TypeOK, LockInv, NEW c \in Callers, pc[c] \in Section \/ lock = Nobody,
           pc' = pc \/ \E l \in PCs : Goto(c, l), EmptyAt(c)'
    PROVE  EmptyInv'
<1>1. \A d \in Callers \ {c} : pc[d] \notin Section
  BY ConstantsAssumption DEF LockInv, Nobody, Callers
<1>2. \A d \in Callers \ {c} : pc'[d] = pc[d]
  BY DEF Goto, TypeOK
<1>3. "note" \in Section /\ "stop" \in Section
  BY DEF Section
<1>4. QED
  BY <1>1, <1>2, <1>3 DEF EmptyInv, EmptyAt

\* Users come, leave and close worlds while reconcileHost runs; what is empty stays noted.
LEMMA EmptyStep == TypeOK /\ LockInv /\ EmptyInv /\ [Next]_vars => EmptyInv'
<1> SUFFICES ASSUME TypeOK, LockInv, EmptyInv, [Next]_vars PROVE EmptyInv'
  OBVIOUS
<1> USE DEF local, container, history
<1>s. /\ {"idle", "listing", "snapshot", "enroll", "seed", "seeded", "lock"} \subseteq PCs \ Section
      /\ {"next", "note", "stop", "save", "stopping", "removing", "starting", "leave"} \subseteq PCs \cap Section
  BY DEF PCs, Section, Restarting
<1>u. ASSUME UNCHANGED <<pc, users, emptied, cur, seen>> PROVE EmptyInv'
  BY <1>u DEF EmptyInv, EmptyAt
\* a world changes; it is not empty afterwards, or noted as empty
<1>w. ASSUME NEW w \in Worlds, UNCHANGED <<pc, cur, seen, lock>>, emptied \subseteq emptied',
             \A v \in Worlds \ {w} : users'[v] = users[v],
             lock # Nobody => users'[w] # 0 \/ w \in emptied'
      PROVE  EmptyInv'
  <2>1. \A c \in Callers : pc[c] \in Section => lock # Nobody
    BY ConstantsAssumption DEF LockInv, Nobody, Callers
  <2>2. QED
    BY <1>w, <2>1 DEF EmptyInv, EmptyAt
<1>1. ASSUME NEW w \in Worlds, Join(w) PROVE EmptyInv'
  <2>1. users' = [users EXCEPT ![w] = users[w] + 1] /\ users'[w] # 0
    BY <1>1, ConstantsAssumption DEF Join, TypeOK
  <2>2. QED
    BY <1>1, <1>w, <2>1 DEF Join, TypeOK
<1>2. ASSUME NEW w \in Worlds, Leave(w) PROVE EmptyInv'
  <2>1. users' = [users EXCEPT ![w] = users[w] - 1] /\ (users'[w] = 0 => users[w] = 1)
    BY <1>2, ConstantsAssumption DEF Leave, TypeOK, Counts
  <2>2. QED
    BY <1>2, <1>w, <2>1 DEF Leave, TypeOK
<1>3. ASSUME NEW w \in Worlds, Close(w) PROVE EmptyInv'
  BY <1>3, <1>w DEF Close, TypeOK, Closed
<1>4. ASSUME NEW w \in Worlds, StartWorld(w) PROVE EmptyInv'
  BY <1>4, <1>w, <1>u DEF StartWorld, TypeOK
<1>5. ASSUME NEW w \in Worlds, Admit(w) \/ Upsert(w) PROVE EmptyInv'
  BY <1>5, <1>u DEF Admit, Upsert
<1>6. ASSUME Evict \/ WatcherReconcile \/ Publish PROVE EmptyInv'
  BY <1>6, <1>u DEF Evict, WatcherReconcile, Publish
<1>7. ASSUME HandleHostEvent \/ HandleHostEventStreamReset PROVE EmptyInv'
  <2>1. \E l \in {"lock", "seed", "idle"} : Goto(Stream, l)
    BY <1>7 DEF HandleHostEvent, HandleHostEventStreamReset
  <2>2. UNCHANGED <<users, emptied, cur, seen>>
    BY <1>7 DEF HandleHostEvent, HandleHostEventStreamReset
  <2>3. QED
    BY <1>s, <2>1, <2>2, EmptyOutside, Goroutines
<1>8. ASSUME CheckNewImages PROVE EmptyInv'
  <2>1. CASE UNCHANGED pc
    BY <1>8, <1>u, <2>1 DEF CheckNewImages
  <2>2. CASE Goto(newest, "listing")
    <3>1. newest \in Callers
      BY ConstantsAssumption DEF TypeOK, Callers
    <3>2. QED
      BY <1>8, <1>s, <2>2, <3>1, EmptyOutside DEF CheckNewImages
  <2>3. QED
    BY <1>8, <2>1, <2>2 DEF CheckNewImages
<1>9. ASSUME NEW i \in Images, HandleNewImage(i) \/ EnrollSnapshot(i) \/ EnrollHost(i)
      PROVE  EmptyInv'
  <2>1. \E l \in {"snapshot", "idle", "enroll", "seed"} : Goto(i, l)
    BY <1>9 DEF HandleNewImage, EnrollSnapshot, EnrollHost
  <2>2. UNCHANGED <<users, emptied, cur, seen>>
    BY <1>9 DEF HandleNewImage, EnrollSnapshot, EnrollHost
  <2>3. QED
    BY <1>s, <2>1, <2>2, EmptyOutside, Goroutines
<1>10. ASSUME ReconcileAllDraining PROVE EmptyInv'
  BY <1>10, <1>s, EmptyOutside, Goroutines DEF ReconcileAllDraining
<1>11. ASSUME NEW c \in Callers, Seed(c) \/ Seeded(c) PROVE EmptyInv'
  <2>1. \E l \in {"seeded", "lock"} : Goto(c, l)
    BY <1>11 DEF Seed, Seeded
  <2>2. UNCHANGED <<users, emptied, cur>> /\ \A d \in Callers \ {c} : seen'[d] = seen[d]
    BY <1>11 DEF Seed, Seeded, TypeOK
  <2>3. QED
    BY <1>s, <2>1, <2>2, EmptyOutside
\* a goroutine that has left the section
<1>r. ASSUME NEW c \in Callers, Return(c), pc[c] \in Section \/ lock = Nobody PROVE EmptyInv'
  <2>1. pc'[c] = "idle" /\ Goto(c, "idle")
    BY <1>r DEF Return, Goto, TypeOK
  <2>2. EmptyAt(c)'
    BY <1>s, <2>1 DEF EmptyAt
  <2>3. QED
    BY <1>s, <1>r, <2>1, <2>2, EmptyInside
<1>12. ASSUME NEW c \in Callers, Lock(c) PROVE EmptyInv'
  <2>1. CASE Return(c)
    BY <1>12, <1>r, <2>1 DEF Lock
  <2>2. CASE ~Return(c)
    <3>1. lock = Nobody /\ Goto(c, "next") /\ emptied' = {w \in Worlds : users[w] = 0} /\ users' = users
      BY <1>12, <2>2 DEF Lock
    <3>2. pc'[c] = "next"
      BY <3>1 DEF Goto, TypeOK
    <3>3. EmptyAt(c)'
      BY <3>1, <3>2 DEF EmptyAt
    <3>4. QED
      BY <1>s, <3>1, <3>3, EmptyInside
  <2>3. QED
    BY <2>1, <2>2
\* on to the next world
<1>n. ASSUME NEW c \in Callers, NEW left \in BOOLEAN, Continue(c, left), emptied' = emptied,
             pc[c] \in Section \ {"leave"}, \A w \in Worlds : users'[w] = 0 => users[w] = 0
      PROVE  EmptyInv'
  <2>1. pc'[c] = "next" /\ Goto(c, "next")
    BY <1>n DEF Continue, Goto, TypeOK
  <2>2. EmptyAt(c)'
    BY <1>n, <2>1 DEF EmptyInv, EmptyAt
  <2>3. QED
    BY <1>n, <1>s, <2>1, <2>2, EmptyInside
<1>13. ASSUME NEW c \in Callers, NextWorld(c) PROVE EmptyInv'
  <2>1. PICK w \in todo[c] : UserCountForSession(c, w)
    BY <1>13 DEF NextWorld
  <2>2. pc[c] = "next" /\ UNCHANGED <<users, emptied>> /\ w \in Worlds
    BY <1>13 DEF NextWorld, TypeOK
  <2>3. CASE Skip(c, w)
    BY <1>u, <2>2, <2>3 DEF Skip
  <2>4. CASE ~Skip(c, w)
    <3>1. /\ users[w] # Closed /\ Goto(c, "note")
          /\ cur' = [cur EXCEPT ![c] = {w}]
          /\ seen' = [seen EXCEPT ![c] = [NoCounts EXCEPT ![w] = users[w]]]
      BY <2>1, <2>4 DEF UserCountForSession
    <3>2. pc'[c] = "note" /\ cur'[c] = {w} /\ seen'[c][w] = users[w]
      BY <2>2, <3>1 DEF TypeOK, Goto, NoCounts
    <3>3. users[w] <= 0 => w \in emptied
      <4>1. users[w] <= 0 => users[w] = 0
        BY <2>2, <3>1, ConstantsAssumption DEF TypeOK, Counts, Closed
      <4>2. QED
        BY <1>s, <2>2, <4>1 DEF EmptyInv, EmptyAt
    <3>4. EmptyAt(c)'
      BY <1>s, <2>2, <3>2, <3>3 DEF EmptyInv, EmptyAt
    <3>5. QED
      BY <1>s, <2>2, <3>1, <3>4, EmptyInside
  <2>5. QED
    BY <2>3, <2>4
<1>14. ASSUME NEW c \in Callers, Note(c) PROVE EmptyInv'
  <2>1. PICK w \in cur[c] : \/ Continue(c, TRUE)
                            \/ seen[c][w] <= 0 /\ Goto(c, "stop") /\ UNCHANGED local
    BY <1>14 DEF Note
  <2>2. pc[c] = "note" /\ UNCHANGED <<users, emptied>>
    BY <1>14 DEF Note
  <2>3. CASE Continue(c, TRUE)
    BY <1>n, <1>s, <2>2, <2>3
  <2>4. CASE ~Continue(c, TRUE)
    <3>1. seen[c][w] <= 0 /\ Goto(c, "stop") /\ pc'[c] = "stop" /\ UNCHANGED local
      BY <2>1, <2>4 DEF Goto, TypeOK
    <3>2. cur[c] \subseteq emptied
      BY <2>2, <3>1 DEF EmptyInv, EmptyAt
    <3>3. EmptyAt(c)'
      BY <1>s, <2>2, <3>1, <3>2 DEF EmptyInv, EmptyAt
    <3>4. QED
      BY <1>s, <2>2, <3>1, <3>3, EmptyInside
  <2>5. QED
    BY <2>3, <2>4
<1>15. ASSUME NEW c \in Callers, Stop(c) PROVE EmptyInv'
  <2>1. pc[c] = "stop" /\ emptied' = emptied
    BY <1>15 DEF Stop
  <2>2. \A w \in Worlds : users'[w] = 0 => users[w] = 0
    <3>1. users' = users \/ \E w \in cur[c] : users' = [users EXCEPT ![w] = Closed]
      BY <1>15 DEF Stop
    <3>2. QED
      BY <3>1 DEF TypeOK, Closed
  <2>3. CASE Continue(c, TRUE)
    BY <1>n, <1>s, <2>1, <2>2, <2>3
  <2>4. CASE ~Continue(c, TRUE)
    <3>1. Goto(c, "save") /\ pc'[c] = "save"
      BY <1>15, <2>4 DEF Stop, Goto, TypeOK
    <3>2. EmptyAt(c)'
      BY <1>s, <2>1, <2>2, <3>1 DEF EmptyInv, EmptyAt
    <3>3. QED
      BY <1>s, <2>1, <3>1, <3>2, EmptyInside
  <2>5. QED
    BY <2>3, <2>4
<1>16. ASSUME NEW c \in Callers, Save(c) PROVE EmptyInv'
  <2>1. pc[c] = "save" /\ UNCHANGED <<users, emptied>>
    BY <1>16 DEF Save
  <2>2. \E left \in BOOLEAN : Continue(c, left)
    BY <1>16 DEF Save
  <2>3. QED
    BY <1>n, <1>s, <2>1, <2>2
<1>17. ASSUME NEW c \in Callers, SessionsRemain(c) \/ LeaveDrain(c) PROVE EmptyInv'
  BY <1>17, <1>s, <1>r DEF SessionsRemain, LeaveDrain
<1>18. ASSUME NEW c \in Callers, RestartBegin(c) \/ RestartStop(c) \/ RestartRemove(c)
       PROVE  EmptyInv'
  <2>1. pc[c] \in Section \ {"leave"}
    BY <1>18, <1>s DEF RestartBegin, RestartStop, RestartRemove
  <2>2. CASE RestartFailed(c)
    BY <1>r, <2>1, <2>2 DEF RestartFailed
  <2>3. CASE ~RestartFailed(c)
    <3>1. PICK l \in {"stopping", "removing", "starting"} : Goto(c, l)
      BY <1>18, <2>3 DEF RestartBegin, RestartStop, RestartRemove
    <3>2. emptied' = emptied /\ \A w \in Worlds : users'[w] = 0 => users[w] = 0
      BY <1>18, <2>3 DEF RestartBegin, RestartStop, RestartRemove, Down, Closed
    <3>3. pc'[c] = l
      BY <3>1 DEF Goto, TypeOK
    <3>4. EmptyAt(c)'
      BY <2>1, <3>2, <3>3 DEF EmptyInv, EmptyAt
    <3>5. QED
      BY <1>s, <2>1, <3>1, <3>4, EmptyInside
  <2>4. QED
    BY <2>2, <2>3
<1>19. ASSUME NEW c \in Callers, RestartStart(c) PROVE EmptyInv'
  <2>1. pc[c] \in Section
    BY <1>19, <1>s DEF RestartStart
  <2>2. CASE RestartFailed(c)
    BY <1>r, <2>1, <2>2 DEF RestartFailed
  <2>3. CASE ~RestartFailed(c)
    <3>1. Goto(c, "leave") /\ pc'[c] = "leave"
      BY <1>19, <2>3 DEF RestartStart, Goto, TypeOK
    <3>2. EmptyAt(c)'
      BY <3>1 DEF EmptyAt
    <3>3. QED
      BY <1>s, <2>1, <3>1, <3>2, EmptyInside
  <2>4. QED
    BY <2>2, <2>3
<1>20. ASSUME ControllerRestart PROVE EmptyInv'
  BY <1>20, <1>s DEF ControllerRestart, EmptyInv, EmptyAt
<1>21. CASE UNCHANGED vars
  BY <1>21, <1>u DEF vars
<1>22. QED
  BY <1>1, <1>2, <1>3, <1>4, <1>5, <1>6, <1>7, <1>8, <1>9, <1>10, <1>11, <1>12, <1>13, <1>14,
     <1>15, <1>16, <1>17, <1>18, <1>19, <1>20, <1>21 DEF Next, Reconcile

\* Whatever is lost, repeated or stale in the cache of user counts, a session that the
\* orchestrator is about to stop was without users at some time since the lock was taken.
THEOREM StopTheorem == Spec => []StopIsVerified
<1>1. Init => EmptyInv
  BY DEF Init, EmptyInv, EmptyAt, Section, Restarting
<1>2. EmptyInv => StopIsVerified
  BY DEF EmptyInv, EmptyAt, StopIsVerified
<1>3. QED
  BY <1>1, <1>2, LockHolds, EmptyStep, PTL DEF Spec

--------------------------------------------------------------------------------
(* What the restart brings back *)

\* The worlds that are owed are in the snapshot with which the host will be started.
OwedInv == owed \subseteq drain.snap

\* Stop owes only what is in the snapshot, and no failed attempt changes the snapshot.
LEMMA OwedStep == TypeOK /\ OwedInv /\ [Next]_vars => OwedInv'
<1> SUFFICES ASSUME TypeOK, OwedInv, [Next]_vars PROVE OwedInv'
  OBVIOUS
<1> USE DEF history
<1>u. ASSUME UNCHANGED <<drain, owed>> PROVE OwedInv'
  BY <1>u DEF OwedInv
<1>z. ASSUME owed' = {} PROVE OwedInv'
  BY <1>z DEF OwedInv
<1>1. ASSUME NEW w \in Worlds,
             Join(w) \/ Leave(w) \/ Close(w) \/ Admit(w) \/ StartWorld(w) \/ Upsert(w)
      PROVE  OwedInv'
  BY <1>1, <1>u DEF Join, Leave, Close, Admit, StartWorld, Upsert
<1>2. ASSUME \/ Evict \/ HandleHostEvent \/ HandleHostEventStreamReset \/ WatcherReconcile
             \/ Publish \/ CheckNewImages \/ ReconcileAllDraining
      PROVE  OwedInv'
  BY <1>2, <1>u DEF Evict, HandleHostEvent, HandleHostEventStreamReset, WatcherReconcile,
                    Publish, CheckNewImages, ReconcileAllDraining
<1>3. ASSUME NEW i \in Images, HandleNewImage(i) \/ EnrollSnapshot(i) \/ EnrollHost(i)
      PROVE  OwedInv'
  BY <1>3, <1>u, <1>z DEF HandleNewImage, EnrollSnapshot, EnrollHost
<1>4. ASSUME NEW c \in Callers, Seed(c) \/ Seeded(c) \/ Lock(c) \/ NextWorld(c) \/ Note(c)
                                \/ Save(c) \/ SessionsRemain(c)
      PROVE  OwedInv'
  BY <1>4, <1>u DEF Seed, Seeded, Lock, NextWorld, Note, Save, SessionsRemain
<1>5. ASSUME NEW c \in Callers, Stop(c) PROVE OwedInv'
  BY <1>5 DEF Stop, OwedInv
<1>6. ASSUME NEW c \in Callers,
             RestartBegin(c) \/ RestartStop(c) \/ RestartRemove(c) \/ RestartStart(c)
      PROVE  OwedInv'
  <2>1. CASE RestartFailed(c)
    <3>1. drain \in Drains
      BY DEF TypeOK
    <3>2. owed' = {} \/ (owed' = owed /\ drain'.snap = drain.snap)
      BY <2>1, <3>1 DEF RestartFailed, Drains
    <3>3. QED
      BY <3>2 DEF OwedInv
  <2>2. CASE ~RestartFailed(c)
    BY <1>6, <1>u, <2>2 DEF RestartBegin, RestartStop, RestartRemove, RestartStart
  <2>3. QED
    BY <2>1, <2>2
<1>7. ASSUME NEW c \in Callers, LeaveDrain(c) PROVE OwedInv'
  BY <1>7, <1>z DEF LeaveDrain
<1>8. ASSUME ControllerRestart PROVE OwedInv'
  BY <1>8, <1>z DEF ControllerRestart
<1>9. CASE UNCHANGED vars
  BY <1>9, <1>u DEF vars
<1>10. QED
  BY <1>1, <1>2, <1>3, <1>4, <1>5, <1>6, <1>7, <1>8, <1>9 DEF Next, Reconcile

\* Only StartNewContainer brings the host up, and it opens the snapshot.
LEMMA UpStep ==
    TypeOK /\ OwedInv /\ [Next]_vars => (up' /\ ~up => owed \subseteq Open')
<1> SUFFICES ASSUME TypeOK, OwedInv, [Next]_vars, up', ~up PROVE owed \subseteq Open'
  OBVIOUS
<1> USE DEF container, Down
<1>1. \A w \in Worlds : ~(Join(w) \/ Leave(w) \/ Close(w) \/ Admit(w) \/ StartWorld(w) \/ Upsert(w))
  BY DEF Join, Leave, Close, Admit, StartWorld, Upsert
<1>2. ~(\/ Evict \/ HandleHostEvent \/ HandleHostEventStreamReset \/ WatcherReconcile
        \/ Publish \/ CheckNewImages \/ ReconcileAllDraining \/ ControllerRestart)
  BY DEF Evict, HandleHostEvent, HandleHostEventStreamReset, WatcherReconcile,
         Publish, CheckNewImages, ReconcileAllDraining, ControllerRestart
<1>3. \A i \in Images : ~(HandleNewImage(i) \/ EnrollSnapshot(i) \/ EnrollHost(i))
  BY DEF HandleNewImage, EnrollSnapshot, EnrollHost
<1>4. \A c \in Callers : ~(\/ Seed(c) \/ Seeded(c) \/ Lock(c) \/ NextWorld(c) \/ Note(c)
                           \/ Stop(c) \/ Save(c) \/ SessionsRemain(c) \/ LeaveDrain(c))
  BY DEF Seed, Seeded, Lock, NextWorld, Note, Stop, Save, SessionsRemain, LeaveDrain
<1>5. \A c \in Callers : ~(RestartBegin(c) \/ RestartStop(c) \/ RestartRemove(c))
  BY DEF RestartBegin, RestartStop, RestartRemove
<1>6. ~UNCHANGED vars
  BY DEF vars
<1>7. PICK c \in Callers : RestartStart(c)
  BY <1>1, <1>2, <1>3, <1>4, <1>5, <1>6 DEF Next, Reconcile
<1>8. users' = [w \in Worlds |-> IF w \in drain.snap THEN 0 ELSE Closed]
  BY <1>7 DEF RestartStart, StartWorlds
<1>9. owed \subseteq Worlds /\ owed \subseteq drain.snap
  BY DEF TypeOK, OwedInv
<1>10. QED
  BY <1>8, <1>9 DEF Open, Closed

\* However often the restart fails first, and even if the controller's view changes in
\* between, the restart that succeeds opens every world that was stopped for it and that
\* was open at the snapshot.
THEOREM ComeBackTheorem == Spec => WorldsComeBack
<1>1. Init => OwedInv
  BY DEF Init, OwedInv
<1>2. TypeOK /\ OwedInv /\ [Next]_vars => [up' /\ ~up => owed \subseteq Open']_vars
  BY UpStep
<1>3. Spec => [](TypeOK /\ OwedInv)
  BY <1>1, OwedStep, TypeCorrect, PTL DEF Spec
<1>4. QED
  BY <1>2, <1>3, PTL DEF Spec, WorldsComeBack

--------------------------------------------------------------------------------
(* Rows and open worlds *)

\* The worlds whose StartSession has been answered by the host, and those that were open
\* from the start.
Known == {w \in Worlds : req[w] \in {"opened", "done"}}

\* Only such worlds are open, in a snapshot, or started again.
KnownInv ==
    /\ Open \subseteq Known
    /\ drain.snap \subseteq Known
    /\ \A c \in Callers : taken[c] \subseteq Known

\* Snapshots and restarts bring back only worlds that were open before.
LEMMA KnownStep == TypeOK /\ KnownInv /\ [Next]_vars => KnownInv'
<1> SUFFICES ASSUME TypeOK, KnownInv, [Next]_vars PROVE KnownInv'
  OBVIOUS
<1> USE DEF local, container
<1>u. ASSUME UNCHANGED <<users, req, drain, taken>> PROVE KnownInv'
  BY <1>u DEF KnownInv, Open, Known
<1>f. ASSUME Open' \subseteq Known', Known \subseteq Known', drain'.snap \subseteq Known,
             \A c \in Callers : taken'[c] \subseteq Known
      PROVE  KnownInv'
  BY <1>f DEF KnownInv
<1>k. drain.snap \subseteq Known /\ Open \subseteq Known /\ \A c \in Callers : taken[c] \subseteq Known
  BY DEF KnownInv
<1>1. ASSUME NEW w \in Worlds, Join(w) \/ Leave(w) \/ Close(w) PROVE KnownInv'
  <2>1. UNCHANGED <<req, drain, taken>>
    BY <1>1 DEF Join, Leave, Close
  <2>2. users[w] # Closed /\ \A v \in Worlds \ {w} : users'[v] = users[v]
    BY <1>1, ConstantsAssumption DEF Join, Leave, Close, TypeOK, Closed
  <2>3. Known' = Known /\ Open' \subseteq Open
    BY <2>1, <2>2 DEF Known, Open
  <2>4. QED
    BY <1>f, <1>k, <2>1, <2>3
<1>2. ASSUME NEW w \in Worlds, Admit(w) \/ Upsert(w) PROVE KnownInv'
  <2>1. UNCHANGED <<users, drain, taken>>
    BY <1>2 DEF Admit, Upsert
  <2>2. Known \subseteq Known'
    BY <1>2 DEF Admit, Upsert, Known, TypeOK
  <2>3. Open' = Open
    BY <2>1 DEF Open
  <2>4. QED
    BY <1>f, <1>k, <2>1, <2>2, <2>3
<1>3. ASSUME NEW w \in Worlds, StartWorld(w) PROVE KnownInv'
  <2>1. UNCHANGED <<drain, taken>>
    BY <1>3 DEF StartWorld
  <2>2. Known \subseteq Known' /\ w \in Known'
    BY <1>3 DEF StartWorld, Known, TypeOK
  <2>3. Open' \subseteq Open \cup {w}
    BY <1>3 DEF StartWorld, Open, TypeOK
  <2>4. QED
    BY <1>f, <1>k, <2>1, <2>2, <2>3
<1>4. ASSUME \/ Evict \/ HandleHostEvent \/ HandleHostEventStreamReset \/ WatcherReconcile
             \/ Publish \/ CheckNewImages \/ ReconcileAllDraining
      PROVE  KnownInv'
  BY <1>4, <1>u DEF Evict, HandleHostEvent, HandleHostEventStreamReset, WatcherReconcile,
                    Publish, CheckNewImages, ReconcileAllDraining
<1>5. ASSUME NEW i \in Images, HandleNewImage(i) PROVE KnownInv'
  BY <1>5, <1>u DEF HandleNewImage
<1>6. ASSUME NEW i \in Images, EnrollSnapshot(i) PROVE KnownInv'
  <2>1. UNCHANGED <<users, req, drain>>
    BY <1>6 DEF EnrollSnapshot
  <2>2. \A c \in Callers : taken'[c] \in {taken[c], Open}
    BY <1>6, Goroutines DEF EnrollSnapshot, TypeOK
  <2>3. Open' = Open /\ Known' = Known
    BY <2>1 DEF Open, Known
  <2>4. QED
    BY <1>f, <1>k, <2>1, <2>2, <2>3
<1>7. ASSUME NEW i \in Images, EnrollHost(i) PROVE KnownInv'
  <2>1. UNCHANGED <<users, req>>
    BY <1>7 DEF EnrollHost
  <2>2. i \in Callers
    BY Goroutines
  <2>3. \A c \in Callers : taken'[c] \in {taken[c], {}}
    BY <1>7, <2>2 DEF EnrollHost, TypeOK
  <2>4. drain'.snap \in {drain.snap, taken[i]}
    BY <1>7 DEF EnrollHost
  <2>5. Open' = Open /\ Known' = Known
    BY <2>1 DEF Open, Known
  <2>6. QED
    BY <1>f, <1>k, <2>2, <2>3, <2>4, <2>5
<1>8. ASSUME NEW c \in Callers, Seed(c) \/ Seeded(c) \/ NextWorld(c) \/ Note(c) \/ Save(c)
      PROVE  KnownInv'
  BY <1>8, <1>u DEF Seed, Seeded, NextWorld, UserCountForSession, Skip, Note, Save, Continue
\* Return forgets a snapshot that was taken
<1>r. ASSUME NEW c \in Callers, Return(c) PROVE \A d \in Callers : taken'[d] \in {taken[d], {}}
  BY <1>r DEF Return, Forget, TypeOK
<1>9. ASSUME NEW c \in Callers, Lock(c) \/ SessionsRemain(c) PROVE KnownInv'
  <2>1. UNCHANGED <<users, req, drain>>
    BY <1>9 DEF Lock, SessionsRemain
  <2>2. Return(c) \/ UNCHANGED taken
    BY <1>9 DEF Lock, SessionsRemain
  <2>3. Open' = Open /\ Known' = Known
    BY <2>1 DEF Open, Known
  <2>4. QED
    BY <1>f, <1>k, <1>r, <2>1, <2>2, <2>3
<1>10. ASSUME NEW c \in Callers, Stop(c) PROVE KnownInv'
  <2>1. UNCHANGED <<req, drain, taken>>
    BY <1>10 DEF Stop, Continue
  <2>2. users' = users \/ \E w \in cur[c] : users' = [users EXCEPT ![w] = Closed]
    BY <1>10 DEF Stop
  <2>3. Open' \subseteq Open /\ Known' = Known
    BY <2>1, <2>2 DEF Open, Known, TypeOK
  <2>4. QED
    BY <1>f, <1>k, <2>1, <2>3
<1>11. ASSUME NEW c \in Callers,
              RestartBegin(c) \/ RestartStop(c) \/ RestartRemove(c) \/ RestartStart(c)
       PROVE  KnownInv'
  <2>1. UNCHANGED req /\ Known' = Known
    BY <1>11 DEF RestartBegin, RestartStop, RestartRemove, RestartStart, Known
  <2>2. \A d \in Callers : taken'[d] \in {taken[d], {}}
    BY <1>11, <1>r DEF RestartBegin, RestartStop, RestartRemove, RestartStart, RestartFailed
  <2>3. drain'.snap \subseteq Known
    <3>1. CASE RestartFailed(c)
      <4>1. drain \in Drains
        BY DEF TypeOK
      <4>2. drain'.snap \in {drain.snap, {}}
        BY <3>1, <4>1 DEF RestartFailed, Drains, NotDraining
      <4>3. QED
        BY <1>k, <4>2
    <3>2. CASE ~RestartFailed(c)
      BY <1>11, <1>k, <3>2 DEF RestartBegin, RestartStop, RestartRemove, RestartStart
    <3>3. QED
      BY <3>1, <3>2
  <2>4. Open' \subseteq Open \cup drain.snap
    <3>1. CASE UNCHANGED users
      BY <3>1 DEF Open
    <3>2. CASE Down
      BY <3>2 DEF Down, Open
    <3>3. CASE users' = [w \in Worlds |-> IF w \in drain.snap THEN 0 ELSE Closed]
      BY <3>3 DEF Open
    <3>4. QED
      BY <1>11, <3>1, <3>2, <3>3
         DEF RestartBegin, RestartStop, RestartRemove, RestartStart, StartWorlds
  <2>5. QED
    BY <1>f, <1>k, <2>1, <2>2, <2>3, <2>4
<1>12. ASSUME NEW c \in Callers, LeaveDrain(c) PROVE KnownInv'
  <2>1. UNCHANGED <<users, req>> /\ drain'.snap = {} /\ Return(c)
    BY <1>12 DEF LeaveDrain, NotDraining
  <2>2. Open' = Open /\ Known' = Known
    BY <2>1 DEF Open, Known
  <2>3. QED
    BY <1>f, <1>k, <1>r, <2>1, <2>2
<1>13. ASSUME ControllerRestart PROVE KnownInv'
  <2>1. UNCHANGED users /\ drain'.snap = {} /\ \A c \in Callers : taken'[c] = {}
    BY <1>13 DEF ControllerRestart, NotDraining
  <2>2. Open' = Open /\ Known \subseteq Known'
    BY <1>13, <2>1 DEF ControllerRestart, Open, Known
  <2>3. QED
    BY <1>f, <1>k, <2>1, <2>2
<1>14. CASE UNCHANGED vars
  BY <1>14, <1>u DEF vars
<1>15. QED
  BY <1>1, <1>2, <1>3, <1>4, <1>5, <1>6, <1>7, <1>8, <1>9, <1>10, <1>11, <1>12, <1>13, <1>14
     DEF Next, Reconcile

\* An event of this kind and world is still to be handled.
Pending(kind, w) == \E i \in 1..Len(events) : events[i] = [kind |-> kind, w |-> w]

\* What an event that is emitted, handled or lost does to the pending ones.
LEMMA EmitPending ==
    ASSUME TypeOK, NEW kind \in Kinds, NEW w \in Worlds, Emit(kind, w), NEW k, NEW v
    PROVE  Pending(k, v)' <=> Pending(k, v) \/ (k = kind /\ v = w)
<1>1. events \in Seq(Events)
  BY DEF TypeOK
<1>2. events' = Append(events, [kind |-> kind, w |-> w])
  BY DEF Emit
<1>3. /\ Len(events') = Len(events) + 1 /\ Len(events) \in Nat
      /\ \A i \in 1..Len(events) : events'[i] = events[i]
      /\ events'[Len(events) + 1] = [kind |-> kind, w |-> w]
  BY <1>1, <1>2
<1>4. QED
  BY <1>3 DEF Pending

\* The event that is handled was pending, and no other is lost.
LEMMA HandlePending ==
    ASSUME TypeOK, events # <<>>, events' = Tail(events), NEW k, NEW v
    PROVE  /\ Pending(k, v)' => Pending(k, v)
           /\ Pending(k, v) => Pending(k, v)' \/ Head(events) = [kind |-> k, w |-> v]
           /\ Pending(Head(events).kind, Head(events).w)
           /\ Head(events) \in Events
<1>1. events \in Seq(Events)
  BY DEF TypeOK
<1>2. /\ Len(events) \in Nat \ {0} /\ Len(events') = Len(events) - 1
      /\ \A i \in 1..Len(events') : events'[i] = events[i + 1]
      /\ Head(events) = events[1] /\ events[1] \in Events
  BY <1>1
<1>3. events[1] = [kind |-> events[1].kind, w |-> events[1].w]
  BY <1>2 DEF Events
<1>4. Pending(k, v)' => Pending(k, v)
  BY <1>2 DEF Pending
<1>5. Pending(k, v) => Pending(k, v)' \/ Head(events) = [kind |-> k, w |-> v]
  <2> SUFFICES ASSUME NEW i \in 1..Len(events), events[i] = [kind |-> k, w |-> v], i # 1
               PROVE  Pending(k, v)'
    BY <1>2 DEF Pending
  <2>1. i - 1 \in 1..Len(events') /\ events'[i - 1] = events[i]
    BY <1>2
  <2>2. QED
    BY <2>1 DEF Pending
<1>6. Pending(Head(events).kind, Head(events).w)
  BY <1>2, <1>3 DEF Pending
<1>7. QED
  BY <1>2, <1>4, <1>5, <1>6

\* Without events nothing is pending.
LEMMA NonePending == ASSUME events = <<>>, NEW k, NEW v PROVE ~Pending(k, v)
BY DEF Pending

\* A host that is down has no open world and no events.  A world of which an end is still
\* to be handled is not open again.  A world that is open has a row, unless its
\* SessionStarted is still to be handled or the stream will be reset.
EventInv ==
    /\ ~up => events = <<>> /\ Open = {}
    /\ \A w \in Worlds : Pending("ended", w) => w \in Known /\ w \notin Open
    /\ \A w \in Open : w \in rows \/ reset \/ Pending("started", w)

\* The host is down when its new container is started; reconcileHost looks at one world
\* at a time, and one whose end it is going to save is not open again.
WorldAt(c) ==
    /\ pc[c] = "starting" => ~up
    /\ pc[c] \in {"note", "stop"} => \A w \in cur[c] : cur[c] = {w}
    /\ pc[c] = "save" => cur[c] \subseteq Known \ Open

WorldInv == \A c \in Callers : WorldAt(c)

\* A step that no goroutine in the section takes.
LEMMA WorldOutside ==
    ASSUME TypeOK, WorldInv, up' => up, cur' = cur, Known \ Open \subseteq Known' \ Open',
           pc' = pc \/ \E c \in Callers : \E l \in PCs \ Section : Goto(c, l)
    PROVE  WorldInv'
<1> SUFFICES ASSUME NEW d \in Callers PROVE WorldAt(d)'
  BY DEF WorldInv
<1>1. WorldAt(d)
  BY DEF WorldInv
<1>2. pc'[d] = pc[d] \/ pc'[d] \notin Section
  BY DEF TypeOK, Goto
<1>3. {"note", "stop", "save", "starting"} \subseteq Section
  BY DEF Section, Restarting
<1>4. QED
  BY <1>1, <1>2, <1>3 DEF WorldAt

\* A step of the goroutine that holds the lock or takes it.
LEMMA WorldInside ==
    ASSUME TypeOK, LockInv, NEW c \in Callers, pc[c] \in Section \/ lock = Nobody,
           pc' = pc \/ \E l \in PCs : Goto(c, l), WorldAt(c)'
    PROVE  WorldInv'
<1>1. \A d \in Callers \ {c} : pc[d] \notin Section
  BY ConstantsAssumption DEF LockInv, Nobody, Callers
<1>2. \A d \in Callers \ {c} : pc'[d] = pc[d]
  BY DEF Goto, TypeOK
<1>3. {"note", "stop", "save", "starting"} \subseteq Section
  BY DEF Section, Restarting
<1>4. QED
  BY <1>1, <1>2, <1>3 DEF WorldInv, WorldAt

\* No step opens a world again whose end reconcileHost is about to save.
LEMMA WorldStep ==
    TypeOK /\ LockInv /\ KnownInv /\ EventInv /\ WorldInv /\ [Next]_vars => WorldInv'
<1> SUFFICES ASSUME TypeOK, LockInv, KnownInv, EventInv, WorldInv, [Next]_vars PROVE WorldInv'
  OBVIOUS
<1> USE DEF local, container
<1>s. /\ {"idle", "listing", "snapshot", "enroll", "seed", "seeded", "lock"} \subseteq PCs \ Section
      /\ {"next", "note", "stop", "save", "stopping", "removing", "starting", "leave"} \subseteq PCs \cap Section
  BY DEF PCs, Section, Restarting
<1>o. ASSUME UNCHANGED <<up, users, req, cur>>,
             pc' = pc \/ \E c \in Callers : \E l \in PCs \ Section : Goto(c, l)
      PROVE  WorldInv'
  <2>1. Known' = Known /\ Open' = Open
    BY <1>o DEF Known, Open
  <2>2. QED
    BY <1>o, <2>1, WorldOutside
<1>1. ASSUME NEW w \in Worlds, Join(w) \/ Leave(w) \/ Close(w) PROVE WorldInv'
  <2>1. UNCHANGED <<up, req, pc, cur>>
    BY <1>1 DEF Join, Leave, Close
  <2>2. users[w] # Closed /\ \A v \in Worlds \ {w} : users'[v] = users[v]
    BY <1>1, ConstantsAssumption DEF Join, Leave, Close, TypeOK, Closed
  <2>3. Known' = Known /\ Open' \subseteq Open
    BY <2>1, <2>2 DEF Known, Open
  <2>4. QED
    BY <2>1, <2>3, WorldOutside
<1>2. ASSUME NEW w \in Worlds, Admit(w) \/ Upsert(w) PROVE WorldInv'
  <2>1. UNCHANGED <<up, users, pc, cur>>
    BY <1>2 DEF Admit, Upsert
  <2>2. Known \subseteq Known' /\ Open' = Open
    BY <1>2, <2>1 DEF Admit, Upsert, Known, Open, TypeOK
  <2>3. QED
    BY <2>1, <2>2, WorldOutside
<1>3. ASSUME NEW w \in Worlds, StartWorld(w) PROVE WorldInv'
  <2>1. UNCHANGED <<up, pc, cur>>
    BY <1>3 DEF StartWorld
  <2>2. Known \subseteq Known' /\ w \notin Known
    BY <1>3 DEF StartWorld, Known, TypeOK
  <2>3. Open' \subseteq Open \cup {w}
    BY <1>3 DEF StartWorld, Open, TypeOK
  <2>4. QED
    BY <2>1, <2>2, <2>3, WorldOutside
<1>4. ASSUME Evict \/ WatcherReconcile \/ Publish PROVE WorldInv'
  BY <1>4, <1>o DEF Evict, WatcherReconcile, Publish
<1>5. ASSUME HandleHostEvent \/ HandleHostEventStreamReset PROVE WorldInv'
  <2>1. \E l \in {"lock", "seed", "idle"} : Goto(Stream, l)
    BY <1>5 DEF HandleHostEvent, HandleHostEventStreamReset
  <2>2. UNCHANGED <<up, users, req, cur>>
    BY <1>5 DEF HandleHostEvent, HandleHostEventStreamReset
  <2>3. QED
    BY <1>s, <1>o, <2>1, <2>2, Goroutines
<1>6. ASSUME CheckNewImages PROVE WorldInv'
  <2>1. newest \in Callers
    BY ConstantsAssumption DEF TypeOK, Callers
  <2>2. pc' = pc \/ Goto(newest, "listing")
    BY <1>6 DEF CheckNewImages
  <2>3. QED
    BY <1>6, <1>s, <1>o, <2>1, <2>2 DEF CheckNewImages
<1>7. ASSUME NEW i \in Images, HandleNewImage(i) \/ EnrollSnapshot(i) \/ EnrollHost(i)
      PROVE  WorldInv'
  <2>1. \E l \in {"snapshot", "idle", "enroll", "seed"} : Goto(i, l)
    BY <1>7 DEF HandleNewImage, EnrollSnapshot, EnrollHost
  <2>2. UNCHANGED <<up, users, req, cur>>
    BY <1>7 DEF HandleNewImage, EnrollSnapshot, EnrollHost
  <2>3. QED
    BY <1>s, <1>o, <2>1, <2>2, Goroutines
<1>8. ASSUME ReconcileAllDraining PROVE WorldInv'
  BY <1>8, <1>s, <1>o, Goroutines DEF ReconcileAllDraining
<1>9. ASSUME NEW c \in Callers, Seed(c) \/ Seeded(c) PROVE WorldInv'
  <2>1. \E l \in {"seeded", "lock"} : Goto(c, l)
    BY <1>9 DEF Seed, Seeded
  <2>2. QED
    BY <1>9, <1>s, <1>o, <2>1 DEF Seed, Seeded
<1>r. ASSUME NEW c \in Callers, Return(c), pc[c] \in Section \/ lock = Nobody PROVE WorldInv'
  <2>1. pc'[c] = "idle" /\ Goto(c, "idle")
    BY <1>r DEF Return, Goto, TypeOK
  <2>2. WorldAt(c)'
    BY <2>1 DEF WorldAt
  <2>3. QED
    BY <1>s, <1>r, <2>1, <2>2, WorldInside
<1>n. ASSUME NEW c \in Callers, NEW l \in {"next", "stopping", "removing", "leave"}, Goto(c, l),
             pc[c] \in Section \/ lock = Nobody
      PROVE  WorldInv'
  <2>1. pc'[c] = l
    BY <1>n DEF Goto, TypeOK
  <2>2. WorldAt(c)'
    BY <2>1 DEF WorldAt
  <2>3. QED
    BY <1>s, <1>n, <2>2, WorldInside
<1>10. ASSUME NEW c \in Callers, Lock(c) PROVE WorldInv'
  <2>1. lock = Nobody /\ (Return(c) \/ Goto(c, "next"))
    BY <1>10 DEF Lock
  <2>2. QED
    BY <1>r, <1>n, <2>1
<1>11. ASSUME NEW c \in Callers, NextWorld(c) PROVE WorldInv'
  <2>1. PICK w \in todo[c] : UserCountForSession(c, w)
    BY <1>11 DEF NextWorld
  <2>2. pc[c] = "next" /\ UNCHANGED <<up, users, req>>
    BY <1>11 DEF NextWorld
  <2>3. CASE Skip(c, w)
    BY <1>o, <2>2, <2>3 DEF Skip
  <2>4. CASE ~Skip(c, w)
    <3>1. Goto(c, "note") /\ cur' = [cur EXCEPT ![c] = {w}]
      BY <2>1, <2>4 DEF UserCountForSession
    <3>2. pc'[c] = "note" /\ cur'[c] = {w}
      BY <3>1 DEF TypeOK, Goto
    <3>3. WorldAt(c)'
      BY <3>2 DEF WorldAt
    <3>4. QED
      BY <1>s, <2>2, <3>1, <3>3, WorldInside
  <2>5. QED
    BY <2>3, <2>4
<1>12. ASSUME NEW c \in Callers, Note(c) PROVE WorldInv'
  <2>1. pc[c] = "note"
    BY <1>12 DEF Note
  <2>2. CASE Goto(c, "next")
    BY <1>n, <1>s, <2>1, <2>2
  <2>3. CASE ~Goto(c, "next")
    <3>1. Goto(c, "stop") /\ cur' = cur
      BY <1>12, <2>3 DEF Note, Continue
    <3>2. pc'[c] = "stop"
      BY <3>1 DEF TypeOK, Goto
    <3>3. WorldAt(c)'
      BY <2>1, <3>1, <3>2 DEF WorldAt, WorldInv
    <3>4. QED
      BY <1>s, <2>1, <3>1, <3>3, WorldInside
  <2>4. QED
    BY <2>2, <2>3
<1>13. ASSUME NEW c \in Callers, Stop(c) PROVE WorldInv'
  <2>1. pc[c] = "stop"
    BY <1>13 DEF Stop
  <2>2. CASE Goto(c, "next")
    BY <1>n, <1>s, <2>1, <2>2
  <2>3. CASE ~Goto(c, "next")
    <3>1. PICK w \in cur[c] : users[w] # Closed /\ users' = [users EXCEPT ![w] = Closed]
      BY <1>13, <2>3 DEF Stop, Continue
    <3>2. Goto(c, "save") /\ cur' = cur /\ req' = req
      BY <1>13, <2>3 DEF Stop, Continue
    <3>3. w \in Worlds /\ cur[c] = {w} /\ pc'[c] = "save"
      BY <2>1, <3>2 DEF TypeOK, Goto, WorldAt, WorldInv
    <3>4. w \in Known' /\ w \notin Open'
      BY <3>1, <3>2, <3>3 DEF KnownInv, Known, Open, TypeOK
    <3>5. WorldAt(c)'
      BY <3>2, <3>3, <3>4 DEF WorldAt
    <3>6. QED
      BY <1>s, <2>1, <3>2, <3>5, WorldInside
  <2>4. QED
    BY <2>2, <2>3
<1>14. ASSUME NEW c \in Callers, Save(c) PROVE WorldInv'
  <2>1. pc[c] = "save" /\ Goto(c, "next")
    BY <1>14 DEF Save, Continue
  <2>2. QED
    BY <1>n, <1>s, <2>1
<1>15. ASSUME NEW c \in Callers, SessionsRemain(c) \/ LeaveDrain(c) PROVE WorldInv'
  BY <1>15, <1>s, <1>r DEF SessionsRemain, LeaveDrain
<1>16. ASSUME NEW c \in Callers,
              RestartBegin(c) \/ RestartStop(c) \/ RestartRemove(c) \/ RestartStart(c)
       PROVE  WorldInv'
  <2>1. pc[c] \in Section
    BY <1>16, <1>s DEF RestartBegin, RestartStop, RestartRemove, RestartStart
  <2>2. CASE RestartFailed(c)
    BY <1>r, <2>1, <2>2 DEF RestartFailed
  <2>3. CASE \E l \in {"stopping", "removing", "leave"} : Goto(c, l)
    BY <1>n, <2>1, <2>3
  <2>4. CASE Goto(c, "starting") /\ Down
    <3>1. pc'[c] = "starting" /\ ~up'
      BY <2>4 DEF Goto, Down, TypeOK
    <3>2. WorldAt(c)'
      BY <3>1 DEF WorldAt
    <3>3. QED
      BY <1>s, <2>1, <2>4, <3>2, WorldInside
  <2>5. QED
    BY <1>16, <2>2, <2>3, <2>4 DEF RestartBegin, RestartStop, RestartRemove, RestartStart
<1>17. ASSUME ControllerRestart PROVE WorldInv'
  BY <1>17 DEF ControllerRestart, WorldInv, WorldAt
<1>18. CASE UNCHANGED vars
  BY <1>18, <1>o DEF vars
<1>19. QED
  BY <1>1, <1>2, <1>3, <1>4, <1>5, <1>6, <1>7, <1>8, <1>9, <1>10, <1>11, <1>12, <1>13, <1>14,
     <1>15, <1>16, <1>17, <1>18 DEF Next, Reconcile

\* Rows lag behind the host only by what is pending.
LEMMA EventStep ==
    TypeOK /\ KnownInv /\ WorldInv /\ EventInv /\ [Next]_vars => EventInv'
<1> SUFFICES ASSUME TypeOK, KnownInv, WorldInv, EventInv, [Next]_vars PROVE EventInv'
  OBVIOUS
<1> USE DEF local, container, database
<1>e. /\ ~up => events = <<>> /\ Open = {}
      /\ \A w \in Worlds : Pending("ended", w) => w \in Known /\ w \notin Open
      /\ \A w \in Open : w \in rows \/ reset \/ Pending("started", w)
  BY DEF EventInv
<1>k. Open \subseteq Known
  BY DEF KnownInv
<1>o. ASSUME UNCHANGED <<up, users, events, reset>>, Known \subseteq Known', rows \subseteq rows'
      PROVE  EventInv'
  <2>1. Open' = Open /\ \A k, v : Pending(k, v)' <=> Pending(k, v)
    BY <1>o DEF Open, Pending
  <2>2. QED
    BY <1>e, <1>o, <2>1 DEF EventInv
<1>q. ASSUME UNCHANGED <<up, users, events, reset, req, rows>> PROVE EventInv'
  <2>1. Known' = Known
    BY <1>q DEF Known
  <2>2. QED
    BY <1>q, <1>o, <2>1
\* the host closes a world and tells
<1>c. ASSUME NEW w \in Worlds, w \in Open, users' = [users EXCEPT ![w] = Closed],
             Emit("ended", w), UNCHANGED <<up, reset, rows, req>>, up
      PROVE  EventInv'
  <2>1. Open' = Open \ {w} /\ Known' = Known
    BY <1>c DEF Open, Known, TypeOK
  <2>2. /\ \A v : Pending("ended", v)' <=> Pending("ended", v) \/ v = w
        /\ \A v : Pending("started", v)' <=> Pending("started", v)
    BY <1>c, EmitPending DEF Kinds
  <2>3. QED
    BY <1>c, <1>e, <1>k, <2>1, <2>2 DEF EventInv
\* the host is gone
<1>d. ASSUME Down PROVE EventInv'
  <2>1. ~up' /\ events' = <<>> /\ Open' = {}
    BY <1>d DEF Down, Open
  <2>2. \A v : ~Pending("ended", v)'
    BY <2>1 DEF Pending
  <2>3. QED
    BY <2>1, <2>2 DEF EventInv
<1>1. ASSUME NEW w \in Worlds, Join(w) \/ Leave(w) PROVE EventInv'
  <2>1. /\ up /\ UNCHANGED <<up, reset, rows, req>>
        /\ Emit("joined", w) \/ Emit("left", w)
    BY <1>1 DEF Join, Leave
  <2>2. /\ users[w] # Closed /\ users'[w] # Closed
        /\ \A v \in Worlds \ {w} : users'[v] = users[v]
    BY <1>1, ConstantsAssumption DEF Join, Leave, TypeOK, Closed, Counts
  <2>3. Open' = Open /\ Known' = Known
    BY <2>1, <2>2 DEF Open, Known
  <2>4. /\ \A v : Pending("ended", v)' <=> Pending("ended", v)
        /\ \A v : Pending("started", v)' <=> Pending("started", v)
    BY <2>1, EmitPending DEF Kinds
  <2>5. QED
    BY <1>e, <2>1, <2>3, <2>4 DEF EventInv
<1>2. ASSUME NEW w \in Worlds, Close(w) PROVE EventInv'
  <2>1. w \in Open
    BY <1>2 DEF Close, Open, Closed
  <2>2. QED
    BY <1>2, <1>c, <2>1 DEF Close
<1>3. ASSUME NEW w \in Worlds, Admit(w) \/ Upsert(w) PROVE EventInv'
  <2>1. Known \subseteq Known'
    BY <1>3 DEF Admit, Upsert, Known, TypeOK
  <2>2. QED
    BY <1>3, <1>o, <2>1 DEF Admit, Upsert
<1>4. ASSUME NEW w \in Worlds, StartWorld(w) PROVE EventInv'
  <2>1. Known \subseteq Known' /\ w \notin Known /\ w \in Known'
    BY <1>4 DEF StartWorld, Known, TypeOK
  <2>2. CASE ~up
    BY <1>4, <1>o, <2>1, <2>2 DEF StartWorld
  <2>3. CASE up
    <3>1. UNCHANGED <<up, reset, rows>> /\ Emit("started", w) /\ users' = [users EXCEPT ![w] = 0]
      BY <1>4, <2>3 DEF StartWorld
    <3>2. Open' = Open \cup {w}
      BY <3>1 DEF Open, TypeOK, Closed
    <3>3. /\ \A v : Pending("ended", v)' <=> Pending("ended", v)
          /\ \A v : Pending("started", v)' <=> Pending("started", v) \/ v = w
      BY <3>1, EmitPending DEF Kinds
    <3>4. QED
      BY <1>e, <2>1, <2>3, <3>1, <3>2, <3>3 DEF EventInv
  <2>4. QED
    BY <2>2, <2>3 DEF TypeOK
<1>5. ASSUME Evict PROVE EventInv'
  <2>1. UNCHANGED <<up, users, req>> /\ reset' /\ events' = <<>>
    BY <1>5 DEF Evict
  <2>2. Open' = Open /\ \A v : ~Pending("ended", v)'
    BY <2>1 DEF Open, Pending
  <2>3. QED
    BY <1>e, <2>1, <2>2 DEF EventInv
<1>6. ASSUME HandleHostEvent PROVE EventInv'
  <2> DEFINE e == Head(events)
  <2>1. up /\ UNCHANGED <<up, users, reset, req>> /\ events # <<>> /\ events' = Tail(events)
    BY <1>6 DEF HandleHostEvent
  <2>2. Open' = Open /\ Known' = Known
    BY <2>1 DEF Open, Known
  <2>3. e \in Events /\ Pending(e.kind, e.w)
    BY <2>1, HandlePending
  <2>4. /\ e.kind = "started" => rows' = rows \cup {e.w}
        /\ e.kind = "ended" => rows' = rows \ {e.w}
        /\ e.kind \notin {"started", "ended"} => rows' = rows
    BY <1>6, <2>3 DEF HandleHostEvent, Events, Kinds
  <2>5. e.kind = "ended" => e.w \notin Open
    BY <1>e, <2>3 DEF Events
  <2>6. /\ \A v : Pending("ended", v)' => Pending("ended", v)
        /\ \A v : Pending("started", v) =>
                    Pending("started", v)' \/ e = [kind |-> "started", w |-> v]
    BY <2>1, HandlePending
  <2>7. \A w \in Open : w \in rows' \/ reset \/ Pending("started", w)'
    <3> SUFFICES ASSUME NEW w \in Open, ~reset, ~Pending("started", w)' PROVE w \in rows'
      OBVIOUS
    <3>1. CASE w \in rows
      BY <2>3, <2>4, <2>5, <3>1 DEF Events, Kinds
    <3>2. CASE Pending("started", w)
      BY <2>4, <2>6, <3>2
    <3>3. QED
      BY <1>e, <3>1, <3>2
  <2> HIDE DEF e
  <2>8. QED
    BY <1>e, <2>1, <2>2, <2>6, <2>7 DEF EventInv
<1>7. ASSUME HandleHostEventStreamReset PROVE EventInv'
  <2>1. up /\ UNCHANGED <<up, users, req>> /\ events' = <<>> /\ rows' = Open
    BY <1>7 DEF HandleHostEventStreamReset
  <2>2. Open' = Open /\ \A v : ~Pending("ended", v)'
    BY <2>1 DEF Open, Pending
  <2>3. QED
    BY <1>e, <2>1, <2>2 DEF EventInv
<1>8. ASSUME WatcherReconcile \/ Publish \/ CheckNewImages \/ ReconcileAllDraining PROVE EventInv'
  BY <1>8, <1>q DEF WatcherReconcile, Publish, CheckNewImages, ReconcileAllDraining
<1>9. ASSUME NEW i \in Images, HandleNewImage(i) \/ EnrollSnapshot(i) \/ EnrollHost(i)
      PROVE  EventInv'
  BY <1>9, <1>q DEF HandleNewImage, EnrollSnapshot, EnrollHost
<1>10. ASSUME NEW c \in Callers, Seed(c) \/ Seeded(c) \/ Lock(c) \/ NextWorld(c) \/ Note(c)
                                 \/ SessionsRemain(c) \/ LeaveDrain(c) \/ RestartBegin(c)
       PROVE  EventInv'
  BY <1>10, <1>q DEF Seed, Seeded, Lock, NextWorld, Note, SessionsRemain, LeaveDrain, RestartBegin
<1>11. ASSUME NEW c \in Callers, Stop(c) PROVE EventInv'
  <2>1. UNCHANGED <<up, reset, rows, req>>
    BY <1>11 DEF Stop
  <2>2. CASE UNCHANGED <<users, events>>
    BY <1>q, <2>1, <2>2
  <2>3. CASE ~UNCHANGED <<users, events>>
    <3>1. PICK w \in cur[c] : /\ up /\ users[w] # Closed /\ Emit("ended", w)
                              /\ users' = [users EXCEPT ![w] = Closed]
      BY <1>11, <2>3 DEF Stop
    <3>2. w \in Worlds /\ w \in Open
      BY <3>1 DEF Open, TypeOK
    <3>3. QED
      BY <1>c, <2>1, <3>1, <3>2
  <2>4. QED
    BY <2>2, <2>3
<1>12. ASSUME NEW c \in Callers, Save(c) PROVE EventInv'
  <2>1. pc[c] = "save" /\ UNCHANGED <<up, users, events, reset, req>>
    BY <1>12 DEF Save
  <2>2. rows' = rows \/ \E w \in cur[c] : rows' = rows \ {w}
    BY <1>12 DEF Save
  <2>3. cur[c] \cap Open = {}
    BY <2>1 DEF WorldInv, WorldAt
  <2>4. \A w \in Open : w \in rows => w \in rows'
    BY <2>2, <2>3
  <2>5. Open' = Open /\ Known' = Known /\ \A k, v : Pending(k, v)' <=> Pending(k, v)
    BY <2>1 DEF Open, Known, Pending
  <2>6. QED
    BY <1>e, <2>1, <2>4, <2>5 DEF EventInv
<1>13. ASSUME NEW c \in Callers, RestartStop(c) \/ RestartRemove(c) PROVE EventInv'
  BY <1>13, <1>q, <1>d DEF RestartStop, RestartRemove
<1>14. ASSUME NEW c \in Callers, RestartStart(c) PROVE EventInv'
  <2>1. CASE UNCHANGED <<up, users, reset>>
    BY <1>14, <1>q, <2>1 DEF RestartStart
  <2>2. CASE ~UNCHANGED <<up, users, reset>>
    <3>1. up' /\ reset' /\ events' = events /\ pc[c] = "starting"
      BY <1>14, <2>2 DEF RestartStart
    <3>2. events' = <<>>
      BY <1>e, <3>1 DEF WorldInv, WorldAt
    <3>3. \A v : ~Pending("ended", v)'
      BY <3>2 DEF Pending
    <3>4. QED
      BY <3>1, <3>3 DEF EventInv
  <2>3. QED
    BY <2>1, <2>2
<1>15. ASSUME ControllerRestart PROVE EventInv'
  <2>1. Known \subseteq Known'
    BY <1>15 DEF ControllerRestart, Known
  <2>2. QED
    BY <1>15, <1>o, <2>1 DEF ControllerRestart
<1>16. CASE UNCHANGED vars
  BY <1>16, <1>q DEF vars
<1>17. QED
  BY <1>1, <1>2, <1>3, <1>4, <1>5, <1>6, <1>7, <1>8, <1>9, <1>10, <1>11, <1>12, <1>13, <1>14,
     <1>15, <1>16 DEF Next, Reconcile

--------------------------------------------------------------------------------
(* A restart that begins with nothing on its way *)

\* Within the section no StartSession is under way; while no session remains, the open
\* worlds are among those still to be looked at; and there is none once the host is
\* about to be stopped.
QuietAt(c) ==
    /\ pc[c] \in Section => \A w \in Worlds : req[w] # "admitted"
    /\ pc[c] \in {"next", "note", "stop", "save"} /\ ~busy[c] => Open \subseteq todo[c]
    /\ pc[c] = "stopping" => Open = {}

QuietInv == settled => \A c \in Callers : QuietAt(c)

\* A step that no goroutine in the section takes.
LEMMA QuietOutside ==
    ASSUME TypeOK, QuietInv, settled' = settled, todo' = todo, busy' = busy, Open' \subseteq Open,
           \A w \in Worlds : req[w] # "admitted" => req'[w] # "admitted",
           pc' = pc \/ \E c \in Callers : \E l \in PCs \ Section : Goto(c, l)
    PROVE  QuietInv'
<1> SUFFICES ASSUME settled, NEW d \in Callers PROVE QuietAt(d)'
  BY DEF QuietInv
<1>1. QuietAt(d)
  BY DEF QuietInv
<1>2. pc'[d] = pc[d] \/ pc'[d] \notin Section
  BY DEF TypeOK, Goto
<1>3. {"next", "note", "stop", "save", "stopping"} \subseteq Section
  BY DEF Section, Restarting
<1>4. QED
  BY <1>1, <1>2, <1>3 DEF QuietAt

\* A step of the goroutine that holds the lock or takes it.
LEMMA QuietInside ==
    ASSUME TypeOK, LockInv, NEW c \in Callers, pc[c] \in Section \/ lock = Nobody,
           pc' = pc \/ \E l \in PCs : Goto(c, l), settled' => QuietAt(c)'
    PROVE  QuietInv'
<1>1. \A d \in Callers \ {c} : pc[d] \notin Section
  BY ConstantsAssumption DEF LockInv, Nobody, Callers
<1>2. \A d \in Callers \ {c} : pc'[d] = pc[d]
  BY DEF Goto, TypeOK
<1>3. {"next", "note", "stop", "save", "stopping"} \subseteq Section
  BY DEF Section, Restarting
<1>4. QED
  BY <1>1, <1>2, <1>3 DEF QuietInv, QuietAt

\* From a quiet start, reconcileHost misses no open world.
LEMMA QuietStep ==
    TypeOK /\ LockInv /\ WorldInv /\ EventInv /\ QuietInv /\ [Next]_vars => QuietInv'
<1> SUFFICES ASSUME TypeOK, LockInv, WorldInv, EventInv, QuietInv, [Next]_vars PROVE QuietInv'
  OBVIOUS
<1> USE DEF local, container, history
<1>s. /\ {"idle", "listing", "snapshot", "enroll", "seed", "seeded", "lock"} \subseteq PCs \ Section
      /\ {"next", "note", "stop", "save", "stopping", "removing", "starting", "leave"} \subseteq PCs \cap Section
  BY DEF PCs, Section, Restarting
<1>o. ASSUME UNCHANGED <<settled, todo, busy, users, req>>,
             pc' = pc \/ \E c \in Callers : \E l \in PCs \ Section : Goto(c, l)
      PROVE  QuietInv'
  <2>1. Open' = Open
    BY <1>o DEF Open
  <2>2. QED
    BY <1>o, <2>1, QuietOutside
<1>1. ASSUME NEW w \in Worlds, Join(w) \/ Leave(w) \/ Close(w) PROVE QuietInv'
  <2>1. UNCHANGED <<settled, todo, busy, req, pc>>
    BY <1>1 DEF Join, Leave, Close
  <2>2. users[w] # Closed /\ \A v \in Worlds \ {w} : users'[v] = users[v]
    BY <1>1, ConstantsAssumption DEF Join, Leave, Close, TypeOK, Closed
  <2>3. Open' \subseteq Open
    BY <2>2 DEF Open
  <2>4. QED
    BY <2>1, <2>3, QuietOutside
\* Admit: nobody is in the section, for the host is not being drained
<1>2. ASSUME NEW w \in Worlds, Admit(w) PROVE QuietInv'
  <2>1. \A c \in Callers : pc[c] \notin Section /\ pc' = pc
    BY <1>2 DEF Admit, LockInv
  <2>2. QED
    BY <1>s, <2>1 DEF QuietInv, QuietAt
<1>3. ASSUME NEW w \in Worlds, Upsert(w) PROVE QuietInv'
  <2>1. UNCHANGED <<settled, todo, busy, users, pc>> /\ req' = [req EXCEPT ![w] = "done"]
    BY <1>3 DEF Upsert
  <2>2. Open' = Open /\ \A v \in Worlds : req[v] # "admitted" => req'[v] # "admitted"
    BY <2>1 DEF Open, TypeOK
  <2>3. QED
    BY <2>1, <2>2, QuietOutside
\* StartWorld: nobody is in the section, or the host is down
<1>4. ASSUME NEW w \in Worlds, StartWorld(w) PROVE QuietInv'
  <2>1. UNCHANGED <<settled, todo, busy, pc>> /\ req[w] = "admitted"
    BY <1>4 DEF StartWorld
  <2>2. settled => \A c \in Callers : pc[c] \notin Section
    BY <2>1 DEF QuietInv, QuietAt
  <2>3. QED
    BY <1>s, <2>1, <2>2 DEF QuietInv, QuietAt
<1>5. ASSUME Evict \/ WatcherReconcile \/ Publish PROVE QuietInv'
  BY <1>5, <1>o DEF Evict, WatcherReconcile, Publish
<1>6. ASSUME HandleHostEvent \/ HandleHostEventStreamReset PROVE QuietInv'
  <2>1. \E l \in {"lock", "seed", "idle"} : Goto(Stream, l)
    BY <1>6 DEF HandleHostEvent, HandleHostEventStreamReset
  <2>2. UNCHANGED <<settled, todo, busy, users, req>>
    BY <1>6 DEF HandleHostEvent, HandleHostEventStreamReset
  <2>3. QED
    BY <1>s, <1>o, <2>1, <2>2, Goroutines
<1>7. ASSUME CheckNewImages PROVE QuietInv'
  <2>1. newest \in Callers
    BY ConstantsAssumption DEF TypeOK, Callers
  <2>2. pc' = pc \/ Goto(newest, "listing")
    BY <1>7 DEF CheckNewImages
  <2>3. QED
    BY <1>7, <1>s, <1>o, <2>1, <2>2 DEF CheckNewImages
<1>8. ASSUME NEW i \in Images, HandleNewImage(i) \/ EnrollSnapshot(i) \/ EnrollHost(i)
      PROVE  QuietInv'
  <2>1. \E l \in {"snapshot", "idle", "enroll", "seed"} : Goto(i, l)
    BY <1>8 DEF HandleNewImage, EnrollSnapshot, EnrollHost
  <2>2. UNCHANGED <<settled, todo, busy, users, req>>
    BY <1>8 DEF HandleNewImage, EnrollSnapshot, EnrollHost
  <2>3. QED
    BY <1>s, <1>o, <2>1, <2>2, Goroutines
<1>9. ASSUME ReconcileAllDraining PROVE QuietInv'
  BY <1>9, <1>s, <1>o, Goroutines DEF ReconcileAllDraining
<1>10. ASSUME NEW c \in Callers, Seed(c) \/ Seeded(c) PROVE QuietInv'
  <2>1. \E l \in {"seeded", "lock"} : Goto(c, l)
    BY <1>10 DEF Seed, Seeded
  <2>2. UNCHANGED <<settled, todo, busy, users, req>>
    BY <1>10 DEF Seed, Seeded
  <2>3. QED
    BY <1>s, <1>o, <2>1, <2>2
<1>r. ASSUME NEW c \in Callers, Return(c) PROVE QuietInv'
  BY <1>r DEF Return, QuietInv
<1>11. ASSUME NEW c \in Callers, Lock(c) PROVE QuietInv'
  <2>1. CASE Return(c)
    BY <1>r, <2>1
  <2>2. CASE ~Return(c)
    <3>1. /\ lock = Nobody /\ Goto(c, "next") /\ UNCHANGED <<users, req>>
          /\ todo' = [todo EXCEPT ![c] = rows]
          /\ settled' = (events = <<>> /\ ~reset /\ \A w \in Worlds : req[w] \in {"none", "done"})
      BY <1>11, <2>2 DEF Lock
    <3>2. pc'[c] = "next" /\ todo'[c] = rows /\ Open' = Open
      BY <3>1 DEF Goto, TypeOK, Open
    <3>3. ASSUME settled' PROVE Open \subseteq rows
      BY <3>1, <3>3, NonePending DEF EventInv
    <3>4. settled' => QuietAt(c)'
      BY <3>1, <3>2, <3>3 DEF QuietAt
    <3>5. QED
      BY <1>s, <3>1, <3>4, QuietInside
  <2>3. QED
    BY <2>1, <2>2
\* on to the next world: one remains, or the world that is done is not open
<1>n. ASSUME NEW c \in Callers, NEW left \in BOOLEAN, Continue(c, left),
             pc[c] \in {"note", "stop", "save"}, UNCHANGED <<settled, req>>, Open' \subseteq Open,
             left \/ cur[c] \cap Open = {}
      PROVE  QuietInv'
  <2>1. /\ pc'[c] = "next" /\ Goto(c, "next") /\ todo'[c] = todo[c] \ cur[c]
        /\ busy'[c] = (busy[c] \/ left)
    BY <1>n DEF Continue, Goto, TypeOK
  <2>2. ASSUME settled PROVE QuietAt(c)
    BY <2>2 DEF QuietInv
  <2>3. settled' => QuietAt(c)'
    BY <1>n, <1>s, <2>1, <2>2 DEF QuietAt
  <2>4. QED
    BY <1>n, <1>s, <2>1, <2>3, QuietInside
\* on to another line of the loop
<1>g. ASSUME NEW c \in Callers, NEW l \in {"note", "stop", "save"}, Goto(c, l),
             pc[c] \in {"next", "note", "stop"}, UNCHANGED <<settled, req, todo, busy>>,
             Open' \subseteq Open
      PROVE  QuietInv'
  <2>1. pc'[c] = l
    BY <1>g DEF Goto, TypeOK
  <2>2. settled' => QuietAt(c)'
    BY <1>g, <1>s, <2>1 DEF QuietAt, QuietInv
  <2>3. QED
    BY <1>g, <1>s, <2>2, QuietInside
<1>12. ASSUME NEW c \in Callers, NextWorld(c) PROVE QuietInv'
  <2>1. PICK w \in todo[c] : UserCountForSession(c, w)
    BY <1>12 DEF NextWorld
  <2>2. pc[c] = "next" /\ UNCHANGED <<users, req, settled>>
    BY <1>12 DEF NextWorld
  <2>3. Open' = Open
    BY <2>2 DEF Open
  <2>4. CASE Skip(c, w)
    <3>1. pc' = pc /\ busy'[c]
      BY <2>4 DEF Skip, TypeOK
    <3>2. settled' => QuietAt(c)'
      BY <1>s, <2>2, <3>1 DEF QuietAt, QuietInv
    <3>3. QED
      BY <1>s, <2>2, <3>1, <3>2, QuietInside
  <2>5. CASE ~Skip(c, w)
    BY <1>g, <2>1, <2>2, <2>3, <2>5 DEF UserCountForSession
  <2>6. QED
    BY <2>4, <2>5
<1>13. ASSUME NEW c \in Callers, Note(c) PROVE QuietInv'
  <2>1. pc[c] = "note" /\ UNCHANGED <<users, req, settled>>
    BY <1>13 DEF Note
  <2>2. Open' = Open
    BY <2>1 DEF Open
  <2>3. Continue(c, TRUE) \/ (Goto(c, "stop") /\ UNCHANGED local)
    BY <1>13 DEF Note
  <2>4. QED
    BY <1>n, <1>g, <2>1, <2>2, <2>3
<1>14. ASSUME NEW c \in Callers, Stop(c) PROVE QuietInv'
  <2>1. pc[c] = "stop" /\ UNCHANGED <<req, settled>>
    BY <1>14 DEF Stop
  <2>2. users' = users \/ \E w \in cur[c] : users' = [users EXCEPT ![w] = Closed]
    BY <1>14 DEF Stop
  <2>3. Open' \subseteq Open
    BY <2>2 DEF Open, TypeOK
  <2>4. Continue(c, TRUE) \/ (Goto(c, "save") /\ UNCHANGED local)
    BY <1>14 DEF Stop
  <2>5. QED
    BY <1>n, <1>g, <2>1, <2>3, <2>4
<1>15. ASSUME NEW c \in Callers, Save(c) PROVE QuietInv'
  <2>1. pc[c] = "save" /\ UNCHANGED <<users, req, settled>>
    BY <1>15 DEF Save
  <2>2. Open' = Open /\ cur[c] \cap Open = {}
    BY <2>1 DEF Open, WorldInv, WorldAt
  <2>3. \E left \in BOOLEAN : Continue(c, left)
    BY <1>15 DEF Save
  <2>4. QED
    BY <1>n, <2>1, <2>2, <2>3
<1>16. ASSUME NEW c \in Callers, SessionsRemain(c) \/ LeaveDrain(c) PROVE QuietInv'
  BY <1>16, <1>r DEF SessionsRemain, LeaveDrain
<1>17. ASSUME NEW c \in Callers, RestartBegin(c) PROVE QuietInv'
  <2>1. CASE RestartFailed(c)
    BY <1>r, <2>1 DEF RestartFailed
  <2>2. CASE ~RestartFailed(c)
    <3>1. /\ pc[c] = "next" /\ todo[c] = {} /\ ~busy[c] /\ UNCHANGED <<users, req, settled>>
          /\ \E l \in {"stopping", "removing"} : Goto(c, l)
      BY <1>17, <2>2 DEF RestartBegin
    <3>2. pc'[c] \in {"stopping", "removing"} /\ Open' = Open
      BY <3>1 DEF Goto, TypeOK, Open
    <3>3. settled' => QuietAt(c)'
      BY <1>s, <3>1, <3>2 DEF QuietAt, QuietInv
    <3>4. QED
      BY <1>s, <3>1, <3>3, QuietInside
  <2>3. QED
    BY <2>1, <2>2
<1>18. ASSUME NEW c \in Callers, RestartStop(c) \/ RestartRemove(c) \/ RestartStart(c)
       PROVE  QuietInv'
  <2>1. CASE RestartFailed(c)
    BY <1>r, <2>1 DEF RestartFailed
  <2>2. CASE ~RestartFailed(c)
    <3>1. /\ pc[c] \in Section /\ UNCHANGED <<req, settled>>
          /\ \E l \in {"removing", "starting", "leave"} : Goto(c, l)
      BY <1>18, <1>s, <2>2 DEF RestartStop, RestartRemove, RestartStart
    <3>2. pc'[c] \in {"removing", "starting", "leave"}
      BY <3>1 DEF Goto, TypeOK
    <3>3. settled' => QuietAt(c)'
      BY <3>1, <3>2 DEF QuietAt, QuietInv
    <3>4. QED
      BY <1>s, <3>1, <3>3, QuietInside
  <2>3. QED
    BY <2>1, <2>2
<1>19. ASSUME ControllerRestart PROVE QuietInv'
  BY <1>19 DEF ControllerRestart, QuietInv
<1>20. CASE UNCHANGED vars
  BY <1>20, <1>o DEF vars
<1>21. QED
  BY <1>1, <1>2, <1>3, <1>4, <1>5, <1>6, <1>7, <1>8, <1>9, <1>10, <1>11, <1>12, <1>13, <1>14,
     <1>15, <1>16, <1>17, <1>18, <1>19, <1>20 DEF Next, Reconcile

\* If no event and no StartSession was on its way when reconcileHost listed the rows, no
\* world is open on the host that it goes on to stop: looking at rows is then enough,
\* whatever joins, leaves, closes and failures come in between.
THEOREM QuietTheorem == Spec => []QuietRestartCutsNobody
<1>1. Init => KnownInv
  BY DEF Init, KnownInv, Known, Open, NotDraining
<1>2. Init => EventInv
  BY NonePending DEF Init, EventInv
<1>3. Init => WorldInv
  BY DEF Init, WorldInv, WorldAt
<1>4. Init => QuietInv
  BY DEF Init, QuietInv
<1>5. Spec => [](TypeOK /\ LockInv /\ KnownInv /\ EventInv /\ WorldInv /\ QuietInv)
  BY <1>1, <1>2, <1>3, <1>4, LockHolds, KnownStep, EventStep, WorldStep, QuietStep, PTL DEF Spec
<1>6. QuietInv => QuietRestartCutsNobody
  BY DEF QuietInv, QuietAt, QuietRestartCutsNobody
<1>7. QED
  BY <1>5, <1>6, PTL

================================================================================
