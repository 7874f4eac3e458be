------------------------------ MODULE Hosts_proofs ------------------------------
(* Theorems about Hosts, for every set of requests and any number of containers. *)
EXTENDS Hosts, SequenceTheorems, TLAPS

--------------------------------------------------------------------------------
(* The ways of the requests *)

\* Where a request of each operation can be.
Steps ==
    [none    |-> {"idle"},
     start   |-> {"start", "insert", "undoStop", "undoRemove"},
     restart |-> {"find", "read", "stopping", "stop", "wait", "remove", "starting", "count",
                  "start", "connect", "running", "config"},
     upgrade |-> {"find", "read", "stopping", "stop", "wait", "remove", "starting", "count",
                  "start", "connect", "running", "config"},
     stop    |-> {"read", "stopping", "rpc", "config", "stop", "wait", "exited"},
     kill    |-> {"read", "stopping", "kill", "exited"},
     delete  |-> {"read", "remove", "delete"},
     update  |-> {"read", "rpc", "config"}]

\* Where the request has the container that it has made.
Made == {"insert", "undoStop", "undoRemove", "connect"}

PathAt(r) ==
    /\ pc[r] \in Steps[op[r]]
    /\ pc[r] \in Made => loc[r].new \in Boxes
    /\ pc[r] # "idle" => made > 0

PathInv == \A r \in Requests : PathAt(r)

\* A row is about a container.
RowInv == row.exists => existed /\ row.connect \in Boxes

IInv == TypeOK /\ PathInv /\ RowInv

Locals == [connect : 0..MaxBoxes, was : BOOLEAN, config : Configs, count : Nat, new : 0..MaxBoxes]
RowSet == [exists : BOOLEAN, status : Statuses, connect : 0..MaxBoxes, count : Nat, config : Configs]
EventSet == [box : Boxes, action : Actions]

\* The table of the steps, entry by entry.
LEMMA ThenFacts ==
    /\ Then["start"]["start"] = "insert" /\ Then["start"]["insert"] = "idle"
    /\ Then["restart"]["read"] = "stopping" /\ Then["restart"]["stopping"] = "stop"
    /\ Then["restart"]["stop"] = "remove" /\ Then["restart"]["remove"] = "starting"
    /\ Then["restart"]["starting"] = "count" /\ Then["restart"]["count"] = "start"
    /\ Then["restart"]["start"] = "connect" /\ Then["restart"]["connect"] = "running"
    /\ Then["restart"]["running"] = "config" /\ Then["restart"]["config"] = "idle"
    /\ Then["stop"]["read"] = "stopping" /\ Then["stop"]["stopping"] = "rpc"
    /\ Then["stop"]["rpc"] = "config" /\ Then["stop"]["config"] = "stop"
    /\ Then["stop"]["stop"] = "exited" /\ Then["stop"]["exited"] = "idle"
    /\ Then["kill"]["read"] = "stopping" /\ Then["kill"]["stopping"] = "kill"
    /\ Then["kill"]["kill"] = "exited" /\ Then["kill"]["exited"] = "idle"
    /\ Then["delete"]["read"] = "remove" /\ Then["delete"]["remove"] = "delete"
    /\ Then["delete"]["delete"] = "idle"
    /\ Then["update"]["read"] = "rpc" /\ Then["update"]["rpc"] = "config"
    /\ Then["update"]["config"] = "idle"
BY DEF Then

\* The steps of each operation.
LEMMA StepsFacts ==
    /\ Steps["none"] = {"idle"}
    /\ Steps["start"] = {"start", "insert", "undoStop", "undoRemove"}
    /\ Steps["restart"] = {"find", "read", "stopping", "stop", "wait", "remove", "starting", "count",
                           "start", "connect", "running", "config"}
    /\ Steps["upgrade"] = Steps["restart"]
    /\ Steps["stop"] = {"read", "stopping", "rpc", "config", "stop", "wait", "exited"}
    /\ Steps["kill"] = {"read", "stopping", "kill", "exited"}
    /\ Steps["delete"] = {"read", "remove", "delete"}
    /\ Steps["update"] = {"read", "rpc", "config"}
BY DEF Steps

\* Which operations come to a step.
LEMMA OpAt ==
    ASSUME NEW o \in Ops, NEW s, s \in Steps[o]
    PROVE  /\ s \in PCs
           /\ s = "idle" <=> o = "none"
           /\ s \in {"insert", "undoStop", "undoRemove"} => o = "start"
           /\ s \in {"find", "starting", "count", "connect", "running"} => o \in {"restart", "upgrade"}
           /\ s = "start" => o \in {"start", "restart", "upgrade"}
           /\ s = "read" => o \in {"restart", "upgrade", "stop", "kill", "delete", "update"}
           /\ s = "stopping" => o \in {"restart", "upgrade", "stop", "kill"}
           /\ s \in {"stop", "wait"} => o \in {"restart", "upgrade", "stop"}
           /\ s = "remove" => o \in {"restart", "upgrade", "delete"}
           /\ s = "rpc" => o \in {"stop", "update"}
           /\ s = "config" => o \in {"restart", "upgrade", "stop", "update"}
           /\ s = "kill" => o = "kill"
           /\ s = "delete" => o = "delete"
           /\ s = "exited" => o \in {"stop", "kill"}
<1>1. CASE o = "none"
  BY <1>1, StepsFacts DEF PCs
<1>2. CASE o = "start"
  BY <1>2, StepsFacts DEF PCs
<1>3. CASE o \in {"restart", "upgrade"}
  <2>1. s \in Steps["restart"]
    BY <1>3, StepsFacts
  <2>2. QED
    BY <1>3, <2>1, StepsFacts DEF PCs
<1>4. CASE o = "stop"
  BY <1>4, StepsFacts DEF PCs
<1>5. CASE o = "kill"
  BY <1>5, StepsFacts DEF PCs
<1>6. CASE o = "delete"
  BY <1>6, StepsFacts DEF PCs
<1>7. CASE o = "update"
  BY <1>7, StepsFacts DEF PCs
<1>8. QED
  BY <1>1, <1>2, <1>3, <1>4, <1>5, <1>6, <1>7 DEF Ops

\* The step after `step` is one of the same operation, or the end.
LEMMA Follows ==
    ASSUME NEW r \in Requests, op[r] \in Ops, PathAt(r),
           NEW step, step = (IF pc[r] = "wait" THEN "stop" ELSE pc[r]),
           pc[r] \notin {"idle", "find", "undoStop", "undoRemove"}
    PROVE  /\ Succ(r, step) \in Steps[op[r]] \cup {"idle"}
           /\ Succ(r, step) = "start" <=> step = "count"
           /\ Succ(r, step) = "insert" <=> (step = "start" /\ op[r] = "start")
           /\ Succ(r, step) = "connect" <=> (step = "start" /\ op[r] # "start")
           /\ Succ(r, step) \notin {"undoStop", "undoRemove"}
<1>1. op[r] # "none" /\ pc[r] \in Steps[op[r]]
  BY StepsFacts DEF PathAt
<1>2. CASE op[r] = "start"
  <2>1. step \in {"start", "insert"} /\ Steps[op[r]] = Steps["start"]
    BY <1>1, <1>2, StepsFacts
  <2>2. Succ(r, step) = Then["start"][step]
    BY <1>2 DEF Succ
  <2>3. QED
    BY <1>2, <2>1, <2>2, ThenFacts, StepsFacts
<1>3. CASE op[r] \in {"restart", "upgrade"}
  <2>1. /\ step \in {"read", "stopping", "stop", "remove", "starting", "count", "start", "connect",
                     "running", "config"}
        /\ Steps[op[r]] = Steps["restart"]
    BY <1>1, <1>3, StepsFacts
  <2>2. Succ(r, step) = Then["restart"][step] /\ op[r] # "start"
    BY <1>3 DEF Succ
  <2>3. QED
    BY <2>1, <2>2, ThenFacts, StepsFacts
<1>4. CASE op[r] = "stop"
  <2>1. step \in {"read", "stopping", "rpc", "config", "stop", "exited"} /\ Steps[op[r]] = Steps["stop"]
    BY <1>1, <1>4, StepsFacts
  <2>2. Succ(r, step) = Then["stop"][step]
    BY <1>4 DEF Succ
  <2>3. QED
    BY <1>4, <2>1, <2>2, ThenFacts, StepsFacts
<1>5. CASE op[r] = "kill"
  <2>1. step \in {"read", "stopping", "kill", "exited"} /\ Steps[op[r]] = Steps["kill"]
    BY <1>1, <1>5, StepsFacts
  <2>2. Succ(r, step) = Then["kill"][step]
    BY <1>5 DEF Succ
  <2>3. QED
    BY <1>5, <2>1, <2>2, ThenFacts, StepsFacts
<1>6. CASE op[r] = "delete"
  <2>1. step \in {"read", "remove", "delete"} /\ Steps[op[r]] = Steps["delete"]
    BY <1>1, <1>6, StepsFacts
  <2>2. Succ(r, step) = Then["delete"][step]
    BY <1>6 DEF Succ
  <2>3. QED
    BY <1>6, <2>1, <2>2, ThenFacts, StepsFacts
<1>7. CASE op[r] = "update"
  <2>1. step \in {"read", "rpc", "config"} /\ Steps[op[r]] = Steps["update"]
    BY <1>1, <1>7, StepsFacts
  <2>2. Succ(r, step) = Then["update"][step]
    BY <1>7 DEF Succ
  <2>3. QED
    BY <1>7, <2>1, <2>2, ThenFacts, StepsFacts
<1>8. QED
  BY <1>1, <1>2, <1>3, <1>4, <1>5, <1>6, <1>7 DEF Ops

--------------------------------------------------------------------------------
(* Types *)

\* The invariant in four parts: Docker, the row, the requests and the rest.
DockerOK ==
    /\ box \in [Boxes -> BoxStates] /\ tag \in [Boxes -> Nat] /\ setup \in [Boxes -> Configs]
    /\ events \in Seq(EventSet) /\ Len(events) <= MaxEvents
    /\ subscribed \in BOOLEAN /\ missed \in SUBSET Boxes
RowOK == row \in RowSet /\ existed \in BOOLEAN /\ RowInv
RequestOK ==
    /\ op \in [Requests -> Ops] /\ pc \in [Requests -> PCs] /\ loc \in [Requests -> Locals]
    /\ made \in 0..MaxRequests /\ PathInv
RestOK ==
    /\ wpc \in {"list", "sync", "fix", "subscribe", "watch", "update"}
    /\ listed \in [Boxes -> Statuses \cup {"missing"}] /\ wnew \in Statuses
    /\ tidy \in BOOLEAN /\ stopped \in BOOLEAN /\ crashed \in BOOLEAN
    /\ faults \in 0..MaxFaults /\ lost \in SUBSET Boxes

\* The parts make up the whole.
LEMMA Parts == IInv <=> DockerOK /\ RowOK /\ RequestOK /\ RestOK
BY DEF IInv, TypeOK, DockerOK, RowOK, RequestOK, RestOK, Locals, RowSet, EventSet

\* The local variables of nobody.
LEMMA BlankType == Blank \in Locals /\ Blank.new = NoBox /\ NoBox \notin Boxes
BY ConstantsAssumption DEF Blank, Locals, NoBox, Boxes, Configs

\* Request r becomes one of operation o, at step s and with local variables l.
Move(r, o, s, l) ==
    /\ op' = [op EXCEPT ![r] = o]
    /\ pc' = [pc EXCEPT ![r] = s]
    /\ loc' = [loc EXCEPT ![r] = l]

\* What a move changes.
LEMMA MoveFacts ==
    ASSUME RequestOK, NEW r \in Requests, NEW o \in Ops, NEW s \in PCs, NEW l \in Locals, Move(r, o, s, l)
    PROVE  /\ op' \in [Requests -> Ops] /\ pc' \in [Requests -> PCs] /\ loc' \in [Requests -> Locals]
           /\ op'[r] = o /\ pc'[r] = s /\ loc'[r] = l
           /\ \A q \in Requests \ {r} : op'[q] = op[q] /\ pc'[q] = pc[q] /\ loc'[q] = loc[q]
BY DEF RequestOK, Move

\* A move along the way of an operation.
LEMMA MoveType ==
    ASSUME RequestOK, NEW r \in Requests, NEW o \in Ops, NEW s \in Steps[o], NEW l \in Locals,
           Move(r, o, s, l), s \in Made => l.new \in Boxes, s # "idle" => made' > 0,
           made' \in 0..MaxRequests, made' >= made
    PROVE  RequestOK'
<1>1. s \in PCs
  BY OpAt
<1>2. /\ op' \in [Requests -> Ops] /\ pc' \in [Requests -> PCs] /\ loc' \in [Requests -> Locals]
      /\ op'[r] = o /\ pc'[r] = s /\ loc'[r] = l
      /\ \A q \in Requests \ {r} : op'[q] = op[q] /\ pc'[q] = pc[q] /\ loc'[q] = loc[q]
  BY <1>1, MoveFacts
<1>3. PathAt(r)'
  BY <1>2 DEF PathAt
<1>4. made \in Nat /\ made' \in Nat
  BY ConstantsAssumption DEF RequestOK
<1>5. \A q \in Requests \ {r} : PathAt(q)'
  BY <1>2, <1>4 DEF PathAt, RequestOK, PathInv
<1>6. QED
  BY <1>2, <1>3, <1>5 DEF RequestOK, PathInv

\* Leave is a move.
LEMMA LeaveMove ==
    ASSUME NEW r \in Requests, Leave(r)
    PROVE  Move(r, "none", "idle", Blank)
BY DEF Leave, Goto, Move

\* And so is Go.
LEMMA GoMove ==
    ASSUME RequestOK, NEW r \in Requests, NEW step, NEW l, Go(r, step, l)
    PROVE  \/ Succ(r, step) = "idle" /\ Move(r, "none", "idle", Blank)
           \/ Succ(r, step) # "idle" /\ Move(r, op[r], Succ(r, step), l)
BY LeaveMove DEF Go, Goto, Move, RequestOK

\* Where a request can go from its step, along the table or to its end.
Onward(r, o, s, l) ==
    /\ Move(r, o, s, l) /\ o \in {op[r], "none"} /\ o \in Ops /\ s \in Steps[o] /\ l \in Locals
    /\ s \in Made => l.new \in Boxes

\* A request that leaves.
LEMMA LeaveOnward ==
    ASSUME NEW r \in Requests, Leave(r)
    PROVE  Onward(r, "none", "idle", Blank)
<1>1. "idle" \in Steps["none"] /\ "none" \in Ops /\ "idle" \notin Made
  BY StepsFacts DEF Ops, Made
<1>2. QED
  BY <1>1, LeaveMove, BlankType DEF Onward

\* A request that goes on.
LEMMA GoOnward ==
    ASSUME RequestOK, NEW r \in Requests, NEW l \in Locals,
           pc[r] \notin {"idle", "find", "undoStop", "undoRemove"},
           Go(r, IF pc[r] = "wait" THEN "stop" ELSE pc[r], l),
           pc[r] = "start" => l.new \in Boxes
    PROVE  \E o, s : /\ Onward(r, o, s, IF s = "idle" THEN Blank ELSE l)
                     /\ s = "start" <=> pc[r] = "count"
                     /\ s = "insert" <=> (pc[r] = "start" /\ op[r] = "start")
                     /\ s \notin {"undoStop", "undoRemove"}
                     /\ s \in {"start", "insert", "connect"} => o = op[r]
<1> DEFINE step == IF pc[r] = "wait" THEN "stop" ELSE pc[r]
<1> DEFINE s == Succ(r, step)
<1>1. op[r] \in Ops /\ PathAt(r)
  BY DEF RequestOK, PathInv
<1>2. /\ s \in Steps[op[r]] \cup {"idle"}
      /\ s = "start" <=> step = "count"
      /\ s = "insert" <=> (step = "start" /\ op[r] = "start")
      /\ s = "connect" <=> (step = "start" /\ op[r] # "start")
      /\ s \notin {"undoStop", "undoRemove"}
  BY <1>1, Follows
<1>3. \/ s = "idle" /\ Move(r, "none", "idle", Blank)
      \/ s # "idle" /\ Move(r, op[r], s, l)
  BY GoMove
<1>4. (step = "count" <=> pc[r] = "count") /\ (step = "start" <=> pc[r] = "start")
  OBVIOUS
<1> HIDE DEF s, step
<1>5. CASE s = "idle"
  <2>1. Onward(r, "none", "idle", Blank)
    <3>1. "idle" \in Steps["none"] /\ "none" \in Ops /\ "idle" \notin Made
      BY StepsFacts DEF Ops, Made
    <3>2. QED
      BY <1>3, <1>5, <3>1, BlankType DEF Onward
  <2>2. QED
    BY <1>2, <1>4, <1>5, <2>1
<1>6. CASE s # "idle"
  <2>1. s \in Made => l.new \in Boxes
    BY <1>2, <1>4 DEF Made
  <2>2. Onward(r, op[r], s, l)
    BY <1>1, <1>2, <1>3, <1>6, <2>1 DEF Onward
  <2>3. QED
    BY <1>2, <1>4, <1>6, <2>2
<1>7. QED
  BY <1>5, <1>6

\* The local variables after an assignment.
LEMMA LocalType ==
    ASSUME NEW x \in Locals
    PROVE  /\ \A c \in 0..MaxBoxes, w \in BOOLEAN, k \in Configs :
                 [x EXCEPT !.connect = c, !.was = w, !.config = k] \in Locals
           /\ \A k \in Configs : [x EXCEPT !.config = k] \in Locals
           /\ \A n \in Nat : [x EXCEPT !.count = n] \in Locals
           /\ \A b \in Boxes : [x EXCEPT !.new = b] \in Locals /\ [x EXCEPT !.new = b].new = b
<1>1. \A b \in Boxes : b \in 0..MaxBoxes
  BY ConstantsAssumption DEF Boxes
<1>2. \A b \in Boxes : [x EXCEPT !.new = b] \in Locals /\ [x EXCEPT !.new = b].new = b
  BY <1>1 DEF Locals
<1>3. \A n \in Nat : [x EXCEPT !.count = n] \in Locals
  BY DEF Locals
<1>4. \A k \in Configs : [x EXCEPT !.config = k] \in Locals
  BY DEF Locals
<1>5. \A c \in 0..MaxBoxes, w \in BOOLEAN, k \in Configs :
        [x EXCEPT !.connect = c, !.was = w, !.config = k] \in Locals
  <2>1. SUFFICES ASSUME NEW c \in 0..MaxBoxes, NEW w \in BOOLEAN, NEW k \in Configs
                 PROVE  [x EXCEPT !.connect = c, !.was = w, !.config = k] \in Locals
    OBVIOUS
  <2>2. QED
    BY DEF Locals
<1>6. QED
  BY <1>2, <1>3, <1>4, <1>5

\* Every step of a request is a move along its way.
LEMMA ServeOnward ==
    ASSUME IInv, NEW r \in Requests, Serve(r)
    PROVE  \E o, s, l : /\ Onward(r, o, s, l)
                        /\ s = "start" => pc[r] = "count" /\ o = op[r]
                        /\ s = "insert" => pc[r] = "start" /\ op[r] = "start" /\ o = "start"
                        /\ s = "undoStop" => pc[r] = "insert" /\ l = loc[r] /\ o = op[r]
                        /\ s = "undoRemove" => pc[r] = "undoStop" /\ l = loc[r] /\ o = op[r]
<1>0. RequestOK /\ RowOK /\ DockerOK
  BY Parts
<1>1. /\ RequestOK /\ loc[r] \in Locals /\ op[r] \in Ops /\ PathAt(r)
      /\ setup \in [Boxes -> Configs] /\ row \in RowSet
  BY <1>0 DEF RequestOK, PathInv, RowOK, DockerOK
<1>g. ASSUME NEW l \in Locals, pc[r] \notin {"idle", "find", "undoStop", "undoRemove"},
             Go(r, IF pc[r] = "wait" THEN "stop" ELSE pc[r], l), pc[r] = "start" => l.new \in Boxes
      PROVE  \E o, s, k : /\ Onward(r, o, s, k)
                          /\ s = "start" => pc[r] = "count" /\ o = op[r]
                          /\ s = "insert" => pc[r] = "start" /\ op[r] = "start" /\ o = "start"
                          /\ s \notin {"undoStop", "undoRemove"}
  <2>1. PICK o, s : /\ Onward(r, o, s, IF s = "idle" THEN Blank ELSE l)
                    /\ s = "start" <=> pc[r] = "count"
                    /\ s = "insert" <=> (pc[r] = "start" /\ op[r] = "start")
                    /\ s \notin {"undoStop", "undoRemove"}
                    /\ s \in {"start", "insert", "connect"} => o = op[r]
    BY <1>1, <1>g, GoOnward
  <2>2. QED
    BY <2>1
<1>l. ASSUME Leave(r)
      PROVE  \E o, s, k : Onward(r, o, s, k) /\ s = "idle"
  BY <1>l, LeaveOnward
<1>m. ASSUME NEW s \in {"read", "wait", "undoStop", "undoRemove"}, NEW l \in Locals, Goto(r, s),
             loc' = [loc EXCEPT ![r] = l], op' = op, s \in Steps[op[r]], s \in Made => l.new \in Boxes
      PROVE  Onward(r, op[r], s, l)
  BY <1>1, <1>m DEF Onward, Move, Goto, RequestOK
<1>s. loc' = loc => loc' = [loc EXCEPT ![r] = loc[r]]
  BY <1>1 DEF RequestOK
<1>2. CASE Find(r)
  <2>1. CASE Leave(r)
    BY <1>l, <2>1
  <2>2. CASE ~Leave(r)
    <3>1. PICK c \in Configs : loc' = [loc EXCEPT ![r].config = c]
      BY <1>2, <2>2 DEF Find
    <3>2. /\ [loc[r] EXCEPT !.config = c] \in Locals
          /\ loc' = [loc EXCEPT ![r] = [loc[r] EXCEPT !.config = c]]
      BY <1>1, <3>1, LocalType
    <3>3. Goto(r, "read") /\ op' = op /\ pc[r] = "find"
      BY <1>2, <2>2 DEF Find
    <3>4. op[r] \in {"restart", "upgrade"}
      BY <1>1, <3>3, OpAt DEF PathAt
    <3>5. "read" \in Steps[op[r]]
      BY <3>4, StepsFacts
    <3>6. Onward(r, op[r], "read", [loc[r] EXCEPT !.config = c])
      BY <1>m, <3>2, <3>3, <3>5 DEF Made
    <3>7. QED
      BY <3>6
  <2>3. QED
    BY <2>1, <2>2
<1>3. CASE Read(r)
  <2>1. pc[r] = "read" /\ row.connect \in 0..MaxBoxes /\ row.config \in Configs /\ loc[r].config \in Configs
    BY <1>1, <1>3 DEF Read, RowSet, Locals
  <2> DEFINE k == IF op[r] = "update" THEN row.config ELSE loc[r].config
  <2> DEFINE w == row.status = "RUNNING"
  <2> DEFINE l == [loc[r] EXCEPT !.connect = row.connect, !.was = w, !.config = k]
  <2>2. k \in Configs /\ w \in BOOLEAN
    BY <2>1
  <2>3. Leave(r) \/ Go(r, "read", l)
    BY <1>3 DEF Read
  <2>4. l \in Locals
    <3> HIDE DEF k, w
    <3>1. QED
      BY <1>1, <2>1, <2>2, LocalType
  <2> HIDE DEF l
  <2>5. QED
    BY <1>g, <1>l, <2>1, <2>3, <2>4
<1>4. CASE Stopping(r) \/ Starting(r) \/ MarkRunning(r) \/ Exited(r)
  BY <1>1, <1>4, <1>g DEF Stopping, Starting, MarkRunning, Exited, Status
<1>5. CASE Stop(r)
  <2>1. pc[r] = "stop" /\ op[r] \in {"restart", "upgrade", "stop"}
    BY <1>1, <1>5, OpAt DEF Stop, PathAt
  <2>2. "wait" \in Steps[op[r]]
    BY <2>1, StepsFacts
  <2>3. Leave(r) \/ Go(r, "stop", loc[r]) \/ (Goto(r, "wait") /\ UNCHANGED <<op, loc>>)
    BY <1>5 DEF Stop
  <2>4. CASE Goto(r, "wait") /\ UNCHANGED <<op, loc>>
    <3>1. Onward(r, op[r], "wait", loc[r])
      BY <1>1, <1>m, <1>s, <2>2, <2>4 DEF Made
    <3>2. QED
      BY <3>1
  <2>5. QED
    BY <1>1, <1>g, <1>l, <2>1, <2>3, <2>4
<1>6. CASE Wait(r) \/ Kill(r) \/ Remove(r) \/ SaveConfig(r) \/ Connect(r)
  BY <1>1, <1>6, <1>g, <1>l DEF Wait, Kill, Remove, SaveConfig, Connect
<1>7. CASE Rpc(r)
  <2>1. pc[r] = "rpc"
    BY <1>7 DEF Rpc
  <2>2. \/ Leave(r) \/ Go(r, "rpc", loc[r])
        \/ loc[r].connect \in Boxes /\ Go(r, "rpc", [loc[r] EXCEPT !.config = setup[loc[r].connect]])
    BY <1>7 DEF Rpc, Running
  <2>3. CASE loc[r].connect \in Boxes /\ Go(r, "rpc", [loc[r] EXCEPT !.config = setup[loc[r].connect]])
    <3>1. setup[loc[r].connect] \in Configs
      BY <1>1, <2>3
    <3>2. [loc[r] EXCEPT !.config = setup[loc[r].connect]] \in Locals
      BY <1>1, <3>1, LocalType
    <3>3. QED
      BY <1>g, <2>1, <2>3, <3>2
  <2>4. QED
    BY <1>1, <1>g, <1>l, <2>1, <2>2, <2>3
<1>8. CASE Count(r)
  <2>1. pc[r] = "count" /\ row.count + 1 \in Nat
    BY <1>1, <1>8 DEF Count, RowSet
  <2>2. [loc[r] EXCEPT !.count = row.count + 1] \in Locals
    BY <1>1, <2>1, LocalType
  <2>3. Leave(r) \/ Go(r, "count", [loc[r] EXCEPT !.count = row.count + 1])
    BY <1>8 DEF Count
  <2>4. QED
    BY <1>g, <1>l, <2>1, <2>2, <2>3
<1>9. CASE StartBox(r)
  <2>1. pc[r] = "start"
    BY <1>9 DEF StartBox
  <2>2. CASE Leave(r)
    BY <1>l, <2>2
  <2>3. CASE ~Leave(r)
    <3>1. PICK b \in Boxes : Go(r, "start", [loc[r] EXCEPT !.new = b])
      BY <1>9, <2>3 DEF StartBox
    <3>2. [loc[r] EXCEPT !.new = b] \in Locals /\ [loc[r] EXCEPT !.new = b].new = b
      BY <1>1, LocalType
    <3>3. QED
      BY <1>g, <2>1, <3>1, <3>2
  <2>4. QED
    BY <2>2, <2>3
<1>10. CASE Insert(r)
  <2>1. pc[r] = "insert" /\ op[r] = "start" /\ loc[r].new \in Boxes
    BY <1>1, <1>10, OpAt DEF Insert, PathAt, Made
  <2>2. Go(r, "insert", loc[r]) \/ (Goto(r, "undoStop") /\ UNCHANGED <<op, loc>>)
    BY <1>10 DEF Insert
  <2>3. CASE Goto(r, "undoStop") /\ UNCHANGED <<op, loc>>
    <3>1. Onward(r, op[r], "undoStop", loc[r])
      BY <1>1, <1>m, <1>s, <2>1, <2>3, StepsFacts
    <3>2. QED
      BY <2>1, <3>1
  <2>4. QED
    BY <1>1, <1>g, <2>1, <2>2, <2>3
<1>11. CASE UndoStop(r)
  <2>1. pc[r] = "undoStop" /\ op[r] = "start" /\ loc[r].new \in Boxes
    BY <1>1, <1>11, OpAt DEF UndoStop, PathAt, Made
  <2>2. Goto(r, "undoRemove") /\ UNCHANGED <<op, loc>>
    BY <1>11 DEF UndoStop
  <2>3. Onward(r, op[r], "undoRemove", loc[r])
    BY <1>1, <1>m, <1>s, <2>1, <2>2, StepsFacts
  <2>4. QED
    BY <2>1, <2>3
<1>12. CASE UndoRemove(r) \/ Delete(r)
  BY <1>12, <1>l DEF UndoRemove, Delete
<1>13. QED
  BY <1>2, <1>3, <1>4, <1>5, <1>6, <1>7, <1>8, <1>9, <1>10, <1>11, <1>12 DEF Serve

\* The requests keep their types.
LEMMA ServeRequest ==
    ASSUME IInv, NEW r \in Requests, Serve(r)
    PROVE  RequestOK' /\ made' = made
<1>1. RequestOK /\ pc[r] # "idle" /\ made' = made
  BY Parts DEF Serve, Find, Read, Stopping, Starting, MarkRunning, Exited, Status, Stop, Wait, Kill, Remove,
     Rpc, SaveConfig, Count, StartBox, Connect, Insert, UndoStop, UndoRemove, Delete
<1>2. made \in 0..MaxRequests /\ made > 0
  BY <1>1 DEF RequestOK, PathInv, PathAt
<1>3. PICK o, s, l : Onward(r, o, s, l)
  BY ServeOnward
<1>4. QED
  BY <1>1, <1>2, <1>3, MoveType, ConstantsAssumption DEF Onward

\* A fault is counted, and both flags keep their types.
LEMMA FaultType ==
    ASSUME RestOK, Fine \/ Fault
    PROVE  faults' \in 0..MaxFaults /\ tidy' \in BOOLEAN /\ faults' >= faults
<1>1. faults' \in 0..MaxFaults /\ faults' >= faults
  BY ConstantsAssumption DEF RestOK, Fine, Fault
<1>2. tidy' \in BOOLEAN
  BY DEF RestOK, Fine, Fault
<1>3. QED
  BY <1>1, <1>2

\* Events are told in order.
LEMMA TellType ==
    ASSUME DockerOK, NEW b \in Boxes, NEW a \in Seq(Actions), Tell(b, a)
    PROVE  events' \in Seq(EventSet) /\ Len(events') <= MaxEvents
<1>1. CASE ~subscribed
  BY <1>1 DEF Tell, DockerOK
<1>2. CASE subscribed
  <2> DEFINE t == [i \in 1..Len(a) |-> [box |-> b, action |-> a[i]]]
  <2>1. Len(a) \in Nat /\ \A i \in 1..Len(a) : a[i] \in Actions
    BY LenProperties, ElementOfSeq
  <2>2. t \in [1..Len(a) -> EventSet]
    BY <2>1 DEF EventSet
  <2>3. t \in Seq(EventSet) /\ Len(t) = Len(a)
    BY <2>1, <2>2
  <2>4. events' = events \o t /\ Len(events) + Len(a) <= MaxEvents
    BY <1>2 DEF Tell
  <2> HIDE DEF t
  <2>5. events \in Seq(EventSet)
    BY DEF DockerOK
  <2>6. events \o t \in Seq(EventSet) /\ Len(events \o t) = Len(events) + Len(t)
    BY <2>3, <2>5, ConcatProperties
  <2>7. QED
    BY <2>3, <2>4, <2>6
<1>3. QED
  BY <1>1, <1>2

\* The lists of actions that are told.
LEMMA ActionLists ==
    /\ <<"kill">> \in Seq(Actions) /\ <<"start">> \in Seq(Actions) /\ <<"destroy">> \in Seq(Actions)
    /\ <<"die0">> \in Seq(Actions) /\ <<"die1">> \in Seq(Actions)
    /\ <<"die0", "stop">> \in Seq(Actions) /\ <<"die1", "stop">> \in Seq(Actions)
    /\ <<"kill", "die1">> \in Seq(Actions) /\ <<"kill", "die1", "destroy">> \in Seq(Actions)
BY DEF Actions

\* A container that ends.
LEMMA EndsType ==
    ASSUME DockerOK, NEW b \in Boxes, NEW s \in BoxStates, Ends(b, s)
    PROVE  box' \in [Boxes -> BoxStates] /\ missed' \in SUBSET Boxes
BY DEF Ends, DockerOK

\* What a stop and a removal do to Docker.
LEMMA StopType ==
    ASSUME DockerOK, NEW b \in Boxes, StopEnds(b) \/ ForceRemove(b)
    PROVE  /\ box' \in [Boxes -> BoxStates] /\ missed' \in SUBSET Boxes
           /\ events' \in Seq(EventSet) /\ Len(events') <= MaxEvents
<1>1. \E s \in BoxStates : Ends(b, s)
  BY DEF StopEnds, ForceRemove, BoxStates
<1>2. \E a \in Seq(Actions) : Tell(b, a)
  BY ActionLists DEF StopEnds, ForceRemove
<1>3. QED
  BY <1>1, <1>2, EndsType, TellType

\* Requests keep the types of Docker.
LEMMA ServeDocker ==
    ASSUME IInv, NEW r \in Requests, Serve(r)
    PROVE  DockerOK'
<1>0. DockerOK /\ RequestOK
  BY Parts
<1>1. /\ loc[r] \in Locals /\ PathAt(r) /\ op[r] \in Ops
      /\ events \in Seq(EventSet) /\ Len(events) <= MaxEvents
  BY <1>0 DEF RequestOK, PathInv, DockerOK
<1>u. CASE UNCHANGED <<docker, missed>>
  BY <1>0, <1>u DEF docker, DockerOK
<1>2. CASE Find(r) \/ Read(r) \/ Stopping(r) \/ Starting(r) \/ MarkRunning(r) \/ Exited(r) \/ Rpc(r)
           \/ SaveConfig(r) \/ Count(r) \/ Connect(r) \/ Insert(r) \/ Delete(r)
  BY <1>2, <1>u DEF Find, Read, Stopping, Starting, MarkRunning, Exited, Status, Rpc, SaveConfig, Count,
     Connect, Insert, Delete
<1>3. CASE Stop(r)
  <2>1. UNCHANGED <<box, tag, setup, subscribed, missed>>
    BY <1>3 DEF Stop
  <2>2. events' = events \/ (loc[r].connect \in Boxes /\ Tell(loc[r].connect, <<"kill">>))
    BY <1>3 DEF Stop, Running
  <2>3. events' \in Seq(EventSet) /\ Len(events') <= MaxEvents
    BY <1>0, <1>1, <2>2, ActionLists, TellType
  <2>4. QED
    BY <1>0, <2>1, <2>3 DEF DockerOK
<1>4. CASE Wait(r) \/ Kill(r) \/ Remove(r) \/ UndoStop(r) \/ UndoRemove(r)
  <2>1. UNCHANGED <<tag, setup, subscribed>>
    BY <1>4 DEF Wait, Kill, Remove, UndoStop, UndoRemove
  <2>2. \/ UNCHANGED <<box, events, missed>>
        \/ \E b \in Boxes : StopEnds(b) \/ ForceRemove(b)
        \/ \E b \in Boxes : Ends(b, "failed") /\ Tell(b, <<"kill", "die1">>)
    BY <1>1, <1>4 DEF Wait, Kill, Remove, UndoStop, UndoRemove, Running, Exists, PathAt, Made
  <2>3. /\ box' \in [Boxes -> BoxStates] /\ missed' \in SUBSET Boxes
        /\ events' \in Seq(EventSet) /\ Len(events') <= MaxEvents
    <3>1. CASE UNCHANGED <<box, events, missed>>
      BY <1>0, <3>1 DEF DockerOK
    <3>2. CASE \E b \in Boxes : StopEnds(b) \/ ForceRemove(b)
      BY <1>0, <3>2, StopType
    <3>3. CASE \E b \in Boxes : Ends(b, "failed") /\ Tell(b, <<"kill", "die1">>)
      <4>1. "failed" \in BoxStates
        BY DEF BoxStates
      <4>2. QED
        BY <1>0, <3>3, <4>1, ActionLists, EndsType, TellType
    <3>4. QED
      BY <2>2, <3>1, <3>2, <3>3
  <2>4. QED
    BY <1>0, <2>1, <2>3 DEF DockerOK
<1>5. CASE StartBox(r)
  <2>1. CASE UNCHANGED <<box, tag, setup, events>>
    BY <1>5, <1>u, <2>1 DEF StartBox, docker
  <2>2. CASE ~UNCHANGED <<box, tag, setup, events>>
    <3>1. PICK b \in Boxes : /\ box' = [box EXCEPT ![b] = "running"]
                             /\ tag' = [tag EXCEPT ![b] = IF op[r] = "start" THEN 1 ELSE loc[r].count]
                             /\ setup' = [setup EXCEPT ![b] = loc[r].config]
                             /\ Tell(b, <<"start">>)
      BY <1>5, <2>2 DEF StartBox
    <3>2. loc[r].count \in Nat /\ loc[r].config \in Configs /\ "running" \in BoxStates
      BY <1>1 DEF Locals, BoxStates
    <3>3. box' \in [Boxes -> BoxStates] /\ tag' \in [Boxes -> Nat] /\ setup' \in [Boxes -> Configs]
      BY <1>0, <3>1, <3>2 DEF DockerOK
    <3>4. events' \in Seq(EventSet) /\ Len(events') <= MaxEvents
      BY <1>0, <3>1, ActionLists, TellType
    <3>5. UNCHANGED <<subscribed, missed>>
      BY <1>5 DEF StartBox
    <3>6. QED
      BY <1>0, <3>3, <3>4, <3>5 DEF DockerOK
  <2>3. QED
    BY <2>1, <2>2
<1>6. QED
  BY <1>2, <1>3, <1>4, <1>5 DEF Serve

\* The row after an assignment.
LEMMA RowTypes ==
    ASSUME NEW x \in RowSet
    PROVE  /\ \A s \in Statuses : [x EXCEPT !.status = s] \in RowSet
           /\ \A c \in 0..MaxBoxes : [x EXCEPT !.connect = c] \in RowSet
           /\ \A c \in Configs : [x EXCEPT !.config = c] \in RowSet
           /\ \A n \in Nat : [x EXCEPT !.count = n] \in RowSet
<1>1. \A s \in Statuses : [x EXCEPT !.status = s] \in RowSet
  BY DEF RowSet
<1>2. \A c \in 0..MaxBoxes : [x EXCEPT !.connect = c] \in RowSet
  BY DEF RowSet
<1>3. \A c \in Configs : [x EXCEPT !.config = c] \in RowSet
  BY DEF RowSet
<1>4. \A n \in Nat : [x EXCEPT !.count = n] \in RowSet
  BY DEF RowSet
<1>5. QED
  BY <1>1, <1>2, <1>3, <1>4

\* What a request does to the row: it writes one column, inserts the row or deletes it.
LEMMA ServeRow ==
    ASSUME IInv, NEW r \in Requests, Serve(r)
    PROVE  \/ row' = row /\ existed' = existed
           \/ /\ row.exists /\ existed' = existed
              /\ \E s \in Statuses : row' = [row EXCEPT !.status = s]
           \/ /\ row.exists /\ existed' = existed
              /\ \E c \in Configs : row' = [row EXCEPT !.config = c]
           \/ /\ row.exists /\ existed' = existed /\ Connect(r)
              /\ loc[r].new \in Boxes /\ row' = [row EXCEPT !.connect = loc[r].new]
           \/ /\ row.exists /\ existed' = existed /\ Count(r) /\ ~Leave(r)
              /\ row' = [row EXCEPT !.count = row.count + 1]
           \/ /\ pc[r] = "insert" /\ existed' = TRUE /\ loc[r].new \in Boxes
              /\ row' = [exists |-> TRUE, status |-> "RUNNING", connect |-> loc[r].new,
                         count |-> 1, config |-> "kept"]
           \/ row' = NoRow /\ existed' = existed /\ Delete(r)
<1>0. RequestOK
  BY Parts
<1>1. PathAt(r) /\ loc[r] \in Locals /\ pc \in [Requests -> PCs]
  BY <1>0 DEF RequestOK, PathInv
<1>2. CASE Stopping(r) \/ Starting(r) \/ MarkRunning(r) \/ Exited(r)
  <2>1. PICK step \in PCs, s \in Statuses : Status(r, step, s)
    BY <1>2 DEF Stopping, Starting, MarkRunning, Exited, Statuses, PCs
  <2>2. QED
    BY <2>1 DEF Status, Update
<1>3. CASE SaveConfig(r)
  <2>1. loc[r].config \in Configs
    BY <1>1 DEF Locals
  <2>2. QED
    BY <1>3, <2>1 DEF SaveConfig, Update
<1>4. CASE Connect(r)
  BY <1>1, <1>4 DEF Connect, Update, PathAt, Made
<1>5. CASE Count(r)
  <2>1. CASE row' = row
    BY <1>5, <2>1 DEF Count
  <2>2. CASE row' # row
    <3>1. /\ row.exists /\ row' = [row EXCEPT !.count = row.count + 1] /\ existed' = existed
          /\ Go(r, "count", [loc[r] EXCEPT !.count = row.count + 1]) /\ pc[r] = "count"
      BY <1>5, <2>2 DEF Count
    <3>2. op[r] \in {"restart", "upgrade"}
      BY <1>0, <1>1, <3>1, OpAt DEF PathAt, RequestOK
    <3>3. Succ(r, "count") = "start"
      BY <3>2, ThenFacts DEF Succ
    <3>4. pc' = [pc EXCEPT ![r] = "start"]
      BY <3>1, <3>3 DEF Go, Goto
    <3>5. ~Leave(r)
      BY <1>1, <3>4 DEF Leave, Goto
    <3>6. QED
      BY <1>5, <3>1, <3>5
  <2>3. QED
    BY <2>1, <2>2
<1>6. CASE Insert(r)
  <2>1. pc[r] = "insert" /\ loc[r].new \in Boxes
    BY <1>1, <1>6 DEF Insert, PathAt, Made
  <2>2. \/ row' = row /\ existed' = existed
        \/ /\ existed' = TRUE
           /\ row' = [exists |-> TRUE, status |-> "RUNNING", connect |-> loc[r].new,
                      count |-> 1, config |-> "kept"]
    BY <1>6 DEF Insert
  <2>3. QED
    BY <2>1, <2>2
<1>7. CASE Delete(r)
  BY <1>7 DEF Delete
<1>8. CASE Find(r) \/ Read(r) \/ Stop(r) \/ Wait(r) \/ Kill(r) \/ Remove(r) \/ Rpc(r) \/ StartBox(r)
           \/ UndoStop(r) \/ UndoRemove(r)
  BY <1>8 DEF Find, Read, Stop, Wait, Kill, Remove, Rpc, StartBox, UndoStop, UndoRemove
<1>9. QED
  BY <1>2, <1>3, <1>4, <1>5, <1>6, <1>7, <1>8 DEF Serve

\* So the row keeps its type.
LEMMA ServeRowType ==
    ASSUME IInv, NEW r \in Requests, Serve(r)
    PROVE  RowOK'
<1>1. row \in RowSet /\ existed \in BOOLEAN /\ (row.exists => existed /\ row.connect \in Boxes)
  BY Parts DEF RowOK, RowInv
<1>2. row.exists \in BOOLEAN /\ row.count + 1 \in Nat /\ \A b \in Boxes : b \in 0..MaxBoxes
  BY <1>1, ConstantsAssumption DEF RowSet, Boxes
<1>3. CASE row' = row /\ existed' = existed
  BY <1>1, <1>3 DEF RowOK, RowInv
<1>4. CASE /\ row.exists /\ existed' = existed
           /\ \/ \E s \in Statuses : row' = [row EXCEPT !.status = s]
              \/ \E c \in Configs : row' = [row EXCEPT !.config = c]
              \/ loc[r].new \in Boxes /\ row' = [row EXCEPT !.connect = loc[r].new]
              \/ row' = [row EXCEPT !.count = row.count + 1]
  <2>1. row' \in RowSet
    BY <1>1, <1>2, <1>4, RowTypes
  <2>2. row'.connect \in Boxes
    BY <1>1, <1>4 DEF RowSet
  <2>3. QED
    BY <1>1, <1>4, <2>1, <2>2 DEF RowOK, RowInv
<1>5. CASE /\ existed' = TRUE /\ loc[r].new \in Boxes
           /\ row' = [exists |-> TRUE, status |-> "RUNNING", connect |-> loc[r].new,
                      count |-> 1, config |-> "kept"]
  <2>1. row' \in RowSet
    BY <1>2, <1>5 DEF RowSet, Statuses, Configs
  <2>2. QED
    BY <1>5, <2>1 DEF RowOK, RowInv
<1>6. CASE row' = NoRow /\ existed' = existed
  <2>1. NoRow \in RowSet /\ ~NoRow.exists
    BY ConstantsAssumption DEF NoRow, NoBox, RowSet, Statuses, Configs
  <2>2. QED
    BY <1>1, <1>6, <2>1 DEF RowOK, RowInv
<1>7. QED
  BY <1>3, <1>4, <1>5, <1>6, ServeRow

\* And so does the rest.
LEMMA ServeRest ==
    ASSUME IInv, NEW r \in Requests, Serve(r)
    PROVE  RestOK' /\ crashed' = crashed /\ (Fine \/ Fault) /\ lost \subseteq lost'
<1>1. RestOK
  BY Parts
<1>2. Fine \/ Fault
  BY DEF Serve, Find, Read, Stopping, Starting, MarkRunning, Exited, Status, Stop, Wait, Kill, Remove,
     Rpc, SaveConfig, Count, StartBox, Connect, Insert, UndoStop, UndoRemove, Delete, FailsIf
<1>3. UNCHANGED <<wpc, listed, wnew, crashed>>
  BY DEF Serve, Find, Read, Stopping, Starting, MarkRunning, Exited, Status, Stop, Wait, Kill, Remove,
     Rpc, SaveConfig, Count, StartBox, Connect, Insert, UndoStop, UndoRemove, Delete, watcher
<1>4. stopped' = stopped \/ stopped' \in BOOLEAN
  BY DEF Serve, Find, Read, Stopping, Starting, MarkRunning, Exited, Status, Stop, Wait, Kill, Remove,
     Rpc, SaveConfig, Count, StartBox, Connect, Insert, UndoStop, UndoRemove, Delete
<1>5. faults' \in 0..MaxFaults /\ tidy' \in BOOLEAN
  BY <1>1, <1>2, FaultType
<1>6. stopped' \in BOOLEAN
  BY <1>1, <1>4 DEF RestOK
<1>7. lost' = lost \/ \E b \in Boxes : lost' = lost \cup {b}
  BY DEF Serve, Find, Read, Stopping, Starting, MarkRunning, Exited, Status, Stop, Wait, Kill, Remove,
     Rpc, SaveConfig, Count, StartBox, Connect, Insert, UndoStop, UndoRemove, Delete
<1>8. QED
  BY <1>1, <1>2, <1>3, <1>5, <1>6, <1>7 DEF RestOK

\* A request keeps all of them.
LEMMA ServeType ==
    ASSUME IInv, NEW r \in Requests, Serve(r)
    PROVE  IInv'
<1>1. (DockerOK /\ RowOK /\ RequestOK /\ RestOK)'
  BY ServeDocker, ServeRowType, ServeRequest, ServeRest
<1>2. QED
  BY <1>1, Parts DEF IInv, TypeOK, DockerOK, RowOK, RequestOK, RestOK, Locals, RowSet, EventSet

\* Where a new request begins.
LEMMA BeginMove ==
    ASSUME IInv, NEW r \in Requests, NEW o \in Ops \ {"none"}, Begin(r, o)
    PROVE  /\ pc[r] = "idle" /\ made' = made + 1 /\ made < MaxRequests
           /\ \E s \in {"start", "find", "read"} :
                /\ Move(r, o, s, loc[r]) /\ s \in Steps[o]
                /\ s = "start" => o = "start" /\ ~existed /\ made = 0
                /\ s # "start" => o # "start" /\ row.exists
<1>0. RequestOK
  BY Parts
<1>1. loc' = [loc EXCEPT ![r] = loc[r]]
  BY <1>0 DEF Begin, RequestOK
<1>2. PICK s \in {"start", "find", "read"} :
        /\ s = "find" => o = "restart" /\ row.exists
        /\ s = "read" => o \in {"upgrade", "stop", "kill", "delete", "update"} /\ row.exists
        /\ s = "start" => o = "start" /\ ~existed /\ made = 0
        /\ Goto(r, s)
  BY DEF Begin
<1>3. s \in Steps[o]
  BY <1>2, StepsFacts
<1>4. Move(r, o, s, loc[r])
  BY <1>1, <1>2 DEF Begin, Goto, Move
<1>5. QED
  BY <1>2, <1>3, <1>4 DEF Begin

\* A new request.
LEMMA BeginType ==
    ASSUME IInv, NEW r \in Requests, NEW o \in Ops \ {"none"}, Begin(r, o)
    PROVE  IInv'
<1>0. DockerOK /\ RowOK /\ RequestOK /\ RestOK
  BY Parts
<1>1. UNCHANGED <<docker, missed, row, existed, watcher, faults, crashed, lost>> /\ stopped' = FALSE
  BY DEF Begin
<1>2. tidy' \in BOOLEAN
  BY <1>0 DEF Begin, RestOK
<1>3. RequestOK'
  <2>1. PICK s \in Steps[o] : Move(r, o, s, loc[r]) /\ s \in {"start", "find", "read"}
    BY BeginMove
  <2>2. made \in Nat /\ made' \in 0..MaxRequests /\ made' >= made /\ made' > 0
    BY <1>0, BeginMove, ConstantsAssumption DEF RequestOK
  <2>3. loc[r] \in Locals /\ s \notin Made
    BY <1>0, <2>1 DEF RequestOK, Made
  <2>4. QED
    BY <1>0, <2>1, <2>2, <2>3, MoveType
<1>4. (DockerOK /\ RowOK /\ RestOK)'
  BY <1>0, <1>1, <1>2 DEF docker, watcher, DockerOK, RowOK, RowInv, RestOK
<1>5. QED
  BY <1>3, <1>4 DEF IInv, TypeOK, DockerOK, RowOK, RequestOK, RestOK, Locals, RowSet, EventSet

\* What the watcher does to the row: it writes a status.
LEMMA WatchRow ==
    ASSUME IInv, Watch
    PROVE  row' = row \/ (row.exists /\ \E s \in Statuses : row' = [row EXCEPT !.status = s])
<1>1. wnew \in Statuses
  BY Parts DEF RestOK
<1>2. QED
  BY <1>1 DEF Watch, ListStatuses, SyncStatus, FixStatus, SubscribeEvents, HandleEvent, ApplyEvent, Update

\* The watcher keeps the types.
LEMMA WatchType ==
    ASSUME IInv, Watch
    PROVE  IInv'
<1>0. DockerOK /\ RowOK /\ RequestOK /\ RestOK
  BY Parts
<1>1. UNCHANGED <<box, tag, setup, missed, existed, request, made, stopped, crashed, lost>>
  BY DEF Watch, ListStatuses, SyncStatus, FixStatus, SubscribeEvents, HandleEvent, ApplyEvent, docker,
     history
<1>2. RowOK'
  <2>1. row \in RowSet /\ existed \in BOOLEAN /\ (row.exists => existed /\ row.connect \in Boxes)
    BY <1>0 DEF RowOK, RowInv
  <2>2. CASE row' = row
    BY <1>1, <2>1, <2>2 DEF RowOK, RowInv
  <2>3. CASE row.exists /\ \E s \in Statuses : row' = [row EXCEPT !.status = s]
    <3>1. row' \in RowSet
      BY <2>1, <2>3, RowTypes
    <3>2. row'.connect = row.connect
      BY <2>1, <2>3 DEF RowSet
    <3>3. QED
      BY <1>1, <2>1, <2>3, <3>1, <3>2 DEF RowOK, RowInv
  <2>4. QED
    BY <2>2, <2>3, WatchRow
<1>3. RequestOK'
  BY <1>0, <1>1 DEF request, RequestOK, PathInv, PathAt
<1>4. DockerOK'
  <2>1. subscribed' = subscribed \/ subscribed' = TRUE
    BY DEF Watch, ListStatuses, SyncStatus, FixStatus, SubscribeEvents, HandleEvent, ApplyEvent, docker
  <2>2. events' = events \/ (events # <<>> /\ events' = Tail(events))
    BY DEF Watch, ListStatuses, SyncStatus, FixStatus, SubscribeEvents, HandleEvent, ApplyEvent, docker
  <2>3. events \in Seq(EventSet) /\ Len(events) <= MaxEvents
    BY <1>0 DEF DockerOK
  <2>4. events' \in Seq(EventSet) /\ Len(events') <= MaxEvents
    BY <2>2, <2>3, HeadTailProperties, LenProperties, ConstantsAssumption
  <2>5. QED
    BY <1>0, <1>1, <2>1, <2>4 DEF DockerOK
<1>5. RestOK'
  <2>1. faults' \in 0..MaxFaults /\ tidy' \in BOOLEAN
    <3>1. (Fine \/ Fault) \/ UNCHANGED <<faults, tidy>>
      BY DEF Watch, ListStatuses, SyncStatus, FixStatus, SubscribeEvents, HandleEvent, ApplyEvent,
         FailsIf, history
    <3>2. QED
      BY <1>0, <3>1, FaultType DEF RestOK
  <2>2. wpc' \in {"list", "sync", "fix", "subscribe", "watch", "update"}
    BY <1>0 DEF Watch, ListStatuses, SyncStatus, FixStatus, SubscribeEvents, HandleEvent, ApplyEvent,
       RestOK, watcher
  <2>3. listed' \in [Boxes -> Statuses \cup {"missing"}]
    <3>1. \A b \in Boxes : BoxStatus(b) \in Statuses \cup {"missing"}
      BY DEF BoxStatus, Statuses
    <3>2. \/ listed' = listed \/ listed' = [b \in Boxes |-> BoxStatus(b)] \/ listed' = NotListed
      BY DEF Watch, ListStatuses, SyncStatus, FixStatus, SubscribeEvents, HandleEvent, ApplyEvent, watcher
    <3>3. QED
      BY <1>0, <3>1, <3>2 DEF RestOK, NotListed
  <2>4. wnew' \in Statuses
    <3>1. CASE SyncStatus
      <4>1. row.exists => listed[row.connect] \in Statuses \cup {"missing"}
        BY <1>0 DEF RowOK, RowInv, RestOK
      <4>2. row.status \in Statuses /\ "CRASHED" \in Statuses
        BY <1>0 DEF RowOK, RowSet, Statuses
      <4>3. QED
        BY <1>0, <3>1, <4>1, <4>2 DEF SyncStatus, RestOK
    <3>2. CASE HandleEvent
      <4>1. events # <<>> /\ events \in Seq(EventSet)
        BY <1>0, <3>2 DEF HandleEvent, DockerOK
      <4>2. Head(events) \in EventSet
        BY <4>1, HeadTailProperties
      <4>3. EventToStatus(Head(events).action) \in Statuses
        BY <4>2 DEF EventSet, Actions, EventToStatus, Statuses
      <4>4. QED
        BY <1>0, <3>2, <4>3 DEF HandleEvent, RestOK, watcher
    <3>3. CASE ~SyncStatus /\ ~HandleEvent
      BY <1>0, <3>3 DEF Watch, ListStatuses, FixStatus, SubscribeEvents, ApplyEvent, RestOK, Statuses
    <3>4. QED
      BY <3>1, <3>2, <3>3
  <2>5. QED
    BY <1>0, <1>1, <2>1, <2>2, <2>3, <2>4 DEF RestOK
<1>6. QED
  BY <1>2, <1>3, <1>4, <1>5 DEF IInv, TypeOK, DockerOK, RowOK, RequestOK, RestOK, Locals, RowSet, EventSet

\* A container that ends by itself, a lost stream and a new start of the controller.
LEMMA OtherType ==
    ASSUME IInv, (\E b \in Boxes : Die(b)) \/ Disconnect \/ ControllerRestart
    PROVE  IInv'
<1>0. DockerOK /\ RowOK /\ RequestOK /\ RestOK
  BY Parts
<1>1. CASE \E b \in Boxes : Die(b)
  <2>1. PICK b \in Boxes : Die(b)
    BY <1>1
  <2>2. PICK s \in {"exited", "failed"}, a \in {<<"die0">>, <<"die1">>} : Ends(b, s) /\ Tell(b, a)
    BY <2>1 DEF Die
  <2>3. a \in Seq(Actions) /\ s \in BoxStates
    BY ActionLists DEF BoxStates
  <2>4. /\ box' \in [Boxes -> BoxStates] /\ missed' \in SUBSET Boxes
        /\ events' \in Seq(EventSet) /\ Len(events') <= MaxEvents
    BY <1>0, <2>2, <2>3, EndsType, TellType
  <2>5. UNCHANGED <<tag, setup, subscribed, row, request, made, watcher, tidy, existed, stopped, faults,
                    crashed, lost>>
    BY <2>1 DEF Die
  <2>6. (DockerOK /\ RowOK)'
    BY <1>0, <2>4, <2>5 DEF DockerOK, RowOK, RowInv
  <2>7. (RequestOK /\ RestOK)'
    BY <1>0, <2>5 DEF RequestOK, PathInv, PathAt, RestOK, request, watcher
  <2>8. QED
    BY <2>6, <2>7 DEF IInv, TypeOK, DockerOK, RowOK, RequestOK, RestOK, Locals, RowSet, EventSet
<1>2. ASSUME Disconnect \/ ControllerRestart
      PROVE  (DockerOK /\ RowOK /\ RestOK)'
  <2>1. Fault /\ events' = <<>> /\ subscribed' = FALSE
    BY <1>2 DEF Disconnect, ControllerRestart
  <2>2. UNCHANGED <<box, tag, setup, row, missed, existed>>
    BY <1>2 DEF Disconnect, ControllerRestart
  <2>3. <<>> \in Seq(EventSet) /\ Len(<<>>) <= MaxEvents
    BY EmptySeq, ConstantsAssumption
  <2>4. DockerOK'
    BY <1>0, <2>1, <2>2, <2>3 DEF DockerOK
  <2>5. RowOK'
    BY <1>0, <2>2 DEF RowOK, RowInv
  <2>6. faults' \in 0..MaxFaults /\ tidy' \in BOOLEAN
    BY <1>0, <2>1, FaultType
  <2>7. /\ wpc' \in {"list", "subscribe"} /\ (listed' = listed \/ listed' = NotListed)
        /\ wnew' \in {wnew, "UNKNOWN"}
    BY <1>2 DEF Disconnect, ControllerRestart
  <2>8. stopped' \in BOOLEAN /\ crashed' \in BOOLEAN /\ lost' = lost
    BY <1>0, <1>2 DEF Disconnect, ControllerRestart, RestOK
  <2>9. QED
    BY <1>0, <2>4, <2>5, <2>6, <2>7, <2>8 DEF RestOK, NotListed, Statuses
<1>3. CASE Disconnect
  <2>1. RequestOK'
    BY <1>0, <1>3 DEF Disconnect, RequestOK, PathInv, PathAt, request
  <2>2. QED
    BY <1>2, <1>3, <2>1 DEF IInv, TypeOK, DockerOK, RowOK, RequestOK, RestOK, Locals, RowSet, EventSet
<1>4. CASE ControllerRestart
  <2>1. /\ op' = [r \in Requests |-> "none"] /\ pc' = [r \in Requests |-> "idle"]
        /\ loc' = [r \in Requests |-> Blank] /\ made' = made
    BY <1>4 DEF ControllerRestart
  <2>2. "none" \in Ops /\ "idle" \in PCs /\ Blank \in Locals
    BY BlankType DEF Ops, PCs
  <2>3. PathInv'
    BY <2>1, StepsFacts DEF PathInv, PathAt, Made
  <2>4. RequestOK'
    BY <1>0, <2>1, <2>2, <2>3 DEF RequestOK
  <2>5. QED
    BY <1>2, <1>4, <2>4 DEF IInv, TypeOK, DockerOK, RowOK, RequestOK, RestOK, Locals, RowSet, EventSet
<1>5. QED
  BY <1>1, <1>3, <1>4

\* The controller starts in such a state ...
LEMMA IInvInit == Init => IInv
<1> SUFFICES ASSUME Init PROVE IInv
  OBVIOUS
<1>1. DockerOK
  <2>1. events \in Seq(EventSet) /\ Len(events) <= MaxEvents
    BY EmptySeq, ConstantsAssumption DEF Init
  <2>2. box \in [Boxes -> BoxStates] /\ tag \in [Boxes -> Nat] /\ setup \in [Boxes -> Configs]
    BY DEF Init, BoxStates, Configs
  <2>3. subscribed \in BOOLEAN /\ missed \in SUBSET Boxes
    BY DEF Init
  <2>4. QED
    BY <2>1, <2>2, <2>3 DEF DockerOK
<1>2. RowOK
  <2>1. CASE row = NoRow /\ existed = FALSE
    <3>1. NoRow \in RowSet /\ ~NoRow.exists
      BY ConstantsAssumption DEF NoRow, NoBox, RowSet, Statuses, Configs
    <3>2. QED
      BY <2>1, <3>1 DEF RowOK, RowInv
  <2>2. CASE /\ existed = TRUE
             /\ row = [exists |-> TRUE, status |-> "RUNNING", connect |-> 1, count |-> 1,
                       config |-> "kept"]
    <3>1. 1 \in Boxes /\ 1 \in 0..MaxBoxes
      BY ConstantsAssumption DEF Boxes
    <3>2. row \in RowSet
      BY <2>2, <3>1 DEF RowSet, Statuses, Configs
    <3>3. QED
      BY <2>2, <3>1, <3>2 DEF RowOK, RowInv
  <2>3. QED
    BY <2>1, <2>2 DEF Init
<1>3. RequestOK
  <2>1. "none" \in Ops /\ "idle" \in PCs /\ Blank \in Locals
    BY BlankType DEF Ops, PCs
  <2>2. PathInv
    BY StepsFacts DEF Init, PathInv, PathAt, Made
  <2>3. QED
    BY <2>1, <2>2, ConstantsAssumption DEF Init, RequestOK
<1>4. RestOK
  <2>1. wnew \in Statuses /\ faults \in 0..MaxFaults /\ listed \in [Boxes -> Statuses \cup {"missing"}]
    BY ConstantsAssumption DEF Init, NotListed, Statuses
  <2>2. tidy \in BOOLEAN /\ stopped \in BOOLEAN /\ crashed \in BOOLEAN /\ lost \in SUBSET Boxes
    BY DEF Init
  <2>3. wpc \in {"list", "sync", "fix", "subscribe", "watch", "update"}
    BY DEF Init
  <2>4. QED
    BY <2>1, <2>2, <2>3 DEF RestOK
<1>5. QED
  BY <1>1, <1>2, <1>3, <1>4, Parts

\* ... and stays in one.
LEMMA IInvStep == IInv /\ [Next]_vars => IInv'
<1> SUFFICES ASSUME IInv, [Next]_vars PROVE IInv'
  OBVIOUS
<1>1. CASE UNCHANGED vars
  BY <1>1 DEF vars, docker, request, watcher, history, IInv, TypeOK, PathInv, PathAt, RowInv
<1>2. QED
  BY <1>1, ServeType, BeginType, WatchType, OtherType DEF Next

\* Containers, events, the row, the requests and the watcher keep their types, and no
\* request leaves the way of its operation.
THEOREM TypeCorrect == Spec => []TypeOK
<1>1. IInv => TypeOK
  BY DEF IInv
<1>2. QED
  BY <1>1, IInvInit, IInvStep, PTL DEF Spec

\* So the invariant holds for ever.
LEMMA IInvHolds == Spec => []IInv
BY IInvInit, IInvStep, PTL DEF Spec

--------------------------------------------------------------------------------
(* The first container of a host *)

\* Start is the first request of a host and the only one until the host has a row.
FirstInv ==
    /\ ~existed => \A r \in Requests : pc[r] # "idle" => op[r] = "start"
    /\ \A r, q \in Requests : op[r] = "start" /\ op[q] = "start" => r = q
    /\ \A r \in Requests : op[r] = "start" /\ pc[r] \in {"start", "insert"} => ~existed

FInv == IInv /\ FirstInv

\* A request that serves is not idle, and has an operation that fits its step.
LEMMA ServeAt ==
    ASSUME IInv, NEW r \in Requests, Serve(r)
    PROVE  /\ pc[r] # "idle" /\ op[r] \in Ops /\ made > 0
           /\ pc[r] = "insert" => op[r] = "start"
           /\ pc[r] = "count" => op[r] \in {"restart", "upgrade"}
           /\ pc[r] = "start" => op[r] \in {"start", "restart", "upgrade"}
           /\ \A q \in Requests : op[q] = "none" <=> pc[q] = "idle"
<1>1. RequestOK
  BY Parts
<1>2. \A q \in Requests : op[q] \in Ops /\ PathAt(q)
  BY <1>1 DEF RequestOK, PathInv
<1>3. pc[r] # "idle"
  BY DEF Serve, Find, Read, Stopping, Starting, MarkRunning, Exited, Status, Stop, Wait, Kill, Remove,
     Rpc, SaveConfig, Count, StartBox, Connect, Insert, UndoStop, UndoRemove, Delete
<1>4. QED
  BY <1>2, <1>3, OpAt DEF PathAt

\* What becomes of the requests when one of them serves.
LEMMA ServeSteps ==
    ASSUME IInv, NEW r \in Requests, Serve(r)
    PROVE  /\ \A q \in Requests \ {r} : op'[q] = op[q] /\ pc'[q] = pc[q] /\ loc'[q] = loc[q]
           /\ op'[r] \in {op[r], "none"}
           /\ pc'[r] # "idle" => op'[r] = op[r]
           /\ pc'[r] = "start" => pc[r] = "count" /\ op'[r] = op[r]
           /\ pc'[r] = "insert" => pc[r] = "start" /\ op[r] = "start"
           /\ pc'[r] = "undoStop" => pc[r] = "insert" /\ loc'[r] = loc[r]
           /\ pc'[r] = "undoRemove" => pc[r] = "undoStop" /\ loc'[r] = loc[r]
<1>1. PICK o, s, l : /\ Onward(r, o, s, l)
                     /\ s = "start" => pc[r] = "count" /\ o = op[r]
                     /\ s = "insert" => pc[r] = "start" /\ op[r] = "start" /\ o = "start"
                     /\ s = "undoStop" => pc[r] = "insert" /\ l = loc[r] /\ o = op[r]
                     /\ s = "undoRemove" => pc[r] = "undoStop" /\ l = loc[r] /\ o = op[r]
  BY ServeOnward
<1>2. RequestOK /\ s \in PCs /\ (s # "idle" => o = op[r])
  <2>1. s \in PCs /\ (s = "idle" <=> o = "none")
    BY <1>1, OpAt DEF Onward
  <2>2. QED
    BY <1>1, <2>1, Parts DEF Onward
<1>3. /\ op'[r] = o /\ pc'[r] = s /\ loc'[r] = l
      /\ \A q \in Requests \ {r} : op'[q] = op[q] /\ pc'[q] = pc[q] /\ loc'[q] = loc[q]
  BY <1>1, <1>2, MoveFacts DEF Onward
<1>4. QED
  BY <1>1, <1>2, <1>3 DEF Onward

\* The host has a row only once Start has inserted one.
LEMMA ServeExisted ==
    ASSUME IInv, NEW r \in Requests, Serve(r)
    PROVE  existed' = existed \/ (existed' = TRUE /\ pc[r] = "insert")
BY ServeRow

\* Requests keep the first one apart.
LEMMA FirstServe ==
    ASSUME FInv, NEW r \in Requests, Serve(r)
    PROVE  FirstInv'
<1>1. /\ IInv /\ FirstInv
      /\ pc[r] # "idle" /\ op[r] \in Ops /\ made > 0
      /\ pc[r] = "insert" => op[r] = "start"
      /\ pc[r] = "count" => op[r] \in {"restart", "upgrade"}
  BY ServeAt DEF FInv
<1>2. /\ \A q \in Requests \ {r} : op'[q] = op[q] /\ pc'[q] = pc[q] /\ loc'[q] = loc[q]
      /\ op'[r] \in {op[r], "none"}
      /\ pc'[r] # "idle" => op'[r] = op[r]
      /\ pc'[r] = "start" => pc[r] = "count" /\ op'[r] = op[r]
      /\ pc'[r] = "insert" => pc[r] = "start" /\ op[r] = "start"
  BY <1>1, ServeSteps
<1>3. existed' = existed \/ (existed' = TRUE /\ pc[r] = "insert")
  BY <1>1, ServeExisted
<1>4. \A q \in Requests : op'[q] = "start" => op[q] = "start"
  BY <1>1, <1>2
<1>5. ~existed' => \A q \in Requests : pc'[q] # "idle" => op'[q] = "start"
  BY <1>1, <1>2, <1>3 DEF FirstInv
<1>6. \A q, p \in Requests : op'[q] = "start" /\ op'[p] = "start" => q = p
  BY <1>1, <1>4 DEF FirstInv
<1>7. ASSUME NEW q \in Requests, op'[q] = "start", pc'[q] \in {"start", "insert"}
      PROVE  ~existed'
  <2>1. CASE q = r
    BY <1>1, <1>2, <1>3, <1>7, <2>1 DEF FirstInv
  <2>2. CASE q # r
    BY <1>1, <1>2, <1>3, <1>4, <1>7, <2>2 DEF FirstInv
  <2>3. QED
    BY <2>1, <2>2
<1>8. QED
  BY <1>5, <1>6, <1>7 DEF FirstInv

\* What a Begin changes in the requests.
LEMMA BeginSteps ==
    ASSUME IInv, NEW r \in Requests, NEW o \in Ops \ {"none"}, Begin(r, o)
    PROVE  /\ \A q \in Requests \ {r} : op'[q] = op[q] /\ pc'[q] = pc[q] /\ loc'[q] = loc[q]
           /\ op'[r] = o /\ pc'[r] \in {"start", "find", "read"} /\ pc[r] = "idle" /\ loc'[r] = loc[r]
           /\ pc'[r] = "start" <=> o = "start"
           /\ pc'[r] = "start" => /\ ~existed /\ made = 0
                                  /\ \A q \in Requests : op[q] = "none" /\ pc[q] = "idle"
           /\ pc'[r] # "start" => row.exists /\ existed
<1>1. PICK s \in {"start", "find", "read"} :
        /\ Move(r, o, s, loc[r]) /\ s \in Steps[o] /\ pc[r] = "idle"
        /\ s = "start" => o = "start" /\ ~existed /\ made = 0
        /\ s # "start" => o # "start" /\ row.exists
  BY BeginMove
<1>2. RequestOK /\ loc[r] \in Locals /\ s \in PCs /\ (row.exists => existed)
  <2>1. RequestOK /\ (row.exists => existed)
    BY Parts DEF RowOK, RowInv
  <2>2. QED
    BY <1>1, <2>1, OpAt DEF RequestOK
<1>3. /\ op'[r] = o /\ pc'[r] = s /\ loc'[r] = loc[r]
      /\ \A q \in Requests \ {r} : op'[q] = op[q] /\ pc'[q] = pc[q] /\ loc'[q] = loc[q]
  BY <1>1, <1>2, MoveFacts
<1>4. made = 0 => \A q \in Requests : op[q] = "none" /\ pc[q] = "idle"
  <2>1. \A q \in Requests : PathAt(q) /\ op[q] \in Ops
    BY <1>2 DEF RequestOK, PathInv
  <2>2. \A q \in Requests : pc[q] = "idle" => op[q] = "none"
    BY <2>1, OpAt DEF PathAt
  <2>3. \A q \in Requests : pc[q] # "idle" => made > 0
    BY <2>1 DEF PathAt
  <2>4. made = 0 => ~(made > 0)
    OBVIOUS
  <2>5. QED
    BY <2>2, <2>3, <2>4
<1>5. QED
  BY <1>1, <1>2, <1>3, <1>4

\* Every step does.
LEMMA FInvStep == FInv /\ [Next]_vars => FInv'
<1> SUFFICES ASSUME FInv, [Next]_vars PROVE FirstInv'
  BY IInvStep DEF FInv
<1>1. CASE UNCHANGED <<op, pc, existed>>
  BY <1>1 DEF FInv, FirstInv
<1>2. CASE (\E b \in Boxes : Die(b)) \/ Watch \/ Disconnect \/ UNCHANGED vars
  BY <1>1, <1>2 DEF Die, Watch, ListStatuses, SyncStatus, FixStatus, SubscribeEvents, HandleEvent,
     ApplyEvent, Disconnect, vars, request, history
<1>3. CASE ControllerRestart
  BY <1>3 DEF ControllerRestart, FirstInv
<1>4. ASSUME NEW r \in Requests, NEW o \in Ops \ {"none"}, Begin(r, o)
      PROVE  FirstInv'
  <2>1. existed' = existed
    BY <1>4 DEF Begin
  <2>2. /\ IInv /\ FirstInv
    BY DEF FInv
  <2>3. /\ \A q \in Requests \ {r} : op'[q] = op[q] /\ pc'[q] = pc[q]
        /\ op'[r] = o /\ pc'[r] \in {"start", "find", "read"}
        /\ pc'[r] = "start" <=> o = "start"
        /\ pc'[r] = "start" => ~existed /\ \A q \in Requests : op[q] = "none" /\ pc[q] = "idle"
        /\ pc'[r] # "start" => existed
    BY <1>4, <2>2, BeginSteps
  <2>4. QED
    BY <2>1, <2>2, <2>3 DEF FirstInv
<1>5. QED
  BY <1>2, <1>3, <1>4, FirstServe DEF Next, FInv

\* It holds for ever.
LEMMA FInvHolds == Spec => []FInv
<1>1. Init => FirstInv
  BY DEF Init, FirstInv
<1>2. Init => FInv
  BY <1>1, IInvInit DEF FInv
<1>3. QED
  BY <1>2, FInvStep, PTL DEF Spec

--------------------------------------------------------------------------------
(* Instance numbers *)

\* A request that is about to start a container with the number it has counted.
Counted(r) == op[r] # "start" /\ pc[r] = "start"

\* No container has a number above the count in the row, and the number of a request that
\* is about to start one is of its own.
CountInv ==
    /\ row.exists => \A b \in Boxes : tag[b] <= row.count
    /\ ~existed /\ made = 0 => \A b \in Boxes : tag[b] = 0
    /\ \A r \in Requests : op[r] = "start" /\ pc[r] = "start" => \A b \in Boxes : tag[b] = 0
    /\ \A r \in Requests : pc[r] = "insert" => \A b \in Boxes : tag[b] <= 1
    /\ \A r \in Requests : Counted(r) => /\ loc[r].count # 0 /\ (row.exists => loc[r].count <= row.count)
                                         /\ \A b \in Boxes : tag[b] # loc[r].count
    /\ \A r, q \in Requests : Counted(r) /\ Counted(q) /\ q # r => loc[q].count # loc[r].count

\* connector.Start gives the number to a new container.
LEMMA CountStart ==
    ASSUME FInv, CountInv, InstanceIsUnique, NEW r \in Requests, StartBox(r), tag' # tag
    PROVE  CountInv' /\ InstanceIsUnique'
<1>1. /\ IInv /\ FirstInv /\ Serve(r) /\ pc[r] = "start" /\ tag \in [Boxes -> Nat]
      /\ UNCHANGED <<row, existed>>
  BY DEF FInv, Serve, StartBox, IInv, TypeOK
<1>0. made \in Nat
  BY <1>1, ConstantsAssumption DEF IInv, TypeOK
<1>2. op[r] \in {"start", "restart", "upgrade"} /\ made > 0 /\ made' = made
  BY <1>1, ServeAt, ServeRequest
<1> DEFINE n == IF op[r] = "start" THEN 1 ELSE loc[r].count
<1>3. PICK b \in Boxes : tag[b] = 0 /\ tag' = [tag EXCEPT ![b] = n]
  BY <1>1 DEF StartBox
<1>4. n \in Nat /\ n # 0 /\ \A a \in Boxes : tag[a] # n
  <2>1. CASE op[r] = "start"
    BY <1>1, <2>1 DEF CountInv
  <2>2. CASE op[r] # "start"
    <3>1. Counted(r) /\ loc[r].count \in Nat
      BY <1>1, <2>2 DEF Counted, IInv, TypeOK
    <3>2. QED
      BY <2>2, <3>1 DEF CountInv
  <2>3. QED
    BY <2>1, <2>2
<1>5. /\ \A q \in Requests \ {r} : op'[q] = op[q] /\ pc'[q] = pc[q] /\ loc'[q] = loc[q]
      /\ pc'[r] # "start" /\ (pc'[r] = "insert" => op[r] = "start")
  BY <1>1, ServeSteps
<1>6. op[r] = "start" => ~existed /\ \A q \in Requests \ {r} : pc[q] = "idle"
  BY <1>1 DEF FirstInv
<1>7. \A q \in Requests \ {r} : pc[q] # "insert" /\ ~(op[q] = "start" /\ pc[q] = "start")
  <2>1. SUFFICES ASSUME NEW q \in Requests \ {r}, pc[q] = "insert" \/ (op[q] = "start" /\ pc[q] = "start")
                 PROVE  FALSE
    OBVIOUS
  <2>2. op[q] = "start"
    <3>1. pc[q] \in Steps[op[q]] /\ op[q] \in Ops
      BY <1>1 DEF IInv, TypeOK, PathInv, PathAt
    <3>2. QED
      BY <2>1, <3>1, OpAt
  <2>3. ~existed
    BY <1>1, <2>1, <2>2 DEF FirstInv
  <2>4. op[r] = "start"
    BY <1>1, <2>3 DEF FirstInv
  <2>5. QED
    BY <1>1, <2>2, <2>4 DEF FirstInv
<1>8. tag'[b] = n /\ (\A a \in Boxes \ {b} : tag'[a] = tag[a])
  BY <1>1, <1>3
<1>n. (op[r] = "start" => n = 1) /\ (op[r] # "start" => n = loc[r].count /\ Counted(r))
  BY <1>1 DEF Counted
<1> HIDE DEF n
<1>9. InstanceIsUnique'
  BY <1>3, <1>4, <1>8 DEF InstanceIsUnique
<1>10. row'.exists => \A a \in Boxes : tag'[a] <= row'.count
  <2>1. ASSUME row.exists PROVE n <= row.count
    <3>1. op[r] # "start"
      BY <1>1, <1>6, <2>1 DEF IInv, RowInv
    <3>2. QED
      BY <1>n, <2>1, <3>1 DEF CountInv
  <2>2. row'.exists = row.exists /\ row'.count = row.count
    BY <1>1
  <2>3. row.exists => \A a \in Boxes : tag[a] <= row.count
    BY DEF CountInv
  <2>4. QED
    BY <1>8, <2>1, <2>2, <2>3
<1>11. ~(~existed' /\ made' = 0)
  BY <1>0, <1>2
<1>12. \A q \in Requests : ~(op'[q] = "start" /\ pc'[q] = "start")
  BY <1>5, <1>7
<1>13. \A q \in Requests : pc'[q] = "insert" => \A a \in Boxes : tag'[a] <= 1
  <2>1. pc'[r] = "insert" => \A a \in Boxes : tag'[a] <= 1
    <3>1. SUFFICES ASSUME pc'[r] = "insert" PROVE \A a \in Boxes : tag'[a] <= 1
      OBVIOUS
    <3>2. n = 1 /\ \A a \in Boxes : tag[a] = 0
      BY <1>1, <1>5, <1>n, <3>1 DEF CountInv
    <3>3. QED
      BY <1>8, <3>2
  <2>2. QED
    BY <1>5, <1>7, <2>1
<1>14. ASSUME NEW q \in Requests, Counted(q)'
       PROVE  q # r /\ Counted(q) /\ loc'[q] = loc[q] /\ op[r] # "start"
  BY <1>5, <1>6, <1>14 DEF Counted
<1>15. ASSUME NEW q \in Requests, Counted(q)'
       PROVE  /\ loc'[q].count # 0 /\ (row'.exists => loc'[q].count <= row'.count)
              /\ \A a \in Boxes : tag'[a] # loc'[q].count
  <2>1. /\ q # r /\ Counted(q) /\ loc'[q] = loc[q] /\ op[r] # "start"
    BY <1>14, <1>15
  <2>2. n # loc[q].count
    BY <1>n, <2>1 DEF CountInv
  <2>3. /\ loc[q].count # 0 /\ (row.exists => loc[q].count <= row.count)
        /\ \A a \in Boxes : tag[a] # loc[q].count
    BY <2>1 DEF CountInv
  <2>4. QED
    BY <1>1, <1>8, <2>1, <2>2, <2>3
<1>16. \A p, q \in Requests : Counted(p)' /\ Counted(q)' /\ q # p => loc'[q].count # loc'[p].count
  BY <1>14 DEF CountInv
<1>17. CountInv'
  BY <1>10, <1>11, <1>12, <1>13, <1>15, <1>16 DEF CountInv
<1>18. QED
  BY <1>9, <1>17

\* The other steps of a request: a number is counted, or the row inserted or deleted.
LEMMA CountServe ==
    ASSUME FInv, CountInv, InstanceIsUnique, NEW r \in Requests, Serve(r), tag' = tag
    PROVE  CountInv' /\ InstanceIsUnique'
<1>1. IInv /\ FirstInv /\ tag \in [Boxes -> Nat] /\ row \in RowSet
  BY Parts DEF FInv, DockerOK, RowOK
<1>0. made \in Nat
  BY <1>1, ConstantsAssumption DEF IInv, TypeOK
<1>2. /\ made > 0 /\ made' = made /\ pc[r] # "idle"
      /\ pc[r] = "insert" => op[r] = "start"
      /\ pc[r] = "count" => op[r] \in {"restart", "upgrade"}
  BY <1>1, ServeAt, ServeRequest
<1>3. /\ \A q \in Requests \ {r} : op'[q] = op[q] /\ pc'[q] = pc[q] /\ loc'[q] = loc[q]
      /\ pc'[r] = "start" => pc[r] = "count" /\ op'[r] = op[r]
      /\ pc'[r] = "insert" => pc[r] = "start" /\ op[r] = "start"
  BY <1>1, ServeSteps
<1>4. InstanceIsUnique'
  BY DEF InstanceIsUnique
\* a number that was counted
<1>5. ASSUME pc'[r] = "start"
      PROVE  row.exists /\ loc'[r].count = row.count + 1 /\ row'.count = row.count + 1
  <2>1. Count(r) /\ pc[r] = "count"
    BY <1>3, <1>5 DEF Serve, Find, Read, Stopping, Starting, MarkRunning, Exited, Status, Stop, Wait, Kill,
       Remove, Rpc, SaveConfig, StartBox, Connect, Insert, UndoStop, UndoRemove, Delete
  <2>2. pc \in [Requests -> PCs] /\ loc \in [Requests -> Locals] /\ loc[r] \in Locals
    BY <1>1, Parts DEF RequestOK
  <2>3. ~Leave(r) /\ Succ(r, "count") = "start"
    <3>1. ~Leave(r)
      BY <1>5, <2>2 DEF Leave, Goto
    <3>2. op[r] \in {"restart", "upgrade"}
      BY <1>2, <2>1
    <3>3. QED
      BY <3>1, <3>2, ThenFacts DEF Succ
  <2>4. /\ row.exists /\ row' = [row EXCEPT !.count = row.count + 1]
        /\ Go(r, "count", [loc[r] EXCEPT !.count = row.count + 1])
    BY <2>1, <2>3 DEF Count
  <2>5. loc' = [loc EXCEPT ![r] = [loc[r] EXCEPT !.count = row.count + 1]]
    BY <2>3, <2>4 DEF Go
  <2>6. QED
    BY <1>1, <2>2, <2>4, <2>5 DEF RowSet, Locals
<1>6. \/ row'.exists /\ row.exists /\ row'.count = row.count /\ pc'[r] # "start"
      \/ row'.exists /\ row.exists /\ row'.count = row.count + 1
      \/ row'.exists /\ row'.count = 1 /\ pc[r] = "insert"
      \/ ~row'.exists
  <2>1. CASE row' = row
    <3>1. row.count \in Nat
      BY <1>1 DEF RowSet
    <3>2. pc'[r] # "start"
      BY <1>5, <2>1, <3>1
    <3>3. QED
      BY <2>1, <3>2
  <2>2. CASE /\ row.exists
             /\ \/ \E s \in Statuses : row' = [row EXCEPT !.status = s]
                \/ \E c \in Configs : row' = [row EXCEPT !.config = c]
                \/ row' = [row EXCEPT !.connect = loc[r].new]
    <3>1. row'.exists = row.exists /\ row'.count = row.count /\ row.count \in Nat
      BY <1>1, <2>2 DEF RowSet
    <3>2. pc'[r] # "start"
      BY <1>5, <3>1
    <3>3. QED
      BY <2>2, <3>1, <3>2
  <2>3. CASE row.exists /\ row' = [row EXCEPT !.count = row.count + 1]
    BY <1>1, <2>3 DEF RowSet
  <2>4. CASE /\ pc[r] = "insert"
             /\ row' = [exists |-> TRUE, status |-> "RUNNING", connect |-> loc[r].new,
                        count |-> 1, config |-> "kept"]
    BY <2>4
  <2>5. CASE row' = NoRow
    BY <2>5 DEF NoRow
  <2>6. QED
    BY <1>1, <2>1, <2>2, <2>3, <2>4, <2>5, ServeRow
<1>7. row.count \in Nat
  BY <1>1 DEF RowSet
<1>8. row'.exists => \A b \in Boxes : tag'[b] <= row'.count
  BY <1>1, <1>6, <1>7 DEF CountInv
<1>9. \A q \in Requests : op'[q] = "start" /\ pc'[q] = "start" => \A b \in Boxes : tag'[b] = 0
  BY <1>2, <1>3 DEF CountInv
<1>10. \A q \in Requests : pc'[q] = "insert" => \A b \in Boxes : tag'[b] <= 1
  <2>1. pc'[r] = "insert" => \A b \in Boxes : tag[b] = 0
    BY <1>3 DEF CountInv
  <2>2. pc'[r] = "insert" => \A b \in Boxes : tag[b] <= 1
    BY <1>1, <2>1
  <2>3. QED
    BY <1>3, <2>2 DEF CountInv
<1>11. pc[r] = "insert" => \A q \in Requests : ~Counted(q)'
  BY <1>1, <1>2, <1>3 DEF FirstInv, Counted
<1>12. \A q \in Requests \ {r} : Counted(q)' => Counted(q) /\ loc'[q] = loc[q] /\ loc[q].count \in Nat
  <2>1. \A q \in Requests : loc[q].count \in Nat
    BY <1>1 DEF IInv, TypeOK
  <2>2. QED
    BY <1>3, <2>1 DEF Counted
<1>13. ASSUME NEW q \in Requests, Counted(q)'
       PROVE  /\ loc'[q].count # 0 /\ (row'.exists => loc'[q].count <= row'.count)
              /\ \A b \in Boxes : tag'[b] # loc'[q].count
  <2>1. CASE q = r
    <3>1. row.exists /\ loc'[r].count = row.count + 1 /\ row'.count = row.count + 1
      BY <1>5, <1>13, <2>1 DEF Counted
    <3>2. \A b \in Boxes : tag[b] <= row.count /\ tag[b] \in Nat
      BY <1>1, <3>1 DEF CountInv
    <3>3. QED
      BY <1>7, <2>1, <3>1, <3>2
  <2>2. CASE q # r
    <3>1. Counted(q) /\ loc'[q] = loc[q] /\ loc[q].count \in Nat
      BY <1>12, <1>13, <2>2
    <3>2. /\ loc[q].count # 0 /\ (row.exists => loc[q].count <= row.count)
          /\ \A b \in Boxes : tag[b] # loc[q].count
      BY <3>1 DEF CountInv
    <3>3. pc[r] # "insert"
      BY <1>11, <1>13
    <3>4. QED
      BY <1>6, <1>7, <3>1, <3>2, <3>3
  <2>3. QED
    BY <2>1, <2>2
<1>14. ASSUME NEW p \in Requests, NEW q \in Requests, Counted(p)', Counted(q)', q # p
       PROVE  loc'[q].count # loc'[p].count
  <2>1. ASSUME NEW x \in Requests \ {r}, Counted(r)', Counted(x)'
        PROVE  loc'[x].count # loc'[r].count
    <3>1. row.exists /\ loc'[r].count = row.count + 1
      BY <1>5, <2>1 DEF Counted
    <3>2. Counted(x) /\ loc'[x] = loc[x] /\ loc[x].count \in Nat
      BY <1>12, <2>1
    <3>3. loc[x].count <= row.count
      BY <3>1, <3>2 DEF CountInv
    <3>4. QED
      BY <1>7, <3>1, <3>2, <3>3
  <2>2. CASE p = r \/ q = r
    BY <1>14, <2>1, <2>2
  <2>3. CASE p # r /\ q # r
    BY <1>12, <1>14, <2>3 DEF CountInv
  <2>4. QED
    BY <2>2, <2>3
<1>15. ~(~existed' /\ made' = 0)
  BY <1>0, <1>2
<1>16. CountInv'
  BY <1>8, <1>9, <1>10, <1>13, <1>14, <1>15 DEF CountInv
<1>17. QED
  BY <1>4, <1>16

\* Every step keeps the numbers apart.
LEMMA CountStep == FInv /\ CountInv /\ InstanceIsUnique /\ [Next]_vars => CountInv' /\ InstanceIsUnique'
<1> SUFFICES ASSUME FInv, CountInv, InstanceIsUnique, [Next]_vars
             PROVE  CountInv' /\ InstanceIsUnique'
  OBVIOUS
<1>1. CASE \E r \in Requests : Serve(r)
  <2>1. PICK r \in Requests : Serve(r)
    BY <1>1
  <2>2. tag' = tag \/ StartBox(r)
    BY <2>1 DEF Serve, Find, Read, Stopping, Starting, MarkRunning, Exited, Status, Stop, Wait, Kill, Remove,
       Rpc, SaveConfig, Count, Connect, Insert, UndoStop, UndoRemove, Delete, docker
  <2>3. QED
    BY <2>1, <2>2, CountStart, CountServe
<1>2. ASSUME NEW r \in Requests, NEW o \in Ops \ {"none"}, Begin(r, o)
      PROVE  CountInv' /\ InstanceIsUnique'
  <2>1. UNCHANGED <<tag, row, existed>>
    BY <1>2 DEF Begin, docker
  <2>2. IInv /\ made' = made + 1 /\ made \in Nat
    BY <1>2, ConstantsAssumption DEF Begin, FInv, IInv, TypeOK
  <2>3. /\ \A q \in Requests \ {r} : op'[q] = op[q] /\ pc'[q] = pc[q] /\ loc'[q] = loc[q]
        /\ op'[r] = o /\ pc'[r] \in {"start", "find", "read"}
        /\ pc'[r] = "start" <=> o = "start"
        /\ pc'[r] = "start" => ~existed /\ made = 0
    BY <1>2, <2>2, BeginSteps
  <2>4. InstanceIsUnique'
    BY <2>1 DEF InstanceIsUnique
  <2>5. pc'[r] = "start" => \A b \in Boxes : tag[b] = 0
    BY <2>3 DEF CountInv
  <2>6. ~(made' = 0)
    BY <2>2
  <2>7. \A q \in Requests : Counted(q)' => q # r /\ Counted(q) /\ loc'[q] = loc[q]
    BY <2>3 DEF Counted
  <2>8. /\ row'.exists => \A b \in Boxes : tag'[b] <= row'.count
        /\ \A q \in Requests : op'[q] = "start" /\ pc'[q] = "start" => \A b \in Boxes : tag'[b] = 0
        /\ \A q \in Requests : pc'[q] = "insert" => \A b \in Boxes : tag'[b] <= 1
    BY <2>1, <2>3, <2>5 DEF CountInv
  <2>9. /\ \A q \in Requests : Counted(q)' =>
              /\ loc'[q].count # 0 /\ (row'.exists => loc'[q].count <= row'.count)
              /\ \A b \in Boxes : tag'[b] # loc'[q].count
        /\ \A p, q \in Requests : Counted(p)' /\ Counted(q)' /\ q # p => loc'[q].count # loc'[p].count
    BY <2>1, <2>7 DEF CountInv
  <2>10. CountInv'
    BY <2>6, <2>8, <2>9 DEF CountInv
  <2>11. QED
    BY <2>4, <2>10
<1>3. CASE Watch
  <2>1. UNCHANGED <<tag, op, pc, loc, made, existed>>
    BY <1>3 DEF Watch, ListStatuses, SyncStatus, FixStatus, SubscribeEvents, HandleEvent, ApplyEvent,
       docker, request, history
  <2>2. row'.exists = row.exists /\ row'.count = row.count
    <3>1. IInv /\ row \in RowSet
      BY Parts DEF FInv, RowOK
    <3>2. QED
      BY <1>3, <3>1, WatchRow DEF RowSet
  <2>3. InstanceIsUnique'
    BY <2>1 DEF InstanceIsUnique
  <2>4. CountInv'
    BY <2>1, <2>2 DEF CountInv, Counted
  <2>5. QED
    BY <2>3, <2>4
<1>4. CASE (\E b \in Boxes : Die(b)) \/ Disconnect \/ UNCHANGED vars
  <2>1. UNCHANGED <<tag, row, op, pc, loc, made, existed>>
    BY <1>4 DEF Die, Disconnect, vars, docker, request, history
  <2>2. QED
    BY <2>1 DEF InstanceIsUnique, CountInv, Counted
<1>5. CASE ControllerRestart
  <2>1. UNCHANGED <<tag, row, made, existed>> /\ \A r \in Requests : pc'[r] = "idle"
    BY <1>5 DEF ControllerRestart
  <2>2. QED
    BY <2>1 DEF InstanceIsUnique, CountInv, Counted
<1>6. QED
  BY <1>1, <1>2, <1>3, <1>4, <1>5 DEF Next

\* The numbers are in order when the controller starts.
LEMMA CountInit == Init => CountInv /\ InstanceIsUnique
<1> SUFFICES ASSUME Init PROVE CountInv /\ InstanceIsUnique
  OBVIOUS
<1>1. \A r \in Requests : pc[r] = "idle"
  BY DEF Init
<1>2. CASE row = NoRow /\ existed = FALSE /\ tag = [b \in Boxes |-> 0]
  BY <1>1, <1>2 DEF CountInv, Counted, InstanceIsUnique, NoRow
<1>3. CASE /\ existed = TRUE
           /\ row = [exists |-> TRUE, status |-> "RUNNING", connect |-> 1, count |-> 1,
                     config |-> "kept"]
           /\ tag = [b \in Boxes |-> IF b = 1 THEN 1 ELSE 0]
  <2>1. \A b \in Boxes : tag[b] \in 0..1 /\ (tag[b] # 0 => b = 1)
    BY <1>3
  <2>2. InstanceIsUnique
    BY <2>1 DEF InstanceIsUnique
  <2>3. \A b \in Boxes : tag[b] <= row.count
    BY <1>3, <2>1
  <2>4. QED
    BY <1>1, <1>3, <2>2, <2>3 DEF CountInv, Counted
<1>4. QED
  BY <1>2, <1>3 DEF Init

\* And for ever.
LEMMA CountHolds == Spec => [](CountInv /\ InstanceIsUnique)
BY CountInit, FInvHolds, CountStep, PTL DEF Spec

\* IncrementHostInstanceCount gives every container of a host a log tag of its own, whatever
\* requests run at the same time, fail or die with the controller.
THEOREM InstanceTheorem == Spec => []InstanceIsUnique
BY CountHolds, PTL

--------------------------------------------------------------------------------
(* Containers without a row *)

\* Where Start still knows the container it has made.
Owning == {"insert", "undoStop", "undoRemove"}

\* A container of a host without a row has a Start that will insert the row or remove the
\* container, and only a fault brings it to the latter, or its Start was told of an error.
OrphanInv ==
    /\ \A r \in Requests : pc[r] \in {"undoStop", "undoRemove"} => faults >= 1
    /\ ~existed /\ ~crashed /\ faults <= 1 =>
         \A b \in Boxes \ lost :
           box[b] = "running" => \E r \in Requests : pc[r] \in Owning /\ loc[r].new = b

\* A step of Docker or of a request makes a container run only in connector.Start.
LEMMA ServeBox ==
    ASSUME IInv, NEW r \in Requests, Serve(r)
    PROVE  \/ \A b \in Boxes : box'[b] = "running" => box[b] = "running"
           \/ /\ StartBox(r)
              /\ \E b \in Boxes : /\ box' = [box EXCEPT ![b] = "running"]
                                  /\ Go(r, "start", [loc[r] EXCEPT !.new = b]) \/ b \in lost'
<1>1. box \in [Boxes -> BoxStates]
  BY DEF IInv, TypeOK
<1>2. CASE StartBox(r)
  BY <1>2 DEF StartBox
<1>3. CASE box' = box
  BY <1>3
<1>4. CASE \E b, s : Ends(b, s) /\ s \in {"exited", "failed", "gone"}
  BY <1>1, <1>4 DEF Ends
<1>5. CASE Wait(r) \/ Kill(r) \/ Remove(r) \/ UndoStop(r) \/ UndoRemove(r)
  BY <1>3, <1>4, <1>5 DEF Wait, Kill, Remove, UndoStop, UndoRemove, StopEnds, ForceRemove
<1>6. QED
  BY <1>2, <1>3, <1>5 DEF Serve, Find, Read, Stopping, Starting, MarkRunning, Exited, Status, Stop, Rpc,
     SaveConfig, Count, Connect, Insert, Delete, docker

\* A request keeps the container of a host without a row, or has removed it.
LEMMA OrphanServe ==
    ASSUME FInv, OrphanInv, NEW r \in Requests, Serve(r)
    PROVE  OrphanInv'
<1>1. /\ IInv /\ FirstInv /\ faults \in Nat /\ box \in [Boxes -> BoxStates]
      /\ pc \in [Requests -> PCs] /\ loc \in [Requests -> Locals]
  BY DEF FInv, IInv, TypeOK, Locals
<1>2. /\ \A q \in Requests \ {r} : op'[q] = op[q] /\ pc'[q] = pc[q] /\ loc'[q] = loc[q]
      /\ pc'[r] = "undoStop" => pc[r] = "insert" /\ loc'[r] = loc[r]
      /\ pc'[r] = "undoRemove" => pc[r] = "undoStop" /\ loc'[r] = loc[r]
  BY <1>1, ServeSteps
<1>3. crashed' = crashed /\ faults' \in Nat /\ (faults' = faults \/ faults' = faults + 1)
  <2>1. crashed' = crashed /\ (Fine \/ Fault)
    BY <1>1, ServeRest
  <2>2. faults' = faults \/ faults' = faults + 1
    BY <2>1 DEF Fine, Fault
  <2>3. QED
    BY <1>1, <2>1, <2>2
<1>4. pc'[r] = "undoStop" => faults' >= 1
  <2>1. SUFFICES ASSUME pc'[r] = "undoStop" PROVE Fault
    BY <1>1 DEF Fault
  <2>2. pc[r] = "insert"
    BY <1>2, <2>1
  <2>3. Insert(r)
    BY <2>2 DEF Serve, Find, Read, Stopping, Starting, MarkRunning, Exited, Status, Stop, Wait, Kill, Remove,
       Rpc, SaveConfig, Count, StartBox, Connect, UndoStop, UndoRemove, Delete
  <2>4. Succ(r, "insert") = "idle"
    <3>1. op[r] = "start"
      BY <1>1, <2>2, ServeAt
    <3>2. QED
      BY <3>1, ThenFacts DEF Succ
  <2>5. ~Go(r, "insert", loc[r])
    BY <1>1, <2>1, <2>4 DEF Go, Leave, Goto
  <2>6. QED
    BY <2>3, <2>5 DEF Insert
<1>5. \A q \in Requests : pc'[q] \in {"undoStop", "undoRemove"} => faults' >= 1
  <2>1. pc'[r] = "undoRemove" => faults >= 1
    BY <1>2 DEF OrphanInv
  <2>2. \A q \in Requests \ {r} : pc'[q] \in {"undoStop", "undoRemove"} => faults >= 1
    BY <1>2 DEF OrphanInv
  <2>3. faults >= 1 => faults' >= 1
    BY <1>1, <1>3
  <2>4. QED
    BY <1>4, <2>1, <2>2, <2>3
<1>6. ASSUME ~existed', ~crashed', faults' <= 1, NEW b \in Boxes \ lost', box'[b] = "running"
      PROVE  \E q \in Requests : pc'[q] \in Owning /\ loc'[q].new = b
  <2>1. ~existed /\ ~crashed /\ faults <= 1
    <3>1. ~existed
      BY <1>1, <1>6, ServeExisted
    <3>2. faults <= 1
      BY <1>1, <1>3, <1>6
    <3>3. QED
      BY <1>3, <1>6, <3>1, <3>2
  <2>2. ASSUME NEW q \in Requests, pc[q] \in Owning, loc[q].new = b, q # r
        PROVE  \E p \in Requests : pc'[p] \in Owning /\ loc'[p].new = b
    BY <1>2, <2>2
  <2>3. CASE box[b] = "running"
    <3>0. b \notin lost
      BY <1>1, ServeRest
    <3>1. PICK q \in Requests : pc[q] \in Owning /\ loc[q].new = b
      BY <2>1, <2>3, <3>0 DEF OrphanInv
    <3>2. CASE q = r
      <4>1. CASE pc[r] = "insert"
        <5>1. Insert(r)
          BY <4>1 DEF Serve, Find, Read, Stopping, Starting, MarkRunning, Exited, Status, Stop, Wait, Kill,
             Remove, Rpc, SaveConfig, Count, StartBox, Connect, UndoStop, UndoRemove, Delete
        <5>2. Goto(r, "undoStop") /\ loc' = loc
          BY <1>6, <5>1 DEF Insert
        <5>3. pc'[r] = "undoStop" /\ loc'[r].new = b
          BY <1>1, <3>1, <3>2, <5>2 DEF Goto
        <5>4. QED
          BY <5>3 DEF Owning
      <4>2. CASE pc[r] = "undoStop"
        <5>1. UndoStop(r)
          BY <4>2 DEF Serve, Find, Read, Stopping, Starting, MarkRunning, Exited, Status, Stop, Wait, Kill,
             Remove, Rpc, SaveConfig, Count, StartBox, Connect, Insert, UndoRemove, Delete
        <5>2. Goto(r, "undoRemove") /\ loc' = loc
          BY <5>1 DEF UndoStop
        <5>3. pc'[r] = "undoRemove" /\ loc'[r].new = b
          BY <1>1, <3>1, <3>2, <5>2 DEF Goto
        <5>4. QED
          BY <5>3 DEF Owning
      <4>3. CASE pc[r] = "undoRemove"
        <5>1. UndoRemove(r)
          BY <4>3 DEF Serve, Find, Read, Stopping, Starting, MarkRunning, Exited, Status, Stop, Wait, Kill,
             Remove, Rpc, SaveConfig, Count, StartBox, Connect, Insert, UndoStop, Delete
        <5>2. faults >= 1
          BY <4>3 DEF OrphanInv
        <5>3. ~Fault
          BY <1>1, <1>6, <5>2 DEF Fault
        <5>4. box' = [box EXCEPT ![b] = "gone"]
          BY <3>1, <3>2, <5>1, <5>3 DEF UndoRemove, ForceRemove, Ends
        <5>5. QED
          BY <1>1, <1>6, <5>4
      <4>4. QED
        BY <3>1, <3>2, <4>1, <4>2, <4>3 DEF Owning
    <3>3. QED
      BY <2>2, <3>1, <3>2
  <2>4. CASE box[b] # "running"
    <3>1. StartBox(r)
      BY <1>1, <1>6, <2>4, ServeBox
    <3>2. PICK a \in Boxes : /\ box' = [box EXCEPT ![a] = "running"]
                             /\ Go(r, "start", [loc[r] EXCEPT !.new = a]) \/ a \in lost'
      BY <1>1, <1>6, <2>4, ServeBox
    <3>3. a = b /\ Go(r, "start", [loc[r] EXCEPT !.new = a])
      BY <1>1, <1>6, <2>4, <3>2
    <3>4. pc[r] = "start" /\ op[r] = "start"
      BY <1>1, <2>1, <3>1 DEF StartBox, FirstInv
    <3>5. Succ(r, "start") = "insert"
      BY <3>4, ThenFacts DEF Succ
    <3>6. pc' = [pc EXCEPT ![r] = "insert"] /\ loc' = [loc EXCEPT ![r] = [loc[r] EXCEPT !.new = a]]
      BY <3>3, <3>5 DEF Go, Goto
    <3>7. pc'[r] = "insert" /\ loc'[r] = [loc[r] EXCEPT !.new = a] /\ loc[r] \in Locals
      BY <1>1, <3>6
    <3>8. loc'[r].new = b
      BY <3>3, <3>7, LocalType
    <3>9. QED
      BY <3>7, <3>8 DEF Owning
  <2>5. QED
    BY <2>3, <2>4
<1>7. QED
  BY <1>5, <1>6 DEF OrphanInv

\* So does every step.
LEMMA OrphanStep == FInv /\ OrphanInv /\ [Next]_vars => OrphanInv'
<1> SUFFICES ASSUME FInv, OrphanInv, [Next]_vars PROVE OrphanInv'
  OBVIOUS
<1>1. IInv /\ faults \in Nat /\ box \in [Boxes -> BoxStates]
  BY DEF FInv, IInv, TypeOK
<1>2. CASE /\ UNCHANGED <<pc, loc, existed, crashed, lost>> /\ (faults' = faults \/ faults' = faults + 1)
           /\ \A b \in Boxes : box'[b] = "running" => box[b] = "running"
  <2>1. faults' <= 1 => faults <= 1
    BY <1>1, <1>2
  <2>2. faults >= 1 => faults' >= 1
    BY <1>1, <1>2
  <2>3. QED
    BY <1>2, <2>1, <2>2 DEF OrphanInv
<1>3. CASE \E b \in Boxes : Die(b)
  <2>1. PICK b \in Boxes, s \in {"exited", "failed"} : box' = [box EXCEPT ![b] = s]
    BY <1>3 DEF Die, Ends
  <2>2. \A a \in Boxes : box'[a] = "running" => box[a] = "running"
    BY <1>1, <2>1
  <2>3. QED
    BY <1>2, <1>3, <2>2 DEF Die, request
<1>4. CASE Watch \/ Disconnect \/ UNCHANGED vars
  BY <1>2, <1>4 DEF Watch, ListStatuses, SyncStatus, FixStatus, SubscribeEvents, HandleEvent, ApplyEvent,
     Disconnect, Fault, Fine, FailsIf, vars, docker, request, history
<1>5. CASE ControllerRestart
  BY <1>5 DEF ControllerRestart, OrphanInv
<1>6. ASSUME NEW r \in Requests, NEW o \in Ops \ {"none"}, Begin(r, o)
      PROVE  OrphanInv'
  <2>1. UNCHANGED <<box, existed, crashed, faults, lost>>
    BY <1>6 DEF Begin, docker
  <2>2. /\ \A q \in Requests \ {r} : pc'[q] = pc[q] /\ loc'[q] = loc[q]
        /\ pc'[r] \in {"start", "find", "read"} /\ pc[r] = "idle"
    BY <1>1, <1>6, BeginSteps
  <2>3. QED
    BY <2>1, <2>2 DEF OrphanInv, Owning
<1>7. QED
  BY <1>3, <1>4, <1>5, <1>6, OrphanServe DEF Next

\* A Start whose CreateHost fails leaves no container running, unless a second failure
\* or the end of the controller prevents the compensation.  What connector.Start leaves
\* running behind an error is not compensated, and is excepted.
THEOREM OrphanTheorem == Spec => []NoStartOrphan
<1>1. Init => OrphanInv
  BY DEF Init, OrphanInv
<1>2. OrphanInv => NoStartOrphan
  BY DEF OrphanInv, NoStartOrphan, Busy, Running, Owning
<1>3. QED
  BY <1>1, <1>2, FInvHolds, OrphanStep, PTL DEF Spec

--------------------------------------------------------------------------------
(* What the events that are not handled yet say of a container *)

\* A status of a host whose container does not run.
Down == Statuses \ {"RUNNING"}

\* The event tells of the state of container c; that it is removed tells nothing.
About(e, c) == e.box = c /\ e.action # "destroy"

NoneIn(q, c) == \A i \in 1..Len(q) : ~About(q[i], c)

\* The last event about c tells of a status in S.
LastIn(q, c, S) ==
    \E i \in 1..Len(q) : /\ About(q[i], c) /\ EventToStatus(q[i].action) \in S
                         /\ \A j \in 1..Len(q) : j > i => ~About(q[j], c)

\* Container b was started after all that is told of b and of c.
StartIn(q, b, c) ==
    \E i \in 1..Len(q) : /\ q[i] = [box |-> b, action |-> "start"]
                         /\ \A j \in 1..Len(q) : j > i => ~About(q[j], b) /\ ~About(q[j], c)

\* Both cannot be.
LEMMA LastNone ==
    ASSUME NEW q, NEW c, NEW S, LastIn(q, c, S), NoneIn(q, c)
    PROVE  FALSE
BY DEF LastIn, NoneIn

\* The last status is also one of a larger set.
LEMMA LastMore ==
    ASSUME NEW q, NEW c, NEW S, NEW T, LastIn(q, c, S), S \subseteq T
    PROVE  LastIn(q, c, T)
BY DEF LastIn

\* Of no event.
LEMMA NoneEmpty == \A c : NoneIn(<<>>, c)
BY DEF NoneIn

\* A start is the last that is told of its container.
LEMMA StartLast ==
    ASSUME NEW q, NEW b, NEW c, StartIn(q, b, c)
    PROVE  LastIn(q, b, {"RUNNING"})
<1>1. PICK i \in 1..Len(q) : /\ q[i] = [box |-> b, action |-> "start"]
                             /\ \A j \in 1..Len(q) : j > i => ~About(q[j], b) /\ ~About(q[j], c)
  BY DEF StartIn
<1>2. q[i].box = b /\ q[i].action = "start"
  BY <1>1
<1>3. About(q[i], b) /\ EventToStatus(q[i].action) \in {"RUNNING"}
  BY <1>2 DEF About, EventToStatus
<1>4. QED
  BY <1>1, <1>3 DEF LastIn

\* handleEvent takes the first event.
LEMMA TailSays ==
    ASSUME NEW q \in Seq(EventSet), q # <<>>, NEW c
    PROVE  /\ NoneIn(q, c) => NoneIn(Tail(q), c) /\ ~About(Head(q), c)
           /\ \A S : LastIn(q, c, S) =>
                \/ LastIn(Tail(q), c, S)
                \/ /\ NoneIn(Tail(q), c) /\ About(Head(q), c)
                   /\ EventToStatus(Head(q).action) \in S
           /\ \A b : StartIn(q, b, c) =>
                \/ StartIn(Tail(q), b, c)
                \/ /\ NoneIn(Tail(q), b) /\ NoneIn(Tail(q), c)
                   /\ Head(q) = [box |-> b, action |-> "start"]
<1> DEFINE t == Tail(q)
<1>1. /\ Len(q) \in Nat /\ Len(q) > 0 /\ Len(t) = Len(q) - 1 /\ Head(q) = q[1]
      /\ \A i \in 1..Len(t) : t[i] = q[i + 1] /\ i + 1 \in 1..Len(q)
  <2>1. Len(q) \in Nat /\ Len(q) # 0 /\ Head(q) = q[1]
    BY EmptySeq, LenProperties
  <2>2. Len(t) = Len(q) - 1 /\ \A i \in 1..Len(t) : t[i] = q[i + 1]
    BY HeadTailProperties
  <2>3. QED
    BY <2>1, <2>2
<1>2. \A j \in 1..Len(q) : j > 1 => j - 1 \in 1..Len(t) /\ t[j - 1] = q[j]
  <2>1. SUFFICES ASSUME NEW j \in 1..Len(q), j > 1 PROVE j - 1 \in 1..Len(t) /\ t[j - 1] = q[j]
    OBVIOUS
  <2>2. j - 1 \in 1..Len(t) /\ (j - 1) + 1 = j
    BY <1>1, <2>1
  <2>3. QED
    BY <1>1, <2>2
<1> HIDE DEF t
<1>3. NoneIn(q, c) => NoneIn(t, c) /\ ~About(q[1], c)
  BY <1>1 DEF NoneIn
<1>4. ASSUME NEW d, NEW i \in 1..Len(q), \A j \in 1..Len(q) : j > i => ~About(q[j], d)
      PROVE  /\ i = 1 => NoneIn(t, d)
             /\ i > 1 => \A j \in 1..Len(t) : j > i - 1 => ~About(t[j], d)
  <2>1. ASSUME NEW j \in 1..Len(t), j + 1 > i PROVE ~About(t[j], d)
    BY <1>1, <1>4, <2>1
  <2>2. \A j \in 1..Len(t) : j \in Int /\ i \in Int /\ j >= 1
    BY <1>1
  <2>3. i = 1 => NoneIn(t, d)
    BY <2>1, <2>2 DEF NoneIn
  <2>4. QED
    BY <2>1, <2>2, <2>3
<1>5. ASSUME NEW S, LastIn(q, c, S)
      PROVE  \/ LastIn(t, c, S)
             \/ /\ NoneIn(t, c) /\ About(q[1], c) /\ EventToStatus(q[1].action) \in S
  <2>1. PICK i \in 1..Len(q) : /\ About(q[i], c) /\ EventToStatus(q[i].action) \in S
                               /\ \A j \in 1..Len(q) : j > i => ~About(q[j], c)
    BY <1>5 DEF LastIn
  <2>2. CASE i = 1
    BY <1>4, <2>1, <2>2
  <2>3. CASE i > 1
    <3>1. /\ i - 1 \in 1..Len(t) /\ t[i - 1] = q[i]
          /\ \A j \in 1..Len(t) : j > i - 1 => ~About(t[j], c)
      BY <1>2, <1>4, <2>1, <2>3
    <3>2. QED
      BY <2>1, <3>1 DEF LastIn
  <2>4. QED
    BY <2>2, <2>3
<1>6. ASSUME NEW b, StartIn(q, b, c)
      PROVE  \/ StartIn(t, b, c)
             \/ /\ NoneIn(t, b) /\ NoneIn(t, c) /\ q[1] = [box |-> b, action |-> "start"]
  <2>1. PICK i \in 1..Len(q) : /\ q[i] = [box |-> b, action |-> "start"]
                               /\ \A j \in 1..Len(q) : j > i => ~About(q[j], b) /\ ~About(q[j], c)
    BY <1>6 DEF StartIn
  <2>2. CASE i = 1
    BY <1>4, <2>1, <2>2
  <2>3. CASE i > 1
    <3>1. /\ i - 1 \in 1..Len(t) /\ t[i - 1] = q[i]
          /\ \A j \in 1..Len(t) : j > i - 1 => ~About(t[j], b) /\ ~About(t[j], c)
      BY <1>2, <1>4, <2>1, <2>3
    <3>2. QED
      BY <2>1, <3>1 DEF StartIn
  <2>4. QED
    BY <2>2, <2>3
<1>7. QED
  BY <1>1, <1>3, <1>5, <1>6 DEF t

\* The events that Tell adds.
Told(b, a) == [i \in 1..Len(a) |-> [box |-> b, action |-> a[i]]]

\* Where they stand.
LEMMA ToldAt ==
    ASSUME NEW q \in Seq(EventSet), NEW b \in Boxes, NEW a \in Seq(Actions)
    PROVE  LET t == q \o Told(b, a)
           IN  /\ Len(q) \in Nat /\ Len(a) \in Nat /\ Len(t) = Len(q) + Len(a)
               /\ \A i \in 1..Len(q) : i \in 1..Len(t) /\ t[i] = q[i]
               /\ \A i \in 1..Len(a) : /\ Len(q) + i \in 1..Len(t)
                                       /\ t[Len(q) + i] = [box |-> b, action |-> a[i]]
               /\ \A j \in 1..Len(t) : j > Len(q) =>
                    \E i \in 1..Len(a) : j = Len(q) + i /\ t[j] = [box |-> b, action |-> a[i]]
<1> DEFINE s == Told(b, a)
<1> DEFINE t == q \o s
<1>1. Len(a) \in Nat /\ Len(q) \in Nat /\ \A i \in 1..Len(a) : a[i] \in Actions
  BY LenProperties, ElementOfSeq
<1>2. s \in [1..Len(a) -> EventSet] /\ \A i \in 1..Len(a) : s[i] = [box |-> b, action |-> a[i]]
  BY <1>1 DEF EventSet, Told
<1>3. s \in Seq(EventSet) /\ Len(s) = Len(a)
  BY <1>1, <1>2
<1> HIDE DEF s
<1>4. /\ Len(t) = Len(q) + Len(s)
      /\ \A i \in 1..Len(q) : t[i] = q[i]
      /\ \A i \in 1..Len(s) : t[Len(q) + i] = s[i]
  <2>1. /\ Len(t) = Len(q) + Len(s)
        /\ \A i \in 1..Len(q) + Len(s) : t[i] = IF i <= Len(q) THEN q[i] ELSE s[i - Len(q)]
    BY <1>3, ConcatProperties
  <2> HIDE DEF t
  <2>2. \A i \in 1..Len(q) : i \in 1..Len(q) + Len(s) /\ i <= Len(q)
    BY <1>1, <1>3
  <2>3. \A i \in 1..Len(s) : /\ Len(q) + i \in 1..Len(q) + Len(s)
                             /\ ~(Len(q) + i <= Len(q)) /\ (Len(q) + i) - Len(q) = i
    BY <1>1, <1>3
  <2>4. QED
    BY <2>1, <2>2, <2>3
<1> HIDE DEF t
<1>5. \A i \in 1..Len(q) : i \in 1..Len(t)
  BY <1>1, <1>3, <1>4
<1>6. \A i \in 1..Len(a) : Len(q) + i \in 1..Len(t)
  BY <1>1, <1>3, <1>4
<1>7. ASSUME NEW j \in 1..Len(t), j > Len(q)
      PROVE  \E i \in 1..Len(a) : j = Len(q) + i /\ t[j] = [box |-> b, action |-> a[i]]
  <2>1. j - Len(q) \in 1..Len(a) /\ j = Len(q) + (j - Len(q))
    BY <1>1, <1>3, <1>4, <1>7
  <2>2. QED
    BY <1>2, <1>3, <1>4, <2>1
<1>8. QED
  BY <1>1, <1>2, <1>3, <1>4, <1>5, <1>6, <1>7 DEF s, t

\* What they do not change: all that was said of another container, and, when they only
\* tell of a removal, of this one.
LEMMA ToldKeeps ==
    ASSUME NEW q \in Seq(EventSet), NEW b \in Boxes, NEW a \in Seq(Actions), NEW c,
           c # b \/ \A i \in 1..Len(a) : a[i] = "destroy"
    PROVE  /\ NoneIn(q, c) => NoneIn(q \o Told(b, a), c)
           /\ \A S : LastIn(q, c, S) => LastIn(q \o Told(b, a), c, S)
           /\ \A d : StartIn(q, d, c) /\ d # b => StartIn(q \o Told(b, a), d, c)
<1> DEFINE t == q \o Told(b, a)
<1>1. /\ Len(q) \in Nat /\ Len(a) \in Nat /\ Len(t) = Len(q) + Len(a)
      /\ \A i \in 1..Len(q) : i \in 1..Len(t) /\ t[i] = q[i]
      /\ \A i \in 1..Len(a) : /\ Len(q) + i \in 1..Len(t)
                              /\ t[Len(q) + i] = [box |-> b, action |-> a[i]]
      /\ \A j \in 1..Len(t) : j > Len(q) =>
           \E i \in 1..Len(a) : j = Len(q) + i /\ t[j] = [box |-> b, action |-> a[i]]
  BY ToldAt
<1> HIDE DEF t
<1>2. \A j \in 1..Len(t) : j > Len(q) => ~About(t[j], c) /\ \A d : d # b => ~About(t[j], d)
  <2>1. SUFFICES ASSUME NEW j \in 1..Len(t), j > Len(q)
                 PROVE  ~About(t[j], c) /\ \A d : d # b => ~About(t[j], d)
    OBVIOUS
  <2>2. PICK i \in 1..Len(a) : t[j] = [box |-> b, action |-> a[i]]
    BY <1>1, <2>1
  <2>3. t[j].box = b /\ t[j].action = a[i]
    BY <2>2
  <2>4. QED
    BY <2>3 DEF About
<1>3. \A j \in 1..Len(t) : j > Len(q) \/ j \in 1..Len(q)
  BY <1>1
<1>4. NoneIn(q, c) => NoneIn(t, c)
  BY <1>1, <1>2, <1>3 DEF NoneIn
<1>5. ASSUME NEW S, LastIn(q, c, S) PROVE LastIn(t, c, S)
  <2>1. PICK i \in 1..Len(q) : /\ About(q[i], c) /\ EventToStatus(q[i].action) \in S
                               /\ \A j \in 1..Len(q) : j > i => ~About(q[j], c)
    BY <1>5 DEF LastIn
  <2>2. i \in 1..Len(t) /\ About(t[i], c) /\ EventToStatus(t[i].action) \in S
    BY <1>1, <2>1
  <2>3. \A j \in 1..Len(t) : j > i => ~About(t[j], c)
    BY <1>1, <1>2, <1>3, <2>1
  <2>4. QED
    BY <2>2, <2>3 DEF LastIn
<1>6. ASSUME NEW d, StartIn(q, d, c), d # b PROVE StartIn(t, d, c)
  <2>1. PICK i \in 1..Len(q) : /\ q[i] = [box |-> d, action |-> "start"]
                               /\ \A j \in 1..Len(q) : j > i => ~About(q[j], d) /\ ~About(q[j], c)
    BY <1>6 DEF StartIn
  <2>2. i \in 1..Len(t) /\ t[i] = [box |-> d, action |-> "start"]
    BY <1>1, <2>1
  <2>3. \A j \in 1..Len(t) : j > i => ~About(t[j], d) /\ ~About(t[j], c)
    BY <1>1, <1>2, <1>3, <1>6, <2>1
  <2>4. QED
    BY <2>2, <2>3 DEF StartIn
<1>7. QED
  BY <1>4, <1>5, <1>6 DEF t

\* What they say: the last of them that is not a removal counts.
LEMMA ToldLast ==
    ASSUME NEW q \in Seq(EventSet), NEW b \in Boxes, NEW a \in Seq(Actions), NEW S,
           NEW k \in 1..Len(a), a[k] # "destroy", EventToStatus(a[k]) \in S,
           \A j \in 1..Len(a) : j > k => a[j] = "destroy"
    PROVE  LastIn(q \o Told(b, a), b, S)
<1> DEFINE t == q \o Told(b, a)
<1>1. /\ Len(q) \in Nat /\ Len(a) \in Nat /\ Len(t) = Len(q) + Len(a)
      /\ \A i \in 1..Len(a) : /\ Len(q) + i \in 1..Len(t)
                              /\ t[Len(q) + i] = [box |-> b, action |-> a[i]]
      /\ \A j \in 1..Len(t) : j > Len(q) =>
           \E i \in 1..Len(a) : j = Len(q) + i /\ t[j] = [box |-> b, action |-> a[i]]
  BY ToldAt
<1> HIDE DEF t
<1>2. Len(q) + k \in 1..Len(t) /\ t[Len(q) + k].box = b /\ t[Len(q) + k].action = a[k]
  <2>1. Len(q) + k \in 1..Len(t) /\ t[Len(q) + k] = [box |-> b, action |-> a[k]]
    BY <1>1
  <2>2. QED
    BY <2>1
<1>3. ASSUME NEW j \in 1..Len(t), j > Len(q) + k PROVE ~About(t[j], b)
  <2>1. PICK i \in 1..Len(a) : j = Len(q) + i /\ t[j] = [box |-> b, action |-> a[i]]
    BY <1>1, <1>3
  <2>2. i > k /\ t[j].action = a[i]
    BY <1>1, <1>3, <2>1
  <2>3. QED
    BY <2>2 DEF About
<1>4. QED
  BY <1>2, <1>3 DEF LastIn, About, t

\* The start of a new container comes after all else.
LEMMA ToldStart ==
    ASSUME NEW q \in Seq(EventSet), NEW b \in Boxes, NEW c
    PROVE  StartIn(q \o Told(b, <<"start">>), b, c)
<1> DEFINE a == <<"start">>
<1> DEFINE t == q \o Told(b, a)
<1>1. a \in Seq(Actions) /\ Len(a) = 1 /\ a[1] = "start"
  BY ActionLists
<1>2. /\ Len(q) \in Nat /\ Len(t) = Len(q) + Len(a)
      /\ \A i \in 1..Len(a) : /\ Len(q) + i \in 1..Len(t)
                              /\ t[Len(q) + i] = [box |-> b, action |-> a[i]]
  BY <1>1, ToldAt
<1> HIDE DEF t, a
<1>3. Len(q) + 1 \in 1..Len(t) /\ t[Len(q) + 1] = [box |-> b, action |-> "start"]
  BY <1>1, <1>2
<1>4. \A j \in 1..Len(t) : ~(j > Len(q) + 1)
  BY <1>1, <1>2
<1>5. QED
  BY <1>3, <1>4 DEF StartIn, t, a

--------------------------------------------------------------------------------
(* What steps do to what the events say *)

\* The events, and what the watcher has taken from them, are to give a status in S.
Pend(q, c, w, n, S) == LastIn(q, c, S) \/ (NoneIn(q, c) /\ (w = "update" => n \in S))
Pending(S) == Pend(events, row.connect, wpc, wnew, S)

\* ... and if they are done with, the row has such a status.
Settles(S) == Pending(S) /\ (NoneIn(events, row.connect) /\ wpc # "update" => row.status \in S)

\* Nothing new is said of container c.
Keeps(c) ==
    /\ NoneIn(events, c) => NoneIn(events', c)
    /\ \A S : LastIn(events, c, S) => LastIn(events', c, S)

\* Then what is pending stays so.
LEMMA KeepsPending ==
    ASSUME Keeps(row.connect), row'.connect = row.connect, UNCHANGED <<wpc, wnew>>, NEW S
    PROVE  /\ Pending(S) => Pending(S)'
           /\ Settles(S) /\ (row'.status = row.status \/ row'.status \in S) => Settles(S)'
           /\ Pending(S) /\ row'.status \in S => Settles(S)'
<1>1. Pending(S) => Pending(S)'
  BY DEF Keeps, Pending, Pend
<1>2. ASSUME Settles(S), row'.status = row.status, NoneIn(events', row'.connect), wpc' # "update"
      PROVE  row'.status \in S
  <2>1. ~LastIn(events', row.connect, S)
    BY <1>2, LastNone
  <2>2. ~LastIn(events, row.connect, S)
    BY <2>1 DEF Keeps
  <2>3. NoneIn(events, row.connect)
    BY <1>2, <2>2 DEF Settles, Pending, Pend
  <2>4. QED
    BY <1>2, <2>3 DEF Settles
<1>3. QED
  BY <1>1, <1>2 DEF Settles

\* Tell, with the events that it adds.
LEMMA TellEvents ==
    ASSUME NEW b, NEW a, Tell(b, a)
    PROVE  events' = IF subscribed THEN events \o Told(b, a) ELSE events
BY DEF Tell, Told

\* Tell says nothing of other containers.
LEMMA TellKeeps ==
    ASSUME DockerOK, NEW b \in Boxes, NEW a \in Seq(Actions), Tell(b, a)
    PROVE  /\ \A c : c # b \/ (\A i \in 1..Len(a) : a[i] = "destroy") => Keeps(c)
           /\ \A c, d : c # b /\ d # b /\ StartIn(events, d, c) => StartIn(events', d, c)
<1>1. events \in Seq(EventSet)
  BY DEF DockerOK
<1>2. CASE subscribed
  <2>1. events' = events \o Told(b, a)
    BY <1>2, TellEvents
  <2>2. QED
    BY <1>1, <2>1, ToldKeeps DEF Keeps
<1>3. CASE ~subscribed
  <2>1. events' = events
    BY <1>3, TellEvents
  <2>2. QED
    BY <2>1 DEF Keeps
<1>4. QED
  BY <1>2, <1>3

\* Container b ends.  If it ran, the last that is told of it is a status in S.
Ended(b, S) ==
    /\ UNCHANGED <<tag, subscribed>>
    /\ \E s \in {"exited", "failed", "gone"} : Ends(b, s)
    /\ \E a \in Seq(Actions) :
         /\ Tell(b, a)
         /\ IF Running(b)
            THEN \E k \in 1..Len(a) : /\ a[k] # "destroy" /\ EventToStatus(a[k]) \in S
                                      /\ \A j \in 1..Len(a) : j > k => a[j] = "destroy"
            ELSE \A i \in 1..Len(a) : a[i] = "destroy"

\* What its end says.
LEMMA EndedSays ==
    ASSUME DockerOK, NEW b \in Boxes, NEW S, Ended(b, S)
    PROVE  /\ \A c \in Boxes : c # b => box'[c] = box[c] /\ (c \in missed' <=> c \in missed)
           /\ box'[b] # "running"
           /\ missed \subseteq missed' /\ \A q \in Requests : loc[q].new = b => b \in missed'
           /\ \A c : c # b \/ ~Running(b) => Keeps(c)
           /\ \A c, d : c # b /\ d # b /\ StartIn(events, d, c) => StartIn(events', d, c)
           /\ subscribed /\ Running(b) => LastIn(events', b, S)
<1>1. PICK s \in {"exited", "failed", "gone"} : Ends(b, s)
  BY DEF Ended
<1>2. PICK a \in Seq(Actions) :
         /\ Tell(b, a)
         /\ IF Running(b)
            THEN \E k \in 1..Len(a) : /\ a[k] # "destroy" /\ EventToStatus(a[k]) \in S
                                      /\ \A j \in 1..Len(a) : j > k => a[j] = "destroy"
            ELSE \A i \in 1..Len(a) : a[i] = "destroy"
  BY DEF Ended
<1>3. /\ \A c \in Boxes : c # b => box'[c] = box[c] /\ (c \in missed' <=> c \in missed)
      /\ box'[b] # "running"
      /\ missed \subseteq missed' /\ \A q \in Requests : loc[q].new = b => b \in missed'
  BY <1>1 DEF Ends, DockerOK
<1>4. /\ \A c : c # b \/ ~Running(b) => Keeps(c)
      /\ \A c, d : c # b /\ d # b /\ StartIn(events, d, c) => StartIn(events', d, c)
  BY <1>2, TellKeeps
<1>5. ASSUME subscribed, Running(b) PROVE LastIn(events', b, S)
  <2>1. events' = events \o Told(b, a) /\ events \in Seq(EventSet)
    BY <1>2, <1>5, TellEvents DEF DockerOK
  <2>2. PICK k \in 1..Len(a) : /\ a[k] # "destroy" /\ EventToStatus(a[k]) \in S
                               /\ \A j \in 1..Len(a) : j > k => a[j] = "destroy"
    BY <1>2, <1>5
  <2>3. QED
    BY <2>1, <2>2, ToldLast
<1>6. QED
  BY <1>3, <1>4, <1>5

\* The lists of actions, item by item.
LEMMA ActionItems ==
    /\ Len(<<"die0">>) = 1 /\ <<"die0">>[1] = "die0"
    /\ Len(<<"die1">>) = 1 /\ <<"die1">>[1] = "die1"
    /\ Len(<<"destroy">>) = 1 /\ <<"destroy">>[1] = "destroy"
    /\ Len(<<"die0", "stop">>) = 2 /\ <<"die0", "stop">>[2] = "stop"
    /\ Len(<<"die1", "stop">>) = 2 /\ <<"die1", "stop">>[2] = "stop"
    /\ Len(<<"kill", "die1">>) = 2 /\ <<"kill", "die1">>[2] = "die1"
    /\ Len(<<"kill", "die1", "destroy">>) = 3 /\ <<"kill", "die1", "destroy">>[2] = "die1"
    /\ <<"kill", "die1", "destroy">>[3] = "destroy"
OBVIOUS

\* The status of each action.
LEMMA ActionStatus ==
    /\ EventToStatus("die0") = "EXITED" /\ EventToStatus("stop") = "EXITED"
    /\ EventToStatus("die1") = "CRASHED" /\ EventToStatus("start") = "RUNNING"
    /\ EventToStatus("destroy") = "UNKNOWN"
    /\ "EXITED" \in Down /\ "CRASHED" \in Down /\ "STOPPING" \in Down /\ "RUNNING" \notin Down
BY DEF EventToStatus, Down, Statuses

\* The ways in which a container ends.
LEMMA EndedWays ==
    ASSUME NEW b \in Boxes, UNCHANGED <<tag, subscribed>>
    PROVE  /\ Running(b) /\ Ends(b, "exited") /\ Tell(b, <<"die0">>) => Ended(b, Down)
           /\ Running(b) /\ Ends(b, "failed") /\ Tell(b, <<"die1">>) => Ended(b, Down)
           /\ Running(b) /\ StopEnds(b) => Ended(b, {"EXITED"})
           /\ Running(b) /\ Ends(b, "failed") /\ Tell(b, <<"kill", "die1">>) => Ended(b, Down)
           /\ ForceRemove(b) => Ended(b, Down)
<1>1. ASSUME NEW s \in {"exited", "failed", "gone"}, NEW a \in Seq(Actions), NEW S, Running(b), Ends(b, s),
             Tell(b, a), NEW k \in 1..Len(a), a[k] # "destroy", EventToStatus(a[k]) \in S,
             \A j \in 1..Len(a) : j > k => a[j] = "destroy"
      PROVE  Ended(b, S)
  BY <1>1 DEF Ended
<1>2. ASSUME Running(b), Ends(b, "exited"), Tell(b, <<"die0">>) PROVE Ended(b, Down)
  <2> DEFINE a == <<"die0">>
  <2>1. a \in Seq(Actions) /\ Len(a) = 1 /\ a[1] = "die0"
    BY ActionLists, ActionItems
  <2>2. Tell(b, a)
    BY <1>2
  <2> HIDE DEF a
  <2>3. QED
    BY <1>1, <1>2, <2>1, <2>2, ActionStatus
<1>3. ASSUME Running(b), Ends(b, "failed"), Tell(b, <<"die1">>) PROVE Ended(b, Down)
  <2> DEFINE a == <<"die1">>
  <2>1. a \in Seq(Actions) /\ Len(a) = 1 /\ a[1] = "die1"
    BY ActionLists, ActionItems
  <2>2. Tell(b, a)
    BY <1>3
  <2> HIDE DEF a
  <2>3. QED
    BY <1>1, <1>3, <2>1, <2>2, ActionStatus
<1>4. ASSUME Running(b), StopEnds(b) PROVE Ended(b, {"EXITED"})
  <2>1. PICK a \in {<<"die0", "stop">>, <<"die1", "stop">>}, s \in {"exited", "failed"} : Ends(b, s) /\ Tell(b, a)
    BY <1>4 DEF StopEnds
  <2>2. a \in Seq(Actions) /\ Len(a) = 2 /\ a[2] = "stop"
    BY <2>1, ActionLists, ActionItems
  <2>3. 2 \in 1..Len(a) /\ \A j \in 1..Len(a) : ~(j > 2)
    BY <2>2
  <2>4. QED
    BY <1>1, <1>4, <2>1, <2>2, <2>3, ActionStatus
<1>5. ASSUME Running(b), Ends(b, "failed"), Tell(b, <<"kill", "die1">>) PROVE Ended(b, Down)
  <2> DEFINE a == <<"kill", "die1">>
  <2>1. a \in Seq(Actions) /\ Len(a) = 2 /\ a[2] = "die1"
    BY ActionLists, ActionItems
  <2>2. Tell(b, a)
    BY <1>5
  <2> HIDE DEF a
  <2>3. 2 \in 1..Len(a) /\ \A j \in 1..Len(a) : ~(j > 2)
    BY <2>1
  <2>4. QED
    BY <1>1, <1>5, <2>1, <2>2, <2>3, ActionStatus
<1>6. ASSUME ForceRemove(b) PROVE Ended(b, Down)
  <2>1. CASE Running(b)
    <3> DEFINE a == <<"kill", "die1", "destroy">>
    <3>1. a \in Seq(Actions) /\ Len(a) = 3 /\ a[2] = "die1" /\ a[3] = "destroy"
      BY ActionLists, ActionItems
    <3>2. Ends(b, "gone") /\ Tell(b, a)
      BY <1>6, <2>1 DEF ForceRemove
    <3> HIDE DEF a
    <3>3. 2 \in 1..Len(a) /\ \A j \in 1..Len(a) : j > 2 => j = 3
      BY <3>1
    <3>4. QED
      BY <1>1, <2>1, <3>1, <3>2, <3>3, ActionStatus
  <2>2. CASE ~Running(b)
    <3> DEFINE a == <<"destroy">>
    <3>1. a \in Seq(Actions) /\ Len(a) = 1 /\ a[1] = "destroy"
      BY ActionLists, ActionItems
    <3>2. Ends(b, "gone") /\ Tell(b, a)
      BY <1>6, <2>2 DEF ForceRemove
    <3> HIDE DEF a
    <3>3. \A i \in 1..Len(a) : a[i] = "destroy"
      BY <3>1
    <3>4. QED
      BY <2>2, <3>1, <3>2, <3>3 DEF Ended
  <2>3. QED
    BY <2>1, <2>2
<1>7. QED
  BY <1>2, <1>3, <1>4, <1>5, <1>6

\* A status in S is one in a larger set.
LEMMA EndedMore ==
    ASSUME NEW b, NEW S, NEW T, Ended(b, S), S \subseteq T
    PROVE  Ended(b, T)
BY DEF Ended

\* The new container b of request r.
Starts(r, b) ==
    /\ pc[r] = "start" /\ tag[b] = 0
    /\ box' = [box EXCEPT ![b] = "running"]
    /\ tag' = [tag EXCEPT ![b] = IF op[r] = "start" THEN 1 ELSE loc[r].count]
    /\ Tell(b, <<"start">>)
    /\ UNCHANGED <<subscribed, missed, row, existed, stopped>>

\* What a request does to the containers.
LEMMA ServeEffect ==
    ASSUME IInv, NEW r \in Requests, Serve(r)
    PROVE  \/ UNCHANGED <<box, tag, events, subscribed, missed>>
           \/ \E b \in Boxes : /\ Running(b) /\ Tell(b, <<"kill">>)
                               /\ UNCHANGED <<box, tag, subscribed, missed>>
           \/ \E b \in Boxes : Ended(b, Down)
           \/ \E b \in Boxes : Starts(r, b)
<1>1. PathAt(r)
  BY DEF IInv, PathInv
<1>2. CASE Find(r) \/ Read(r) \/ Stopping(r) \/ Starting(r) \/ MarkRunning(r) \/ Exited(r) \/ Rpc(r)
           \/ SaveConfig(r) \/ Count(r) \/ Connect(r) \/ Insert(r) \/ Delete(r)
  BY <1>2 DEF Find, Read, Stopping, Starting, MarkRunning, Exited, Status, Rpc, SaveConfig, Count,
     Connect, Insert, Delete, docker
<1>3. CASE Stop(r)
  BY <1>3 DEF Stop, Running
<1>4. CASE Wait(r) \/ Kill(r) \/ Remove(r) \/ UndoStop(r) \/ UndoRemove(r)
  <2>1. UNCHANGED <<tag, subscribed>>
    BY <1>4 DEF Wait, Kill, Remove, UndoStop, UndoRemove
  <2>2. \/ UNCHANGED <<box, events, missed>>
        \/ \E b \in Boxes : (Running(b) /\ StopEnds(b)) \/ ForceRemove(b)
        \/ \E b \in Boxes : Running(b) /\ Ends(b, "failed") /\ Tell(b, <<"kill", "die1">>)
    BY <1>1, <1>4 DEF Wait, Kill, Remove, UndoStop, UndoRemove, Running, Exists, PathAt, Made
  <2>3. \A b \in Boxes : Ended(b, {"EXITED"}) => Ended(b, Down)
    BY EndedMore, ActionStatus
  <2>4. QED
    BY <2>1, <2>2, <2>3, EndedWays
<1>5. CASE StartBox(r)
  BY <1>5 DEF StartBox, Starts
<1>6. QED
  BY <1>2, <1>3, <1>4, <1>5 DEF Serve

\* Where Go leads.
LEMMA GoAt ==
    ASSUME RequestOK, NEW r \in Requests, NEW step, NEW l, Go(r, step, l)
    PROVE  /\ pc'[r] = Succ(r, step)
           /\ Succ(r, step) = "idle" => loc'[r] = Blank /\ op'[r] = "none"
           /\ Succ(r, step) # "idle" => loc'[r] = l /\ op'[r] = op[r]
BY DEF RequestOK, Go, Goto, Leave

\* Where Leave leads.
LEMMA LeaveAt ==
    ASSUME RequestOK, NEW r \in Requests, Leave(r)
    PROVE  pc'[r] = "idle" /\ loc'[r] = Blank /\ op'[r] = "none"
BY DEF RequestOK, Goto, Leave

\* A request has the container that it made until it ends.
LEMMA ServeNew ==
    ASSUME IInv, NEW r \in Requests, Serve(r)
    PROVE  \/ loc'[r].new \in {loc[r].new, NoBox}
           \/ \E b \in Boxes : Starts(r, b) /\ loc'[r].new = b
<1>1. RequestOK /\ loc[r] \in Locals /\ Blank.new = NoBox
  BY Parts, BlankType DEF RequestOK
<1>g. ASSUME NEW step, NEW l, Go(r, step, l) PROVE loc'[r] \in {l, Blank}
  BY <1>1, <1>g, GoAt
<1>2. CASE Leave(r)
  BY <1>1, <1>2, LeaveAt
<1>3. CASE loc' = loc
  BY <1>3
<1>4. CASE Find(r)
  <2>1. CASE ~Leave(r)
    <3>1. PICK c \in Configs : loc' = [loc EXCEPT ![r].config = c]
      BY <1>4, <2>1 DEF Find
    <3>2. loc'[r] = [loc[r] EXCEPT !.config = c]
      BY <1>1, <3>1 DEF RequestOK
    <3>3. QED
      BY <1>1, <3>2 DEF Locals
  <2>2. QED
    BY <1>2, <2>1
<1>5. CASE Read(r)
  <2>1. CASE ~Leave(r)
    <3> DEFINE l == [loc[r] EXCEPT !.connect = row.connect, !.was = (row.status = "RUNNING"),
                                   !.config = IF op[r] = "update" THEN row.config ELSE @]
    <3>1. Go(r, "read", l)
      BY <1>5, <2>1 DEF Read
    <3>2. l.new = loc[r].new
      BY <1>1 DEF Locals
    <3> HIDE DEF l
    <3>3. QED
      BY <1>1, <1>g, <3>1, <3>2
  <2>2. QED
    BY <1>2, <2>1
<1>6. CASE Stopping(r) \/ Starting(r) \/ MarkRunning(r) \/ Exited(r)
  <2>1. \E step : Go(r, step, loc[r])
    BY <1>6 DEF Stopping, Starting, MarkRunning, Exited, Status
  <2>2. QED
    BY <1>1, <1>g, <2>1
<1>7. CASE Stop(r) \/ Wait(r) \/ Kill(r) \/ Remove(r) \/ SaveConfig(r) \/ Connect(r) \/ Insert(r)
  <2>1. Leave(r) \/ loc' = loc \/ \E step : Go(r, step, loc[r])
    BY <1>7 DEF Stop, Wait, Kill, Remove, SaveConfig, Connect, Insert
  <2>2. QED
    BY <1>1, <1>2, <1>3, <1>g, <2>1
<1>8. CASE Rpc(r)
  <2>1. Leave(r) \/ Go(r, "rpc", loc[r]) \/ Go(r, "rpc", [loc[r] EXCEPT !.config = setup[loc[r].connect]])
    BY <1>8 DEF Rpc
  <2>2. [loc[r] EXCEPT !.config = setup[loc[r].connect]].new = loc[r].new
    BY <1>1 DEF Locals
  <2>3. QED
    BY <1>1, <1>2, <1>g, <2>1, <2>2
<1>9. CASE Count(r)
  <2>1. Leave(r) \/ Go(r, "count", [loc[r] EXCEPT !.count = row.count + 1])
    BY <1>9 DEF Count
  <2>2. [loc[r] EXCEPT !.count = row.count + 1].new = loc[r].new
    BY <1>1 DEF Locals
  <2>3. QED
    BY <1>1, <1>2, <1>g, <2>1, <2>2
<1>10. CASE StartBox(r)
  <2>1. CASE ~Leave(r)
    <3>1. PICK b \in Boxes : Starts(r, b) /\ Go(r, "start", [loc[r] EXCEPT !.new = b])
      BY <1>10, <2>1 DEF StartBox, Starts
    <3>3. [loc[r] EXCEPT !.new = b].new = b
      BY <1>1, LocalType
    <3>4. loc'[r].new \in {b, NoBox}
      BY <1>1, <1>g, <3>1, <3>3
    <3>5. QED
      BY <3>1, <3>4
  <2>2. QED
    BY <1>2, <2>1
<1>11. CASE UndoStop(r) \/ UndoRemove(r) \/ Delete(r)
  BY <1>2, <1>3, <1>11 DEF UndoStop, UndoRemove, Delete
<1>12. QED
  BY <1>4, <1>5, <1>6, <1>7, <1>8, <1>9, <1>10, <1>11 DEF Serve

--------------------------------------------------------------------------------
(* What always holds of the containers and of the watcher *)

\* A container that a request has made was told of, and if it runs no longer that may not
\* have been; the row is about a container that was made.
BoxInv ==
    /\ row.exists => tag[row.connect] # 0
    /\ \A r \in Requests : loc[r].new \in Boxes =>
         tag[loc[r].new] # 0 /\ (Running(loc[r].new) \/ loc[r].new \in missed)

\* The watcher is subscribed exactly while it takes or stores an event.
Watching ==
    /\ subscribed <=> wpc \in {"watch", "update"}
    /\ ~subscribed => events = <<>>
    /\ ~existed => wpc # "update"

\* Once the container of the row has ended before the watcher, the events do not end with
\* a start.
DownInv ==
    row.exists /\ row.connect \notin missed /\ ~Running(row.connect) /\ subscribed => Pending(Down)

\* What holds of containers, watcher and queue whatever the requests do.
Standing == BoxInv /\ Watching /\ DownInv

\* The context of the proofs below.
CInv == FInv /\ CountInv /\ InstanceIsUnique

\* Every container keeps its number, and none of those that requests have made is forgotten.
LEMMA BoxesKept ==
    ASSUME CInv, BoxInv, NEW r \in Requests, Serve(r)
    PROVE  /\ \A b \in Boxes : tag[b] # 0 => tag'[b] # 0
           /\ missed \subseteq missed'
           /\ \A b \in Boxes : (\E q \in Requests : loc[q].new = b) /\ (Running(b) \/ b \in missed) =>
                Running(b)' \/ b \in missed'
           /\ \A b \in Boxes : Starts(r, b) => tag'[b] # 0 /\ Running(b)'
<1>1. /\ IInv /\ DockerOK /\ tag \in [Boxes -> Nat] /\ box \in [Boxes -> BoxStates]
      /\ pc[r] = "start" /\ op[r] # "start" => loc[r].count # 0
  <2>1. IInv /\ CountInv
    BY DEF CInv, FInv
  <2>2. DockerOK
    BY <2>1, Parts
  <2>3. QED
    BY <2>1, <2>2 DEF DockerOK, CountInv, Counted
<1>2. ASSUME NEW b \in Boxes, Starts(r, b)
      PROVE  /\ tag'[b] # 0 /\ box'[b] = "running" /\ tag[b] = 0 /\ missed' = missed
             /\ \A c \in Boxes : c # b => tag'[c] = tag[c] /\ box'[c] = box[c]
  BY <1>1, <1>2 DEF Starts
<1>3. CASE UNCHANGED <<box, tag, events, subscribed, missed>>
  <2>1. \A b \in Boxes : ~Starts(r, b)
    BY <1>2, <1>3
  <2>2. QED
    BY <1>3, <2>1 DEF Running
<1>4. CASE \E b \in Boxes : UNCHANGED <<box, tag, subscribed, missed>>
  <2>1. \A b \in Boxes : ~Starts(r, b)
    BY <1>2, <1>4
  <2>2. QED
    BY <1>4, <2>1 DEF Running
<1>5. CASE \E b \in Boxes : Ended(b, Down)
  <2>1. PICK b \in Boxes : Ended(b, Down)
    BY <1>5
  <2>2. /\ \A c \in Boxes : c # b => box'[c] = box[c] /\ (c \in missed' <=> c \in missed)
        /\ missed \subseteq missed' /\ \A q \in Requests : loc[q].new = b => b \in missed'
    BY <1>1, <2>1, EndedSays
  <2>3. tag' = tag
    BY <2>1 DEF Ended
  <2>4. \A c \in Boxes : ~Starts(r, c)
    BY <1>2, <2>3
  <2>5. QED
    BY <2>2, <2>3, <2>4 DEF Running
<1>6. CASE \E b \in Boxes : Starts(r, b)
  <2>1. PICK b \in Boxes : Starts(r, b)
    BY <1>6
  <2>2. \A c \in Boxes : Starts(r, c) => tag'[c] # 0 /\ box'[c] = "running"
    BY <1>2
  <2>3. QED
    BY <1>2, <2>1, <2>2 DEF Running
<1>7. QED
  BY <1>1, <1>3, <1>4, <1>5, <1>6, ServeEffect

\* The row is about the container that it was about, or about the new one.
LEMMA ServeConnect ==
    ASSUME IInv, NEW r \in Requests, Serve(r), row'.exists
    PROVE  \/ row.exists /\ row'.connect = row.connect
           \/ loc[r].new \in Boxes /\ row'.connect = loc[r].new
<1>1. row \in RowSet /\ ~NoRow.exists
  BY Parts DEF RowOK, NoRow
<1>2. CASE row' = row
  BY <1>2
<1>3. CASE row.exists /\ \E s \in Statuses : row' = [row EXCEPT !.status = s]
  BY <1>1, <1>3 DEF RowSet
<1>4. CASE row.exists /\ \E s \in Configs : row' = [row EXCEPT !.config = s]
  BY <1>1, <1>4 DEF RowSet
<1>5. CASE row.exists /\ row' = [row EXCEPT !.count = row.count + 1]
  BY <1>1, <1>5 DEF RowSet
<1>6. CASE loc[r].new \in Boxes /\ row' = [row EXCEPT !.connect = loc[r].new]
  BY <1>1, <1>6 DEF RowSet
<1>7. CASE /\ loc[r].new \in Boxes
           /\ row' = [exists |-> TRUE, status |-> "RUNNING", connect |-> loc[r].new,
                      count |-> 1, config |-> "kept"]
  BY <1>7
<1>8. QED
  BY <1>1, <1>2, <1>3, <1>4, <1>5, <1>6, <1>7, ServeRow

\* Requests keep BoxInv.
LEMMA BoxServe ==
    ASSUME CInv, BoxInv, NEW r \in Requests, Serve(r)
    PROVE  BoxInv'
<1>1. IInv /\ (row.exists => row.connect \in Boxes)
  BY DEF CInv, FInv, IInv, RowInv
<1>2. /\ \A b \in Boxes : tag[b] # 0 => tag'[b] # 0
      /\ missed \subseteq missed'
      /\ \A b \in Boxes : (\E q \in Requests : loc[q].new = b) /\ (Running(b) \/ b \in missed) =>
           Running(b)' \/ b \in missed'
      /\ \A b \in Boxes : Starts(r, b) => tag'[b] # 0 /\ Running(b)'
  BY BoxesKept
<1>3. NoBox \notin Boxes
  BY BlankType
<1>4. ASSUME NEW q \in Requests, loc'[q].new \in Boxes
      PROVE  tag'[loc'[q].new] # 0 /\ (box'[loc'[q].new] = "running" \/ loc'[q].new \in missed')
  <2>1. CASE loc'[q].new = loc[q].new
    <3>1. PICK b \in Boxes : b = loc[q].new
      BY <1>4, <2>1
    <3>2. tag[b] # 0 /\ (Running(b) \/ b \in missed)
      BY <3>1 DEF BoxInv
    <3>3. tag'[b] # 0 /\ (Running(b)' \/ b \in missed')
      BY <1>2, <3>1, <3>2
    <3>4. QED
      BY <2>1, <3>1, <3>3 DEF Running
  <2>2. CASE q = r /\ \E b \in Boxes : Starts(r, b) /\ loc'[r].new = b
    <3>1. PICK b \in Boxes : Starts(r, b) /\ loc'[r].new = b
      BY <2>2
    <3>2. tag'[b] # 0 /\ Running(b)'
      BY <1>2, <3>1
    <3>3. QED
      BY <2>2, <3>1, <3>2 DEF Running
  <2>3. CASE q # r
    <3>1. loc'[q] = loc[q]
      BY <1>1, <2>3, ServeSteps
    <3>2. QED
      BY <2>1, <3>1
  <2>4. QED
    BY <1>1, <1>3, <1>4, <2>1, <2>2, <2>3, ServeNew
<1>5. ASSUME row'.exists PROVE tag'[row'.connect] # 0
  <2>1. \/ row.exists /\ row'.connect = row.connect
        \/ loc[r].new \in Boxes /\ row'.connect = loc[r].new
    BY <1>1, <1>5, ServeConnect
  <2>2. QED
    BY <1>1, <1>2, <2>1 DEF BoxInv
<1>6. QED
  BY <1>4, <1>5 DEF BoxInv, Running

\* A container ends by itself.
LEMMA DieEnds ==
    ASSUME NEW b \in Boxes, Die(b)
    PROVE  /\ Ended(b, Down) /\ Running(b)
           /\ UNCHANGED <<row, op, pc, loc, wpc, wnew, tidy, existed, stopped>>
<1>1. /\ Running(b) /\ UNCHANGED <<tag, subscribed, row, op, pc, loc, wpc, wnew, tidy, existed, stopped>>
      /\ \/ Ends(b, "exited") /\ Tell(b, <<"die0">>)
         \/ Ends(b, "failed") /\ Tell(b, <<"die1">>)
  BY DEF Die, request, watcher
<1>2. QED
  BY <1>1, EndedWays

\* Every step keeps BoxInv.
LEMMA BoxStep ==
    ASSUME CInv, BoxInv, [Next]_vars
    PROVE  BoxInv'
<1>1. IInv /\ DockerOK /\ (row.exists => row.connect \in Boxes) /\ row \in RowSet
  <2>1. IInv
    BY DEF CInv, FInv
  <2>2. QED
    BY <2>1, Parts DEF RowOK, RowInv
<1>2. CASE /\ UNCHANGED <<box, tag, missed, loc>>
           /\ (row'.exists <=> row.exists) /\ (row.exists => row'.connect = row.connect)
  BY <1>2 DEF BoxInv, Running
<1>3. CASE \E b \in Boxes : Die(b)
  <2>1. PICK b \in Boxes : Ended(b, Down) /\ UNCHANGED <<row, loc>>
    BY <1>3, DieEnds
  <2>2. /\ \A c \in Boxes : c # b => box'[c] = box[c] /\ (c \in missed' <=> c \in missed)
        /\ missed \subseteq missed' /\ \A q \in Requests : loc[q].new = b => b \in missed'
    BY <1>1, <2>1, EndedSays
  <2>3. tag' = tag
    BY <2>1 DEF Ended
  <2>4. QED
    BY <2>1, <2>2, <2>3 DEF BoxInv, Running
<1>4. CASE Watch
  <2>1. UNCHANGED <<box, tag, missed, loc>>
    BY <1>4 DEF Watch, ListStatuses, SyncStatus, FixStatus, SubscribeEvents, HandleEvent, ApplyEvent, docker,
       request, history
  <2>2. row'.exists = row.exists /\ row'.connect = row.connect
    BY <1>1, <1>4, WatchRow DEF RowSet
  <2>3. QED
    BY <1>2, <2>1, <2>2
<1>5. CASE Disconnect
  BY <1>2, <1>5 DEF Disconnect, request
<1>6. CASE ControllerRestart
  <2>1. UNCHANGED <<tag, row>> /\ \A r \in Requests : loc'[r] = Blank
    BY <1>6 DEF ControllerRestart
  <2>2. \A r \in Requests : loc'[r].new \notin Boxes
    BY <2>1, BlankType
  <2>3. QED
    BY <2>1, <2>2 DEF BoxInv
<1>7. CASE \E r \in Requests, o \in Ops \ {"none"} : Begin(r, o)
  BY <1>2, <1>7 DEF Begin, docker
<1>8. CASE UNCHANGED vars
  BY <1>2, <1>8 DEF vars, docker, request, history
<1>9. QED
  BY <1>3, <1>4, <1>5, <1>6, <1>7, <1>8, BoxServe DEF Next

\* A request that does not start or end a container, and what it leaves alone in any case.
LEMMA ServeWatcher ==
    ASSUME IInv, NEW r \in Requests, Serve(r)
    PROVE  /\ UNCHANGED <<wpc, wnew, subscribed>>
           /\ ~subscribed => events' = events
<1>1. UNCHANGED <<wpc, wnew>>
  BY DEF Serve, Find, Read, Stopping, Starting, MarkRunning, Exited, Status, Stop, Wait, Kill, Remove,
     Rpc, SaveConfig, Count, StartBox, Connect, Insert, UndoStop, UndoRemove, Delete, watcher
<1>2. subscribed' = subscribed
  BY ServeEffect DEF Ended, Starts
<1>3. ~subscribed => events' = events
  BY ServeEffect DEF Ended, Starts, Tell
<1>4. QED
  BY <1>1, <1>2, <1>3

\* Every step keeps Watching.
LEMMA WatchingStep ==
    ASSUME IInv, Watching, [Next]_vars
    PROVE  Watching'
<1>1. /\ row.exists => existed
      /\ subscribed \in BOOLEAN /\ existed \in BOOLEAN
  BY DEF IInv, TypeOK, RowInv
<1>2. CASE /\ UNCHANGED <<wpc, subscribed>> /\ (~subscribed => events' = events) /\ (existed => existed')
  BY <1>2 DEF Watching
<1>3. CASE \E r \in Requests : Serve(r)
  <2>1. PICK r \in Requests : Serve(r)
    BY <1>3
  <2>2. existed => existed'
    BY <2>1, ServeExisted
  <2>3. UNCHANGED <<wpc, subscribed>> /\ (~subscribed => events' = events)
    BY <2>1, ServeWatcher
  <2>4. QED
    BY <1>2, <2>2, <2>3
<1>4. CASE \E b \in Boxes : Die(b)
  <2>1. PICK b \in Boxes : Ended(b, Down) /\ UNCHANGED <<wpc, existed>>
    BY <1>4, DieEnds
  <2>2. subscribed' = subscribed /\ (~subscribed => events' = events)
    BY <2>1 DEF Ended, Tell
  <2>3. QED
    BY <1>2, <2>1, <2>2
<1>5. CASE ListStatuses \/ SyncStatus \/ FixStatus
  <2>1. wpc \in {"list", "sync", "fix"} /\ wpc' \in {"sync", "fix", "subscribe"}
    BY <1>5 DEF ListStatuses, SyncStatus, FixStatus
  <2>2. UNCHANGED <<subscribed, events>>
    BY <1>5 DEF ListStatuses, SyncStatus, FixStatus, docker
  <2>3. QED
    BY <2>1, <2>2 DEF Watching
<1>6. CASE SubscribeEvents
  BY <1>6 DEF SubscribeEvents, Watching
<1>7. CASE HandleEvent
  <2>1. wpc = "watch" /\ UNCHANGED <<subscribed, existed>>
    BY <1>7 DEF HandleEvent
  <2>2. wpc' = "watch" \/ (wpc' = "update" /\ row.exists)
    BY <1>7, <2>1 DEF HandleEvent, watcher
  <2>3. QED
    BY <1>1, <2>1, <2>2 DEF Watching
<1>8. CASE ApplyEvent
  BY <1>8 DEF ApplyEvent, Watching, docker
<1>9. CASE Disconnect \/ ControllerRestart
  <2>1. ~subscribed' /\ events' = <<>> /\ wpc' \in {"subscribe", "list"}
    BY <1>9 DEF Disconnect, ControllerRestart
  <2>2. QED
    BY <2>1 DEF Watching
<1>10. CASE \E r \in Requests, o \in Ops \ {"none"} : Begin(r, o)
  BY <1>2, <1>10 DEF Begin, docker, watcher
<1>11. CASE UNCHANGED vars
  BY <1>2, <1>11 DEF vars, docker, watcher, history
<1>12. QED
  BY <1>3, <1>4, <1>5, <1>6, <1>7, <1>8, <1>9, <1>10, <1>11 DEF Next, Watch

\* A new container that follows what is told of the one in the row.
Following(b) ==
    \/ StartIn(events, b, row.connect)
    \/ NoneIn(events, b) /\ NoneIn(events, row.connect) /\ wpc # "update"

\* handleEvent: what was pending of the row still is, and is not lost unless a call fails.
LEMMA HandleSays ==
    ASSUME IInv, HandleEvent, NEW S
    PROVE  /\ UNCHANGED <<box, subscribed, missed, row>>
           /\ row.exists /\ Pending(S) => Pending(S)'
           /\ row.exists /\ Settles(S) /\ Fine => Settles(S)'
           /\ \A b : LastIn(events, b, S) \/ NoneIn(events, b) =>
                       LastIn(events', b, S) \/ NoneIn(events', b)
           /\ \A b : Following(b) /\ b # row.connect /\ Fine => Following(b)'
<1> DEFINE e == Head(events)
<1> DEFINE new == EventToStatus(e.action)
<1> DEFINE found == row.exists /\ row.connect = e.box
<1> DEFINE c == row.connect
<1>1. /\ wpc = "watch" /\ events # <<>> /\ events' = Tail(events)
      /\ UNCHANGED <<box, subscribed, missed, row>>
      /\ \/ /\ Fine
            /\ IF found /\ new \notin {"UNKNOWN", row.status}
               THEN wpc' = "update" /\ wnew' = new
               ELSE UNCHANGED <<wpc, wnew>>
         \/ Fault /\ UNCHANGED <<wpc, wnew>>
  BY DEF HandleEvent, watcher
<1>2. events \in Seq(EventSet)
  BY Parts DEF DockerOK
<1>3. e \in EventSet
  BY <1>1, <1>2, HeadTailProperties
<1>4. \A b : About(e, b) => e.box = b /\ new \in Statuses /\ new # "UNKNOWN"
  <2>1. e.action \in Actions
    BY <1>3 DEF EventSet
  <2>2. e.action # "destroy" => new \in Statuses /\ new # "UNKNOWN"
    BY <2>1 DEF Actions, EventToStatus, Statuses
  <2> HIDE DEF new
  <2>3. QED
    BY <2>2 DEF About
<1>5. \A b : /\ NoneIn(events, b) => NoneIn(events', b) /\ ~About(e, b)
             /\ LastIn(events, b, S) => \/ LastIn(events', b, S)
                                        \/ NoneIn(events', b) /\ About(e, b) /\ new \in S
             /\ StartIn(events, b, c) =>
                  \/ StartIn(events', b, c)
                  \/ /\ NoneIn(events', b) /\ NoneIn(events', c)
                     /\ e = [box |-> b, action |-> "start"]
  BY <1>1, <1>2, TailSays
<1>6. ~About(e, c) => ~(found /\ new \notin {"UNKNOWN", row.status})
  <2>1. e.box = c /\ ~About(e, c) => new = "UNKNOWN"
    BY ActionStatus DEF About
  <2>2. QED
    BY <2>1
<1> HIDE DEF e, new
<1>7. ASSUME row.exists, Pending(S) PROVE Pending(S)' /\ (Settles(S) /\ Fine => Settles(S)')
  <2>1. CASE LastIn(events', c, S)
    <3>1. ~NoneIn(events', c)
      BY <2>1, LastNone
    <3>2. QED
      BY <1>1, <2>1, <3>1 DEF Pending, Pend, Settles
  <2>2. CASE NoneIn(events', c) /\ About(e, c) /\ new \in S
    <3>1. /\ wpc' = "update" => wnew' \in S
          /\ Fine /\ wpc' # "update" => row.status \in S
      <4>1. Fault => ~Fine
        BY Parts DEF Fault, Fine, RestOK
      <4>2. found
        BY <1>4, <1>7, <2>2
      <4>3. QED
        BY <1>1, <1>4, <2>2, <4>1, <4>2
    <3>2. QED
      BY <1>1, <2>2, <3>1 DEF Pending, Pend, Settles
  <2>3. CASE NoneIn(events, c)
    <3>1. NoneIn(events', c) /\ UNCHANGED <<wpc, wnew>>
      BY <1>1, <1>5, <1>6, <2>3
    <3>2. QED
      BY <1>1, <2>3, <3>1 DEF Pending, Pend, Settles
  <2>4. QED
    BY <1>5, <1>7, <2>1, <2>2, <2>3 DEF Pending, Pend
<1>8. ASSUME NEW b, Following(b), b # row.connect, Fine PROVE Following(b)'
  <2>1. CASE StartIn(events', b, c)
    BY <1>1, <2>1 DEF Following
  <2>2. CASE NoneIn(events', b) /\ NoneIn(events', c) /\ ~About(e, c)
    <3>1. wpc' = "watch"
      BY <1>1, <1>6, <2>2
    <3>2. QED
      BY <1>1, <2>2, <3>1 DEF Following
  <2>3. e = [box |-> b, action |-> "start"] => ~About(e, c)
    BY <1>8 DEF About
  <2>4. QED
    BY <1>5, <1>8, <2>1, <2>2, <2>3 DEF Following
<1>9. QED
  BY <1>1, <1>5, <1>7, <1>8 DEF Settles

\* The status that was found is written, and so is no longer pending but in the row.
LEMMA ApplySays ==
    ASSUME IInv, ApplyEvent, NEW S
    PROVE  /\ UNCHANGED <<box, subscribed, missed, events>>
           /\ row'.connect = row.connect /\ row'.exists = row.exists
           /\ Pending(S) => Pending(S)'
           /\ row.exists /\ Settles(S) /\ Fine => Settles(S)'
           /\ \A b : Following(b) => Following(b)'
<1>1. /\ wpc = "update" /\ wpc' = "watch" /\ UNCHANGED <<box, subscribed, missed, events>>
      /\ row' = row \/ (row.exists /\ row' = [row EXCEPT !.status = wnew])
  BY DEF ApplyEvent, Update, docker
<1>2. row \in RowSet
  BY Parts DEF RowOK
<1>3. row'.connect = row.connect /\ row'.exists = row.exists
  BY <1>1, <1>2 DEF RowSet
<1>4. Pending(S) => Pending(S)'
  BY <1>1, <1>3 DEF Pending, Pend
<1>5. ASSUME row.exists, Settles(S), Fine PROVE Settles(S)'
  <2>1. ~Fault
    BY <1>5, Parts DEF Fault, Fine, RestOK
  <2>2. row' = [row EXCEPT !.status = wnew]
    BY <1>5, <2>1 DEF ApplyEvent, Update
  <2>3. row'.status = wnew
    BY <1>2, <2>2 DEF RowSet
  <2>4. NoneIn(events, row.connect) => wnew \in S
    BY <1>1, <1>5, LastNone DEF Settles, Pending, Pend
  <2>5. QED
    BY <1>1, <1>3, <1>4, <1>5, <2>3, <2>4 DEF Settles
<1>6. \A b : Following(b) => Following(b)'
  BY <1>1, <1>3 DEF Following
<1>7. QED
  BY <1>1, <1>3, <1>4, <1>5, <1>6

\* When the container of the row ends before the watcher, that is what the events end with.
LEMMA EndedDown ==
    ASSUME DockerOK, NEW b \in Boxes, NEW S, Ended(b, S), subscribed, row.connect \in Boxes,
           row'.connect = row.connect, UNCHANGED <<wpc, wnew>>
    PROVE  /\ Running(row.connect) /\ b = row.connect => Settles(S)'
           /\ ~(Running(row.connect) /\ b = row.connect) => Keeps(row.connect)
           /\ (~Running(row.connect))' => ~Running(row.connect) \/ b = row.connect
<1>1. /\ \A c \in Boxes : c # b => box'[c] = box[c]
      /\ \A c : c # b \/ ~Running(b) => Keeps(c)
      /\ subscribed /\ Running(b) => LastIn(events', b, S)
  BY EndedSays
<1>2. ASSUME Running(row.connect), b = row.connect PROVE Settles(S)'
  <2>1. LastIn(events', row'.connect, S)
    BY <1>1, <1>2
  <2>2. ~NoneIn(events', row'.connect)
    BY <2>1, LastNone
  <2>3. QED
    BY <2>1, <2>2 DEF Settles, Pending, Pend
<1>3. QED
  BY <1>1, <1>2 DEF Running

\* Requests keep DownInv.
LEMMA DownServe ==
    ASSUME CInv, Standing, NEW r \in Requests, Serve(r)
    PROVE  DownInv'
<1>1. /\ IInv /\ DockerOK /\ BoxInv /\ DownInv
      /\ row.exists => row.connect \in Boxes
  <2>1. IInv
    BY DEF CInv, FInv
  <2>2. QED
    BY <2>1, Parts DEF RowOK, RowInv, Standing
<1>2. SUFFICES ASSUME row'.exists, row'.connect \notin missed', ~Running(row.connect)', subscribed'
               PROVE  Pending(Down)'
  BY DEF DownInv
<1>3. UNCHANGED <<wpc, wnew, subscribed>> /\ subscribed
  BY <1>1, <1>2, ServeWatcher
<1>4. /\ missed \subseteq missed'
      /\ \A b \in Boxes : (\E q \in Requests : loc[q].new = b) /\ (Running(b) \/ b \in missed) =>
           Running(b)' \/ b \in missed'
  BY <1>1, BoxesKept
<1>5. row.exists /\ row'.connect = row.connect
  <2>1. CASE loc[r].new \in Boxes /\ row'.connect = loc[r].new
    <3>1. PICK b \in Boxes : b = loc[r].new
      BY <2>1
    <3>2. Running(b) \/ b \in missed
      BY <1>1, <3>1 DEF BoxInv
    <3>3. Running(b)' \/ b \in missed'
      BY <1>4, <3>1, <3>2
    <3>4. QED
      BY <1>2, <2>1, <3>1, <3>3 DEF Running
  <2>2. QED
    BY <1>1, <1>2, <2>1, ServeConnect
<1>6. row.connect \in Boxes /\ row.connect \notin missed /\ tag[row.connect] # 0
  BY <1>1, <1>2, <1>4, <1>5 DEF BoxInv
<1>7. CASE Keeps(row.connect) /\ ~Running(row.connect)
  <2>1. Pending(Down)
    BY <1>1, <1>3, <1>5, <1>6, <1>7 DEF DownInv
  <2>2. QED
    BY <1>3, <1>5, <1>7, <2>1, KeepsPending
<1>8. CASE UNCHANGED <<box, tag, events, subscribed, missed>>
  BY <1>2, <1>5, <1>7, <1>8 DEF Keeps, Running
<1>9. CASE \E b \in Boxes : /\ Running(b) /\ Tell(b, <<"kill">>)
                            /\ UNCHANGED <<box, tag, subscribed, missed>>
  <2>1. PICK b \in Boxes : /\ Running(b) /\ Tell(b, <<"kill">>)
                           /\ UNCHANGED <<box, tag, subscribed, missed>>
    BY <1>9
  <2>2. ~Running(row.connect) /\ b # row.connect
    BY <1>2, <1>5, <2>1 DEF Running
  <2>3. QED
    BY <1>1, <1>7, <2>1, <2>2, ActionLists, TellKeeps
<1>10. CASE \E b \in Boxes : Ended(b, Down)
  <2>1. PICK b \in Boxes : Ended(b, Down)
    BY <1>10
  <2>2. /\ Running(row.connect) /\ b = row.connect => Settles(Down)'
        /\ ~(Running(row.connect) /\ b = row.connect) => Keeps(row.connect)
        /\ (~Running(row.connect))' => ~Running(row.connect) \/ b = row.connect
    BY <1>1, <1>3, <1>5, <1>6, <2>1, EndedDown
  <2>3. QED
    BY <1>2, <1>7, <2>2 DEF Settles
<1>11. CASE \E b \in Boxes : Starts(r, b)
  <2>1. PICK b \in Boxes : Starts(r, b)
    BY <1>11
  <2>2. b # row.connect /\ Tell(b, <<"start">>) /\ box' = [box EXCEPT ![b] = "running"]
    BY <1>6, <2>1 DEF Starts
  <2>3. ~Running(row.connect)
    BY <1>1, <1>2, <1>5, <1>6, <2>2 DEF Running, DockerOK
  <2>4. QED
    BY <1>1, <1>7, <2>2, <2>3, ActionLists, TellKeeps
<1>12. QED
  BY <1>1, <1>8, <1>9, <1>10, <1>11, ServeEffect

\* Every step keeps DownInv.
LEMMA DownStep ==
    ASSUME CInv, Standing, [Next]_vars
    PROVE  DownInv'
<1>1. /\ IInv /\ DockerOK /\ BoxInv /\ DownInv /\ Watching
      /\ row.exists => row.connect \in Boxes
  <2>1. IInv
    BY DEF CInv, FInv
  <2>2. QED
    BY <2>1, Parts DEF RowOK, RowInv, Standing
<1>2. CASE UNCHANGED <<box, events, subscribed, missed, row, wpc, wnew>>
  BY <1>1, <1>2 DEF DownInv, Pending, Running
<1>3. CASE \E b \in Boxes : Die(b)
  <2>1. PICK b \in Boxes : Ended(b, Down) /\ UNCHANGED <<row, wpc, wnew>>
    BY <1>3, DieEnds
  <2>2. missed \subseteq missed' /\ subscribed' = subscribed
    BY <1>1, <2>1, EndedSays DEF Ended
  <2>3. SUFFICES ASSUME row.exists, row.connect \notin missed, (~Running(row.connect))', subscribed
                 PROVE  Pending(Down)'
    BY <2>1, <2>2 DEF DownInv
  <2>4. /\ Running(row.connect) /\ b = row.connect => Settles(Down)'
        /\ ~(Running(row.connect) /\ b = row.connect) => Keeps(row.connect)
        /\ (~Running(row.connect))' => ~Running(row.connect) \/ b = row.connect
    BY <1>1, <2>1, <2>3, EndedDown
  <2>5. CASE Keeps(row.connect) /\ ~Running(row.connect)
    <3>1. Pending(Down)
      BY <1>1, <2>3, <2>5 DEF DownInv
    <3>2. QED
      BY <2>1, <2>5, <3>1, KeepsPending
  <2>6. QED
    BY <2>3, <2>4, <2>5 DEF Settles
<1>4. CASE ListStatuses \/ SyncStatus \/ FixStatus
  <2>1. wpc \in {"list", "sync", "fix"} /\ subscribed' = subscribed
    BY <1>4 DEF ListStatuses, SyncStatus, FixStatus, docker
  <2>2. ~subscribed'
    BY <1>1, <2>1 DEF Watching
  <2>3. QED
    BY <2>2 DEF DownInv
<1>5. CASE SubscribeEvents
  <2>1. events' = <<>> /\ wpc' = "watch"
    BY <1>1, <1>5 DEF SubscribeEvents, Watching
  <2>2. QED
    BY <2>1, NoneEmpty DEF DownInv, Pending, Pend
<1>6. CASE HandleEvent
  <2>1. UNCHANGED <<box, subscribed, missed, row>> /\ (row.exists /\ Pending(Down) => Pending(Down)')
    BY <1>1, <1>6, HandleSays
  <2>2. QED
    BY <1>1, <2>1 DEF DownInv, Running
<1>7. CASE ApplyEvent
  <2>1. /\ UNCHANGED <<box, subscribed, missed>> /\ (Pending(Down) => Pending(Down)')
        /\ row'.connect = row.connect /\ row'.exists = row.exists
    BY <1>1, <1>7, ApplySays
  <2>2. QED
    BY <1>1, <2>1 DEF DownInv, Running
<1>8. CASE Disconnect \/ ControllerRestart
  <2>1. ~subscribed'
    BY <1>8 DEF Disconnect, ControllerRestart
  <2>2. QED
    BY <2>1 DEF DownInv
<1>9. CASE \E r \in Requests, o \in Ops \ {"none"} : Begin(r, o)
  BY <1>2, <1>9 DEF Begin, docker, watcher
<1>10. CASE UNCHANGED vars
  BY <1>2, <1>10 DEF vars, docker, watcher, history
<1>11. QED
  BY <1>3, <1>4, <1>5, <1>6, <1>7, <1>8, <1>9, <1>10, DownServe DEF Next, Watch

--------------------------------------------------------------------------------
(* One request at a time, and no failure *)

\* The row is, or is going to be, RUNNING exactly as long as its container runs.
Agree ==
    row.connect \notin missed =>
        /\ Running(row.connect) => Settles({"RUNNING"})
        /\ ~Running(row.connect) => Settles(Down)

Again == {"restart", "upgrade"}

\* Where a request still means the container of the row.
Kept(r) ==
    /\ op[r] \notin {"start", "none"} /\ pc[r] \notin {"find", "read", "running"}
    /\ ~(op[r] \in Again /\ pc[r] = "config")

\* Where a request has written STOPPING and is not over with it.
Halting(r) ==
    pc[r] \in {"stop", "wait", "kill", "exited"} \/ (op[r] = "stop" /\ pc[r] \in {"rpc", "config"})

\* What holds while r is the only request.
TidyAt(r) ==
    /\ op[r] = "start" => ~existed
    /\ op[r] \notin {"start", "none"} => row.exists
    /\ Kept(r) => loc[r].connect = row.connect
    /\ pc[r] \in {"starting", "count", "start", "connect", "exited"} /\ op[r] # "start" =>
         ~Running(row.connect)
    /\ op[r] \in {"update", "delete"} \/ (op[r] \in Again /\ pc[r] = "config") => Agree
    /\ Halting(r) /\ row.connect \notin missed /\ ~Running(row.connect) => Settles(Down)
    /\ pc[r] = "insert" /\ loc[r].new \notin missed =>
         LastIn(events, loc[r].new, {"RUNNING"}) \/ NoneIn(events, loc[r].new)
    /\ pc[r] = "connect" /\ loc[r].new \notin missed => Following(loc[r].new)
    /\ pc[r] = "running" =>
         row.connect = loc[r].new /\ (row.connect \notin missed => Pending({"RUNNING"}))

TidyInv ==
    tidy => /\ subscribed
            /\ \A r, q \in Busy : r = q
            /\ \A r \in Busy : TidyAt(r)
            /\ Busy = {} /\ row.exists => Agree

\* ... and after its step.
After(r) == IF pc[r] = "idle" THEN row.exists => Agree ELSE TidyAt(r)

\* The step of the only request.
Only(r) == CInv /\ Standing /\ tidy /\ subscribed /\ TidyAt(r) /\ Serve(r) /\ Fine

\* What its step may rely on.
LEMMA OnlyFacts ==
    ASSUME NEW r \in Requests, Only(r)
    PROVE  /\ IInv /\ RequestOK /\ DockerOK /\ row \in RowSet /\ loc[r] \in Locals /\ op[r] \in Ops
           /\ PathAt(r) /\ pc[r] \in Steps[op[r]]
           /\ BoxInv /\ Watching /\ DownInv /\ TidyAt(r)
           /\ row.exists => row.connect \in Boxes /\ tag[row.connect] # 0
           /\ ~Fault /\ UNCHANGED <<wpc, wnew, subscribed>> /\ subscribed
           /\ op[r] # "start" => row.exists
           /\ op[r] = "start" => ~existed /\ ~row.exists
<1>1. IInv /\ BoxInv /\ Watching /\ DownInv /\ TidyAt(r) /\ Serve(r) /\ subscribed /\ Fine
  BY DEF Only, CInv, FInv, Standing
<1>2. RequestOK /\ DockerOK /\ RowOK /\ RestOK
  BY <1>1, Parts
<1>3. row \in RowSet /\ (row.exists => row.connect \in Boxes /\ existed)
  BY <1>2 DEF RowOK, RowInv
<1>4. loc[r] \in Locals /\ op[r] \in Ops /\ PathAt(r) /\ pc[r] \in Steps[op[r]]
  BY <1>2 DEF RequestOK, PathInv, PathAt
<1>5. ~Fault
  BY <1>1, <1>2 DEF Fault, Fine, RestOK
<1>6. UNCHANGED <<wpc, wnew, subscribed>>
  BY <1>1, ServeWatcher
<1>7. op[r] # "none"
  BY <1>1, ServeAt
<1>8. /\ op[r] # "start" => row.exists
      /\ op[r] = "start" => ~existed /\ ~row.exists
  BY <1>1, <1>3, <1>7 DEF TidyAt
<1>9. QED
  BY <1>1, <1>2, <1>3, <1>4, <1>5, <1>6, <1>8 DEF BoxInv

\* The way of each operation.
LEMMA SuccAt ==
    ASSUME NEW r
    PROVE  /\ op[r] \in Again =>
                /\ Succ(r, "read") = "stopping" /\ Succ(r, "stopping") = "stop"
                /\ Succ(r, "stop") = "remove" /\ Succ(r, "remove") = "starting"
                /\ Succ(r, "starting") = "count" /\ Succ(r, "count") = "start"
                /\ Succ(r, "start") = "connect" /\ Succ(r, "connect") = "running"
                /\ Succ(r, "running") = "config" /\ Succ(r, "config") = "idle"
           /\ op[r] = "start" => Succ(r, "start") = "insert" /\ Succ(r, "insert") = "idle"
           /\ op[r] = "stop" =>
                /\ Succ(r, "read") = "stopping" /\ Succ(r, "stopping") = "rpc"
                /\ Succ(r, "rpc") = "config" /\ Succ(r, "config") = "stop"
                /\ Succ(r, "stop") = "exited" /\ Succ(r, "exited") = "idle"
           /\ op[r] = "kill" =>
                /\ Succ(r, "read") = "stopping" /\ Succ(r, "stopping") = "kill"
                /\ Succ(r, "kill") = "exited" /\ Succ(r, "exited") = "idle"
           /\ op[r] = "delete" => Succ(r, "read") = "remove" /\ Succ(r, "remove") = "delete"
           /\ op[r] = "update" => /\ Succ(r, "read") = "rpc" /\ Succ(r, "rpc") = "config"
                                  /\ Succ(r, "config") = "idle"
<1>2. CASE op[r] \in Again
  <2>1. \A s : Succ(r, s) = Then["restart"][s]
    BY <1>2 DEF Again, Succ
  <2>2. QED
    BY <1>2, <2>1, ThenFacts DEF Again
<1>3. CASE op[r] \in {"start", "stop", "kill", "delete", "update"}
  <2>1. \A s : Succ(r, s) = Then[op[r]][s]
    BY <1>3 DEF Succ
  <2>2. QED
    BY <1>3, <2>1, ThenFacts DEF Again
<1>4. QED
  BY <1>2, <1>3

\* Containers, events and the watcher as they were, and the row about the same container.
Calm ==
    /\ UNCHANGED <<box, events, missed, wpc, wnew, existed>>
    /\ row'.connect = row.connect /\ row'.exists = row.exists

\* Then the row agrees as before, and a status that is written counts.
LEMMA CalmKeeps ==
    ASSUME Calm
    PROVE  /\ \A S : Pending(S) => Pending(S)'
           /\ \A S : Pending(S) /\ row'.status \in S => Settles(S)'
           /\ \A S : Settles(S) /\ (row'.status = row.status \/ row'.status \in S) => Settles(S)'
           /\ Agree /\ row'.status = row.status => Agree'
           /\ Running(row.connect)' <=> Running(row.connect)
           /\ row'.connect \in missed' <=> row.connect \in missed
<1>1. Keeps(row.connect)
  BY DEF Keeps, Calm
<1>2. row'.connect = row.connect /\ UNCHANGED <<wpc, wnew>>
  BY DEF Calm
<1>3. \A S : /\ Pending(S) => Pending(S)'
             /\ Pending(S) /\ row'.status \in S => Settles(S)'
             /\ Settles(S) /\ (row'.status = row.status \/ row'.status \in S) => Settles(S)'
  BY <1>1, <1>2, KeepsPending
<1>4. /\ Running(row.connect)' <=> Running(row.connect)
      /\ row'.connect \in missed' <=> row.connect \in missed
  BY DEF Calm, Running
<1>5. QED
  BY <1>3, <1>4 DEF Agree

\* Find: a restart goes on to read the row.
LEMMA TidyFind ==
    ASSUME NEW r \in Requests, Only(r), Find(r)
    PROVE  After(r)'
<1>1. /\ RequestOK /\ op[r] \in Ops /\ pc[r] \in Steps[op[r]] /\ ~Fault
      /\ op[r] # "start" => row.exists
  BY OnlyFacts
<1>2. op[r] \in Again /\ row.exists
  BY <1>1, OpAt DEF Find, Again
<1>3. Goto(r, "read") /\ UNCHANGED <<op, row, existed>>
  BY <1>1, <1>2 DEF Find, FailsIf
<1>4. pc'[r] = "read" /\ op'[r] = op[r]
  BY <1>1, <1>3 DEF Goto, RequestOK
<1>5. QED
  BY <1>2, <1>3, <1>4 DEF After, TidyAt, Kept, Halting, Again

\* Read: the request means the container of the row.
LEMMA TidyRead ==
    ASSUME NEW r \in Requests, Only(r), Read(r)
    PROVE  After(r)'
<1>1. /\ RequestOK /\ op[r] \in Ops /\ pc[r] \in Steps[op[r]] /\ ~Fault /\ loc[r] \in Locals
      /\ UNCHANGED <<wpc, wnew>> /\ TidyAt(r)
      /\ op[r] # "start" => row.exists
  BY OnlyFacts
<1>2. pc[r] = "read" /\ op[r] \in {"restart", "upgrade", "stop", "kill", "delete", "update"} /\ row.exists
  BY <1>1, OpAt DEF Read
<1> DEFINE l == [loc[r] EXCEPT !.connect = row.connect, !.was = (row.status = "RUNNING"),
                               !.config = IF op[r] = "update" THEN row.config ELSE @]
<1>3. Go(r, "read", l) /\ UNCHANGED <<docker, row, missed, existed>>
  BY <1>1, <1>2 DEF Read, FailsIf
<1>4. l.connect = row.connect
  BY <1>1 DEF Locals
<1> HIDE DEF l
<1>5. Calm /\ UNCHANGED row
  BY <1>1, <1>3 DEF Calm, docker
<1>6. Agree => Agree'
  BY <1>5, CalmKeeps
<1>7. CASE op[r] \in {"restart", "upgrade", "stop", "kill"}
  <2>1. Succ(r, "read") = "stopping"
    BY <1>7, SuccAt DEF Again
  <2>2. pc'[r] = "stopping" /\ op'[r] = op[r] /\ loc'[r].connect = row.connect
    BY <1>1, <1>3, <1>4, <2>1, GoAt
  <2>3. QED
    BY <1>2, <1>3, <1>7, <2>2 DEF After, TidyAt, Kept, Halting, Again
<1>8. CASE op[r] \in {"delete", "update"}
  <2>1. Succ(r, "read") \in {"remove", "rpc"}
    BY <1>8, SuccAt
  <2>2. pc'[r] \in {"remove", "rpc"} /\ op'[r] = op[r] /\ loc'[r].connect = row.connect
    BY <1>1, <1>3, <1>4, <2>1, GoAt
  <2>3. Agree'
    BY <1>1, <1>6, <1>8 DEF TidyAt
  <2>4. QED
    BY <1>2, <1>3, <1>8, <2>2, <2>3 DEF After, TidyAt, Kept, Halting, Again
<1>9. QED
  BY <1>2, <1>7, <1>8

\* UpdateHostStatus without a failure.
LEMMA StatusCalm ==
    ASSUME NEW r \in Requests, Only(r), NEW step, NEW status \in Statuses, Status(r, step, status), row.exists
    PROVE  /\ Calm /\ row'.status = status
           /\ pc'[r] = Succ(r, step)
           /\ Succ(r, step) # "idle" => op'[r] = op[r] /\ loc'[r] = loc[r]
<1>1. RequestOK /\ ~Fault /\ UNCHANGED <<wpc, wnew>> /\ row \in RowSet
  BY OnlyFacts
<1>2. row' = [row EXCEPT !.status = status] /\ Go(r, step, loc[r]) /\ UNCHANGED <<docker, missed, existed>>
  BY <1>1 DEF Status, Update
<1>3. row'.status = status /\ row'.connect = row.connect /\ row'.exists = row.exists
  BY <1>1, <1>2 DEF RowSet
<1>4. QED
  BY <1>1, <1>2, <1>3, GoAt DEF Calm, docker

\* STOPPING is written: if the container has ended already, the row agrees.
LEMMA TidyStopping ==
    ASSUME NEW r \in Requests, Only(r), Stopping(r)
    PROVE  After(r)'
<1>1. /\ op[r] \in Ops /\ pc[r] \in Steps[op[r]] /\ TidyAt(r) /\ DownInv /\ subscribed
      /\ op[r] # "start" => row.exists
  BY OnlyFacts
<1>2. pc[r] = "stopping" /\ op[r] \in {"restart", "upgrade", "stop", "kill"} /\ row.exists
  BY <1>1, OpAt DEF Stopping, Status
<1>3. /\ Calm /\ row'.status = "STOPPING" /\ pc'[r] = Succ(r, "stopping")
      /\ Succ(r, "stopping") # "idle" => op'[r] = op[r] /\ loc'[r] = loc[r]
  BY <1>2, StatusCalm DEF Stopping, Statuses
<1>4. Succ(r, "stopping") \in {"stop", "rpc", "kill"} /\ (Succ(r, "stopping") = "rpc" => op[r] = "stop")
  BY <1>2, SuccAt DEF Again
<1>5. loc[r].connect = row.connect
  BY <1>1, <1>2 DEF TidyAt, Kept
<1>6. row'.connect \notin missed' /\ ~Running(row.connect)' => Settles(Down)'
  <2>1. row.connect \notin missed /\ ~Running(row.connect) => Pending(Down)
    BY <1>1, <1>2 DEF DownInv
  <2>2. QED
    BY <1>3, <2>1, CalmKeeps, ActionStatus
<1>7. row'.exists /\ row'.connect = row.connect
  BY <1>2, <1>3 DEF Calm
<1>8. QED
  BY <1>2, <1>3, <1>4, <1>5, <1>6, <1>7 DEF After, TidyAt, Kept, Halting, Again

\* STARTING is written while no container of the row runs.
LEMMA TidyStarting ==
    ASSUME NEW r \in Requests, Only(r), Starting(r)
    PROVE  After(r)'
<1>1. /\ op[r] \in Ops /\ pc[r] \in Steps[op[r]] /\ TidyAt(r)
      /\ op[r] # "start" => row.exists
  BY OnlyFacts
<1>2. pc[r] = "starting" /\ op[r] \in Again /\ row.exists
  BY <1>1, OpAt DEF Starting, Status, Again
<1>3. /\ Calm /\ pc'[r] = Succ(r, "starting")
      /\ Succ(r, "starting") # "idle" => op'[r] = op[r] /\ loc'[r] = loc[r]
  BY <1>2, StatusCalm DEF Starting, Statuses
<1>4. Succ(r, "starting") = "count"
  BY <1>2, SuccAt
<1>5. loc[r].connect = row.connect /\ ~Running(row.connect)
  BY <1>1, <1>2 DEF TidyAt, Kept, Again
<1>6. row'.exists /\ row'.connect = row.connect /\ ~Running(row.connect)'
  BY <1>2, <1>3, <1>5, CalmKeeps DEF Calm
<1>7. QED
  BY <1>2, <1>3, <1>4, <1>5, <1>6 DEF After, TidyAt, Kept, Halting, Again

\* RUNNING is written: the new container runs, or has ended before the request did.
LEMMA TidyRunning ==
    ASSUME NEW r \in Requests, Only(r), MarkRunning(r)
    PROVE  After(r)'
<1>1. /\ op[r] \in Ops /\ pc[r] \in Steps[op[r]] /\ TidyAt(r) /\ BoxInv
      /\ op[r] # "start" => row.exists
      /\ row.exists => row.connect \in Boxes
  BY OnlyFacts
<1>2. pc[r] = "running" /\ op[r] \in Again /\ row.exists
  BY <1>1, OpAt DEF MarkRunning, Status, Again
<1>3. /\ Calm /\ row'.status = "RUNNING" /\ pc'[r] = Succ(r, "running")
      /\ Succ(r, "running") # "idle" => op'[r] = op[r] /\ loc'[r] = loc[r]
  BY <1>2, StatusCalm DEF MarkRunning, Statuses
<1>4. Succ(r, "running") = "config"
  BY <1>2, SuccAt
<1>5. row.connect = loc[r].new /\ (row.connect \notin missed => Pending({"RUNNING"}))
  BY <1>1, <1>2 DEF TidyAt
<1>6. row.connect \notin missed => Running(row.connect)
  BY <1>1, <1>2, <1>5 DEF BoxInv
<1>7. Agree'
  <2>1. row.connect \notin missed => Settles({"RUNNING"})'
    BY <1>3, <1>5, CalmKeeps
  <2>2. QED
    BY <1>3, <1>6, <2>1, CalmKeeps DEF Agree
<1>8. row'.exists
  BY <1>2, <1>3 DEF Calm
<1>9. QED
  BY <1>2, <1>3, <1>4, <1>7, <1>8 DEF After, TidyAt, Kept, Halting, Again

\* EXITED is written: the container has ended.
LEMMA TidyExited ==
    ASSUME NEW r \in Requests, Only(r), Exited(r)
    PROVE  After(r)'
<1>1. /\ op[r] \in Ops /\ pc[r] \in Steps[op[r]] /\ TidyAt(r)
      /\ op[r] # "start" => row.exists
  BY OnlyFacts
<1>2. pc[r] = "exited" /\ op[r] \in {"stop", "kill"} /\ row.exists
  BY <1>1, OpAt DEF Exited, Status
<1>3. Calm /\ row'.status = "EXITED" /\ pc'[r] = Succ(r, "exited")
  BY <1>2, StatusCalm DEF Exited, Statuses
<1>4. Succ(r, "exited") = "idle"
  BY <1>2, SuccAt
<1>5. ~Running(row.connect) /\ (row.connect \notin missed => Settles(Down))
  BY <1>1, <1>2 DEF TidyAt, Halting
<1>6. Agree'
  <2>1. row.connect \notin missed => Settles(Down)'
    BY <1>3, <1>5, CalmKeeps, ActionStatus
  <2>2. QED
    BY <1>3, <1>5, <2>1, CalmKeeps DEF Agree
<1>7. QED
  BY <1>3, <1>4, <1>6 DEF After

\* UpdateHostLastStartupConfig.
LEMMA TidyConfig ==
    ASSUME NEW r \in Requests, Only(r), SaveConfig(r)
    PROVE  After(r)'
<1>1. /\ RequestOK /\ op[r] \in Ops /\ pc[r] \in Steps[op[r]] /\ TidyAt(r) /\ ~Fault /\ row \in RowSet
      /\ UNCHANGED <<wpc, wnew>>
      /\ op[r] # "start" => row.exists
  BY OnlyFacts
<1>2. pc[r] = "config" /\ op[r] \in {"restart", "upgrade", "stop", "update"} /\ row.exists
  BY <1>1, OpAt DEF SaveConfig
<1>3. /\ row' = [row EXCEPT !.config = loc[r].config] /\ Go(r, "config", loc[r])
      /\ UNCHANGED <<docker, missed, existed>>
  BY <1>1, <1>2 DEF SaveConfig, Update
<1>4. row'.status = row.status /\ row'.connect = row.connect /\ row'.exists = row.exists
  BY <1>1, <1>3 DEF RowSet
<1>5. Calm
  BY <1>1, <1>3, <1>4 DEF Calm, docker
<1>6. CASE op[r] \in {"restart", "upgrade", "update"}
  <2>1. Agree
    BY <1>1, <1>2, <1>6 DEF TidyAt, Again
  <2>2. pc'[r] = "idle"
    BY <1>1, <1>3, <1>6, SuccAt, GoAt DEF Again
  <2>3. QED
    BY <1>4, <1>5, <2>1, <2>2, CalmKeeps DEF After
<1>7. CASE op[r] = "stop"
  <2>1. pc'[r] = "stop" /\ op'[r] = op[r] /\ loc'[r] = loc[r]
    BY <1>1, <1>3, <1>7, SuccAt, GoAt
  <2>2. loc[r].connect = row.connect /\ (row.connect \notin missed /\ ~Running(row.connect) => Settles(Down))
    BY <1>1, <1>2, <1>7 DEF TidyAt, Kept, Halting, Again
  <2>3. row'.connect \notin missed' /\ ~Running(row.connect)' => Settles(Down)'
    BY <1>4, <1>5, <2>2, CalmKeeps
  <2>4. QED
    BY <1>2, <1>4, <1>7, <2>1, <2>2, <2>3 DEF After, TidyAt, Kept, Halting, Again
<1>8. QED
  BY <1>2, <1>6, <1>7

\* IncrementHostInstanceCount.
LEMMA TidyCount ==
    ASSUME NEW r \in Requests, Only(r), Count(r)
    PROVE  After(r)'
<1>1. /\ RequestOK /\ op[r] \in Ops /\ pc[r] \in Steps[op[r]] /\ TidyAt(r) /\ ~Fault /\ row \in RowSet
      /\ UNCHANGED <<wpc, wnew>> /\ loc[r] \in Locals
      /\ op[r] # "start" => row.exists
  BY OnlyFacts
<1>2. pc[r] = "count" /\ op[r] \in Again /\ row.exists
  BY <1>1, OpAt DEF Count, Again
<1> DEFINE l == [loc[r] EXCEPT !.count = row.count + 1]
<1>3. row' = [row EXCEPT !.count = @ + 1] /\ Go(r, "count", l) /\ UNCHANGED <<docker, missed, existed>>
  BY <1>1, <1>2 DEF Count, FailsIf
<1>4. row'.connect = row.connect /\ row'.exists = row.exists
  BY <1>1, <1>3 DEF RowSet
<1>5. l.connect = loc[r].connect
  BY <1>1 DEF Locals
<1> HIDE DEF l
<1>6. Calm
  BY <1>1, <1>3, <1>4 DEF Calm, docker
<1>7. pc'[r] = "start" /\ op'[r] = op[r] /\ loc'[r].connect = loc[r].connect
  BY <1>1, <1>2, <1>3, <1>5, SuccAt, GoAt
<1>8. loc[r].connect = row.connect /\ ~Running(row.connect)
  BY <1>1, <1>2 DEF TidyAt, Kept, Again
<1>9. ~Running(row.connect)'
  BY <1>6, <1>8, CalmKeeps
<1>10. QED
  BY <1>2, <1>4, <1>7, <1>8, <1>9 DEF After, TidyAt, Kept, Halting, Again

\* UpdateHostConnectString: the row becomes about the new container, and what is told of
\* that one ends with its start.
LEMMA TidyConnect ==
    ASSUME NEW r \in Requests, Only(r), Connect(r)
    PROVE  After(r)'
<1>1. /\ RequestOK /\ op[r] \in Ops /\ pc[r] \in Steps[op[r]] /\ TidyAt(r) /\ ~Fault /\ row \in RowSet
      /\ UNCHANGED <<wpc, wnew>>
      /\ op[r] # "start" => row.exists
  BY OnlyFacts
<1>2. pc[r] = "connect" /\ op[r] \in Again /\ row.exists
  BY <1>1, OpAt DEF Connect, Again
<1>3. /\ row' = [row EXCEPT !.connect = loc[r].new] /\ Go(r, "connect", loc[r])
      /\ UNCHANGED <<docker, missed, existed>>
  BY <1>1, <1>2 DEF Connect, Update
<1>4. row'.connect = loc[r].new /\ row'.exists
  BY <1>1, <1>2, <1>3 DEF RowSet
<1>5. pc'[r] = "running" /\ op'[r] = op[r] /\ loc'[r] = loc[r]
  BY <1>1, <1>2, <1>3, SuccAt, GoAt
<1>6. row'.connect \notin missed' => Pending({"RUNNING"})'
  <2>1. loc[r].new \notin missed => Following(loc[r].new)
    BY <1>1, <1>2 DEF TidyAt
  <2>2. Following(loc[r].new) => Pend(events, loc[r].new, wpc, wnew, {"RUNNING"})
    BY StartLast DEF Following, Pend
  <2>3. QED
    BY <1>1, <1>3, <1>4, <2>1, <2>2 DEF Pending, docker
<1>7. QED
  BY <1>2, <1>4, <1>5, <1>6 DEF After, TidyAt, Kept, Halting, Again

\* CreateHost: the row is about the new container.
LEMMA TidyInsert ==
    ASSUME NEW r \in Requests, Only(r), Insert(r)
    PROVE  After(r)'
<1>1. /\ RequestOK /\ op[r] \in Ops /\ PathAt(r) /\ pc[r] \in Steps[op[r]] /\ TidyAt(r) /\ ~Fault
      /\ UNCHANGED <<wpc, wnew>> /\ BoxInv /\ Watching
      /\ op[r] = "start" => ~existed
  BY OnlyFacts
<1>2. pc[r] = "insert" /\ op[r] = "start" /\ loc[r].new \in Boxes /\ wpc # "update"
  BY <1>1, OpAt DEF Insert, PathAt, Made, Watching
<1>3. /\ row' = [exists |-> TRUE, status |-> "RUNNING", connect |-> loc[r].new,
                 count |-> 1, config |-> "kept"]
      /\ Go(r, "insert", loc[r]) /\ UNCHANGED <<docker, missed>>
  BY <1>1 DEF Insert
<1>4. row'.connect = loc[r].new /\ row'.status = "RUNNING" /\ pc'[r] = "idle"
  BY <1>1, <1>2, <1>3, SuccAt, GoAt
<1>5. loc[r].new \notin missed =>
        /\ Running(loc[r].new)
        /\ LastIn(events, loc[r].new, {"RUNNING"}) \/ NoneIn(events, loc[r].new)
  BY <1>1, <1>2 DEF TidyAt, BoxInv
<1>6. UNCHANGED <<box, events>>
  BY <1>3 DEF docker
<1>7. row'.connect \notin missed' => (Running(row.connect) /\ Settles({"RUNNING"}))'
  <2>1. loc[r].new \notin missed => Running(row.connect)'
    BY <1>4, <1>5, <1>6 DEF Running
  <2>2. loc[r].new \notin missed => Settles({"RUNNING"})'
    BY <1>1, <1>2, <1>4, <1>5, <1>6 DEF Settles, Pending, Pend
  <2>3. QED
    BY <1>3, <1>4, <2>1, <2>2
<1>8. Agree'
  BY <1>7 DEF Agree
<1>9. QED
  BY <1>4, <1>8 DEF After

\* The compensation of a Start, and the end of a Delete, leave no row.
LEMMA TidyNoRow ==
    ASSUME NEW r \in Requests, Only(r), UndoStop(r) \/ UndoRemove(r) \/ Delete(r)
    PROVE  After(r)'
<1>1. /\ RequestOK /\ op[r] \in Ops /\ pc[r] \in Steps[op[r]] /\ TidyAt(r) /\ ~Fault
      /\ op[r] = "start" => ~existed /\ ~row.exists
  BY OnlyFacts
<1>2. CASE UndoStop(r)
  <2>1. pc[r] = "undoStop" /\ Goto(r, "undoRemove") /\ UNCHANGED <<op, existed>>
    BY <1>2 DEF UndoStop
  <2>2. op[r] = "start" /\ pc'[r] = "undoRemove" /\ op'[r] = op[r]
    BY <1>1, <2>1, OpAt DEF Goto, RequestOK
  <2>3. QED
    BY <1>1, <2>1, <2>2 DEF After, TidyAt, Kept, Halting, Again
<1>3. CASE UndoRemove(r)
  <2>1. pc[r] = "undoRemove" /\ Leave(r) /\ row' = row
    BY <1>3 DEF UndoRemove
  <2>2. op[r] = "start" /\ pc'[r] = "idle"
    BY <1>1, <2>1, OpAt, LeaveAt
  <2>3. QED
    BY <1>1, <2>1, <2>2 DEF After
<1>4. CASE Delete(r)
  <2>1. Leave(r) /\ row' = NoRow
    BY <1>1, <1>4 DEF Delete
  <2>2. pc'[r] = "idle" /\ ~row'.exists
    BY <1>1, <2>1, LeaveAt DEF NoRow
  <2>3. QED
    BY <2>2 DEF After
<1>5. QED
  BY <1>2, <1>3, <1>4

\* GetRpcClient: Stop gives up on a container that does not run.
LEMMA TidyRpc ==
    ASSUME NEW r \in Requests, Only(r), Rpc(r)
    PROVE  After(r)'
<1>1. /\ RequestOK /\ op[r] \in Ops /\ pc[r] \in Steps[op[r]] /\ TidyAt(r) /\ ~Fault /\ loc[r] \in Locals
      /\ UNCHANGED <<wpc, wnew>>
      /\ op[r] # "start" => row.exists
  BY OnlyFacts
<1>2. pc[r] = "rpc" /\ op[r] \in {"stop", "update"} /\ row.exists
  BY <1>1, OpAt DEF Rpc
<1>3. Calm /\ UNCHANGED row
  BY <1>1 DEF Rpc, Calm, docker
<1>4. loc[r].connect = row.connect
  BY <1>1, <1>2 DEF TidyAt, Kept, Again
<1>5. \/ ~Running(row.connect) /\ Leave(r)
      \/ \E l : Go(r, "rpc", l) /\ l.connect = row.connect
  <2>1. [loc[r] EXCEPT !.config = setup[loc[r].connect]].connect = loc[r].connect
    BY <1>1 DEF Locals
  <2>2. \/ ~Running(loc[r].connect) /\ Leave(r)
        \/ Go(r, "rpc", loc[r])
        \/ Go(r, "rpc", [loc[r] EXCEPT !.config = setup[loc[r].connect]])
    BY <1>1 DEF Rpc, FailsIf
  <2>3. QED
    BY <1>4, <2>1, <2>2
<1>6. op[r] = "update" => Agree'
  BY <1>1, <1>3, CalmKeeps DEF TidyAt
<1>7. op[r] = "stop" => (row'.connect \notin missed' /\ ~Running(row.connect)' => Settles(Down)')
  <2>1. op[r] = "stop" => (row.connect \notin missed /\ ~Running(row.connect) => Settles(Down))
    BY <1>1, <1>2 DEF TidyAt, Halting
  <2>2. QED
    BY <1>3, <2>1, CalmKeeps
<1>8. CASE ~Running(row.connect) /\ Leave(r)
  <2>1. pc'[r] = "idle"
    BY <1>1, <1>8, LeaveAt
  <2>2. ~Running(row.connect)'
    BY <1>3, <1>8, CalmKeeps
  <2>3. Agree'
    BY <1>2, <1>6, <1>7, <2>2 DEF Agree
  <2>4. QED
    BY <2>1, <2>3 DEF After
<1>9. CASE \E l : Go(r, "rpc", l) /\ l.connect = row.connect
  <2>1. PICK l : Go(r, "rpc", l) /\ l.connect = row.connect
    BY <1>9
  <2>2. pc'[r] = "config" /\ op'[r] = op[r] /\ loc'[r] = l
    BY <1>1, <1>2, <2>1, SuccAt, GoAt
  <2>3. QED
    BY <1>2, <1>3, <1>6, <1>7, <2>1, <2>2 DEF After, TidyAt, Kept, Halting, Again
<1>10. QED
  BY <1>5, <1>8, <1>9

\* connector.Start: the start of the new container is told last.
LEMMA TidyStart ==
    ASSUME NEW r \in Requests, Only(r), StartBox(r)
    PROVE  After(r)'
<1>1. /\ RequestOK /\ DockerOK /\ op[r] \in Ops /\ pc[r] \in Steps[op[r]] /\ TidyAt(r) /\ ~Fault
      /\ loc[r] \in Locals /\ UNCHANGED <<wpc, wnew>> /\ subscribed
      /\ row.exists => row.connect \in Boxes /\ tag[row.connect] # 0
      /\ op[r] # "start" => row.exists
  BY OnlyFacts
<1>2. PICK b \in Boxes : Starts(r, b) /\ Go(r, "start", [loc[r] EXCEPT !.new = b])
  BY <1>1 DEF StartBox, Starts
<1> DEFINE l == [loc[r] EXCEPT !.new = b]
<1>3. /\ pc[r] = "start" /\ tag[b] = 0 /\ box' = [box EXCEPT ![b] = "running"] /\ Tell(b, <<"start">>)
      /\ Go(r, "start", l) /\ UNCHANGED <<row, existed>>
  BY <1>2 DEF Starts
<1>4. op[r] \in {"start", "restart", "upgrade"}
  BY <1>1, <1>3, OpAt
<1>5. \A c : StartIn(events', b, c)
  <2>1. events' = events \o Told(b, <<"start">>) /\ events \in Seq(EventSet)
    BY <1>1, <1>3, TellEvents DEF DockerOK
  <2>2. QED
    BY <2>1, ToldStart
<1>6. l.new = b /\ l.connect = loc[r].connect
  BY <1>1 DEF Locals
<1> HIDE DEF l
<1>7. CASE op[r] = "start"
  <2>1. pc'[r] = "insert" /\ op'[r] = op[r] /\ loc'[r].new = b
    BY <1>1, <1>3, <1>6, <1>7, SuccAt, GoAt
  <2>2. LastIn(events', b, {"RUNNING"})
    BY <1>5, StartLast
  <2>3. ~existed'
    BY <1>1, <1>3, <1>7 DEF TidyAt
  <2>4. QED
    BY <1>7, <2>1, <2>2, <2>3 DEF After, TidyAt, Kept, Halting, Again
<1>8. CASE op[r] \in Again
  <2>1. pc'[r] = "connect" /\ op'[r] = op[r] /\ loc'[r].new = b /\ loc'[r].connect = loc[r].connect
    BY <1>1, <1>3, <1>6, <1>8, SuccAt, GoAt
  <2>2. row.exists /\ loc[r].connect = row.connect /\ ~Running(row.connect)
    BY <1>1, <1>3, <1>8 DEF TidyAt, Kept, Again
  <2>3. row.connect # b /\ row.connect \in Boxes
    BY <1>1, <1>3, <2>2
  <2>4. ~Running(row.connect)'
    BY <1>1, <1>3, <2>2, <2>3 DEF Running, DockerOK
  <2>5. Following(loc[r].new)'
    BY <1>3, <1>5, <2>1 DEF Following
  <2>6. QED
    BY <1>3, <1>8, <2>1, <2>2, <2>4, <2>5 DEF After, TidyAt, Kept, Halting, Again
<1>9. QED
  BY <1>4, <1>7, <1>8 DEF Again

\* A status in S is one in a larger set.
LEMMA SettlesMore ==
    ASSUME NEW S, NEW T, S \subseteq T
    PROVE  /\ Pending(S) => Pending(T)
           /\ Settles(S) => Settles(T)
           /\ Settles(S)' => Settles(T)'
<1>1. \A q, c, w, n : Pend(q, c, w, n, S) => Pend(q, c, w, n, T)
  BY LastMore DEF Pend
<1>2. QED
  BY <1>1 DEF Pending, Settles

\* ContainerStop begins.
LEMMA TidyStop ==
    ASSUME NEW r \in Requests, Only(r), Stop(r)
    PROVE  After(r)'
<1>1. /\ RequestOK /\ op[r] \in Ops /\ pc[r] \in Steps[op[r]] /\ TidyAt(r) /\ ~Fault
      /\ UNCHANGED <<wpc, wnew>>
      /\ op[r] # "start" => row.exists
  BY OnlyFacts
<1>2. /\ pc[r] = "stop" /\ op[r] \in {"restart", "upgrade", "stop"} /\ row.exists
      /\ UNCHANGED <<box, row, missed, existed>>
  BY <1>1, OpAt DEF Stop
<1>3. /\ loc[r].connect = row.connect
      /\ row.connect \notin missed /\ ~Running(row.connect) => Settles(Down)
  BY <1>1, <1>2 DEF TidyAt, Kept, Halting, Again
<1>4. \/ Running(row.connect) /\ Goto(r, "wait") /\ UNCHANGED <<op, loc>>
      \/ /\ events' = events
         /\ \/ op[r] # "stop" /\ Go(r, "stop", loc[r])
            \/ ~Running(row.connect) /\ (Go(r, "stop", loc[r]) \/ Leave(r))
  BY <1>1, <1>3 DEF Stop, FailsIf, Running, Exists
<1>5. CASE Running(row.connect) /\ Goto(r, "wait") /\ UNCHANGED <<op, loc>>
  <2>1. pc'[r] = "wait" /\ op'[r] = op[r] /\ loc'[r] = loc[r]
    BY <1>1, <1>5 DEF Goto, RequestOK
  <2>2. Running(row.connect)'
    BY <1>2, <1>5 DEF Running
  <2>3. QED
    BY <1>2, <1>3, <2>1, <2>2 DEF After, TidyAt, Kept, Halting, Again
<1>6. CASE events' = events
  <2>1. Calm
    BY <1>1, <1>2, <1>6 DEF Calm
  <2>2. row'.connect \notin missed' /\ ~Running(row.connect)' => Settles(Down)'
    BY <1>2, <1>3, <2>1, CalmKeeps
  <2>3. CASE ~Running(row.connect) /\ Leave(r)
    <3>1. pc'[r] = "idle" /\ ~Running(row.connect)'
      BY <1>1, <2>1, <2>3, LeaveAt, CalmKeeps
    <3>2. QED
      BY <2>2, <3>1 DEF After, Agree
  <2>4. CASE op[r] \in Again /\ Go(r, "stop", loc[r])
    <3>1. pc'[r] = "remove" /\ op'[r] = op[r] /\ loc'[r] = loc[r]
      BY <1>1, <2>4, SuccAt, GoAt
    <3>2. QED
      BY <1>2, <1>3, <2>4, <3>1 DEF After, TidyAt, Kept, Halting, Again
  <2>5. CASE op[r] = "stop" /\ ~Running(row.connect) /\ Go(r, "stop", loc[r])
    <3>1. pc'[r] = "exited" /\ op'[r] = op[r] /\ loc'[r] = loc[r]
      BY <1>1, <2>5, SuccAt, GoAt
    <3>2. ~Running(row.connect)'
      BY <2>1, <2>5, CalmKeeps
    <3>3. QED
      BY <1>2, <1>3, <2>2, <2>5, <3>1, <3>2 DEF After, TidyAt, Kept, Halting, Again
  <2>6. Running(row.connect) /\ Goto(r, "wait") /\ UNCHANGED <<op, loc>> => After(r)'
    BY <1>5
  <2>7. QED
    BY <1>2, <1>4, <2>3, <2>4, <2>5, <2>6 DEF Again
<1>7. QED
  BY <1>4, <1>5, <1>6

\* ContainerStop returns: the container has ended, and that it was stopped is told last.
LEMMA WaitSays ==
    ASSUME NEW r \in Requests, Only(r), Wait(r)
    PROVE  /\ op[r] \in {"restart", "upgrade", "stop"} /\ pc[r] = "wait" /\ row.exists
           /\ loc[r].connect = row.connect
           /\ Go(r, "stop", loc[r]) /\ UNCHANGED <<row, existed>> /\ ~Running(row.connect)'
           /\ \/ Settles({"EXITED"})' /\ stopped' = (op[r] = "stop")
              \/ Calm /\ stopped' = stopped /\ ~Running(row.connect)
<1>1. /\ DockerOK /\ op[r] \in Ops /\ pc[r] \in Steps[op[r]] /\ TidyAt(r) /\ ~Fault
      /\ UNCHANGED <<wpc, wnew>> /\ subscribed
      /\ op[r] # "start" => row.exists
      /\ row.exists => row.connect \in Boxes
  BY OnlyFacts
<1>2. pc[r] = "wait" /\ op[r] \in {"restart", "upgrade", "stop"} /\ row.exists
  BY <1>1, OpAt DEF Wait
<1>3. loc[r].connect = row.connect /\ row.connect \in Boxes
  BY <1>1, <1>2 DEF TidyAt, Kept, Again
<1>4. Go(r, "stop", loc[r]) /\ UNCHANGED <<tag, subscribed, row, existed>>
  BY <1>1 DEF Wait
<1>5. CASE Running(row.connect)
  <2>1. StopEnds(row.connect) /\ stopped' = (op[r] = "stop")
    BY <1>1, <1>3, <1>5 DEF Wait
  <2>2. Ended(row.connect, {"EXITED"})
    BY <1>3, <1>4, <1>5, <2>1, EndedWays
  <2>3. Settles({"EXITED"})'
    BY <1>1, <1>3, <1>4, <1>5, <2>2, EndedDown
  <2>4. ~Running(row.connect)'
    BY <1>1, <1>3, <1>4, <2>2, EndedSays DEF Running
  <2>5. QED
    BY <1>2, <1>3, <1>4, <2>1, <2>3, <2>4
<1>6. CASE ~Running(row.connect)
  <2>1. UNCHANGED <<box, events, missed, stopped>>
    BY <1>1, <1>3, <1>6 DEF Wait
  <2>2. Calm
    BY <1>1, <1>4, <2>1 DEF Calm
  <2>3. ~Running(row.connect)'
    BY <1>6, <2>2, CalmKeeps
  <2>4. QED
    BY <1>2, <1>3, <1>4, <1>6, <2>1, <2>2, <2>3
<1>7. QED
  BY <1>5, <1>6

\* So the row agrees, or will.
LEMMA TidyWait ==
    ASSUME NEW r \in Requests, Only(r), Wait(r)
    PROVE  After(r)'
<1>1. RequestOK /\ TidyAt(r)
  BY OnlyFacts
<1>2. /\ op[r] \in {"restart", "upgrade", "stop"} /\ pc[r] = "wait" /\ row.exists
      /\ loc[r].connect = row.connect
      /\ Go(r, "stop", loc[r]) /\ UNCHANGED <<row, existed>> /\ ~Running(row.connect)'
      /\ \/ Settles({"EXITED"})'
         \/ Calm /\ ~Running(row.connect)
  BY WaitSays
<1>3. CASE op[r] \in Again
  <2>1. pc'[r] = "remove" /\ op'[r] = op[r] /\ loc'[r] = loc[r]
    BY <1>1, <1>2, <1>3, SuccAt, GoAt
  <2>2. QED
    BY <1>2, <1>3, <2>1 DEF After, TidyAt, Kept, Halting, Again
<1>4. CASE op[r] = "stop"
  <2>1. pc'[r] = "exited" /\ op'[r] = op[r] /\ loc'[r] = loc[r]
    BY <1>1, <1>2, <1>4, SuccAt, GoAt
  <2>2. row'.connect \notin missed' => Settles(Down)'
    <3>1. CASE Settles({"EXITED"})'
      BY <3>1, SettlesMore, ActionStatus
    <3>2. CASE Calm /\ ~Running(row.connect)
      <4>1. row.connect \notin missed => Settles(Down)
        BY <1>1, <1>2, <3>2 DEF TidyAt, Halting
      <4>2. QED
        BY <1>2, <3>2, <4>1, CalmKeeps
    <3>3. QED
      BY <1>2, <3>1, <3>2
  <2>3. QED
    BY <1>2, <1>4, <2>1, <2>2 DEF After, TidyAt, Kept, Halting, Again
<1>5. QED
  BY <1>2, <1>3, <1>4 DEF Again

\* ContainerKill.
LEMMA TidyKill ==
    ASSUME NEW r \in Requests, Only(r), Kill(r)
    PROVE  After(r)'
<1>1. /\ RequestOK /\ DockerOK /\ op[r] \in Ops /\ pc[r] \in Steps[op[r]] /\ TidyAt(r) /\ ~Fault
      /\ UNCHANGED <<wpc, wnew>> /\ subscribed
      /\ op[r] # "start" => row.exists
      /\ row.exists => row.connect \in Boxes
  BY OnlyFacts
<1>2. /\ pc[r] = "kill" /\ op[r] = "kill" /\ row.exists
      /\ UNCHANGED <<tag, subscribed, row, existed>>
  BY <1>1, OpAt DEF Kill
<1>3. /\ loc[r].connect = row.connect /\ row.connect \in Boxes
      /\ row.connect \notin missed /\ ~Running(row.connect) => Settles(Down)
  BY <1>1, <1>2 DEF TidyAt, Kept, Halting, Again
<1>4. CASE Running(row.connect)
  <2>1. /\ Ends(row.connect, "failed") /\ Tell(row.connect, <<"kill", "die1">>)
        /\ Go(r, "kill", loc[r])
    BY <1>1, <1>3, <1>4 DEF Kill, FailsIf
  <2>2. Ended(row.connect, Down)
    BY <1>2, <1>3, <1>4, <2>1, EndedWays
  <2>3. Settles(Down)'
    BY <1>1, <1>2, <1>3, <1>4, <2>2, EndedDown
  <2>4. ~Running(row.connect)'
    BY <1>1, <1>2, <1>3, <2>2, EndedSays DEF Running
  <2>5. pc'[r] = "exited" /\ op'[r] = op[r] /\ loc'[r] = loc[r]
    BY <1>1, <1>2, <2>1, SuccAt, GoAt
  <2>6. QED
    BY <1>2, <1>3, <2>3, <2>4, <2>5 DEF After, TidyAt, Kept, Halting, Again
<1>5. CASE ~Running(row.connect)
  <2>1. Leave(r) /\ UNCHANGED <<box, events, missed>>
    BY <1>1, <1>3, <1>5 DEF Kill
  <2>2. Calm
    BY <1>1, <1>2, <2>1 DEF Calm
  <2>3. Agree'
    BY <1>2, <1>3, <1>5, <2>2, CalmKeeps DEF Agree
  <2>4. QED
    BY <1>1, <2>1, <2>3, LeaveAt DEF After
<1>6. QED
  BY <1>4, <1>5

\* Remove.
LEMMA TidyRemove ==
    ASSUME NEW r \in Requests, Only(r), Remove(r)
    PROVE  After(r)'
<1>1. /\ RequestOK /\ DockerOK /\ op[r] \in Ops /\ pc[r] \in Steps[op[r]] /\ TidyAt(r) /\ ~Fault
      /\ UNCHANGED <<wpc, wnew>> /\ subscribed
      /\ op[r] # "start" => row.exists
      /\ row.exists => row.connect \in Boxes
  BY OnlyFacts
<1>2. /\ pc[r] = "remove" /\ op[r] \in {"restart", "upgrade", "delete"} /\ row.exists
      /\ UNCHANGED <<tag, subscribed, row, existed>> /\ Go(r, "remove", loc[r])
  BY <1>1, OpAt DEF Remove
<1>3. loc[r].connect = row.connect /\ row.connect \in Boxes
  BY <1>1, <1>2 DEF TidyAt, Kept, Again
<1>4. /\ ~Running(row.connect)'
      /\ Agree => Agree'
  <2>1. CASE Exists(row.connect)
    <3>1. ForceRemove(row.connect)
      BY <1>1, <1>3, <2>1 DEF Remove
    <3>2. Ended(row.connect, Down)
      BY <1>2, <1>3, <3>1, EndedWays
    <3>3. missed \subseteq missed' /\ ~Running(row.connect)'
      BY <1>1, <1>2, <1>3, <3>2, EndedSays DEF Running
    <3>4. CASE Running(row.connect)
      <4>1. Settles(Down)'
        BY <1>1, <1>2, <1>3, <3>2, <3>4, EndedDown
      <4>2. QED
        BY <3>3, <4>1 DEF Agree
    <3>5. CASE ~Running(row.connect)
      <4>1. Keeps(row.connect)
        BY <1>1, <1>2, <1>3, <3>2, <3>5, EndedDown
      <4>2. Settles(Down) => Settles(Down)'
        BY <1>1, <1>2, <4>1, KeepsPending
      <4>3. QED
        BY <1>2, <3>3, <3>5, <4>2 DEF Agree
    <3>6. QED
      BY <3>4, <3>5
  <2>2. CASE ~Exists(row.connect)
    <3>1. UNCHANGED <<box, events, missed>>
      BY <1>1, <1>3, <2>2 DEF Remove
    <3>2. Calm /\ ~Running(row.connect)
      BY <1>1, <1>2, <2>2, <3>1 DEF Calm, Running, Exists
    <3>3. QED
      BY <1>2, <3>2, CalmKeeps
  <2>3. QED
    BY <2>1, <2>2
<1>5. CASE op[r] \in Again
  <2>1. pc'[r] = "starting" /\ op'[r] = op[r] /\ loc'[r] = loc[r]
    BY <1>1, <1>2, <1>5, SuccAt, GoAt
  <2>2. QED
    BY <1>2, <1>3, <1>4, <1>5, <2>1 DEF After, TidyAt, Kept, Halting, Again
<1>6. CASE op[r] = "delete"
  <2>1. pc'[r] = "delete" /\ op'[r] = op[r] /\ loc'[r] = loc[r]
    BY <1>1, <1>2, <1>6, SuccAt, GoAt
  <2>2. Agree'
    BY <1>1, <1>4, <1>6 DEF TidyAt
  <2>3. QED
    BY <1>2, <1>3, <1>6, <2>1, <2>2 DEF After, TidyAt, Kept, Halting, Again
<1>7. QED
  BY <1>2, <1>5, <1>6 DEF Again

\* Any step of the only request.
LEMMA TidyServe ==
    ASSUME NEW r \in Requests, Only(r)
    PROVE  After(r)'
BY TidyFind, TidyRead, TidyStopping, TidyStarting, TidyRunning, TidyExited, TidyStop, TidyWait, TidyKill,
   TidyRemove, TidyRpc, TidyConfig, TidyCount, TidyStart, TidyConnect, TidyInsert, TidyNoRow DEF Only, Serve

\* A step of the watcher, or of nobody: requests, containers and the container of the row are as
\* they were, and nothing that was to come is lost.
Lossless ==
    /\ UNCHANGED <<box, missed, op, pc, loc, existed, subscribed>>
    /\ row'.connect = row.connect /\ row'.exists = row.exists
    /\ \A S : row.exists /\ Pending(S) => Pending(S)'
    /\ \A S : row.exists /\ Settles(S) => Settles(S)'
    /\ \A b, S : LastIn(events, b, S) \/ NoneIn(events, b) => LastIn(events', b, S) \/ NoneIn(events', b)
    /\ \A b : Following(b) /\ b # row.connect => Following(b)'

\* Then all stays as it should be.
LEMMA LosslessTidy ==
    ASSUME CInv, Standing, Lossless
    PROVE  /\ row.exists /\ Agree => Agree'
           /\ \A r \in Requests : TidyAt(r) => TidyAt(r)'
<1>1. /\ UNCHANGED <<box, missed, op, pc, loc, existed>>
      /\ row'.connect = row.connect /\ row'.exists = row.exists
      /\ \A S : row.exists /\ Pending(S) => Pending(S)'
      /\ \A S : row.exists /\ Settles(S) => Settles(S)'
      /\ \A b, S : LastIn(events, b, S) \/ NoneIn(events, b) => LastIn(events', b, S) \/ NoneIn(events', b)
      /\ \A b : Following(b) /\ b # row.connect => Following(b)'
  BY DEF Lossless
<1>2. IInv /\ BoxInv
  BY DEF CInv, FInv, Standing
<1>3. Running(row.connect)' <=> Running(row.connect)
  BY <1>1 DEF Running
<1>4. row.exists /\ Agree => Agree'
  BY <1>1, <1>3 DEF Agree
<1>5. ASSUME NEW r \in Requests, TidyAt(r) PROVE TidyAt(r)'
  <2>1. op[r] \in Ops /\ PathAt(r) /\ pc[r] \in Steps[op[r]]
    <3>1. RequestOK
      BY <1>2, Parts
    <3>2. QED
      BY <3>1 DEF RequestOK, PathInv, PathAt
  <2>2. /\ op[r] \in {"update", "delete"} \/ op[r] \in Again => row.exists
        /\ Halting(r) \/ pc[r] \in {"running", "connect"} => row.exists /\ op[r] \in Ops \ {"start", "none"}
    BY <1>5, <2>1, OpAt DEF TidyAt, Halting, Again
  <2>3. op[r] \in {"update", "delete"} \/ (op[r] \in Again /\ pc[r] = "config") => Agree'
    BY <1>4, <1>5, <2>2 DEF TidyAt
  <2>4. Halting(r) /\ row.connect \notin missed /\ ~Running(row.connect) => Settles(Down)'
    BY <1>1, <1>5, <2>2 DEF TidyAt
  <2>5. pc[r] = "insert" /\ loc[r].new \notin missed =>
          LastIn(events', loc[r].new, {"RUNNING"}) \/ NoneIn(events', loc[r].new)
    BY <1>1, <1>5 DEF TidyAt
  <2>6. ASSUME pc[r] = "connect", loc[r].new \notin missed PROVE Following(loc[r].new)'
    <3>1. PICK b \in Boxes : b = loc[r].new
      BY <2>1, <2>6 DEF PathAt, Made
    <3>2. Following(b) /\ ~Running(row.connect)
      BY <1>5, <2>2, <2>6, <3>1 DEF TidyAt
    <3>3. Running(b)
      BY <1>2, <2>6, <3>1 DEF BoxInv
    <3>4. Following(b)'
      BY <1>1, <3>2, <3>3
    <3>5. QED
      BY <1>1, <3>1, <3>4 DEF Following
  <2>7. pc[r] = "running" =>
          row.connect = loc[r].new /\ (row.connect \notin missed => Pending({"RUNNING"})')
    BY <1>1, <1>5, <2>2 DEF TidyAt
  <2>8. (Kept(r)' <=> Kept(r)) /\ (Halting(r)' <=> Halting(r))
    BY <1>1 DEF Kept, Halting
  <2>9. QED
    BY <1>1, <1>3, <1>5, <2>3, <2>4, <2>5, <2>6, <2>7, <2>8 DEF TidyAt
<1>6. QED
  BY <1>4, <1>5

\* The steps that lose nothing.
LEMMA WatchLossless ==
    ASSUME IInv, Watching, subscribed, Watch, Fine
    PROVE  Lossless /\ stopped' = stopped
<1>1. wpc \in {"watch", "update"}
  BY DEF Watching
<1>2. HandleEvent \/ ApplyEvent
  BY <1>1 DEF Watch, ListStatuses, SyncStatus, FixStatus, SubscribeEvents
<1>3. UNCHANGED <<op, pc, loc, existed, stopped>>
  BY <1>2 DEF HandleEvent, ApplyEvent, request
<1>4. CASE HandleEvent
  <2>1. \A S : /\ UNCHANGED <<box, subscribed, missed, row>>
               /\ row.exists /\ Pending(S) => Pending(S)'
               /\ row.exists /\ Settles(S) /\ Fine => Settles(S)'
               /\ \A b : LastIn(events, b, S) \/ NoneIn(events, b) =>
                           LastIn(events', b, S) \/ NoneIn(events', b)
               /\ \A b : Following(b) /\ b # row.connect /\ Fine => Following(b)'
    BY <1>4, HandleSays
  <2>2. QED
    BY <1>3, <2>1 DEF Lossless
<1>5. CASE ApplyEvent
  <2>1. \A S : /\ UNCHANGED <<box, subscribed, missed, events>>
               /\ row'.connect = row.connect /\ row'.exists = row.exists
               /\ Pending(S) => Pending(S)'
               /\ row.exists /\ Settles(S) /\ Fine => Settles(S)'
               /\ \A b : Following(b) => Following(b)'
    BY <1>5, ApplySays
  <2>2. QED
    BY <1>3, <2>1 DEF Lossless
<1>6. QED
  BY <1>2, <1>4, <1>5

\* A step that changes nothing loses nothing.
LEMMA StutterLossless ==
    ASSUME UNCHANGED vars
    PROVE  Lossless /\ UNCHANGED <<tidy, stopped>>
<1>1. UNCHANGED <<box, missed, op, pc, loc, existed, subscribed, row, events, wpc, wnew, tidy, stopped>>
  BY DEF vars, docker, request, watcher, history
<1>2. QED
  BY <1>1 DEF Lossless, Pending, Settles, Following

\* A container that ends by itself: if it is that of the row, the row will follow; if it is
\* the new one of a request, that was missed.
LEMMA DieTidy ==
    ASSUME CInv, Standing, subscribed, NEW b \in Boxes, Die(b)
    PROVE  /\ row.exists /\ Agree => Agree'
           /\ \A r \in Requests : TidyAt(r) => TidyAt(r)'
<1>1. IInv /\ BoxInv /\ DockerOK /\ (row.exists => row.connect \in Boxes)
  <2>1. IInv
    BY DEF CInv, FInv
  <2>2. QED
    BY <2>1, Parts DEF RowOK, RowInv, Standing
<1>2. Ended(b, Down) /\ Running(b) /\ UNCHANGED <<row, op, pc, loc, wpc, wnew, existed>>
  BY DieEnds
<1>3. /\ \A c \in Boxes : c # b => box'[c] = box[c] /\ (c \in missed' <=> c \in missed)
      /\ box'[b] # "running"
      /\ missed \subseteq missed' /\ \A q \in Requests : loc[q].new = b => b \in missed'
      /\ \A c : c # b => Keeps(c)
      /\ \A c, d : c # b /\ d # b /\ StartIn(events, d, c) => StartIn(events', d, c)
  BY <1>1, <1>2, EndedSays
<1>4. ASSUME row.exists, row.connect # b
      PROVE  /\ Running(row.connect)' <=> Running(row.connect)
             /\ \A S : (Pending(S) => Pending(S)') /\ (Settles(S) => Settles(S)')
  BY <1>1, <1>2, <1>3, <1>4, KeepsPending DEF Running
<1>5. row.exists /\ row.connect = b => Settles(Down)' /\ ~Running(row.connect)'
  BY <1>1, <1>2, <1>3, EndedDown DEF Running
<1>6. row.exists /\ Agree => Agree'
  BY <1>1, <1>2, <1>3, <1>4, <1>5 DEF Agree
<1>7. ASSUME NEW r \in Requests, TidyAt(r) PROVE TidyAt(r)'
  <2>1. op[r] \in Ops /\ PathAt(r) /\ pc[r] \in Steps[op[r]]
    <3>1. RequestOK
      BY <1>1, Parts
    <3>2. QED
      BY <3>1 DEF RequestOK, PathInv, PathAt
  <2>2. /\ op[r] \in {"update", "delete"} \/ op[r] \in Again => row.exists
        /\ Halting(r) \/ pc[r] \in {"running", "connect"} => row.exists /\ op[r] \in Ops \ {"start", "none"}
        /\ pc[r] \in {"starting", "count", "start", "connect", "exited"} /\ op[r] # "start" => row.exists
    BY <1>7, <2>1, OpAt DEF TidyAt, Halting, Again
  <2>3. op[r] \in {"update", "delete"} \/ (op[r] \in Again /\ pc[r] = "config") => Agree'
    BY <1>6, <1>7, <2>2 DEF TidyAt
  <2>4. Halting(r) /\ row'.connect \notin missed' /\ ~Running(row.connect)' => Settles(Down)'
    BY <1>2, <1>3, <1>4, <1>5, <1>7, <2>2 DEF TidyAt
  <2>5. pc[r] \in {"starting", "count", "start", "connect", "exited"} /\ op[r] # "start" =>
          ~Running(row.connect)'
    BY <1>2, <1>4, <1>5, <1>7, <2>2 DEF TidyAt
  <2>6. ASSUME pc[r] = "insert", loc[r].new \notin missed'
        PROVE  LastIn(events', loc[r].new, {"RUNNING"}) \/ NoneIn(events', loc[r].new)
    <3>1. loc[r].new # b /\ loc[r].new \notin missed
      BY <1>3, <2>6
    <3>2. QED
      BY <1>3, <1>7, <2>6, <3>1 DEF TidyAt, Keeps
  <2>7. ASSUME pc[r] = "connect", loc[r].new \notin missed' PROVE Following(loc[r].new)'
    <3>1. loc[r].new # b /\ loc[r].new \notin missed
      BY <1>3, <2>7
    <3>2. Following(loc[r].new) /\ ~Running(row.connect)
      BY <1>7, <2>2, <2>7, <3>1 DEF TidyAt
    <3>3. row.connect # b
      BY <1>2, <3>2
    <3>4. QED
      BY <1>2, <1>3, <3>1, <3>2, <3>3 DEF Following, Keeps
  <2>8. ASSUME pc[r] = "running"
        PROVE  row'.connect = loc'[r].new /\ (row'.connect \notin missed' => Pending({"RUNNING"})')
    <3>1. row.connect = loc[r].new /\ (row.connect \notin missed => Pending({"RUNNING"})) /\ row.exists
      BY <1>7, <2>2, <2>8 DEF TidyAt
    <3>2. row.connect \notin missed' => row.connect # b /\ row.connect \notin missed
      BY <1>3, <3>1
    <3>3. QED
      BY <1>2, <1>4, <3>1, <3>2
  <2>9. (Kept(r)' <=> Kept(r)) /\ (Halting(r)' <=> Halting(r))
    BY <1>2 DEF Kept, Halting
  <2>10. QED
    BY <1>2, <1>7, <2>3, <2>4, <2>5, <2>6, <2>7, <2>8, <2>9 DEF TidyAt
<1>8. QED
  BY <1>6, <1>7

\* Every step keeps TidyInv.
LEMMA TidyStep ==
    ASSUME CInv, Standing, TidyInv, [Next]_vars
    PROVE  TidyInv'
<1>1. /\ IInv /\ Watching /\ tidy \in BOOLEAN /\ existed \in BOOLEAN
      /\ row.exists => existed
  BY DEF CInv, FInv, IInv, TypeOK, RowInv, Standing
<1>2. SUFFICES ASSUME tidy' PROVE TidyInv'
  BY DEF TidyInv
<1>3. ~Fault
  BY <1>2 DEF Fault
<1>4. ASSUME tidy, UNCHANGED <<pc, subscribed>>, row'.exists = row.exists, row.exists /\ Agree => Agree',
             \A r \in Requests : TidyAt(r) => TidyAt(r)'
      PROVE  TidyInv'
  <2>1. Busy' = Busy /\ Busy \subseteq Requests
    BY <1>4 DEF Busy
  <2>2. /\ subscribed /\ (\A r, q \in Busy : r = q) /\ (\A r \in Busy : TidyAt(r))
        /\ Busy = {} /\ row.exists => Agree
    BY <1>4 DEF TidyInv
  <2>3. \A r \in Busy : TidyAt(r)'
    BY <1>4, <2>1, <2>2
  <2>4. (Busy = {} /\ row.exists)' => Agree'
    BY <1>4, <2>1, <2>2
  <2>5. \A r \in Busy' : TidyAt(r)'
    BY <2>1, <2>3
  <2>6. subscribed' /\ (\A r, q \in Busy : r = q)'
    BY <1>4, <2>1, <2>2
  <2>7. QED
    BY <2>4, <2>5, <2>6 DEF TidyInv
<1>5. CASE \E r \in Requests : Serve(r)
  <2>1. PICK r \in Requests : Serve(r)
    BY <1>5
  <2>2. Fine
    BY <1>1, <1>3, <2>1, ServeRest
  <2>3. tidy /\ subscribed /\ (\A p, q \in Busy : p = q) /\ (\A q \in Busy : TidyAt(q))
    BY <1>2, <2>2 DEF Fine, TidyInv
  <2>4. r \in Busy
    BY <1>1, <2>1, ServeAt DEF Busy
  <2>5. After(r)'
    BY <2>1, <2>2, <2>3, <2>4, TidyServe DEF Only
  <2>6. \A q \in Requests : q # r => pc'[q] = "idle"
    <3>1. \A q \in Requests \ {r} : pc'[q] = pc[q]
      BY <1>1, <2>1, ServeSteps
    <3>2. \A q \in Requests \ {r} : pc[q] = "idle"
      BY <2>3, <2>4 DEF Busy
    <3>3. QED
      BY <3>1, <3>2
  <2>7. \A q \in Busy' : q = r /\ pc'[r] # "idle"
    BY <2>6 DEF Busy
  <2>8. Busy' = {} => pc'[r] = "idle"
    BY DEF Busy
  <2>9. subscribed'
    BY <1>1, <2>1, <2>3, ServeWatcher
  <2>10. pc'[r] # "idle" => TidyAt(r)'
    BY <2>5 DEF After
  <2>11. pc'[r] = "idle" => (row.exists => Agree)'
    BY <2>5 DEF After
  <2>12. \A q \in Busy' : TidyAt(q)'
    BY <2>7, <2>10
  <2>13. QED
    BY <2>7, <2>8, <2>9, <2>11, <2>12 DEF TidyInv
<1>6. CASE \E b \in Boxes : Die(b)
  <2>1. PICK b \in Boxes : Die(b)
    BY <1>6
  <2>2. UNCHANGED <<tidy, pc, row, subscribed>>
    BY <2>1 DEF Die, request
  <2>3. tidy /\ subscribed
    BY <1>2, <2>2 DEF TidyInv
  <2>4. (row.exists /\ Agree => Agree') /\ \A r \in Requests : TidyAt(r) => TidyAt(r)'
    BY <2>1, <2>3, DieTidy
  <2>5. QED
    BY <1>4, <2>2, <2>3, <2>4
<1>7. CASE Watch
  <2>1. CASE SubscribeEvents
    <3>1. tidy /\ ~subscribed
      BY <1>1, <1>2, <2>1 DEF SubscribeEvents, Watching, history
    <3>2. QED
      BY <3>1 DEF TidyInv
  <2>2. CASE ~SubscribeEvents
    <3>1. Fine
      BY <1>3, <1>7, <2>2 DEF Watch, ListStatuses, SyncStatus, FixStatus, HandleEvent, ApplyEvent, FailsIf
    <3>2. tidy /\ subscribed
      BY <1>2, <3>1 DEF Fine, TidyInv
    <3>3. Lossless
      BY <1>1, <1>7, <3>1, <3>2, WatchLossless
    <3>4. QED
      BY <1>4, <3>2, <3>3, LosslessTidy DEF Lossless
  <2>3. QED
    BY <2>1, <2>2
<1>8. CASE UNCHANGED vars
  <2>1. Lossless /\ tidy
    BY <1>2, <1>8, StutterLossless
  <2>2. QED
    BY <1>4, <2>1, LosslessTidy DEF Lossless
<1>9. CASE Disconnect \/ ControllerRestart
  BY <1>3, <1>9 DEF Disconnect, ControllerRestart
<1>10. ASSUME NEW r \in Requests, NEW o \in Ops \ {"none"}, Begin(r, o)
       PROVE  TidyInv'
  <2>1. /\ Busy = {} /\ (tidy \/ (subscribed /\ o \in {"start", "restart", "upgrade"}))
        /\ UNCHANGED <<docker, row, wpc, wnew, missed, existed>>
    BY <1>2, <1>10 DEF Begin, watcher
  <2>2. UNCHANGED <<box, events, subscribed>>
    BY <2>1 DEF docker
  <2>3. subscribed' /\ (tidy /\ row.exists => Agree)
    BY <2>1, <2>2 DEF TidyInv
  <2>4. /\ \A q \in Requests \ {r} : pc'[q] = pc[q]
        /\ op'[r] = o /\ pc'[r] \in {"start", "find", "read"}
        /\ pc'[r] = "start" <=> o = "start"
        /\ pc'[r] = "start" => ~existed
        /\ pc'[r] # "start" => row.exists
    BY <1>1, <1>10, BeginSteps
  <2>5. \A q \in Requests : pc[q] = "idle"
    BY <2>1 DEF Busy
  <2>6. \A q \in Busy' : q = r
    BY <2>4, <2>5 DEF Busy
  <2>7. r \in Busy'
    BY <2>4 DEF Busy
  <2>8. o \in {"update", "delete"} => Agree'
    <3>1. Calm /\ row' = row
      BY <2>1, <2>2 DEF Calm
    <3>2. o \in {"update", "delete"} => Agree
      BY <2>1, <2>3, <2>4
    <3>3. QED
      BY <3>1, <3>2, CalmKeeps
  <2>9. TidyAt(r)'
    BY <2>1, <2>4, <2>8 DEF TidyAt, Kept, Halting, Again
  <2>10. \A q \in Busy' : TidyAt(q)'
    BY <2>6, <2>9
  <2>11. QED
    BY <2>3, <2>6, <2>7, <2>10 DEF TidyInv
<1>11. QED
  BY <1>5, <1>6, <1>7, <1>8, <1>9, <1>10 DEF Next

\* After an orderly Stop the events end with one that says EXITED, and so will the row.
StoppedInv ==
    tidy /\ stopped =>
        /\ row.exists /\ ~Running(row.connect) /\ Pending({"EXITED"})
        /\ \A r \in Busy : op[r] = "stop" /\ pc[r] = "exited"
        /\ Busy = {} => Settles({"EXITED"})

\* Requests keep StoppedInv: the only one that may still run is the Stop itself.
LEMMA StoppedServe ==
    ASSUME CInv, Standing, TidyInv, StoppedInv, NEW r \in Requests, Serve(r), tidy', stopped'
    PROVE  StoppedInv'
<1>1. IInv
  BY DEF CInv, FInv
<1>2. Fine
  BY <1>1, ServeRest DEF Fault
<1>3. tidy /\ subscribed /\ (\A p, q \in Busy : p = q) /\ (\A q \in Busy : TidyAt(q))
  BY <1>2 DEF Fine, TidyInv
<1>4. r \in Busy
  BY <1>1, ServeAt DEF Busy
<1>5. Only(r)
  BY <1>2, <1>3, <1>4 DEF Only
<1>6. RequestOK
  BY <1>5, OnlyFacts
<1>7. \A q \in Requests : q # r => pc'[q] = "idle"
  <2>1. \A q \in Requests \ {r} : pc'[q] = pc[q]
    BY <1>1, ServeSteps
  <2>2. \A q \in Requests \ {r} : pc[q] = "idle"
    BY <1>3, <1>4 DEF Busy
  <2>3. QED
    BY <2>1, <2>2
<1>8. \A q \in Busy' : q = r /\ pc'[r] # "idle"
  BY <1>7 DEF Busy
<1>9. CASE stopped
  <2>1. op[r] = "stop" /\ pc[r] = "exited" /\ row.exists /\ ~Running(row.connect) /\ Pending({"EXITED"})
    BY <1>3, <1>4, <1>9 DEF StoppedInv
  <2>2. Exited(r)
    BY <2>1 DEF Serve, Find, Read, Stopping, Starting, MarkRunning, Status, Stop, Wait, Kill, Remove,
       Rpc, SaveConfig, Count, StartBox, Connect, Insert, UndoStop, UndoRemove, Delete
  <2>3. Calm /\ row'.status = "EXITED" /\ pc'[r] = Succ(r, "exited")
    BY <1>5, <2>1, <2>2, StatusCalm DEF Exited, Statuses
  <2>4. pc'[r] = "idle" /\ row'.exists
    BY <2>1, <2>3, SuccAt DEF Calm
  <2>5. Settles({"EXITED"})' /\ ~Running(row.connect)'
    BY <2>1, <2>3, CalmKeeps
  <2>6. QED
    BY <1>8, <2>4, <2>5 DEF StoppedInv, Settles
<1>10. CASE ~stopped
  <2>1. Wait(r)
    BY <1>10 DEF Serve, Find, Read, Stopping, Starting, MarkRunning, Exited, Status, Stop, Kill, Remove,
       Rpc, SaveConfig, Count, StartBox, Connect, Insert, UndoStop, UndoRemove, Delete
  <2>2. /\ row.exists /\ row' = row /\ Go(r, "stop", loc[r]) /\ ~Running(row.connect)'
        /\ \/ Settles({"EXITED"})' /\ stopped' = (op[r] = "stop")
           \/ stopped' = stopped
    BY <1>5, <2>1, WaitSays
  <2>3. Settles({"EXITED"})' /\ op[r] = "stop"
    BY <1>10, <2>2
  <2>4. pc'[r] = "exited" /\ op'[r] = "stop"
    BY <1>6, <2>2, <2>3, SuccAt, GoAt
  <2>5. QED
    BY <1>8, <2>2, <2>3, <2>4 DEF StoppedInv, Settles
<1>11. QED
  BY <1>9, <1>10

\* Every step keeps StoppedInv.
LEMMA StoppedStep ==
    ASSUME CInv, Standing, TidyInv, StoppedInv, [Next]_vars
    PROVE  StoppedInv'
<1>1. IInv /\ Watching /\ DockerOK /\ (row.exists => row.connect \in Boxes)
  <2>1. IInv
    BY DEF CInv, FInv
  <2>2. QED
    BY <2>1, Parts DEF RowOK, RowInv, Standing
<1>2. SUFFICES ASSUME tidy', stopped' PROVE StoppedInv'
  BY DEF StoppedInv
<1>3. ~Fault
  BY <1>2 DEF Fault
<1>4. CASE tidy /\ stopped /\ Lossless
  <2>1. UNCHANGED <<box, op, pc>> /\ row'.connect = row.connect /\ row'.exists = row.exists
    BY <1>4 DEF Lossless
  <2>2. Busy' = Busy /\ (Running(row.connect)' <=> Running(row.connect))
    BY <2>1 DEF Busy, Running
  <2>3. /\ row.exists /\ ~Running(row.connect) /\ Pending({"EXITED"})
        /\ \A r \in Busy : op[r] = "stop" /\ pc[r] = "exited"
        /\ Busy = {} => Settles({"EXITED"})
    BY <1>4 DEF StoppedInv
  <2>4. Pending({"EXITED"})' /\ (Busy = {} => Settles({"EXITED"})')
    BY <1>4, <2>3 DEF Lossless
  <2>5. QED
    BY <2>1, <2>2, <2>3, <2>4 DEF StoppedInv
<1>5. CASE \E b \in Boxes : Die(b)
  <2>1. PICK b \in Boxes : Die(b)
    BY <1>5
  <2>2. Ended(b, Down) /\ Running(b) /\ UNCHANGED <<row, op, pc, wpc, wnew, tidy, stopped>>
    BY <2>1, DieEnds
  <2>3. /\ row.exists /\ ~Running(row.connect) /\ Pending({"EXITED"})
        /\ \A r \in Busy : op[r] = "stop" /\ pc[r] = "exited"
        /\ Busy = {} => Settles({"EXITED"})
    BY <1>2, <2>2 DEF StoppedInv
  <2>4. row.connect # b /\ row.connect \in Boxes
    BY <1>1, <2>2, <2>3
  <2>5. box'[row.connect] = box[row.connect] /\ Keeps(row.connect)
    BY <1>1, <2>2, <2>4, EndedSays
  <2>6. Pending({"EXITED"})' /\ (Busy = {} => Settles({"EXITED"})')
    BY <2>2, <2>3, <2>5, KeepsPending
  <2>7. ~Running(row.connect)' /\ Busy' = Busy
    BY <2>2, <2>3, <2>5 DEF Running, Busy
  <2>8. QED
    BY <2>2, <2>3, <2>6, <2>7 DEF StoppedInv
<1>6. CASE Watch
  <2>1. CASE SubscribeEvents
    <3>1. tidy /\ ~subscribed
      BY <1>1, <1>2, <2>1 DEF SubscribeEvents, Watching, history
    <3>2. QED
      BY <3>1 DEF TidyInv
  <2>2. CASE ~SubscribeEvents
    <3>1. Fine
      BY <1>3, <1>6, <2>2 DEF Watch, ListStatuses, SyncStatus, FixStatus, HandleEvent, ApplyEvent, FailsIf
    <3>2. tidy /\ subscribed
      BY <1>2, <3>1 DEF Fine, TidyInv
    <3>3. QED
      BY <1>1, <1>2, <1>4, <1>6, <3>1, <3>2, WatchLossless
  <2>3. QED
    BY <2>1, <2>2
<1>7. CASE UNCHANGED vars
  BY <1>2, <1>4, <1>7, StutterLossless
<1>8. CASE Disconnect \/ ControllerRestart
  BY <1>3, <1>8 DEF Disconnect, ControllerRestart
<1>9. CASE \E r \in Requests, o \in Ops \ {"none"} : Begin(r, o)
  BY <1>2, <1>9 DEF Begin
<1>10. QED
  BY <1>2, <1>5, <1>6, <1>7, <1>8, <1>9, StoppedServe DEF Next

\* The invariant of a host that is left to one request at a time.
HInv == Standing /\ TidyInv /\ StoppedInv

\* It holds for ever.
LEMMA HInvHolds == Spec => [](CInv /\ HInv)
<1>1. Init => HInv
  <2> SUFFICES ASSUME Init PROVE HInv
    OBVIOUS
  <2>1. TidyInv /\ StoppedInv /\ Watching /\ DownInv
    BY DEF Init, TidyInv, StoppedInv, Watching, DownInv
  <2>2. \A r \in Requests : loc[r].new \notin Boxes
    BY BlankType DEF Init
  <2>3. row.exists => tag[row.connect] # 0
    <3>1. CASE row = NoRow
      BY <3>1 DEF NoRow
    <3>2. CASE /\ row = [exists |-> TRUE, status |-> "RUNNING", connect |-> 1, count |-> 1,
                         config |-> "kept"]
               /\ tag = [b \in Boxes |-> IF b = 1 THEN 1 ELSE 0]
      <4>1. row.connect = 1 /\ 1 \in Boxes
        BY <3>2, ConstantsAssumption DEF Boxes
      <4>2. QED
        BY <3>2, <4>1
    <3>3. QED
      BY <3>1, <3>2 DEF Init
  <2>4. QED
    BY <2>1, <2>2, <2>3 DEF HInv, Standing, BoxInv
<1>2. CInv /\ HInv /\ [Next]_vars => HInv'
  BY BoxStep, WatchingStep, DownStep, TidyStep, StoppedStep DEF HInv, Standing, CInv, FInv
<1>3. CInv <=> FInv /\ CountInv /\ InstanceIsUnique
  BY DEF CInv
<1>4. QED
  BY <1>1, <1>2, <1>3, FInvHolds, CountHolds, PTL DEF Spec

\* A Start or Restart that met no other request and no failure leaves a row that, once
\* DockerEventWatcher has handled all events, is RUNNING exactly as long as its container
\* runs, however the requests and the events interleave.
THEOREM StatusTheorem == Spec => []StatusAgrees
<1>1. CInv /\ HInv => StatusAgrees
  <2> SUFFICES ASSUME HInv, Quiet, tidy, row.exists, row.connect \notin missed
               PROVE  row.status = "RUNNING" <=> Running(row.connect)
    BY DEF StatusAgrees
  <2>1. Busy = {} /\ wpc = "watch" /\ events = <<>>
    BY DEF Quiet
  <2>2. NoneIn(events, row.connect)
    BY <2>1, NoneEmpty
  <2>3. Agree
    BY <2>1 DEF HInv, TidyInv
  <2>4. CASE Running(row.connect)
    BY <2>1, <2>2, <2>3, <2>4 DEF Agree, Settles
  <2>5. CASE ~Running(row.connect)
    <3>1. row.status \in Down
      BY <2>1, <2>2, <2>3, <2>5 DEF Agree, Settles
    <3>2. QED
      BY <2>5, <3>1, ActionStatus
  <2>6. QED
    BY <2>4, <2>5
<1>2. QED
  BY <1>1, HInvHolds, PTL

\* HeadlessHostShutdown ends EXITED, although Docker tells of a kill first and the process may
\* end with an error: the stop event is the last that the watcher handles.
THEOREM StopTheorem == Spec => []StopEndsExited
<1>1. CInv /\ HInv => StopEndsExited
  <2> SUFFICES ASSUME HInv, Quiet, tidy, stopped PROVE row.status = "EXITED"
    BY DEF StopEndsExited
  <2>1. Busy = {} /\ wpc = "watch" /\ events = <<>>
    BY DEF Quiet
  <2>2. NoneIn(events, row.connect)
    BY <2>1, NoneEmpty
  <2>3. Settles({"EXITED"})
    BY <2>1 DEF HInv, StoppedInv
  <2>4. QED
    BY <2>1, <2>2, <2>3 DEF Settles
<1>2. QED
  BY <1>1, HInvHolds, PTL
================================================================================
