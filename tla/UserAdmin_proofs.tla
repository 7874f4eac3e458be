--------------------------- MODULE UserAdmin_proofs ----------------------------
(* Theorems about UserAdmin, for every set of users, tokens and requests. *)
EXTENDS UserAdmin, FiniteSetTheorems, TLAPS

\* The steps of each kind of request.
Steps(o) ==
    CASE o = "none" -> {"idle"}
      [] o = "create" -> {"check", "validate", "insert", "ensure", "group", "member"}
      [] o = "issue" -> {"check", "validate", "write"}
      [] o \in {"register", "add", "drop"} -> {"check", "write"}
      [] o \in {"delete", "remove"} -> {"check", "list", "write"}
      [] o = "change" -> {"check", "validate", "list", "write"}

\* A request that goes on is at a later step of its kind; it gets to "write" only from the
\* step before.
LEMMA ThenStep ==
    ASSUME NEW o \in Ops, NEW p \in Steps(o), p \notin {"idle", "member", "write"}
    PROVE  /\ Then[o][p] \in Steps(o)
           /\ o = "remove" /\ Then[o][p] = "write" => p = "list"
<1>1. CASE o = "none"
  BY <1>1 DEF Steps
<1>2. CASE o = "create"
  BY <1>2 DEF Steps, Then
<1>3. CASE o = "issue"
  BY <1>3 DEF Steps, Then
<1>4. CASE o = "register"
  BY <1>4 DEF Steps, Then
<1>5. CASE o = "add"
  BY <1>5 DEF Steps, Then
<1>6. CASE o = "drop"
  BY <1>6 DEF Steps, Then
<1>7. CASE o = "delete"
  BY <1>7 DEF Steps, Then
<1>8. CASE o = "remove"
  BY <1>8 DEF Steps, Then
<1>9. CASE o = "change"
  BY <1>9 DEF Steps, Then
<1>10. QED
  BY <1>1, <1>2, <1>3, <1>4, <1>5, <1>6, <1>7, <1>8, <1>9 DEF Ops

\* A request is at a step of its kind, and is about a user and a token of its kind.
FlowAt(r) ==
    /\ pc[r] \in Steps(op[r])
    /\ op[r] \in {"create", "register", "delete", "add", "change"} => loc[r].user \in Ids
    /\ op[r] \in {"issue", "register"} => loc[r].token \in Tokens

RequestOK ==
    /\ op \in [Requests -> Ops] /\ pc \in [Requests -> PCs] /\ loc \in [Requests -> Locals]
    /\ \A r \in Requests : FlowAt(r)

IInv == TypeOK /\ RequestOK

\* Steps are steps.
LEMMA StepsArePCs == ASSUME NEW o \in Ops PROVE Steps(o) \subseteq PCs
BY DEF Steps, PCs, Ops

\* A request that has not begun is well typed.
LEMMA BlankLocal == Blank \in Locals
BY DEF Blank, Locals, Roles

\* A request that ends keeps the requests in order.
LEMMA LeaveOK == ASSUME RequestOK, NEW r \in Requests, Leave(r) PROVE RequestOK'
<1>1. /\ op' \in [Requests -> Ops] /\ pc' \in [Requests -> PCs] /\ loc' \in [Requests -> Locals]
  BY BlankLocal DEF Leave, RequestOK, Ops, PCs
<1>2. /\ op'[r] = "none" /\ pc'[r] = "idle"
      /\ \A q \in Requests \ {r} : op'[q] = op[q] /\ pc'[q] = pc[q] /\ loc'[q] = loc[q]
  BY DEF Leave, RequestOK
<1>3. FlowAt(r)'
  BY <1>2 DEF FlowAt, Steps
<1>4. \A q \in Requests \ {r} : FlowAt(q)'
  BY <1>2 DEF RequestOK, FlowAt
<1>5. QED
  BY <1>1, <1>3, <1>4 DEF RequestOK

\* So does one that goes on.
LEMMA ContinueOK ==
    ASSUME RequestOK, NEW r \in Requests, pc[r] \notin {"idle", "member", "write"}, Continue(r)
    PROVE  /\ RequestOK'
           /\ op' = op /\ loc' = loc
           /\ \A q \in Requests \ {r} : pc'[q] = pc[q]
           /\ op[r] = "remove" /\ pc'[r] = "write" => pc[r] = "list"
<1>1. op[r] \in Ops /\ pc[r] \in Steps(op[r])
  BY DEF RequestOK, FlowAt
<1>2. Then[op[r]][pc[r]] \in Steps(op[r]) /\ (op[r] = "remove" /\ Then[op[r]][pc[r]] = "write" => pc[r] = "list")
  BY <1>1, ThenStep
<1>3. Then[op[r]][pc[r]] \in PCs
  BY <1>1, <1>2, StepsArePCs
<1>4. /\ pc' \in [Requests -> PCs] /\ op' = op /\ loc' = loc
      /\ pc'[r] = Then[op[r]][pc[r]] /\ \A q \in Requests \ {r} : pc'[q] = pc[q]
  BY <1>3 DEF Continue, RequestOK
<1>5. FlowAt(r)'
  BY <1>2, <1>4 DEF RequestOK, FlowAt
<1>6. \A q \in Requests \ {r} : FlowAt(q)'
  BY <1>4 DEF RequestOK, FlowAt
<1>7. QED
  BY <1>2, <1>4, <1>5, <1>6 DEF RequestOK

\* Faults are counted up to their bound.
LEMMA FaultOK == ASSUME TypeOK, Fault PROVE faults' \in 0..MaxFaults
BY ConstantsAssumption DEF TypeOK, Fault

\* And one that reads.
LEMMA ReadsOK ==
    ASSUME IInv, NEW r \in Requests, NEW condition \in BOOLEAN,
           pc[r] \notin {"idle", "member", "write"}, Reads(r, condition)
    PROVE  RequestOK' /\ faults' \in 0..MaxFaults
<1>1. Continue(r) \/ Leave(r)
  BY DEF Reads
<1>2. RequestOK'
  BY <1>1, ContinueOK, LeaveOK DEF IInv
<1>3. faults' \in 0..MaxFaults
  BY FaultOK DEF Reads, FailsIf, IInv, TypeOK
<1>4. QED
  BY <1>2, <1>3

\* The tables as the migrations leave them are in order.
LEMMA IInvInit == Init => IInv
<1> SUFFICES ASSUME Init PROVE IInv
  OBVIOUS
<1>1. /\ users \in SUBSET Ids /\ groups \in SUBSET Ids /\ system \in SUBSET (Ids \cup {SystemUser})
      /\ custom \in BOOLEAN /\ orphaned \in BOOLEAN /\ raced \in BOOLEAN
      /\ registered \in [Tokens -> SUBSET Ids] /\ invited \in SUBSET Ids
  BY DEF Init
<1>2. member \in [Ids -> Roles \cup {None}]
  BY DEF Init, Roles
<1>3. token \in [Tokens -> TokenRows]
  BY DEF Init, NoToken, TokenRows, Roles
<1>4. made \in 0..MaxRequests /\ faults \in 0..MaxFaults
  BY ConstantsAssumption DEF Init
<1>5. /\ op \in [Requests -> Ops] /\ pc \in [Requests -> PCs] /\ loc \in [Requests -> Locals]
      /\ \A r \in Requests : FlowAt(r)
  BY BlankLocal DEF Init, Ops, PCs, FlowAt, Steps
<1>6. QED
  BY <1>1, <1>2, <1>3, <1>4, <1>5 DEF IInv, TypeOK, RequestOK

\* Every statement of every request keeps types and flow.
LEMMA IInvStep == IInv /\ [Next]_vars => IInv'
<1> SUFFICES ASSUME IInv, [Next]_vars PROVE IInv'
  OBVIOUS
<1> USE DEF tables, request, history
<1>q. RequestOK /\ TypeOK
  BY DEF IInv
\* a step that changes the request and counts a fault, or not
<1>t. ASSUME RequestOK', faults' \in 0..MaxFaults, UNCHANGED <<tables, made, history>> PROVE IInv'
  BY <1>t, <1>q DEF IInv, TypeOK, RequestOK
<1>f. ASSUME NEW condition \in BOOLEAN, FailsIf(condition) PROVE faults' \in 0..MaxFaults
  BY <1>f, <1>q, FaultOK DEF FailsIf, TypeOK
<1>1. ASSUME NEW r \in Requests, NEW o \in Ops \ {"none"}, Begin(r, o) PROVE IInv'
  <2>1. PICK u \in IF o \in {"issue", "drop"} THEN {None}
                   ELSE IF o = "remove" THEN Ids \cup {SystemUser} ELSE Ids,
             t \in IF o \in {"issue", "register"} THEN Tokens ELSE {None},
             role \in Roles :
               loc' = [loc EXCEPT ![r] = [user |-> u, role |-> role, token |-> t]]
    BY <1>1 DEF Begin, Roles
  <2>2. [user |-> u, role |-> role, token |-> t] \in Locals
    BY DEF Locals
  <2>3. /\ op' \in [Requests -> Ops] /\ pc' \in [Requests -> PCs] /\ loc' \in [Requests -> Locals]
    BY <1>1, <1>q, <2>1, <2>2 DEF Begin, RequestOK, PCs
  <2>4. /\ op'[r] = o /\ pc'[r] = "check" /\ loc'[r].user = u /\ loc'[r].token = t
        /\ \A q \in Requests \ {r} : op'[q] = op[q] /\ pc'[q] = pc[q] /\ loc'[q] = loc[q]
    BY <1>1, <1>q, <2>1 DEF Begin, RequestOK
  <2>5. FlowAt(r)'
    BY <2>4 DEF FlowAt, Steps, Ops
  <2>6. \A q \in Requests \ {r} : FlowAt(q)'
    BY <1>q, <2>4 DEF FlowAt, RequestOK
  <2>7. made' \in 0..MaxRequests
    BY <1>1, <1>q, ConstantsAssumption DEF Begin, TypeOK
  <2>8. RequestOK'
    BY <2>3, <2>5, <2>6 DEF RequestOK
  <2>9. UNCHANGED <<tables, faults, history>>
    BY <1>1 DEF Begin
  <2>10. QED
    BY <1>q, <2>7, <2>8, <2>9 DEF IInv, TypeOK, RequestOK
<1>2. ASSUME NEW r \in Requests, Check(r) PROVE IInv'
  <2>1. CASE op[r] # "register"
    <3>1. Reads(r, system # {})
      BY <1>2, <2>1 DEF Check
    <3>2. RequestOK' /\ faults' \in 0..MaxFaults
      BY <1>2, <3>1, ReadsOK DEF Check
    <3>3. QED
      BY <1>2, <1>t, <3>2 DEF Check
  <2>2. CASE op[r] = "register" /\ Leave(r)
    <3>1. faults' \in 0..MaxFaults
      BY <1>2, <1>q, <2>2, FaultOK DEF Check, FailsIf, TypeOK
    <3>2. QED
      BY <1>2, <1>q, <1>t, <2>2, <3>1, LeaveOK DEF Check
  <2>3. CASE op[r] = "register" /\ ~Leave(r)
    <3>1. /\ loc' = [loc EXCEPT ![r].role = token[loc[r].token].role]
          /\ pc' = [pc EXCEPT ![r] = "write"] /\ UNCHANGED <<op, faults>>
      BY <1>2, <2>3 DEF Check
    <3>2. loc[r].token \in Tokens /\ loc[r].user \in Ids
      BY <1>q, <2>3 DEF RequestOK, FlowAt
    <3>3. token[loc[r].token].role \in Roles
      BY <1>q, <3>2 DEF TypeOK, TokenRows
    <3>4. loc' \in [Requests -> Locals] /\ loc'[r].token = loc[r].token /\ loc'[r].user = loc[r].user
          /\ \A q \in Requests \ {r} : loc'[q] = loc[q]
      BY <1>q, <3>1, <3>3 DEF RequestOK, Locals
    <3>5. pc' \in [Requests -> PCs] /\ pc'[r] = "write" /\ \A q \in Requests \ {r} : pc'[q] = pc[q]
      BY <1>q, <3>1 DEF RequestOK, PCs
    <3>6. FlowAt(r)'
      BY <2>3, <3>1, <3>2, <3>4, <3>5 DEF FlowAt, Steps
    <3>7. \A q \in Requests \ {r} : FlowAt(q)'
      BY <1>q, <3>1, <3>4, <3>5 DEF FlowAt, RequestOK
    <3>8. RequestOK'
      BY <1>q, <3>1, <3>4, <3>5, <3>6, <3>7 DEF RequestOK
    <3>9. faults' \in 0..MaxFaults
      BY <1>q, <3>1 DEF TypeOK
    <3>10. QED
      BY <1>2, <1>t, <3>8, <3>9 DEF Check
  <2>4. QED
    BY <2>1, <2>2, <2>3
<1>3. ASSUME NEW r \in Requests, Validate(r) PROVE IInv'
  <2>1. Exists(loc[r].role) \in BOOLEAN
    BY <1>q DEF Exists, TypeOK
  <2>2. RequestOK' /\ faults' \in 0..MaxFaults
    BY <1>3, <2>1, ReadsOK DEF Validate
  <2>3. QED
    BY <1>3, <1>t, <2>2 DEF Validate
<1>4. ASSUME NEW r \in Requests, Insert(r) PROVE IInv'
  <2>1. RequestOK' /\ faults' \in 0..MaxFaults
    BY <1>4, ReadsOK DEF Insert
  <2>2. op[r] \in Ops /\ pc[r] \in Steps(op[r]) /\ pc[r] = "insert"
    BY <1>4, <1>q DEF Insert, RequestOK, FlowAt
  <2>3. op[r] = "create"
    BY <2>2 DEF Steps, Ops
  <2>4. loc[r].user \in Ids
    BY <1>q, <2>3 DEF RequestOK, FlowAt
  <2>5. users' \in SUBSET Ids
    BY <1>4, <1>q, <2>4 DEF Insert, TypeOK
  <2>6. UNCHANGED <<groups, member, system, custom, token, made, history>>
    BY <1>4 DEF Insert
  <2>7. QED
    BY <1>q, <2>1, <2>5, <2>6 DEF IInv, TypeOK, RequestOK
<1>5. ASSUME NEW r \in Requests, Ensure(r) PROVE IInv'
  <2>1. CASE Leave(r) /\ UNCHANGED faults
    <3>1. faults' \in 0..MaxFaults
      BY <1>q, <2>1 DEF TypeOK
    <3>2. QED
      BY <1>5, <1>q, <1>t, <2>1, <3>1, LeaveOK DEF Ensure
  <2>2. CASE Reads(r, Exists(loc[r].role))
    <3>1. Exists(loc[r].role) \in BOOLEAN
      BY <1>q DEF Exists, TypeOK
    <3>2. RequestOK' /\ faults' \in 0..MaxFaults
      BY <1>5, <2>2, <3>1, ReadsOK DEF Ensure
    <3>3. QED
      BY <1>5, <1>t, <3>2 DEF Ensure
  <2>3. QED
    BY <1>5, <2>1, <2>2 DEF Ensure
<1>6. ASSUME NEW r \in Requests, CreateGroup(r) PROVE IInv'
  <2>1. RequestOK' /\ faults' \in 0..MaxFaults
    BY <1>6, ReadsOK DEF CreateGroup
  <2>2. op[r] \in Ops /\ pc[r] \in Steps(op[r]) /\ pc[r] = "group"
    BY <1>6, <1>q DEF CreateGroup, RequestOK, FlowAt
  <2>3. op[r] = "create"
    BY <2>2 DEF Steps, Ops
  <2>4. loc[r].user \in Ids
    BY <1>q, <2>3 DEF RequestOK, FlowAt
  <2>5. groups' \in SUBSET Ids
    BY <1>6, <1>q, <2>4 DEF CreateGroup, TypeOK
  <2>6. UNCHANGED <<users, member, system, custom, token, made, history>>
    BY <1>6 DEF CreateGroup
  <2>7. QED
    BY <1>q, <2>1, <2>5, <2>6 DEF IInv, TypeOK, RequestOK
\* writes: the request ends and the tables keep their types
<1>w. ASSUME NEW r \in Requests, Leave(r), faults' \in 0..MaxFaults, UNCHANGED made,
             users' \in SUBSET Ids, groups' \in SUBSET Ids,
             member' \in [Ids -> Roles \cup {None}],
             system' \in SUBSET (Ids \cup {SystemUser}), custom' \in BOOLEAN,
             token' \in [Tokens -> TokenRows], registered' \in [Tokens -> SUBSET Ids],
             invited' \in SUBSET Ids, orphaned' \in BOOLEAN, raced' \in BOOLEAN
      PROVE  IInv'
  <2>1. RequestOK'
    BY <1>w, <1>q, LeaveOK
  <2>2. made' \in 0..MaxRequests
    BY <1>w, <1>q DEF TypeOK
  <2>3. QED
    BY <1>w, <2>1, <2>2 DEF IInv, TypeOK, RequestOK
<1>l. \A r \in Requests : loc[r].role \in Roles
  BY <1>q DEF RequestOK, Locals
<1>7. ASSUME NEW r \in Requests, AddMember(r) PROVE IInv'
  <2>1. faults' \in 0..MaxFaults
    BY <1>7, <1>q, FaultOK DEF AddMember, FailsIf, TypeOK
  <2>2. member' \in [Ids -> Roles \cup {None}]
    BY <1>7, <1>q, <1>l DEF AddMember, TypeOK
  <2>3. QED
    BY <1>7, <1>q, <1>w, <2>1, <2>2 DEF AddMember, TypeOK
<1>8. ASSUME NEW r \in Requests, IssueToken(r) PROVE IInv'
  <2>1. faults' \in 0..MaxFaults
    BY <1>8, <1>q, FaultOK DEF IssueToken, FailsIf, TypeOK
  <2>2. [state |-> "open", role |-> loc[r].role] \in TokenRows
    BY <1>l DEF TokenRows
  <2>3. token' \in [Tokens -> TokenRows]
    BY <1>8, <1>q, <2>2 DEF IssueToken, TypeOK
  <2>4. QED
    BY <1>8, <1>q, <1>w, <2>1, <2>3 DEF IssueToken, TypeOK
<1>9. ASSUME NEW r \in Requests, Register(r) PROVE IInv'
  <2>1. faults' \in 0..MaxFaults
    BY <1>9, <1>q, FaultOK DEF Register, FailsIf, TypeOK
  <2>2. loc[r].user \in Ids /\ loc[r].token \in Tokens
    BY <1>9, <1>q DEF Register, RequestOK, FlowAt
  <2>3. token' \in [Tokens -> TokenRows]
    BY <1>9, <1>q DEF Register, TypeOK, TokenRows
  <2>4. users' \in SUBSET Ids /\ groups' \in SUBSET Ids /\ invited' \in SUBSET Ids
    BY <1>9, <1>q, <2>2 DEF Register, TypeOK
  <2>5. member' \in [Ids -> Roles \cup {None}]
    BY <1>9, <1>q, <1>l, <2>2 DEF Register, TypeOK
  <2>6. registered' \in [Tokens -> SUBSET Ids]
    BY <1>9, <1>q, <2>2 DEF Register, TypeOK
  <2>7. QED
    BY <1>9, <1>q, <1>w, <2>1, <2>3, <2>4, <2>5, <2>6 DEF Register, TypeOK
<1>10. ASSUME NEW r \in Requests, List(r) PROVE IInv'
  <2>1. op[r] \in Ops /\ pc[r] \in Steps(op[r]) /\ pc[r] = "list"
    BY <1>10, <1>q DEF List, RequestOK, FlowAt
  <2>2. RequestOK' /\ faults' \in 0..MaxFaults
    <3>1. CASE op[r] = "delete"
      <4>1. Reads(r, loc[r].user \in users)
        BY <1>10, <3>1 DEF List
      <4>2. (loc[r].user \in users) \in BOOLEAN /\ pc[r] \notin {"idle", "member", "write"}
        BY <2>1
      <4>3. QED
        BY <4>1, <4>2, ReadsOK
    <3>2. CASE op[r] = "remove"
      <4>1. Reads(r, system \ {loc[r].user} # {})
        BY <1>10, <3>2 DEF List, HasOther
      <4>2. QED
        BY <2>1, <4>1, ReadsOK
    <3>3. CASE op[r] = "change"
      <4>1. Reads(r, member[loc[r].user] # None)
        BY <1>10, <3>3 DEF List
      <4>2. QED
        BY <2>1, <4>1, ReadsOK
    <3>4. QED
      BY <2>1, <3>1, <3>2, <3>3 DEF Steps, Ops
  <2>3. QED
    BY <1>10, <1>t, <2>2 DEF List
<1>11. ASSUME NEW r \in Requests, AddSystemMember(r) PROVE IInv'
  <2>1. faults' \in 0..MaxFaults
    BY <1>11, <1>q, FaultOK DEF AddSystemMember, FailsIf, TypeOK
  <2>2. system' \in SUBSET (Ids \cup {SystemUser})
    BY <1>11, <1>q DEF AddSystemMember, TypeOK
  <2>3. QED
    BY <1>11, <1>q, <1>w, <2>1, <2>2 DEF AddSystemMember, TypeOK
<1>12. ASSUME NEW r \in Requests, RemoveSystemMember(r) PROVE IInv'
  <2>1. faults' \in 0..MaxFaults
    BY <1>12, <1>q, FaultOK DEF RemoveSystemMember, TypeOK
  <2>2. system' \in SUBSET (Ids \cup {SystemUser}) /\ raced' \in BOOLEAN
    BY <1>12, <1>q DEF RemoveSystemMember, TypeOK
  <2>3. QED
    BY <1>12, <1>q, <1>w, <2>1, <2>2 DEF RemoveSystemMember, TypeOK
<1>13. ASSUME NEW r \in Requests, DeleteUser(r) PROVE IInv'
  <2>1. faults' \in 0..MaxFaults
    BY <1>13, <1>q, FaultOK DEF DeleteUser, TypeOK
  <2>2. /\ users' \in SUBSET Ids /\ system' \in SUBSET (Ids \cup {SystemUser})
        /\ invited' \in SUBSET Ids /\ orphaned' \in BOOLEAN
    BY <1>13, <1>q DEF DeleteUser, TypeOK
  <2>3. member' \in [Ids -> Roles \cup {None}]
    BY <1>13, <1>q DEF DeleteUser, TypeOK
  <2>4. QED
    BY <1>13, <1>q, <1>w, <2>1, <2>2, <2>3 DEF DeleteUser, TypeOK
<1>14. ASSUME NEW r \in Requests, UpdateMemberRole(r) PROVE IInv'
  <2>1. faults' \in 0..MaxFaults
    BY <1>14, <1>q, FaultOK DEF UpdateMemberRole, FailsIf, TypeOK
  <2>2. member' \in [Ids -> Roles \cup {None}]
    BY <1>14, <1>q, <1>l DEF UpdateMemberRole, TypeOK
  <2>3. QED
    BY <1>14, <1>q, <1>w, <2>1, <2>2 DEF UpdateMemberRole, TypeOK
<1>15. ASSUME NEW r \in Requests, DropRole(r) PROVE IInv'
  <2>1. faults' \in 0..MaxFaults
    BY <1>15, <1>q, FaultOK DEF DropRole, FailsIf, TypeOK
  <2>2. token' \in [Tokens -> TokenRows] /\ custom' \in BOOLEAN
    <3>1. token \in [Tokens -> TokenRows] /\ custom \in BOOLEAN
      BY <1>q DEF TypeOK
    <3>2. CASE UNCHANGED <<custom, token>>
      BY <3>1, <3>2
    <3>3. CASE /\ custom' = FALSE
               /\ token' = [t \in Tokens |-> [token[t] EXCEPT !.role = "seed-admin"]]
      <4>1. \A t \in Tokens : [token[t] EXCEPT !.role = "seed-admin"] \in TokenRows
        BY <3>1 DEF TokenRows, Roles
      <4>2. QED
        BY <3>3, <4>1
    <3>4. QED
      BY <1>15, <3>2, <3>3 DEF DropRole
  <2>3. QED
    BY <1>15, <1>q, <1>w, <2>1, <2>2 DEF DropRole, TypeOK
<1>16. ASSUME NEW t \in Tokens, Expire(t) PROVE IInv'
  <2>1. token' \in [Tokens -> TokenRows]
    BY <1>16, <1>q DEF Expire, TypeOK, TokenRows
  <2>2. UNCHANGED <<users, groups, member, system, custom, request, made, faults, history>>
    BY <1>16 DEF Expire
  <2>3. RequestOK'
    BY <1>q, <2>2 DEF RequestOK, FlowAt
  <2>4. QED
    BY <1>q, <2>1, <2>2, <2>3 DEF IInv, TypeOK
<1>17. CASE UNCHANGED vars
  BY <1>17, <1>q DEF vars, IInv, TypeOK, RequestOK, FlowAt
<1>18. QED
  BY <1>1, <1>2, <1>3, <1>4, <1>5, <1>6, <1>7, <1>8, <1>9, <1>10, <1>11, <1>12, <1>13, <1>14,
     <1>15, <1>16, <1>17 DEF Next, Serve

\* The tables and requests keep their types, however requests interleave and fail.
THEOREM TypeCorrect == Spec => []TypeOK
<1>1. IInv => TypeOK
  BY DEF IInv
<1>2. QED
  BY <1>1, IInvInit, IInvStep, PTL DEF Spec

\* So they are kept for ever.
LEMMA IInvHolds == Spec => []IInv
BY IInvInit, IInvStep, PTL DEF Spec

--------------------------------------------------------------------------------
(* Registration tokens *)

\* A token is used by the one user it registered, or by none.
TokenInv ==
    \A t \in Tokens : \/ token[t].state # "used" /\ registered[t] = {}
                      \/ token[t].state = "used" /\ \E u \in Ids : registered[t] = {u}

\* Only Register marks a token used, and only one that is not.
LEMMA TokenStep == IInv /\ TokenInv /\ [Next]_vars => TokenInv'
<1> SUFFICES ASSUME IInv, TokenInv, [Next]_vars PROVE TokenInv'
  OBVIOUS
<1> USE DEF tables, history
<1>q. /\ token \in [Tokens -> TokenRows] /\ registered \in [Tokens -> SUBSET Ids]
      /\ \A r \in Requests : FlowAt(r)
  BY DEF IInv, TypeOK, RequestOK
<1>u. ASSUME UNCHANGED <<token, registered>> PROVE TokenInv'
  BY <1>u DEF TokenInv
\* only states other than "used" change, and not to "used"
<1>s. ASSUME registered' = registered,
             \A t \in Tokens : token'[t].state = "used" <=> token[t].state = "used"
      PROVE  TokenInv'
  BY <1>s DEF TokenInv
<1>1. ASSUME NEW r \in Requests,
             \/ Check(r) \/ Validate(r) \/ Insert(r) \/ Ensure(r) \/ CreateGroup(r) \/ AddMember(r)
             \/ List(r) \/ AddSystemMember(r) \/ RemoveSystemMember(r) \/ DeleteUser(r)
             \/ UpdateMemberRole(r) \/ \E o \in Ops \ {"none"} : Begin(r, o)
      PROVE  TokenInv'
  BY <1>1, <1>u DEF Check, Validate, Insert, Ensure, CreateGroup, AddMember, List,
                    AddSystemMember, RemoveSystemMember, DeleteUser, UpdateMemberRole, Begin
<1>2. ASSUME NEW r \in Requests, IssueToken(r) PROVE TokenInv'
  <2>1. CASE UNCHANGED token
    BY <1>2, <1>u, <2>1 DEF IssueToken
  <2>2. CASE ~UNCHANGED token
    <3>1. /\ token[loc[r].token].state = "none"
          /\ token' = [token EXCEPT ![loc[r].token] = [state |-> "open", role |-> loc[r].role]]
          /\ registered' = registered
      BY <1>2, <2>2 DEF IssueToken
    <3>2. QED
      BY <1>q, <1>s, <3>1
  <2>3. QED
    BY <2>1, <2>2
<1>3. ASSUME NEW r \in Requests, Register(r) PROVE TokenInv'
  <2>1. CASE UNCHANGED <<token, registered>>
    BY <1>u, <2>1
  <2>2. CASE ~UNCHANGED <<token, registered>>
    <3> DEFINE u == loc[r].user
               t == loc[r].token
    <3>1. /\ token[t].state # "used"
          /\ token' = [token EXCEPT ![t].state = "used"]
          /\ registered' = [registered EXCEPT ![t] = @ \cup {u}]
      BY <1>3, <2>2 DEF Register, Markable
    <3>2. u \in Ids /\ t \in Tokens
      BY <1>3, <1>q DEF Register, FlowAt
    <3>3. registered[t] = {}
      BY <3>1, <3>2 DEF TokenInv
    <3>4. token'[t].state = "used" /\ registered'[t] = {u}
      BY <1>q, <3>1, <3>2, <3>3 DEF TokenRows
    <3>5. \A v \in Tokens \ {t} : token'[v] = token[v] /\ registered'[v] = registered[v]
      BY <1>q, <3>1
    <3> HIDE DEF u, t
    <3>6. QED
      BY <3>2, <3>4, <3>5 DEF TokenInv
  <2>3. QED
    BY <2>1, <2>2
<1>4. ASSUME NEW r \in Requests, DropRole(r) PROVE TokenInv'
  <2>1. CASE UNCHANGED token
    BY <1>4, <1>u, <2>1 DEF DropRole
  <2>2. CASE ~UNCHANGED token
    <3>1. /\ token' = [t \in Tokens |-> [token[t] EXCEPT !.role = "seed-admin"]]
          /\ registered' = registered
      BY <1>4, <2>2 DEF DropRole
    <3>2. \A t \in Tokens : token'[t].state = token[t].state
      BY <1>q, <3>1 DEF TokenRows
    <3>3. QED
      BY <1>s, <3>1, <3>2
  <2>3. QED
    BY <2>1, <2>2
<1>5. ASSUME NEW t \in Tokens, Expire(t) PROVE TokenInv'
  <2>1. /\ token[t].state = "open" /\ token' = [token EXCEPT ![t].state = "expired"]
        /\ registered' = registered
    BY <1>5 DEF Expire
  <2>2. \A v \in Tokens : token'[v].state = "used" <=> token[v].state = "used"
    BY <1>q, <2>1 DEF TokenRows
  <2>3. QED
    BY <1>s, <2>1, <2>2
<1>6. CASE UNCHANGED vars
  BY <1>6, <1>u DEF vars
<1>7. QED
  BY <1>1, <1>2, <1>3, <1>4, <1>5, <1>6 DEF Next, Serve

\* However many requests find a token valid at the same time, it registers one user, and
\* is marked used exactly when it has.
THEOREM TokenTheorem == Spec => []TokenRegistersOnce
<1>1. Init => TokenInv
  BY DEF Init, TokenInv, NoToken
<1>2. TokenInv => TokenRegistersOnce
  <2> SUFFICES ASSUME TokenInv, NEW t \in Tokens
               PROVE  /\ Cardinality(registered[t]) <= 1
                      /\ token[t].state = "used" <=> registered[t] # {}
    BY DEF TokenRegistersOnce
  <2>1. CASE token[t].state # "used" /\ registered[t] = {}
    BY <2>1, FS_EmptySet
  <2>2. CASE token[t].state = "used" /\ \E u \in Ids : registered[t] = {u}
    BY <2>2, FS_Singleton
  <2>3. QED
    BY <2>1, <2>2 DEF TokenInv
<1>3. QED
  BY <1>1, <1>2, IInvHolds, TokenStep, PTL DEF Spec

--------------------------------------------------------------------------------
(* The last member of the system group *)

\* While nothing has raced, a removal that has looked for another member still has one.
MemberInv ==
    ~raced /\ ~orphaned =>
        /\ system # {}
        /\ \A r \in Requests : op[r] = "remove" /\ pc[r] = "write" => system \ {loc[r].user} # {}

\* Only RemoveSystemMember and DeleteUser take members away, and they record a race.
LEMMA MemberStep == IInv /\ MemberInv /\ [Next]_vars => MemberInv'
<1> SUFFICES ASSUME IInv, MemberInv, [Next]_vars PROVE MemberInv'
  OBVIOUS
<1> USE DEF tables, history, request
<1>q. RequestOK /\ TypeOK
  BY DEF IInv
\* members only come, and no removal gets to its statement
<1>g. ASSUME system \subseteq system', UNCHANGED <<raced, orphaned>>,
             \A r \in Requests : op'[r] = "remove" /\ pc'[r] = "write" =>
                                   op[r] = "remove" /\ pc[r] = "write" /\ loc'[r] = loc[r]
      PROVE  MemberInv'
  BY <1>g DEF MemberInv
<1>l. ASSUME NEW r \in Requests, Leave(r), system \subseteq system', UNCHANGED <<raced, orphaned>>
      PROVE  MemberInv'
  BY <1>l, <1>g, <1>q DEF Leave, RequestOK
<1>c. ASSUME NEW r \in Requests, Continue(r), pc[r] \notin {"idle", "member", "write"},
             op[r] # "remove" \/ pc[r] # "list", UNCHANGED <<system, raced, orphaned>>
      PROVE  MemberInv'
  <2>1. /\ op' = op /\ loc' = loc /\ \A q \in Requests \ {r} : pc'[q] = pc[q]
        /\ op[r] = "remove" /\ pc'[r] = "write" => pc[r] = "list"
    BY <1>c, <1>q, ContinueOK
  <2>2. QED
    BY <1>c, <1>g, <2>1
<1>1. ASSUME NEW r \in Requests, NEW o \in Ops, Begin(r, o) PROVE MemberInv'
  BY <1>1, <1>g, <1>q DEF Begin, RequestOK
<1>2. ASSUME NEW r \in Requests, Check(r) PROVE MemberInv'
  <2>1. CASE Leave(r)
    BY <1>2, <1>l, <2>1 DEF Check
  <2>2. CASE Continue(r)
    BY <1>2, <1>c, <2>2 DEF Check
  <2>3. CASE op[r] = "register" /\ pc' = [pc EXCEPT ![r] = "write"] /\ UNCHANGED op
             /\ \A q \in Requests \ {r} : loc'[q] = loc[q]
    BY <1>2, <1>g, <1>q, <2>3 DEF Check, RequestOK
  <2>4. QED
    BY <1>2, <1>q, <2>1, <2>2, <2>3 DEF Check, Reads, RequestOK
<1>3. ASSUME NEW r \in Requests, Validate(r) \/ Insert(r) \/ Ensure(r) \/ CreateGroup(r)
      PROVE  MemberInv'
  <2>1. /\ Leave(r) \/ Continue(r)
        /\ pc[r] \in {"validate", "insert", "ensure", "group"}
        /\ UNCHANGED <<system, raced, orphaned>>
    BY <1>3 DEF Validate, Insert, Ensure, CreateGroup, Reads
  <2>2. QED
    BY <1>l, <1>c, <2>1
<1>4. ASSUME NEW r \in Requests, AddMember(r) \/ IssueToken(r) \/ Register(r)
                                 \/ AddSystemMember(r) \/ UpdateMemberRole(r) \/ DropRole(r)
      PROVE  MemberInv'
  BY <1>4, <1>l DEF AddMember, IssueToken, Register, AddSystemMember, UpdateMemberRole, DropRole
<1>5. ASSUME NEW r \in Requests, List(r) PROVE MemberInv'
  <2>1. pc[r] = "list" /\ UNCHANGED <<system, raced, orphaned>>
    BY <1>5 DEF List
  <2>2. CASE Leave(r)
    BY <1>l, <2>1, <2>2
  <2>3. CASE Continue(r) /\ op[r] # "remove"
    BY <1>c, <2>1, <2>3
  <2>4. CASE ~Leave(r) /\ op[r] = "remove"
    <3>1. system \ {loc[r].user} # {} /\ Continue(r)
      BY <1>5, <2>4 DEF List, Reads, HasOther
    <3>2. op' = op /\ loc' = loc /\ \A q \in Requests \ {r} : pc'[q] = pc[q]
      BY <1>q, <2>1, <3>1, ContinueOK
    <3>3. QED
      BY <2>1, <3>1, <3>2 DEF MemberInv
  <2>5. QED
    BY <1>5, <2>2, <2>3, <2>4 DEF List, Reads
<1>6. ASSUME NEW r \in Requests, RemoveSystemMember(r) PROVE MemberInv'
  <2>1. CASE system' = system \/ loc[r].user \notin system
    <3>1. system \subseteq system' /\ raced' = raced /\ orphaned' = orphaned
      BY <1>6, <1>q, <2>1 DEF RemoveSystemMember, TypeOK
    <3>2. QED
      BY <1>6, <1>l, <3>1 DEF RemoveSystemMember
  <2>2. CASE system' # system /\ loc[r].user \in system
    <3>1. /\ op[r] = "remove" /\ pc[r] = "write" /\ orphaned' = orphaned
          /\ system' = system \ {loc[r].user} /\ raced' = (raced \/ Overlaps(r))
      BY <1>6, <2>2 DEF RemoveSystemMember
    <3>2. ASSUME ~raced', ~orphaned'
          PROVE  /\ system' # {}
                 /\ \A q \in Requests : ~(op'[q] = "remove" /\ pc'[q] = "write")
      <4>1. ~raced /\ ~orphaned /\ ~Overlaps(r)
        BY <3>1, <3>2
      <4>2. system' # {}
        BY <3>1, <4>1 DEF MemberInv
      <4>3. /\ pc'[r] = "idle"
            /\ \A q \in Requests \ {r} : op'[q] = op[q] /\ pc'[q] = pc[q]
        BY <1>6, <1>q DEF RemoveSystemMember, Leave, RequestOK
      <4>4. QED
        BY <4>1, <4>2, <4>3 DEF Overlaps
    <3>3. QED
      BY <3>2 DEF MemberInv
  <2>3. QED
    BY <2>1, <2>2
<1>7. ASSUME NEW r \in Requests, DeleteUser(r) PROVE MemberInv'
  <2>1. CASE orphaned'
    BY <2>1 DEF MemberInv
  <2>2. CASE ~orphaned'
    <3>1. system \subseteq system' /\ raced' = raced /\ orphaned' = orphaned
      BY <1>7, <1>q, <2>2 DEF DeleteUser, TypeOK
    <3>2. QED
      BY <1>7, <1>l, <3>1 DEF DeleteUser
  <2>3. QED
    BY <2>1, <2>2
<1>8. ASSUME NEW t \in Tokens, Expire(t) PROVE MemberInv'
  BY <1>8, <1>g DEF Expire
<1>9. CASE UNCHANGED vars
  BY <1>9, <1>g DEF vars
<1>10. QED
  BY <1>1, <1>2, <1>3, <1>4, <1>5, <1>6, <1>7, <1>8, <1>9 DEF Next, Serve

\* The system group keeps a member unless two removals overlapped or a member was deleted
\* as a user: the look and the removal may be separate as long as removals are not.
THEOREM MemberTheorem == Spec => []LastMemberStays
<1>1. Init => MemberInv
  BY DEF Init, MemberInv
<1>2. MemberInv => LastMemberStays
  BY DEF MemberInv, LastMemberStays
<1>3. QED
  BY <1>1, <1>2, IInvHolds, MemberStep, PTL DEF Spec

--------------------------------------------------------------------------------
(* Personal groups *)

\* A user is in its personal group, or CreateUser is about to make it, or there is the
\* reason that it could not.
InGroup(u) ==
    \/ member[u] # None
    \/ /\ u \notin invited
       /\ \/ faults > 0 \/ ~custom \/ u \in groups
          \/ \E r \in Requests : /\ op[r] = "create" /\ loc[r].user = u
                                 /\ pc[r] \in {"ensure", "group"}

GroupInv == invited \subseteq users /\ \A u \in users : InGroup(u)

\* A step keeps it when users keep their roles, and no CreateUser between its INSERT and
\* that of the group is disturbed.
LEMMA GroupKept ==
    ASSUME GroupInv, users' \subseteq users, invited' \subseteq users' \cap invited,
           \A u \in users' : member[u] # None => member'[u] # None,
           groups \subseteq groups', custom' => custom, faults > 0 => faults' > 0,
           \A r \in Requests : op[r] = "create" /\ pc[r] \in {"ensure", "group"} =>
               op'[r] = op[r] /\ pc'[r] = pc[r] /\ loc'[r] = loc[r]
    PROVE  GroupInv'
<1> SUFFICES ASSUME NEW u \in users' PROVE InGroup(u)'
  BY DEF GroupInv
<1>1. InGroup(u)
  BY DEF GroupInv
<1>2. CASE member[u] # None
  BY <1>2 DEF InGroup
<1>3. CASE member[u] = None
  <2>1. \A r \in Requests : op[r] = "create" /\ loc[r].user = u /\ pc[r] \in {"ensure", "group"} =>
                            op'[r] = "create" /\ loc'[r].user = u /\ pc'[r] \in {"ensure", "group"}
    OBVIOUS
  <2>2. QED
    BY <1>1, <1>3, <2>1 DEF InGroup
<1>4. QED
  BY <1>2, <1>3

\* A request other than those leaves, whatever it has written.
LEMMA GroupLeave ==
    ASSUME IInv, GroupInv, NEW r \in Requests, Leave(r), pc[r] \notin {"ensure", "group"},
           users' \subseteq users, invited' \subseteq users' \cap invited,
           \A u \in users' : member[u] # None => member'[u] # None,
           groups \subseteq groups', custom' => custom, faults > 0 => faults' > 0
    PROVE  GroupInv'
<1>1. \A q \in Requests \ {r} : op'[q] = op[q] /\ pc'[q] = pc[q] /\ loc'[q] = loc[q]
  BY DEF Leave, IInv, RequestOK
<1>2. QED
  BY <1>1, GroupKept

\* Statements that fail do not make faults fewer.
LEMMA FaultsGrow ==
    ASSUME TypeOK, NEW condition \in BOOLEAN,
           UNCHANGED faults \/ Fault \/ FailsIf(condition)
    PROVE  /\ faults > 0 => faults' > 0
           /\ Fault => faults' > 0
BY DEF TypeOK, Fault, FailsIf

\* CreateUser gives up before the membership only for one of the reasons.
LEMMA GroupStep == IInv /\ GroupInv /\ [Next]_vars => GroupInv'
<1> SUFFICES ASSUME IInv, GroupInv, [Next]_vars PROVE GroupInv'
  OBVIOUS
<1> USE DEF tables, history, request
<1>q. RequestOK /\ TypeOK /\ invited \subseteq users
  BY DEF IInv, GroupInv
<1>r. \A r \in Requests : loc[r].role \in Roles /\ loc[r].role # None
  BY <1>q, ConstantsAssumption DEF RequestOK, Locals, Roles
<1>f. /\ Fault => faults' > 0
      /\ \A condition \in BOOLEAN :
           UNCHANGED faults \/ Fault \/ FailsIf(condition) => (faults > 0 => faults' > 0)
  BY <1>q, FaultsGrow
\* a request that reads and changes no table
<1>n. ASSUME NEW r \in Requests, UNCHANGED <<tables, history>>, faults > 0 => faults' > 0,
             pc[r] \notin {"ensure", "group"},
             \A q \in Requests \ {r} : op'[q] = op[q] /\ pc'[q] = pc[q] /\ loc'[q] = loc[q]
      PROVE  GroupInv'
  BY <1>n, <1>q, GroupKept
<1>d. ASSUME NEW r \in Requests, NEW condition \in BOOLEAN, Reads(r, condition)
      PROVE  /\ faults > 0 => faults' > 0
             /\ \A q \in Requests \ {r} : op'[q] = op[q] /\ pc'[q] = pc[q] /\ loc'[q] = loc[q]
             /\ \/ condition /\ Continue(r)
                \/ ~condition /\ Leave(r)
                \/ faults' > 0 /\ Leave(r)
  BY <1>d, <1>f, <1>q DEF Reads, FailsIf, Continue, Leave, RequestOK
<1>1. ASSUME NEW r \in Requests, NEW o \in Ops \ {"none"}, Begin(r, o) PROVE GroupInv'
  <2>1. pc[r] = "idle" /\ \A q \in Requests \ {r} : op'[q] = op[q] /\ pc'[q] = pc[q] /\ loc'[q] = loc[q]
    BY <1>1, <1>q DEF Begin, RequestOK
  <2>2. QED
    BY <1>1, <1>n, <2>1 DEF Begin
<1>2. ASSUME NEW r \in Requests, Check(r) PROVE GroupInv'
  <2>1. CASE op[r] # "register"
    <3>1. Reads(r, system # {}) /\ (system # {}) \in BOOLEAN
      BY <1>2, <2>1 DEF Check
    <3>2. QED
      BY <1>2, <1>d, <1>n, <3>1 DEF Check
  <2>2. CASE op[r] = "register"
    <3>1. \A q \in Requests \ {r} : op'[q] = op[q] /\ pc'[q] = pc[q] /\ loc'[q] = loc[q]
      BY <1>2, <1>q, <2>2 DEF Check, Leave, RequestOK
    <3>2. faults > 0 => faults' > 0
      BY <1>2, <1>f, <2>2 DEF Check, FailsIf
    <3>3. QED
      BY <1>2, <1>n, <3>1, <3>2 DEF Check
  <2>3. QED
    BY <2>1, <2>2
<1>3. ASSUME NEW r \in Requests, Validate(r) PROVE GroupInv'
  <2>1. Exists(loc[r].role) \in BOOLEAN
    BY <1>q DEF Exists, TypeOK
  <2>2. QED
    BY <1>3, <1>d, <1>n, <2>1 DEF Validate
<1>4. ASSUME NEW r \in Requests, List(r) PROVE GroupInv'
  <2>1. /\ pc[r] = "list" /\ UNCHANGED <<tables, history>>
        /\ op[r] \in Ops /\ pc[r] \in Steps(op[r])
    BY <1>4, <1>q DEF List, RequestOK, FlowAt
  <2>2. /\ faults > 0 => faults' > 0
        /\ \A q \in Requests \ {r} : op'[q] = op[q] /\ pc'[q] = pc[q] /\ loc'[q] = loc[q]
    <3>1. op[r] \in {"delete", "remove", "change"}
      BY <2>1 DEF Steps, Ops
    <3>2. CASE op[r] = "delete"
      <4>1. Reads(r, loc[r].user \in users) /\ (loc[r].user \in users) \in BOOLEAN
        BY <1>4, <3>2 DEF List
      <4>2. QED
        BY <1>d, <4>1
    <3>3. CASE op[r] = "remove"
      <4>1. Reads(r, system \ {loc[r].user} # {}) /\ (system \ {loc[r].user} # {}) \in BOOLEAN
        BY <1>4, <3>3 DEF List, HasOther
      <4>2. QED
        BY <1>d, <4>1
    <3>4. CASE op[r] = "change"
      <4>1. Reads(r, member[loc[r].user] # None) /\ (member[loc[r].user] # None) \in BOOLEAN
        BY <1>4, <3>4 DEF List
      <4>2. QED
        BY <1>d, <4>1
    <3>5. QED
      BY <3>1, <3>2, <3>3, <3>4
  <2>3. QED
    BY <1>n, <2>1, <2>2
<1>5. ASSUME NEW r \in Requests, Insert(r) PROVE GroupInv'
  <2>0. PICK u : u = loc[r].user
    OBVIOUS
  <2>1. op[r] \in Ops /\ pc[r] \in Steps(op[r]) /\ pc[r] = "insert"
    BY <1>5, <1>q DEF Insert, RequestOK, FlowAt
  <2>2. op[r] = "create" /\ u \in Ids
    <3>1. op[r] = "create"
      BY <2>1 DEF Steps, Ops
    <3>2. QED
      BY <1>q, <2>0, <3>1 DEF RequestOK, FlowAt
  <2>3. /\ faults > 0 => faults' > 0
        /\ \A q \in Requests \ {r} : op'[q] = op[q] /\ pc'[q] = pc[q] /\ loc'[q] = loc[q]
        /\ (u \notin users /\ Continue(r)) \/ Leave(r)
    BY <1>5, <1>d, <2>0 DEF Insert
  <2>4. UNCHANGED <<groups, member, system, custom, token, made, history>>
    BY <1>5 DEF Insert
  <2>5. CASE Leave(r)
    <3>1. users' = users
      BY <1>5, <1>q, <2>5 DEF Insert, Leave, RequestOK
    <3>2. QED
      BY <1>n, <2>1, <2>3, <2>4, <3>1
  <2>6. CASE u \notin users /\ Continue(r)
    <3>1. op'[r] = "create" /\ loc'[r] = loc[r] /\ pc'[r] = "ensure"
      BY <1>q, <2>1, <2>2, <2>6 DEF Continue, Then, RequestOK
    <3>2. users' = users \cup {u}
      BY <1>5, <2>0, <3>1 DEF Insert
    <3>3. InGroup(u)'
      BY <1>q, <2>0, <2>4, <2>6, <3>1 DEF InGroup
    <3>4. ASSUME NEW v \in users PROVE InGroup(v)'
      <4>1. InGroup(v)
        BY DEF GroupInv
      <4>2. CASE \E q \in Requests : /\ op[q] = "create" /\ loc[q].user = v
                                     /\ pc[q] \in {"ensure", "group"}
        <5>1. PICK q \in Requests : /\ op[q] = "create" /\ loc[q].user = v
                                    /\ pc[q] \in {"ensure", "group"}
          BY <4>2
        <5>2. op'[q] = "create" /\ loc'[q].user = v /\ pc'[q] \in {"ensure", "group"}
          BY <2>1, <2>3, <5>1
        <5>3. QED
          BY <2>4, <4>1, <5>2 DEF InGroup
      <4>3. CASE ~\E q \in Requests : /\ op[q] = "create" /\ loc[q].user = v
                                      /\ pc[q] \in {"ensure", "group"}
        BY <2>3, <2>4, <4>1, <4>3 DEF InGroup
      <4>4. QED
        BY <4>2, <4>3
    <3>5. QED
      BY <1>q, <2>4, <3>2, <3>3, <3>4 DEF GroupInv
  <2>7. QED
    BY <2>3, <2>5, <2>6
\* CreateUser between the two: v is some other user, or what is said of it is shown
<1>o. ASSUME NEW r \in Requests, op[r] = "create", UNCHANGED <<users, member, custom, invited>>,
             groups \subseteq groups', faults > 0 => faults' > 0,
             \A q \in Requests \ {r} : op'[q] = op[q] /\ pc'[q] = pc[q] /\ loc'[q] = loc[q],
             NEW u, u = loc[r].user, u \in users => InGroup(u)'
      PROVE  GroupInv'
  <2>1. ASSUME NEW v \in users, v # u PROVE InGroup(v)'
    <3>1. InGroup(v)
      BY DEF GroupInv
    <3>2. \A q \in Requests : op[q] = "create" /\ loc[q].user = v /\ pc[q] \in {"ensure", "group"} =>
                              op'[q] = "create" /\ loc'[q].user = v /\ pc'[q] \in {"ensure", "group"}
      BY <1>o, <2>1
    <3>3. QED
      BY <1>o, <3>1, <3>2 DEF InGroup
  <2>2. QED
    BY <1>o, <1>q, <2>1 DEF GroupInv
<1>6. ASSUME NEW r \in Requests, Ensure(r) PROVE GroupInv'
  <2>0. PICK u : u = loc[r].user
    OBVIOUS
  <2>1. op[r] \in Ops /\ pc[r] \in Steps(op[r]) /\ pc[r] = "ensure"
    BY <1>6, <1>q DEF Ensure, RequestOK, FlowAt
  <2>2. op[r] = "create" /\ UNCHANGED <<tables, history>> /\ Exists(loc[r].role) \in BOOLEAN
    BY <1>6, <1>q, <2>1 DEF Ensure, Steps, Ops, Exists, TypeOK
  <2>3. CASE member[u] # None /\ UNCHANGED faults /\ Leave(r)
    <3>1. \A q \in Requests \ {r} : op'[q] = op[q] /\ pc'[q] = pc[q] /\ loc'[q] = loc[q]
      BY <1>q, <2>3 DEF Leave, RequestOK
    <3>2. InGroup(u)'
      BY <2>2, <2>3 DEF InGroup
    <3>3. QED
      BY <1>o, <2>0, <2>2, <2>3, <3>1, <3>2
  <2>4. CASE member[u] = None /\ Reads(r, Exists(loc[r].role))
    <3>1. /\ faults > 0 => faults' > 0
          /\ \A q \in Requests \ {r} : op'[q] = op[q] /\ pc'[q] = pc[q] /\ loc'[q] = loc[q]
          /\ Continue(r) \/ ~custom \/ faults' > 0
      BY <1>d, <2>2, <2>4 DEF Exists
    <3>2. u \in users => u \notin invited
      BY <2>4 DEF GroupInv, InGroup
    <3>3. CASE Continue(r)
      <4>1. op'[r] = "create" /\ loc'[r].user = u /\ pc'[r] = "group"
        BY <1>q, <2>0, <2>1, <2>2, <3>3 DEF Continue, Then, RequestOK
      <4>2. u \in users => InGroup(u)'
        BY <2>2, <3>2, <4>1 DEF InGroup
      <4>3. QED
        BY <1>o, <2>0, <2>2, <3>1, <4>2
    <3>4. CASE ~custom \/ faults' > 0
      <4>1. u \in users => InGroup(u)'
        BY <2>2, <3>2, <3>4 DEF InGroup
      <4>2. QED
        BY <1>o, <2>0, <2>2, <3>1, <4>1
    <3>5. QED
      BY <3>1, <3>3, <3>4
  <2>5. QED
    BY <1>6, <2>0, <2>3, <2>4 DEF Ensure
<1>7. ASSUME NEW r \in Requests, CreateGroup(r) PROVE GroupInv'
  <2>0. PICK u : u = loc[r].user
    OBVIOUS
  <2>1. op[r] \in Ops /\ pc[r] \in Steps(op[r]) /\ pc[r] = "group"
    BY <1>7, <1>q DEF CreateGroup, RequestOK, FlowAt
  <2>2. op[r] = "create"
    BY <2>1 DEF Steps, Ops
  <2>3. UNCHANGED <<users, member, custom, invited>> /\ groups \subseteq groups'
    BY <1>7 DEF CreateGroup
  <2>4. /\ faults > 0 => faults' > 0
        /\ \A q \in Requests \ {r} : op'[q] = op[q] /\ pc'[q] = pc[q] /\ loc'[q] = loc[q]
        /\ Continue(r) \/ u \in groups \/ faults' > 0
    BY <1>7, <1>d, <2>0 DEF CreateGroup
  <2>5. u \in users => InGroup(u)
    BY DEF GroupInv
  <2>6. Continue(r) => u \in groups'
    <3>1. Continue(r) => pc'[r] = "member"
      BY <1>q, <2>1, <2>2 DEF Continue, Then, RequestOK
    <3>2. QED
      BY <1>7, <2>0, <3>1 DEF CreateGroup
  <2>7. u \in users => InGroup(u)'
    BY <2>3, <2>4, <2>5, <2>6 DEF InGroup
  <2>8. QED
    BY <1>o, <2>0, <2>2, <2>3, <2>4, <2>7
<1>8. ASSUME NEW r \in Requests, AddMember(r) PROVE GroupInv'
  <2>1. /\ pc[r] = "member" /\ Leave(r) /\ (faults > 0 => faults' > 0)
        /\ UNCHANGED <<users, groups, custom, invited>>
    BY <1>8, <1>f DEF AddMember, FailsIf
  <2>2. \A v \in users' : member[v] # None => member'[v] # None
    BY <1>8, <1>q, <1>r DEF AddMember, TypeOK
  <2>3. QED
    BY <1>q, <2>1, <2>2, GroupLeave
<1>9. ASSUME NEW r \in Requests, IssueToken(r) \/ AddSystemMember(r) \/ RemoveSystemMember(r)
      PROVE  GroupInv'
  <2>1. /\ pc[r] = "write" /\ Leave(r) /\ (faults > 0 => faults' > 0)
        /\ UNCHANGED <<users, groups, member, custom, invited>>
    BY <1>9, <1>f DEF IssueToken, AddSystemMember, RemoveSystemMember, FailsIf
  <2>2. QED
    BY <1>q, <2>1, GroupLeave
<1>10. ASSUME NEW r \in Requests, Register(r) PROVE GroupInv'
  <2>0. PICK u : u = loc[r].user
    OBVIOUS
  <2>1. /\ op[r] = "register" /\ pc[r] = "write" /\ Leave(r) /\ (faults > 0 => faults' > 0)
        /\ UNCHANGED custom
    BY <1>10, <1>f DEF Register, FailsIf
  <2>2. u \in Ids
    BY <1>q, <2>0, <2>1 DEF RequestOK, FlowAt
  <2>3. CASE UNCHANGED <<users, groups, member, token, registered, invited>>
    BY <1>q, <2>1, <2>3, GroupLeave
  <2>4. CASE /\ users' = users \cup {u} /\ groups' = groups \cup {u}
             /\ member' = [member EXCEPT ![u] = loc[r].role]
             /\ invited' = invited \cup {u}
    <3>1. member'[u] # None /\ \A v \in Ids \ {u} : member'[v] = member[v]
      BY <1>q, <1>r, <2>2, <2>4 DEF TypeOK
    <3>2. InGroup(u)'
      BY <3>1 DEF InGroup
    <3>3. \A q \in Requests \ {r} : op'[q] = op[q] /\ pc'[q] = pc[q] /\ loc'[q] = loc[q]
      BY <1>q, <2>1 DEF Leave, RequestOK
    <3>4. ASSUME NEW v \in users, v # u PROVE InGroup(v)'
      <4>1. InGroup(v) /\ member'[v] = member[v]
        BY <1>q, <3>1, <3>4 DEF GroupInv, TypeOK
      <4>2. \A q \in Requests : op[q] = "create" /\ loc[q].user = v /\ pc[q] \in {"ensure", "group"} =>
                                op'[q] = "create" /\ loc'[q].user = v /\ pc'[q] \in {"ensure", "group"}
        BY <2>1, <3>3
      <4>3. QED
        BY <2>1, <2>4, <3>4, <4>1, <4>2 DEF InGroup
    <3>5. QED
      BY <1>q, <2>4, <3>2, <3>4 DEF GroupInv
  <2>5. QED
    BY <1>10, <2>0, <2>3, <2>4 DEF Register
<1>11. ASSUME NEW r \in Requests, DeleteUser(r) PROVE GroupInv'
  <2>1. /\ pc[r] = "write" /\ Leave(r) /\ (faults > 0 => faults' > 0) /\ UNCHANGED <<groups, custom>>
    BY <1>11, <1>f DEF DeleteUser
  <2>2. users' \subseteq users /\ invited' \subseteq users' \cap invited
    BY <1>11, <1>q DEF DeleteUser
  <2>3. \A v \in users' : member[v] # None => member'[v] # None
    BY <1>11, <1>q DEF DeleteUser, TypeOK
  <2>4. QED
    BY <2>1, <2>2, <2>3, GroupLeave
<1>12. ASSUME NEW r \in Requests, UpdateMemberRole(r) PROVE GroupInv'
  <2>1. /\ pc[r] = "write" /\ Leave(r) /\ (faults > 0 => faults' > 0)
        /\ UNCHANGED <<users, groups, custom, invited>>
    BY <1>12, <1>f DEF UpdateMemberRole, FailsIf
  <2>2. \A v \in users' : member[v] # None => member'[v] # None
    BY <1>12, <1>q, <1>r DEF UpdateMemberRole, TypeOK
  <2>3. QED
    BY <1>q, <2>1, <2>2, GroupLeave
<1>13. ASSUME NEW r \in Requests, DropRole(r) PROVE GroupInv'
  <2>1. /\ pc[r] = "write" /\ Leave(r) /\ (faults > 0 => faults' > 0)
        /\ UNCHANGED <<users, groups, member, invited>> /\ (custom' => custom)
    BY <1>13, <1>f DEF DropRole, FailsIf
  <2>2. QED
    BY <1>q, <2>1, GroupLeave
<1>14. ASSUME NEW t \in Tokens, Expire(t) PROVE GroupInv'
  BY <1>14, <1>q, GroupKept DEF Expire
<1>15. CASE UNCHANGED vars
  BY <1>15, <1>q, GroupKept DEF vars
<1>16. QED
  BY <1>1, <1>2, <1>3, <1>4, <1>5, <1>6, <1>7, <1>8, <1>9, <1>10, <1>11, <1>12, <1>13, <1>14, <1>15
     DEF Next, Serve

\* A user whom no CreateUser is working on has its personal group; the statements of
\* CreateUser may fail in between, but RegisterWithToken, a transaction, never leaves a
\* user without one.
THEOREM GroupTheorem == Spec => []EveryUserHasGroup
<1>1. Init => GroupInv
  BY ConstantsAssumption DEF Init, GroupInv, InGroup
<1>2. GroupInv => EveryUserHasGroup
  BY DEF GroupInv, InGroup, EveryUserHasGroup
<1>3. QED
  BY <1>1, <1>2, IInvHolds, GroupStep, PTL DEF Spec
================================================================================
