------------------------------- MODULE UserAdmin -------------------------------
(***************************************************************************)
(* Users, their personal groups, the members of the system group, and the   *)
(* registration tokens: UserUsecase, GroupUsecase and RoleUsecase, as far    *)
(* as they change these tables.  Each statement is a step, and nothing       *)
(* but the transaction of RegisterWithToken spans two of them.  Foreign      *)
(* keys are those of the migrations.                                         *)
(*                                                                          *)
(* Every member of the system group has the role seed-system-admin, which    *)
(* grants all that is asked for here.  Of the other roles there is the       *)
(* built-in seed-admin, and one, "custom", that can be deleted.              *)
(***************************************************************************)
EXTENDS Integers, FiniteSets

CONSTANTS
    Ids,         \* user ids, other than the reserved SystemUser
    SystemUser,
    Tokens,      \* registration tokens that may be issued
    None,
    Requests,    \* goroutines that serve a request
    MaxRequests, \* bound: requests that are made
    MaxFaults    \* bound: statements that fail

ASSUME ConstantsAssumption ==
    /\ SystemUser \notin Ids
    /\ None \notin Ids \cup {SystemUser} \cup Tokens \cup {"seed-admin", "custom"}
    /\ MaxRequests \in Nat /\ MaxFaults \in Nat

VARIABLES
    users,    \* table users, without the system user
    groups,   \* ids whose personal group exists
    member,   \* role of each user in the personal group, or None
    system,   \* members of the system group
    custom,   \* whether the role "custom" exists
    token,    \* table registration_tokens
    op, pc, loc, made, faults,
    \* history
    registered, \* users that were registered with each token
    invited,    \* users whose row was made by RegisterWithToken
    orphaned,   \* a member of the system group was deleted as a user
    raced       \* the group shrank between a list and the removal that follows it

tables == <<users, groups, member, system, custom, token>>
request == <<op, pc, loc>>
history == <<registered, invited, orphaned, raced>>
vars == <<tables, request, made, faults, history>>

--------------------------------------------------------------------------------
Roles == {"seed-admin", "custom"}
Ops == {"none", "create", "issue", "register", "delete", "add", "remove", "change", "drop"}
PCs == {"idle", "check", "validate", "insert", "ensure", "group", "member", "list", "write"}
NoToken == [state |-> "none", role |-> "seed-admin"]
Blank == [user |-> None, role |-> "seed-admin", token |-> None]

TokenRows == [state : {"none", "open", "expired", "used"}, role : Roles]
Locals == [user : Ids \cup {SystemUser, None}, role : Roles, token : Tokens \cup {None}]

TypeOK ==
    /\ users \in SUBSET Ids /\ groups \in SUBSET Ids
    /\ member \in [Ids -> Roles \cup {None}]
    /\ system \in SUBSET (Ids \cup {SystemUser})
    /\ custom \in BOOLEAN
    /\ token \in [Tokens -> TokenRows]
    /\ op \in [Requests -> Ops] /\ pc \in [Requests -> PCs]
    /\ loc \in [Requests -> Locals]
    /\ made \in 0..MaxRequests /\ faults \in 0..MaxFaults
    /\ registered \in [Tokens -> SUBSET Ids] /\ invited \in SUBSET Ids
    /\ orphaned \in BOOLEAN /\ raced \in BOOLEAN

\* The migrations make the system user a member of the system group; users that exist
\* have their personal group, and some are members of the system group too.
Init ==
    /\ users \in SUBSET Ids
    /\ groups = users
    /\ member = [u \in Ids |-> IF u \in users THEN "seed-admin" ELSE None]
    /\ \E S \in SUBSET users : system = S \cup {SystemUser}
    /\ custom = TRUE
    /\ token = [t \in Tokens |-> NoToken]
    /\ op = [r \in Requests |-> "none"]
    /\ pc = [r \in Requests |-> "idle"]
    /\ loc = [r \in Requests |-> Blank]
    /\ made = 0 /\ faults = 0
    /\ registered = [t \in Tokens |-> {}] /\ invited = {}
    /\ orphaned = FALSE /\ raced = FALSE

--------------------------------------------------------------------------------
(* Requests *)

Then ==
    [create   |-> [check |-> "validate", validate |-> "insert", insert |-> "ensure",
                   ensure |-> "group", group |-> "member"],
     issue    |-> [check |-> "validate", validate |-> "write"],
     register |-> [check |-> "write"],
     delete   |-> [check |-> "list", list |-> "write"],
     add      |-> [check |-> "write"],
     remove   |-> [check |-> "list", list |-> "write"],
     change   |-> [check |-> "validate", validate |-> "list", list |-> "write"],
     drop     |-> [check |-> "write"]]

Continue(r) ==
    /\ pc' = [pc EXCEPT ![r] = Then[op[r]][pc[r]]]
    /\ UNCHANGED <<op, loc>>

Leave(r) ==
    /\ pc' = [pc EXCEPT ![r] = "idle"]
    /\ op' = [op EXCEPT ![r] = "none"]
    /\ loc' = [loc EXCEPT ![r] = Blank]

Fault == faults < MaxFaults /\ faults' = faults + 1
FailsIf(condition) == (condition /\ UNCHANGED faults) \/ Fault

\* A statement or lookup: the request goes on if it succeeds and ends if not.
Reads(r, condition) ==
    \/ condition /\ UNCHANGED faults /\ Continue(r)
    \/ FailsIf(~condition) /\ Leave(r)

Exists(role) == role = "seed-admin" \/ custom

\* A request arrives with what it is about.
Begin(r, o) ==
    /\ pc[r] = "idle" /\ made < MaxRequests
    /\ made' = made + 1
    /\ op' = [op EXCEPT ![r] = o]
    /\ pc' = [pc EXCEPT ![r] = "check"]
    /\ \E u \in IF o \in {"issue", "drop"} THEN {None}
                 ELSE IF o = "remove" THEN Ids \cup {SystemUser} ELSE Ids :
       \E t \in IF o \in {"issue", "register"} THEN Tokens ELSE {None} :
       \E role \in IF o \in {"create", "issue", "change"} THEN Roles ELSE {"seed-admin"} :
         loc' = [loc EXCEPT ![r] = [user |-> u, role |-> role, token |-> t]]
    /\ UNCHANGED <<tables, faults, history>>

\* RequireSystemPermission and RequirePermissionForGroup: the caller is in the system
\* group.  RegisterWithToken looks for a valid token instead, and keeps its role.
Check(r) ==
    /\ pc[r] = "check"
    /\ \/ op[r] # "register" /\ Reads(r, system # {})
       \/ /\ op[r] = "register"
          /\ LET t == token[loc[r].token]
             IN  \/ /\ t.state = "open" /\ UNCHANGED faults
                    /\ loc' = [loc EXCEPT ![r].role = t.role]
                    /\ pc' = [pc EXCEPT ![r] = "write"]
                    /\ UNCHANGED op
                 \/ /\ FailsIf(t.state # "open")
                    /\ Leave(r)
    /\ UNCHANGED <<tables, made, history>>

\* roleRepo.Get: ValidatePersonalRoleAssignable, and UpdateGroupMemberRole.
Validate(r) ==
    /\ pc[r] = "validate"
    /\ Reads(r, Exists(loc[r].role))
    /\ UNCHANGED <<tables, made, history>>

\* CreateUser: the INSERT, which an existing id makes fail.
Insert(r) ==
    /\ pc[r] = "insert"
    /\ Reads(r, loc[r].user \notin users)
    /\ users' = IF pc'[r] = "ensure" THEN users \cup {loc[r].user} ELSE users
    /\ UNCHANGED <<groups, member, system, custom, token, made, history>>

\* EnsurePersonalGroupForUser: the role once more, and is there a personal group?
Ensure(r) ==
    /\ pc[r] = "ensure"
    /\ \/ member[loc[r].user] # None /\ UNCHANGED faults /\ Leave(r)
       \/ member[loc[r].user] = None /\ Reads(r, Exists(loc[r].role))
    /\ UNCHANGED <<tables, made, history>>

\* ... its INSERT, which fails if a user of that name has left a group behind ...
CreateGroup(r) ==
    /\ pc[r] = "group"
    /\ Reads(r, loc[r].user \notin groups)
    /\ groups' = IF pc'[r] = "member" THEN groups \cup {loc[r].user} ELSE groups
    /\ UNCHANGED <<users, member, system, custom, token, made, history>>

\* ... and the membership, which needs user and role.
AddMember(r) ==
    /\ pc[r] = "member"
    /\ LET u == loc[r].user
       IN  \/ /\ u \in users /\ Exists(loc[r].role) /\ UNCHANGED faults
              /\ member' = [member EXCEPT ![u] = loc[r].role]
           \/ /\ FailsIf(~(u \in users /\ Exists(loc[r].role)))
              /\ UNCHANGED member
    /\ Leave(r)
    /\ UNCHANGED <<users, groups, system, custom, token, made, history>>

--------------------------------------------------------------------------------
(* Registration tokens *)

IssueToken(r) ==
    /\ op[r] = "issue" /\ pc[r] = "write"
    /\ LET t == loc[r].token
           fits == token[t].state = "none" /\ Exists(loc[r].role)
       IN  \/ /\ fits /\ UNCHANGED faults
              /\ token' = [token EXCEPT ![t] = [state |-> "open", role |-> loc[r].role]]
           \/ FailsIf(~fits) /\ UNCHANGED token
    /\ Leave(r)
    /\ UNCHANGED <<users, groups, member, system, custom, made, history>>

Expire(t) ==
    /\ token[t].state = "open"
    /\ token' = [token EXCEPT ![t].state = "expired"]
    /\ UNCHANGED <<users, groups, member, system, custom, request, made, faults, history>>

\* Mutant: the UPDATE does not test used_at.
MarkableAlways(t) == TRUE

\* MarkRegistrationTokenUsed updates one row.  It does not look at expires_at.
Markable(t) == token[t].state # "used"

\* Mutant: the user is committed before the rest.
RegisterInParts(r) ==
    /\ op[r] = "register" /\ pc[r] = "write"
    /\ LET u == loc[r].user
           t == loc[r].token
       IN  /\ u \notin users /\ Markable(t)
           /\ users' = users \cup {u}
           /\ token' = [token EXCEPT ![t].state = "used"]
           /\ registered' = [registered EXCEPT ![t] = @ \cup {u}]
           /\ invited' = invited \cup {u}
           /\ \/ /\ u \notin groups /\ groups' = groups \cup {u}
                 /\ member' = [member EXCEPT ![u] = loc[r].role]
              \/ u \in groups /\ UNCHANGED <<groups, member>>
    /\ Leave(r)
    /\ UNCHANGED <<system, custom, made, faults, orphaned, raced>>

\* The transaction of RegisterWithToken: user, group, membership and token, or nothing.
\* An error may hide that it was committed.
Register(r) ==
    /\ op[r] = "register" /\ pc[r] = "write"
    /\ LET u == loc[r].user
           t == loc[r].token
           fits == u \notin users /\ u \notin groups /\ Exists(loc[r].role) /\ Markable(t)
       IN  \/ /\ fits /\ (UNCHANGED faults \/ Fault)
              /\ users' = users \cup {u}
              /\ groups' = groups \cup {u}
              /\ member' = [member EXCEPT ![u] = loc[r].role]
              /\ token' = [token EXCEPT ![t].state = "used"]
              /\ registered' = [registered EXCEPT ![t] = @ \cup {u}]
              /\ invited' = invited \cup {u}
           \/ /\ FailsIf(~fits)
              /\ UNCHANGED <<users, groups, member, token, registered, invited>>
    /\ Leave(r)
    /\ UNCHANGED <<system, custom, made, orphaned, raced>>

--------------------------------------------------------------------------------
(* The system group, and deletions *)

\* AddGroupMember for the system group.
AddSystemMember(r) ==
    /\ op[r] = "add" /\ pc[r] = "write"
    /\ LET u == loc[r].user
           fits == u \in users /\ u \notin system
       IN  \/ fits /\ UNCHANGED faults /\ system' = system \cup {u}
           \/ FailsIf(~fits) /\ UNCHANGED system
    /\ Leave(r)
    /\ UNCHANGED <<users, groups, member, custom, token, made, history>>

\* Mutant: the user who is to be removed counts as another.
HasOtherUnfiltered(u) == system # {}

HasOther(u) == system \ {u} # {}

\* Does the user exist (DeleteUser)?  Is there another member (RemoveGroupMember)?  Is
\* there a membership (UpdateGroupMemberRole)?
List(r) ==
    /\ pc[r] = "list"
    /\ LET u == loc[r].user
       IN  Reads(r, CASE op[r] = "delete" -> u \in users
                      [] op[r] = "remove" -> HasOther(u)
                      [] op[r] = "change" -> member[u] # None)
    /\ UNCHANGED <<tables, made, history>>

\* Another request has listed the members and not removed its own yet.
Overlaps(r) == \E q \in Requests \ {r} : op[q] = "remove" /\ pc[q] = "write"

\* DELETE FROM group_members.
RemoveSystemMember(r) ==
    /\ op[r] = "remove" /\ pc[r] = "write"
    /\ \/ /\ UNCHANGED faults
          /\ system' = system \ {loc[r].user}
          /\ raced' = (raced \/ (loc[r].user \in system /\ Overlaps(r)))
       \/ Fault /\ UNCHANGED <<system, raced>>
    /\ Leave(r)
    /\ UNCHANGED <<users, groups, member, custom, token, made, registered, invited, orphaned>>

\* DELETE FROM users: memberships go with it, the personal group stays.
DeleteUser(r) ==
    /\ op[r] = "delete" /\ pc[r] = "write"
    /\ LET u == loc[r].user
       IN  \/ /\ UNCHANGED faults
              /\ users' = users \ {u}
              /\ member' = [member EXCEPT ![u] = None]
              /\ system' = system \ {u}
              /\ orphaned' = (orphaned \/ u \in system)
              /\ invited' = invited \ {u}
           \/ Fault /\ UNCHANGED <<users, member, system, orphaned, invited>>
    /\ Leave(r)
    /\ UNCHANGED <<groups, custom, token, made, registered, raced>>

\* UpdateGroupMemberRole for a personal group.
UpdateMemberRole(r) ==
    /\ op[r] = "change" /\ pc[r] = "write"
    /\ LET u == loc[r].user
       IN  \/ /\ Exists(loc[r].role) /\ UNCHANGED faults
              /\ member' = [member EXCEPT ![u] = IF @ = None THEN None ELSE loc[r].role]
           \/ FailsIf(~Exists(loc[r].role)) /\ UNCHANGED member
    /\ Leave(r)
    /\ UNCHANGED <<users, groups, system, custom, token, made, history>>

\* DeleteRole: refused while a membership has the role; tokens lose it.
DropRole(r) ==
    /\ op[r] = "drop" /\ pc[r] = "write"
    /\ \/ /\ \A u \in Ids : member[u] # "custom"
          /\ UNCHANGED faults
          /\ custom' = FALSE
          /\ token' = [t \in Tokens |-> [token[t] EXCEPT !.role = "seed-admin"]]
       \/ /\ FailsIf(\E u \in Ids : member[u] = "custom")
          /\ UNCHANGED <<custom, token>>
    /\ Leave(r)
    /\ UNCHANGED <<users, groups, member, system, made, history>>

--------------------------------------------------------------------------------
Serve(r) ==
    \/ Check(r) \/ Validate(r) \/ Insert(r) \/ Ensure(r) \/ CreateGroup(r) \/ AddMember(r)
    \/ IssueToken(r) \/ Register(r) \/ List(r) \/ AddSystemMember(r)
    \/ RemoveSystemMember(r) \/ DeleteUser(r) \/ UpdateMemberRole(r) \/ DropRole(r)

Next ==
    \/ \E r \in Requests : Serve(r) \/ \E o \in Ops \ {"none"} : Begin(r, o)
    \/ \E t \in Tokens : Expire(t)

Spec == Init /\ [][Next]_vars

--------------------------------------------------------------------------------
(* Properties *)

\* A token registers one user at most and is used exactly when it has, although two
\* requests may both find it valid and it may expire in between.
TokenRegistersOnce ==
    \A t \in Tokens : /\ Cardinality(registered[t]) <= 1
                      /\ token[t].state = "used" <=> registered[t] # {}

\* A user that no CreateUser is working on has a personal group, unless a statement of
\* CreateUser failed, the role was dropped after it was validated, or a deleted user of
\* that name has left the group behind.  RegisterWithToken never leaves such a user.
EveryUserHasGroup ==
    \A u \in users :
        (\A r \in Requests : op[r] = "create" => loc[r].user # u) =>
            \/ member[u] # None
            \/ /\ u \notin invited
               /\ faults > 0 \/ ~custom \/ u \in groups

\* The system group keeps a member as long as removals do not overlap and none of its
\* members is deleted as a user.
LastMemberStays == system = {} => raced \/ orphaned
================================================================================
