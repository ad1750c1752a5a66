------------------------------- MODULE Access -------------------------------
(***************************************************************************)
(* Accounts, roles, memberships and the authority of tokens                *)
(* (apps/offices, apps/authn, the BFF's token check).                      *)
(*                                                                         *)
(* A role bundles scopes with a standing in the organisation.  A user's    *)
(* membership points at a role; the scopes reach the user's Django groups  *)
(* only when a request copies them there, and reach Django's views and the *)
(* BFF only through the token issued at login, which is good for a fixed   *)
(* time.  The requests that administer all this are not transactions: each *)
(* step below is one of their statements, another process may run between  *)
(* two of them, and a process may be killed there.                         *)
(*                                                                         *)
(* Left out: names, passwords, initials and menu items; availability and   *)
(* the Offices' own rows; requires_office, which repeats whether a         *)
(* membership was written with an Office.                                  *)
(***************************************************************************)
EXTENDS Integers

CONSTANTS Users, Root,   \* accounts; the superuser among them
          Offices, Roles, Scopes,
          AdminScope,    \* "user administration"
          Shapes,        \* what a role may be: its scopes and its standing
          Bodies,        \* what a PATCH of a user asks
          Requests,      \* administration requests, each performed once
          Lifetime,      \* of a token, in units of time
          Everywhere, NoOffice, NoRole, Unused, Deleted

Asks == {"keep", "active", "inactive"}
Places == Offices \cup {NoOffice}
Body == [asks : Asks, role : Roles \cup {NoRole}, office : Places]
Shape == [scopes : SUBSET Scopes, global : BOOLEAN, admin : BOOLEAN]

ASSUME AccessAssumption ==
    /\ Root \in Users /\ AdminScope \in Scopes
    /\ Shapes \subseteq Shape /\ Bodies \subseteq Body
    /\ Unused \notin Shapes /\ Deleted \notin Shapes /\ Unused # Deleted
    /\ NoRole \notin Roles /\ NoOffice \notin Offices /\ Everywhere \notin Offices /\ Everywhere # NoOffice
    /\ Lifetime \in Nat \ {0}

VARIABLES acct,     \* User rows: is_active
          member,   \* OfficeMembership: role and Office
          groups,   \* a user's scope groups
          role,     \* Role rows
          req,      \* requests: position and local variables
          granted,  \* scopes of a user's tokens, by the time they have left
          since,    \* time since a scope was last in the user's role
          owed,     \* users a killed request has left out of step, until another sets them right
          overlap   \* two requests have been under way together

rows == <<acct, member, groups, role>>
history == <<since, owed, overlap>>
vars == <<rows, req, granted, history>>

-----------------------------------------------------------------------------
(* Rows                                                                    *)

Staff == Users \ {Root}
Account == {"absent", "active", "inactive"}
Membership == [role : Roles \cup {NoRole}, office : Places]
NoMembership == [role |-> NoRole, office |-> NoOffice]

Defined(r) == role[r] \in Shapes
Belongs(u) == u \in Staff /\ member[u].role \in Roles
ShapeOf(u) == role[member[u].role]
MembersOf(r) == {u \in Staff : member[u].role = r}

\* The scopes a user's role carries now.
Due(u) == {s \in Scopes : Belongs(u) /\ Defined(member[u].role) /\ s \in ShapeOf(u).scopes}

\* _validate_role_office
Fits(shape, office) == shape.global <=> office = NoOffice

\* _admin_scope: everywhere, the Office of an Office's administrator, nowhere.
Reach(a) ==
    IF a = Root THEN Everywhere
    ELSE IF ~Belongs(a) THEN NoOffice
    ELSE IF ~Defined(member[a].role) THEN NoOffice
    ELSE IF ShapeOf(a).global THEN Everywhere
    ELSE IF ShapeOf(a).admin THEN member[a].office
    ELSE NoOffice

\* A token in force carries the scope: what requireScope of the BFF and the
\* scope permissions of Django ask.
Honoured(u, s) == u \in Staff /\ \E l \in 1..Lifetime : s \in granted[u][l]

\* Django asks for the account besides the token: whoever is active can have one.
Authenticated(a) == acct[a] = "active"

\* May administer users.  A superuser's tokens carry every scope.
May(a) == Authenticated(a) /\ (a # Root => Honoured(a, AdminScope)) /\ Reach(a) # NoOffice

\* _get_target
Manages(reach, u) == reach = Everywhere \/ (Belongs(u) /\ member[u].office = reach)

-----------------------------------------------------------------------------
(* Requests                                                                *)

Positions == {"new", "profile", "validate", "member", "create", "save", "list", "sync", "over"}
ReqState == [pc : Positions, reach : Offices \cup {Everywhere, NoOffice}, user : Users, asks : Asks, row : Account,
             role : Roles \cup {NoRole}, office : Places, shape : Shapes \cup {Unused},
             todo : SUBSET (Staff \X Scopes)]
NewRequest == [pc |-> "new", reach |-> NoOffice, user |-> Root, asks |-> "keep", row |-> "absent",
               role |-> NoRole, office |-> NoOffice, shape |-> Unused, todo |-> {}]

At(q, pc) == req[q].pc = pc
InFlight(q) == req[q].pc \notin {"new", "over"}
Quiet == \A q \in Requests : ~InFlight(q)

Begin(q, state) ==
    /\ At(q, "new")
    /\ req' = [req EXCEPT ![q] = state]
    /\ overlap' = (overlap \/ ~Quiet)
    /\ UNCHANGED <<rows, granted, since, owed>>
Move(q, state) == req' = [req EXCEPT ![q] = state]
Go(q, pc) == Move(q, [req[q] EXCEPT !.pc = pc])
Finish(q) == Move(q, [NewRequest EXCEPT !.pc = "over"])

\* The clocks: of a scope the user's role carries, of a user set right again.
Restarted == since' = [u \in Staff |-> [s \in Scopes |->
                          IF s \in Due(u)' \/ u \in owed \ owed' THEN 0 ELSE since[u][s]]]

-----------------------------------------------------------------------------
(* PATCH of a user and of one's own profile                                *)

BeginPatchUser(q) ==
    \E a, u \in Users : \E b \in Bodies :
        /\ May(a) /\ acct[u] # "absent" /\ Manages(Reach(a), u) /\ (u # a \/ a = Root)
        /\ Begin(q, [NewRequest EXCEPT !.pc = "profile", !.reach = Reach(a), !.user = u, !.asks = b.asks,
                                       !.row = acct[u], !.role = b.role, !.office = b.office])

BeginPatchSelf(q) ==
    \E a \in Users :
        /\ Authenticated(a)
        /\ Begin(q, [NewRequest EXCEPT !.pc = "profile", !.user = a, !.row = acct[a]])

\* Mutant: is_active is taken from the body whether it is there or not.
WrittenRaw(r) == r.asks
\* Mutant: is_active defaults to true.
WrittenActive(r) == IF r.asks = "keep" THEN "active" ELSE r.asks
\* save() writes every column of the row as it was read.
Written(r) == IF r.asks = "keep" THEN r.row ELSE r.asks

SaveProfile(q) ==
    /\ At(q, "profile")
    /\ acct' = [acct EXCEPT ![req[q].user] = Written(req[q])]
    /\ IF req[q].role = NoRole \/ req[q].user = Root THEN Finish(q) ELSE Go(q, "validate")
    /\ UNCHANGED <<member, groups, role, granted, history>>

\* Mutant: an Office's administrator may name any Office.
AdmissibleAnywhere(reach, shape, office) == Fits(shape, office) /\ (reach # Everywhere => ~shape.global)
\* MembershipUpdateSerializer and the view's checks
Admissible(reach, shape, office) ==
    Fits(shape, office) /\ (reach # Everywhere => ~shape.global /\ office = reach)

\* The role is read, checked and held from here on as it was read.
Validate(q) ==
    /\ At(q, "validate")
    /\ IF Defined(req[q].role) /\ Admissible(req[q].reach, role[req[q].role], req[q].office)
       THEN Move(q, [req[q] EXCEPT !.pc = "member", !.shape = role[req[q].role]])
       ELSE Finish(q)
    /\ UNCHANGED <<rows, granted, history>>

\* update_or_create; the foreign key refuses a role deleted meanwhile.
WriteMember(q) ==
    /\ At(q, "member")
    /\ IF Defined(req[q].role)
       THEN /\ member' = [member EXCEPT ![req[q].user] = [role |-> req[q].role, office |-> req[q].office]]
            /\ Move(q, [req[q] EXCEPT !.pc = "sync", !.todo = {req[q].user} \X Scopes])
            /\ owed' = owed \ {req[q].user}
       ELSE UNCHANGED <<member, owed>> /\ Finish(q)
    /\ UNCHANGED <<acct, groups, role, granted, overlap>>
    /\ Restarted

\* Mutant: groups are only ever added.
SyncedUp(u, s, scopes) == IF s \in scopes THEN groups[u] \cup {s} ELSE groups[u]
Synced(u, s, scopes) == IF s \in scopes THEN groups[u] \cup {s} ELSE groups[u] \ {s}

\* _sync_role_groups, one group at a time
Sync(q) ==
    /\ At(q, "sync")
    /\ \E p \in req[q].todo :
          /\ groups' = [groups EXCEPT ![p[1]] = Synced(p[1], p[2], req[q].shape.scopes)]
          /\ IF req[q].todo = {p} THEN Finish(q) ELSE Move(q, [req[q] EXCEPT !.todo = @ \ {p}])
    /\ UNCHANGED <<acct, member, role, granted, history>>

-----------------------------------------------------------------------------
(* POST of a user                                                          *)

\* The user name is free.
Free(u) == acct[u] = "absent"

\* UserCreateSerializer.validate: an Office's administrator gets the own Office.
Allotted(reach, office) == reach # Everywhere => office = reach

BeginCreateUser(q) ==
    \E a, u \in Users : \E r \in Roles : \E o \in Places :
        /\ May(a) /\ Free(u) /\ Defined(r) /\ Allotted(Reach(a), o)
        /\ Admissible(Reach(a), role[r], o)
        /\ Begin(q, [NewRequest EXCEPT !.pc = "create", !.reach = Reach(a), !.user = u, !.role = r,
                                       !.office = o, !.shape = role[r]])

\* Account, membership and groups in one transaction.
CommitUser(q) ==
    /\ At(q, "create")
    /\ IF acct[req[q].user] = "absent" /\ Defined(req[q].role)
       THEN /\ acct' = [acct EXCEPT ![req[q].user] = "active"]
            /\ member' = [member EXCEPT ![req[q].user] = [role |-> req[q].role, office |-> req[q].office]]
            /\ groups' = [groups EXCEPT ![req[q].user] = req[q].shape.scopes]
       ELSE UNCHANGED <<acct, member, groups>>
    /\ Finish(q)
    /\ UNCHANGED <<role, granted, owed, overlap>>
    /\ Restarted

-----------------------------------------------------------------------------
(* Roles: the superuser's                                                  *)

BeginPatchRole(q) ==
    \E r \in Roles : \E shape \in Shapes :
        /\ Authenticated(Root) /\ Defined(r)
        /\ Begin(q, [NewRequest EXCEPT !.pc = "save", !.role = r, !.shape = shape])

\* save() inserts the row again when it is gone.
SaveRole(q) ==
    /\ At(q, "save")
    /\ role' = [role EXCEPT ![req[q].role] = req[q].shape]
    /\ Go(q, "list")
    /\ UNCHANGED <<acct, member, groups, granted, owed, overlap>>
    /\ Restarted

ListMembers(q) ==
    /\ At(q, "list")
    /\ LET todo == MembersOf(req[q].role) \X Scopes
       IN  IF todo = {} THEN Finish(q) ELSE Move(q, [req[q] EXCEPT !.todo = todo, !.pc = "sync"])
    /\ owed' = owed \ MembersOf(req[q].role)
    /\ UNCHANGED <<rows, granted, overlap>>
    /\ Restarted

CreateRole ==
    /\ Authenticated(Root)
    /\ \E r \in Roles : \E shape \in Shapes : role[r] = Unused /\ role' = [role EXCEPT ![r] = shape]
    /\ UNCHANGED <<acct, member, groups, req, granted, history>>

\* on_delete=PROTECT
Removable(r) == Defined(r) /\ MembersOf(r) = {}

DeleteRole ==
    /\ Authenticated(Root)
    /\ \E r \in Roles : Removable(r) /\ role' = [role EXCEPT ![r] = Deleted]
    /\ UNCHANGED <<acct, member, groups, req, granted, history>>

-----------------------------------------------------------------------------
(* Tokens and processes                                                    *)

\* Mutant: a new token keeps what the old ones carried.
IssuedAnew(u) == groups[u] \cup {s \in Scopes : Honoured(u, s)}
\* compute_scopes
Issued(u) == groups[u]

Login(u) ==
    /\ u \in Staff /\ acct[u] = "active"
    /\ granted' = [granted EXCEPT ![u][Lifetime] = @ \cup Issued(u)]
    /\ UNCHANGED <<rows, req, history>>

\* A request takes seconds, a token lasts for hours: no request spans a unit.
Tick ==
    /\ Quiet
    /\ granted' = [u \in Staff |-> [l \in 1..Lifetime |-> IF l = Lifetime THEN {} ELSE granted[u][l + 1]]]
    /\ since' = [u \in Staff |-> [s \in Scopes |->
                    IF s \in Due(u) THEN 0 ELSE IF since[u][s] < Lifetime THEN since[u][s] + 1 ELSE Lifetime]]
    /\ UNCHANGED <<rows, req, owed, overlap>>

\* A process is killed, or a statement of its request raises.
Kill(q) ==
    /\ InFlight(q)
    /\ Finish(q)
    /\ owed' = owed \cup (IF At(q, "list") THEN MembersOf(req[q].role) ELSE {p[1] : p \in req[q].todo})
    /\ UNCHANGED <<rows, granted, since, overlap>>

Init ==
    /\ acct \in [Users -> Account] /\ acct[Root] = "active"
    /\ role \in [Roles -> Shapes \cup {Unused}]
    /\ member \in [Staff -> Membership]
    /\ \A u \in Staff : \/ member[u] = NoMembership
                        \/ /\ acct[u] # "absent" /\ Belongs(u) /\ Defined(member[u].role)
                           /\ Fits(ShapeOf(u), member[u].office)
    /\ groups = [u \in Staff |-> Due(u)]
    /\ req = [q \in Requests |-> NewRequest]
    /\ granted = [u \in Staff |-> [l \in 1..Lifetime |-> {}]]
    /\ since = [u \in Staff |-> [s \in Scopes |-> 0]]
    /\ owed = {} /\ overlap = FALSE

Next ==
    \/ \E q \in Requests :
          \/ BeginPatchUser(q) \/ BeginPatchSelf(q) \/ SaveProfile(q) \/ Validate(q) \/ WriteMember(q) \/ Sync(q)
          \/ BeginCreateUser(q) \/ CommitUser(q)
          \/ BeginPatchRole(q) \/ SaveRole(q) \/ ListMembers(q)
          \/ Kill(q)
    \/ CreateRole \/ DeleteRole
    \/ \E u \in Staff : Login(u)
    \/ Tick

Spec == Init /\ [][Next]_vars

-----------------------------------------------------------------------------
(* Properties                                                              *)

TypeOK ==
    /\ acct \in [Users -> Account]
    /\ member \in [Staff -> Membership]
    /\ groups \in [Staff -> SUBSET Scopes]
    /\ role \in [Roles -> Shapes \cup {Unused, Deleted}]
    /\ req \in [Requests -> ReqState]
    /\ granted \in [Staff -> [1..Lifetime -> SUBSET Scopes]]
    /\ since \in [Staff -> [Scopes -> 0..Lifetime]]
    /\ owed \subseteq Staff /\ overlap \in BOOLEAN

\* No membership points at a role that does not exist: neither a deletion nor
\* an assignment under way when it happens leaves one behind.
RoleInUseStays == \A u \in Staff : Belongs(u) => Defined(member[u].role)

\* Between requests a user's groups are the scopes of the user's role, when no
\* two requests ran together; a killed request leaves only its own users astray,
\* and the next one that gets through, for the user or for the role, repairs it.
ScopesFollowRole == (Quiet /\ ~overlap) => \A u \in Staff \ owed : groups[u] = Due(u)

\* A scope taken from a user, by a change of role or of the role itself, is
\* honoured for at most the lifetime of one token from then on.
AuthorityIsBounded ==
    ~overlap => \A u \in Staff \ owed : \A s \in Scopes : \A l \in 1..Lifetime :
        s \in granted[u][l] => since[u][s] + l <= Lifetime

\* A deactivated account becomes active again only by a request that says so.
DeactivationHolds ==
    [][~overlap => \A u \in Users : (acct[u] = "inactive" /\ acct'[u] = "active") =>
          \E q \in Requests : At(q, "profile") /\ ~At(q, "profile")' /\ req[q].user = u /\ req[q].asks = "active"]_vars

\* An Office's administrator neither takes a member from another Office nor
\* sends one there, and gives nobody a standing beyond the Office.
KeepsToOffice ==
    [][~overlap => \A q \in Requests : \A u \in Staff :
          (member'[u] # member[u] /\ req'[q] # req[q] /\ req[q].reach # Everywhere) =>
              /\ acct[u] = "absent" \/ member[u].office = req[q].reach
              /\ member'[u].office = req[q].reach /\ ~ShapeOf(u)'.global]_vars
=============================================================================
