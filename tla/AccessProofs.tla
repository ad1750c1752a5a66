----------------------------- MODULE AccessProofs -----------------------------
(***************************************************************************)
(* Theorems about Access for any users, Offices, roles, scopes, requests   *)
(* and token lifetime.                                                     *)
(***************************************************************************)
EXTENDS Access, TLAPS

-----------------------------------------------------------------------------
(* The inductive invariant                                                 *)

\* What a request holds at each position.
Placed ==
    \A q \in Requests :
        /\ At(q, "profile") => req[q].row # "absent"
        /\ At(q, "validate") \/ At(q, "member") \/ At(q, "create") => req[q].role \in Roles /\ req[q].user \in Staff
        /\ At(q, "save") \/ At(q, "list") => req[q].role \in Roles
        /\ At(q, "member") \/ At(q, "create") \/ At(q, "save") \/ At(q, "list") \/ At(q, "sync") =>
              req[q].shape \in Shapes

RootExists == acct[Root] # "absent"

\* Until two requests run together there is one at a time.
Alone == ~overlap => \A p, q \in Requests : InFlight(p) /\ InFlight(q) => p = q

\* What a request holds is then still so.
FreshAt(q) ==
    /\ At(q, "profile") => req[q].row = acct[req[q].user]
    /\ At(q, "member") \/ At(q, "create") =>
          /\ role[req[q].role] \in {req[q].shape, Deleted}
          /\ Admissible(req[q].reach, req[q].shape, req[q].office)
    /\ At(q, "list") => role[req[q].role] \in {req[q].shape, Deleted}
    /\ (At(q, "profile") /\ req[q].role # NoRole) \/ At(q, "validate") \/ At(q, "member") =>
          req[q].reach = Everywhere \/ (req[q].user \in Staff /\ member[req[q].user].office = req[q].reach)
    /\ At(q, "sync") => \A p \in req[q].todo : p[1] \in Staff /\ Belongs(p[1]) /\ ShapeOf(p[1]) = req[q].shape

Fresh == ~overlap => \A q \in Requests : FreshAt(q)

\* The clock of a scope that is due does not run.
DueNow == \A u \in Staff : \A s \in Scopes : s \in Due(u) => since[u][s] = 0

\* A request is about to set the scope's group right.
Pending(q, u, s) ==
    \/ At(q, "list") /\ member[u].role = req[q].role
    \/ At(q, "sync") /\ <<u, s>> \in req[q].todo

\* Groups are right, or about to be set right.
InStep ==
    ~overlap => \A u \in Staff \ owed : \A s \in Scopes :
        (s \in groups[u] <=> s \in Due(u)) \/ \E q \in Requests : Pending(q, u, s)

\* No clock runs for a scope that is still in a group.
HeldNow == ~overlap => \A u \in Staff \ owed : \A s \in Scopes : s \in groups[u] => since[u][s] = 0

IInv ==
    /\ TypeOK
    /\ Placed
    /\ RootExists
    /\ Alone
    /\ Fresh
    /\ RoleInUseStays
    /\ DueNow
    /\ InStep
    /\ HeldNow
    /\ AuthorityIsBounded

-----------------------------------------------------------------------------
(* Steps                                                                   *)

\* A request moves to another state of its type.
LEMMA Moved ==
  ASSUME TypeOK, NEW q \in Requests, NEW state \in ReqState, Move(q, state)
  PROVE  /\ req' \in [Requests -> ReqState] /\ req'[q] = state
         /\ \A p \in Requests : p # q => req'[p] = req[p]
BY DEF TypeOK, Move

LEMMA NewTyped ==
  ASSUME TypeOK
  PROVE  /\ NewRequest \in ReqState
         /\ [NewRequest EXCEPT !.pc = "over"] \in ReqState
         /\ [NewRequest EXCEPT !.pc = "over"].pc = "over"
BY AccessAssumption DEF TypeOK, NewRequest, ReqState, Positions, Asks, Account, Places

\* A request ends.
LEMMA FinishFields ==
  ASSUME TypeOK, NEW q \in Requests, Finish(q)
  PROVE  /\ req' \in [Requests -> ReqState] /\ req'[q].pc = "over"
         /\ \A p \in Requests : p # q => req'[p] = req[p]
<1> DEFINE state == [NewRequest EXCEPT !.pc = "over"]
<1>1. Move(q, state)
  BY DEF Finish
<1>2. state \in ReqState /\ state.pc = "over"
  BY NewTyped
<1>3. QED
  BY <1>1, <1>2, Moved

\* A request goes on to another position.
LEMMA GoFields ==
  ASSUME TypeOK, NEW q \in Requests, NEW pc \in Positions, Go(q, pc)
  PROVE  /\ req' \in [Requests -> ReqState]
         /\ req'[q].pc = pc /\ req'[q].reach = req[q].reach /\ req'[q].user = req[q].user
         /\ req'[q].asks = req[q].asks /\ req'[q].row = req[q].row /\ req'[q].role = req[q].role
         /\ req'[q].office = req[q].office /\ req'[q].shape = req[q].shape /\ req'[q].todo = req[q].todo
         /\ \A p \in Requests : p # q => req'[p] = req[p]
<1> DEFINE state == [req[q] EXCEPT !.pc = pc]
<1>1. Move(q, state)
  BY DEF Go
<1>2. req[q] \in ReqState
  BY DEF TypeOK
<1>3. /\ state \in ReqState
      /\ state.pc = pc /\ state.reach = req[q].reach /\ state.user = req[q].user
      /\ state.asks = req[q].asks /\ state.row = req[q].row /\ state.role = req[q].role
      /\ state.office = req[q].office /\ state.shape = req[q].shape /\ state.todo = req[q].todo
  BY <1>2 DEF ReqState
<1>4. QED
  BY <1>1, <1>3, Moved

\* A request begins.
LEMMA BeginFields ==
  ASSUME TypeOK, NEW q \in Requests, NEW state \in ReqState, Begin(q, state)
  PROVE  /\ req' \in [Requests -> ReqState] /\ req'[q] = state /\ At(q, "new")
         /\ \A p \in Requests : p # q => req'[p] = req[p]
         /\ overlap' = (overlap \/ ~Quiet)
         /\ UNCHANGED <<acct, member, groups, role, granted, since, owed>>
BY Moved DEF Begin, Move, rows

LEMMA ReachTyped ==
  ASSUME TypeOK, NEW a \in Users
  PROVE  Reach(a) \in Offices \cup {Everywhere, NoOffice}
<1>1. CASE a = Root
  BY <1>1 DEF Reach
<1>2. CASE a # Root
  <2>1. member[a].office \in Places
    BY <1>2 DEF TypeOK, Staff, Membership
  <2>2. QED
    BY <1>2, <2>1 DEF Reach, Places
<1>3. QED
  BY <1>1, <1>2

LEMMA BeginPatchUserFields ==
  ASSUME TypeOK, NEW q \in Requests, BeginPatchUser(q)
  PROVE  /\ req' \in [Requests -> ReqState] /\ At(q, "new")
         /\ req'[q].pc = "profile" /\ req'[q].row # "absent" /\ req'[q].row = acct[req'[q].user]
         /\ req'[q].reach = Everywhere \/ (req'[q].user \in Staff /\ member[req'[q].user].office = req'[q].reach)
         /\ \A p \in Requests : p # q => req'[p] = req[p]
         /\ overlap' = (overlap \/ ~Quiet)
         /\ UNCHANGED <<acct, member, groups, role, granted, since, owed>>
<1>1. PICK a \in Users, u \in Users, b \in Bodies :
        /\ acct[u] # "absent" /\ Manages(Reach(a), u)
        /\ Begin(q, [NewRequest EXCEPT !.pc = "profile", !.reach = Reach(a), !.user = u, !.asks = b.asks,
                                       !.row = acct[u], !.role = b.role, !.office = b.office])
  BY DEF BeginPatchUser
<1> DEFINE state == [NewRequest EXCEPT !.pc = "profile", !.reach = Reach(a), !.user = u, !.asks = b.asks,
                                       !.row = acct[u], !.role = b.role, !.office = b.office]
<1>2. b.asks \in Asks /\ b.role \in Roles \cup {NoRole} /\ b.office \in Places
  BY AccessAssumption DEF Body
<1>3. acct[u] \in Account /\ Reach(a) \in Offices \cup {Everywhere, NoOffice}
  BY ReachTyped DEF TypeOK
<1>4. /\ state \in ReqState
      /\ state.pc = "profile" /\ state.row = acct[u] /\ state.user = u /\ state.reach = Reach(a)
  BY <1>2, <1>3, NewTyped DEF NewRequest, ReqState, Positions
<1>5. Reach(a) = Everywhere \/ (u \in Staff /\ member[u].office = Reach(a))
  BY <1>1 DEF Manages, Belongs
<1>6. QED
  BY <1>1, <1>4, <1>5, BeginFields

LEMMA BeginPatchSelfFields ==
  ASSUME TypeOK, NEW q \in Requests, BeginPatchSelf(q)
  PROVE  /\ req' \in [Requests -> ReqState] /\ At(q, "new")
         /\ req'[q].pc = "profile" /\ req'[q].row # "absent" /\ req'[q].row = acct[req'[q].user] /\ req'[q].role = NoRole
         /\ \A p \in Requests : p # q => req'[p] = req[p]
         /\ overlap' = (overlap \/ ~Quiet)
         /\ UNCHANGED <<acct, member, groups, role, granted, since, owed>>
<1>1. PICK a \in Users :
        acct[a] = "active" /\ Begin(q, [NewRequest EXCEPT !.pc = "profile", !.user = a, !.row = acct[a]])
  BY DEF BeginPatchSelf, Authenticated
<1> DEFINE state == [NewRequest EXCEPT !.pc = "profile", !.user = a, !.row = acct[a]]
<1>2. acct[a] \in Account
  BY DEF TypeOK
<1>3. state \in ReqState /\ state.pc = "profile" /\ state.row = acct[a] /\ state.user = a /\ state.role = NoRole
  BY <1>2, NewTyped DEF NewRequest, ReqState, Positions
<1>4. QED
  BY <1>1, <1>3, BeginFields

LEMMA BeginCreateUserFields ==
  ASSUME TypeOK, RootExists, NEW q \in Requests, BeginCreateUser(q)
  PROVE  /\ req' \in [Requests -> ReqState] /\ At(q, "new")
         /\ req'[q].pc = "create" /\ req'[q].role \in Roles /\ req'[q].user \in Staff
         /\ req'[q].shape \in Shapes /\ req'[q].shape = role[req'[q].role]
         /\ Admissible(req'[q].reach, req'[q].shape, req'[q].office)
         /\ \A p \in Requests : p # q => req'[p] = req[p]
         /\ overlap' = (overlap \/ ~Quiet)
         /\ UNCHANGED <<acct, member, groups, role, granted, since, owed>>
<1>1. PICK a \in Users, u \in Users, r \in Roles, o \in Places :
        /\ acct[u] = "absent" /\ Defined(r)
        /\ Admissible(Reach(a), role[r], o)
        /\ Begin(q, [NewRequest EXCEPT !.pc = "create", !.reach = Reach(a), !.user = u, !.role = r,
                                       !.office = o, !.shape = role[r]])
  BY DEF BeginCreateUser, Free
<1> DEFINE state == [NewRequest EXCEPT !.pc = "create", !.reach = Reach(a), !.user = u, !.role = r,
                                       !.office = o, !.shape = role[r]]
<1>2. role[r] \in Shapes /\ Reach(a) \in Offices \cup {Everywhere, NoOffice}
  BY <1>1, ReachTyped DEF Defined
<1>3. /\ state \in ReqState
      /\ state.pc = "create" /\ state.reach = Reach(a) /\ state.user = u /\ state.role = r
      /\ state.office = o /\ state.shape = role[r]
  BY <1>2, NewTyped DEF NewRequest, ReqState, Positions
<1>4. u \in Staff
  BY <1>1 DEF RootExists, Staff
<1>5. QED
  BY <1>1, <1>2, <1>3, <1>4, BeginFields

LEMMA BeginPatchRoleFields ==
  ASSUME TypeOK, NEW q \in Requests, BeginPatchRole(q)
  PROVE  /\ req' \in [Requests -> ReqState] /\ At(q, "new")
         /\ req'[q].pc = "save" /\ req'[q].role \in Roles /\ req'[q].shape \in Shapes
         /\ \A p \in Requests : p # q => req'[p] = req[p]
         /\ overlap' = (overlap \/ ~Quiet)
         /\ UNCHANGED <<acct, member, groups, role, granted, since, owed>>
<1>1. PICK r \in Roles, shape \in Shapes :
        Begin(q, [NewRequest EXCEPT !.pc = "save", !.role = r, !.shape = shape])
  BY DEF BeginPatchRole
<1> DEFINE state == [NewRequest EXCEPT !.pc = "save", !.role = r, !.shape = shape]
<1>2. state \in ReqState /\ state.pc = "save" /\ state.role = r /\ state.shape = shape
  BY NewTyped DEF NewRequest, ReqState, Positions
<1>3. QED
  BY <1>1, <1>2, BeginFields

LEMMA SaveProfileFields ==
  ASSUME TypeOK, NEW q \in Requests, SaveProfile(q)
  PROVE  /\ req' \in [Requests -> ReqState] /\ At(q, "profile")
         /\ \/ req'[q].pc = "over"
            \/ /\ req'[q].pc = "validate" /\ req[q].role \in Roles /\ req[q].user \in Staff
               /\ req'[q].role = req[q].role /\ req'[q].user = req[q].user /\ req'[q].reach = req[q].reach
               /\ req[q].role # NoRole
         /\ acct' \in [Users -> Account] /\ acct'[req[q].user] = Written(req[q])
         /\ \A u \in Users : u # req[q].user => acct'[u] = acct[u]
         /\ req[q].user \in Users
         /\ \A p \in Requests : p # q => req'[p] = req[p]
         /\ UNCHANGED <<member, groups, role, granted, since, owed, overlap>>
<1>1. /\ req[q].user \in Users /\ req[q].role \in Roles \cup {NoRole}
      /\ req[q].asks \in Asks /\ req[q].row \in Account /\ "validate" \in Positions
  BY DEF TypeOK, ReqState, Positions
<1>2. Written(req[q]) \in Account
  BY <1>1 DEF Written, Asks, Account
<1>A. /\ acct' \in [Users -> Account] /\ acct'[req[q].user] = Written(req[q])
      /\ \A u \in Users : u # req[q].user => acct'[u] = acct[u]
  BY <1>1, <1>2 DEF SaveProfile, TypeOK
<1>3. CASE req[q].role = NoRole \/ req[q].user = Root
  BY <1>1, <1>A, <1>3, FinishFields DEF SaveProfile, history
<1>4. CASE ~(req[q].role = NoRole \/ req[q].user = Root)
  <2>1. Go(q, "validate")
    BY <1>4 DEF SaveProfile
  <2>2. req[q].role \in Roles /\ req[q].role # NoRole /\ req[q].user \in Staff
    BY <1>1, <1>4 DEF Staff
  <2>3. QED
    BY <1>1, <1>A, <2>1, <2>2, GoFields DEF SaveProfile, history
<1>5. QED
  BY <1>3, <1>4

LEMMA ValidateFields ==
  ASSUME TypeOK, NEW q \in Requests, Validate(q)
  PROVE  /\ req' \in [Requests -> ReqState] /\ At(q, "validate")
         /\ \/ req'[q].pc = "over"
            \/ /\ req'[q].pc = "member" /\ req'[q].shape \in Shapes /\ req'[q].shape = role[req[q].role]
               /\ Admissible(req'[q].reach, req'[q].shape, req'[q].office)
               /\ req'[q].role = req[q].role /\ req'[q].user = req[q].user /\ req'[q].reach = req[q].reach
         /\ \A p \in Requests : p # q => req'[p] = req[p]
         /\ UNCHANGED <<acct, member, groups, role, granted, since, owed, overlap>>
<1> DEFINE state == [req[q] EXCEPT !.pc = "member", !.shape = role[req[q].role]]
<1>1. req[q] \in ReqState
  BY DEF TypeOK
<1>2. CASE Defined(req[q].role) /\ Admissible(req[q].reach, role[req[q].role], req[q].office)
  <2>1. Move(q, state)
    BY <1>2 DEF Validate
  <2>2. role[req[q].role] \in Shapes
    BY <1>2 DEF Defined
  <2>3. /\ state \in ReqState
        /\ state.pc = "member" /\ state.shape = role[req[q].role]
        /\ state.role = req[q].role /\ state.user = req[q].user /\ state.reach = req[q].reach
        /\ state.office = req[q].office
    BY <1>1, <2>2 DEF ReqState, Positions
  <2>4. QED
    BY <1>2, <2>1, <2>2, <2>3, Moved DEF Validate, rows, history
<1>3. CASE ~(Defined(req[q].role) /\ Admissible(req[q].reach, role[req[q].role], req[q].office))
  BY <1>3, FinishFields DEF Validate, rows, history
<1>4. QED
  BY <1>2, <1>3

LEMMA WriteMemberFields ==
  ASSUME TypeOK, Placed, NEW q \in Requests, WriteMember(q)
  PROVE  /\ req' \in [Requests -> ReqState] /\ At(q, "member")
         /\ req[q].role \in Roles /\ req[q].user \in Staff /\ req[q].office \in Places /\ req[q].shape \in Shapes
         /\ \/ /\ req'[q].pc = "over" /\ UNCHANGED <<member, owed>>
            \/ /\ req'[q].pc = "sync" /\ req'[q].todo = {req[q].user} \X Scopes /\ req'[q].shape = req[q].shape
               /\ Defined(req[q].role)
               /\ member'[req[q].user].role = req[q].role /\ member'[req[q].user].office = req[q].office
               /\ \A u \in Staff : u # req[q].user => member'[u] = member[u]
               /\ owed' = owed \ {req[q].user}
         /\ member' \in [Staff -> Membership]
         /\ \A p \in Requests : p # q => req'[p] = req[p]
         /\ Restarted
         /\ UNCHANGED <<acct, groups, role, granted, overlap>>
<1> DEFINE state == [req[q] EXCEPT !.pc = "sync", !.todo = {req[q].user} \X Scopes]
<1>1. req[q] \in ReqState
  BY DEF TypeOK
<1>2. req[q].role \in Roles /\ req[q].user \in Staff /\ req[q].shape \in Shapes
  BY DEF WriteMember, Placed
<1>3. req[q].office \in Places
  BY <1>1 DEF ReqState
<1>4. CASE Defined(req[q].role)
  <2>1. Move(q, state)
    BY <1>4 DEF WriteMember
  <2>2. {req[q].user} \X Scopes \in SUBSET (Staff \X Scopes)
    BY <1>2
  <2>3. state \in ReqState /\ state.pc = "sync" /\ state.todo = {req[q].user} \X Scopes /\ state.shape = req[q].shape
    BY <1>1, <2>2 DEF ReqState, Positions
  <2>4. member' = [member EXCEPT ![req[q].user] = [role |-> req[q].role, office |-> req[q].office]]
    BY <1>4 DEF WriteMember
  <2>5. /\ member' \in [Staff -> Membership]
        /\ member'[req[q].user].role = req[q].role /\ member'[req[q].user].office = req[q].office
        /\ \A u \in Staff : u # req[q].user => member'[u] = member[u]
    BY <1>2, <1>3, <2>4 DEF TypeOK, Membership
  <2>6. QED
    BY <1>2, <1>3, <1>4, <2>1, <2>3, <2>5, Moved DEF WriteMember
<1>5. CASE ~Defined(req[q].role)
  <2>1. member' \in [Staff -> Membership]
    BY <1>5 DEF WriteMember, TypeOK
  <2>2. QED
    BY <1>2, <1>3, <1>5, <2>1, FinishFields DEF WriteMember
<1>6. QED
  BY <1>4, <1>5

LEMMA SyncFields ==
  ASSUME TypeOK, NEW q \in Requests, Sync(q)
  PROVE  \E u \in Staff, s \in Scopes :
         /\ req' \in [Requests -> ReqState] /\ At(q, "sync") /\ <<u, s>> \in req[q].todo
         /\ groups' \in [Staff -> SUBSET Scopes]
         /\ \A v \in Staff : \A t \in Scopes : <<v, t>> # <<u, s>> => (t \in groups'[v] <=> t \in groups[v])
         /\ s \in groups'[u] <=> s \in req[q].shape.scopes
         /\ \/ req'[q].pc = "over" /\ req[q].todo = {<<u, s>>}
            \/ /\ req'[q].pc = "sync" /\ req'[q].todo = req[q].todo \ {<<u, s>>}
               /\ req'[q].shape = req[q].shape
         /\ \A p \in Requests : p # q => req'[p] = req[p]
         /\ UNCHANGED <<acct, member, role, granted, since, owed, overlap>>
<1>1. req[q] \in ReqState
  BY DEF TypeOK
<1>2. PICK p \in req[q].todo :
          /\ groups' = [groups EXCEPT ![p[1]] = Synced(p[1], p[2], req[q].shape.scopes)]
          /\ IF req[q].todo = {p} THEN Finish(q) ELSE Move(q, [req[q] EXCEPT !.todo = @ \ {p}])
  BY DEF Sync
<1>3. req[q].todo \subseteq Staff \X Scopes
  BY <1>1 DEF ReqState
<1>4. p[1] \in Staff /\ p[2] \in Scopes /\ p = <<p[1], p[2]>>
  BY <1>2, <1>3
<1>A. /\ groups' \in [Staff -> SUBSET Scopes]
      /\ \A v \in Staff : v # p[1] => groups'[v] = groups[v]
      /\ groups'[p[1]] = Synced(p[1], p[2], req[q].shape.scopes)
  <2>1. Synced(p[1], p[2], req[q].shape.scopes) \in SUBSET Scopes
    BY <1>4 DEF Synced, TypeOK
  <2>2. QED
    BY <1>2, <1>4, <2>1 DEF TypeOK
<1>B. /\ \A v \in Staff : \A t \in Scopes : <<v, t>> # <<p[1], p[2]>> => (t \in groups'[v] <=> t \in groups[v])
      /\ p[2] \in groups'[p[1]] <=> p[2] \in req[q].shape.scopes
  BY <1>4, <1>A DEF Synced
<1>5. At(q, "sync") /\ UNCHANGED <<acct, member, role, granted, since, owed, overlap>>
  BY DEF Sync, history
<1>6. CASE req[q].todo = {p}
  <2>1. Finish(q)
    BY <1>2, <1>6
  <2>2. QED
    BY <1>2, <1>4, <1>A, <1>B, <1>5, <1>6, <2>1, FinishFields
<1>7. CASE req[q].todo # {p}
  <2> DEFINE state == [req[q] EXCEPT !.todo = @ \ {p}]
  <2>1. Move(q, state)
    BY <1>2, <1>7
  <2>2. req[q].todo \ {p} \in SUBSET (Staff \X Scopes)
    BY <1>3
  <2>3. /\ state \in ReqState
        /\ state.pc = req[q].pc /\ state.todo = req[q].todo \ {p} /\ state.shape = req[q].shape
    BY <1>1, <2>2 DEF ReqState
  <2>4. QED
    <3>1. /\ req' \in [Requests -> ReqState]
          /\ req'[q].pc = "sync" /\ req'[q].todo = req[q].todo \ {p} /\ req'[q].shape = req[q].shape
          /\ \A r \in Requests : r # q => req'[r] = req[r]
      BY <1>5, <2>1, <2>3, Moved DEF At
    <3>2. <<p[1], p[2]>> \in req[q].todo /\ req'[q].todo = req[q].todo \ {<<p[1], p[2]>>}
      BY <1>4, <3>1
    <3>3. QED
      BY <1>4, <1>A, <1>B, <1>5, <3>1, <3>2
<1>8. QED
  BY <1>6, <1>7

LEMMA CommitUserFields ==
  ASSUME TypeOK, Placed, NEW q \in Requests, CommitUser(q)
  PROVE  /\ req' \in [Requests -> ReqState] /\ At(q, "create") /\ req'[q].pc = "over"
         /\ req[q].role \in Roles /\ req[q].user \in Staff /\ req[q].office \in Places /\ req[q].shape \in Shapes
         /\ \/ UNCHANGED <<acct, member, groups>>
            \/ /\ acct[req[q].user] = "absent" /\ Defined(req[q].role)
               /\ member'[req[q].user].role = req[q].role /\ member'[req[q].user].office = req[q].office
               /\ groups'[req[q].user] = req[q].shape.scopes
               /\ acct'[req[q].user] = "active"
               /\ \A u \in Staff : u # req[q].user => member'[u] = member[u] /\ groups'[u] = groups[u]
               /\ \A u \in Users : u # req[q].user => acct'[u] = acct[u]
         /\ acct' \in [Users -> Account] /\ member' \in [Staff -> Membership] /\ groups' \in [Staff -> SUBSET Scopes]
         /\ \A p \in Requests : p # q => req'[p] = req[p]
         /\ Restarted
         /\ UNCHANGED <<role, granted, owed, overlap>>
<1>1. req[q].role \in Roles /\ req[q].user \in Staff /\ req[q].shape \in Shapes
  BY DEF CommitUser, Placed
<1>2. req[q].office \in Places
  BY DEF TypeOK, ReqState
<1>3. req[q].shape.scopes \in SUBSET Scopes /\ req[q].user \in Users
  BY <1>1, AccessAssumption DEF Shape, Staff
<1>4. CASE acct[req[q].user] = "absent" /\ Defined(req[q].role)
  <2>1. /\ acct' = [acct EXCEPT ![req[q].user] = "active"]
        /\ member' = [member EXCEPT ![req[q].user] = [role |-> req[q].role, office |-> req[q].office]]
        /\ groups' = [groups EXCEPT ![req[q].user] = req[q].shape.scopes]
    BY <1>4 DEF CommitUser
  <2>2. /\ member' \in [Staff -> Membership]
        /\ member'[req[q].user].role = req[q].role /\ member'[req[q].user].office = req[q].office
        /\ \A u \in Staff : u # req[q].user => member'[u] = member[u]
    BY <1>1, <1>2, <2>1 DEF TypeOK, Membership
  <2>3. /\ groups' \in [Staff -> SUBSET Scopes] /\ groups'[req[q].user] = req[q].shape.scopes
        /\ \A u \in Staff : u # req[q].user => groups'[u] = groups[u]
    BY <1>1, <1>3, <2>1 DEF TypeOK
  <2>4. /\ acct' \in [Users -> Account] /\ acct'[req[q].user] = "active"
        /\ \A u \in Users : u # req[q].user => acct'[u] = acct[u]
    BY <1>3, <2>1 DEF TypeOK, Account
  <2>5. QED
    BY <1>1, <1>2, <1>4, <2>2, <2>3, <2>4, FinishFields DEF CommitUser
<1>5. CASE ~(acct[req[q].user] = "absent" /\ Defined(req[q].role))
  <2>1. UNCHANGED <<acct, member, groups>>
    BY <1>5 DEF CommitUser
  <2>2. acct' \in [Users -> Account] /\ member' \in [Staff -> Membership] /\ groups' \in [Staff -> SUBSET Scopes]
    BY <2>1 DEF TypeOK
  <2>3. QED
    BY <1>1, <1>2, <2>1, <2>2, FinishFields DEF CommitUser
<1>6. QED
  BY <1>4, <1>5

LEMMA SaveRoleFields ==
  ASSUME TypeOK, Placed, NEW q \in Requests, SaveRole(q)
  PROVE  /\ req' \in [Requests -> ReqState] /\ At(q, "save") /\ req'[q].pc = "list"
         /\ req[q].role \in Roles /\ req'[q].role = req[q].role /\ req[q].shape \in Shapes
         /\ req'[q].shape = req[q].shape
         /\ role' \in [Roles -> Shapes \cup {Unused, Deleted}] /\ role'[req[q].role] = req[q].shape
         /\ \A r \in Roles : r # req[q].role => role'[r] = role[r]
         /\ \A p \in Requests : p # q => req'[p] = req[p]
         /\ Restarted
         /\ UNCHANGED <<acct, member, groups, granted, owed, overlap>>
<1>1. req[q].role \in Roles /\ req[q].shape \in Shapes
  BY DEF SaveRole, Placed
<1>2. "list" \in Positions
  BY DEF Positions
<1>3. /\ role' \in [Roles -> Shapes \cup {Unused, Deleted}] /\ role'[req[q].role] = req[q].shape
      /\ \A r \in Roles : r # req[q].role => role'[r] = role[r]
  BY <1>1 DEF SaveRole, TypeOK
<1>4. QED
  BY <1>1, <1>2, <1>3, GoFields DEF SaveRole

LEMMA ListMembersFields ==
  ASSUME TypeOK, Placed, NEW q \in Requests, ListMembers(q)
  PROVE  /\ req' \in [Requests -> ReqState] /\ At(q, "list") /\ req[q].role \in Roles
         /\ \/ req'[q].pc = "over" /\ MembersOf(req[q].role) \X Scopes = {}
            \/ /\ req'[q].pc = "sync" /\ req'[q].todo = MembersOf(req[q].role) \X Scopes
               /\ req'[q].shape = req[q].shape
         /\ \A p \in Requests : p # q => req'[p] = req[p]
         /\ owed' = owed \ MembersOf(req[q].role)
         /\ Restarted
         /\ UNCHANGED <<acct, member, groups, role, granted, overlap>>
<1> DEFINE todo == MembersOf(req[q].role) \X Scopes
           state == [req[q] EXCEPT !.todo = todo, !.pc = "sync"]
<1>1. req[q] \in ReqState /\ req[q].role \in Roles
  BY DEF TypeOK, ListMembers, Placed
<1>2. todo \in SUBSET (Staff \X Scopes)
  BY DEF MembersOf
<1>3. CASE todo = {}
  BY <1>1, <1>3, FinishFields DEF ListMembers, rows
<1>4. CASE todo # {}
  <2>1. Move(q, state)
    BY <1>4 DEF ListMembers
  <2>2. state \in ReqState /\ state.pc = "sync" /\ state.todo = todo /\ state.shape = req[q].shape
    BY <1>1, <1>2 DEF ReqState, Positions
  <2>3. QED
    BY <1>1, <2>1, <2>2, Moved DEF ListMembers, rows
<1>5. QED
  BY <1>3, <1>4

LEMMA KillFields ==
  ASSUME TypeOK, NEW q \in Requests, Kill(q)
  PROVE  /\ req' \in [Requests -> ReqState] /\ InFlight(q) /\ req'[q].pc = "over"
         /\ \A p \in Requests : p # q => req'[p] = req[p]
         /\ At(q, "list") => owed' = owed \cup MembersOf(req[q].role)
         /\ ~At(q, "list") => owed' = owed \cup {p[1] : p \in req[q].todo}
         /\ owed' \subseteq Staff /\ owed \subseteq owed'
         /\ UNCHANGED <<acct, member, groups, role, granted, since, overlap>>
<1>1. req[q].todo \subseteq Staff \X Scopes /\ owed \subseteq Staff
  BY DEF TypeOK, ReqState
<1>2. {p[1] : p \in req[q].todo} \subseteq Staff /\ MembersOf(req[q].role) \subseteq Staff
  BY <1>1 DEF MembersOf
<1>3. QED
  BY <1>1, <1>2, FinishFields DEF Kill, rows


\* The clocks stay within their bounds.
LEMMA RestartedTyped ==
  ASSUME TypeOK, Restarted
  PROVE  since' \in [Staff -> [Scopes -> 0..Lifetime]]
<1>1. \A u \in Staff : \A s \in Scopes :
        (IF s \in Due(u)' \/ u \in owed \ owed' THEN 0 ELSE since[u][s]) \in 0..Lifetime
  BY AccessAssumption DEF TypeOK
<1>2. QED
  BY <1>1 DEF Restarted

\* What the clocks show after a step that restarts them.
LEMMA RestartedFields ==
  ASSUME TypeOK, Restarted, NEW u \in Staff, NEW s \in Scopes
  PROVE  /\ s \in Due(u)' \/ u \in owed \ owed' => since'[u][s] = 0
         /\ since'[u][s] = 0 \/ since'[u][s] = since[u][s]
BY DEF Restarted

\* What is due changes with the membership and the role only.
LEMMA DueSame ==
  ASSUME NEW u \in Staff, member'[u] = member[u],
         member[u].role \in Roles => role'[member[u].role] = role[member[u].role]
  PROVE  Due(u)' = Due(u)
BY DEF Due, Belongs, Defined, ShapeOf

\* Nor does it change when a role nobody has comes or goes.
LEMMA DueOfOthers ==
  ASSUME TypeOK, RoleInUseStays, CreateRole \/ DeleteRole
  PROVE  /\ \A u \in Staff : member[u].role \in Roles => role'[member[u].role] = role[member[u].role]
         /\ \A r \in Roles : role'[r] = role[r] \/ role[r] = Unused \/ role'[r] = Deleted
         /\ UNCHANGED <<acct, member, groups, req, granted, since, owed, overlap>>
<1>1. CASE CreateRole
  <2>1. PICK r \in Roles, shape \in Shapes : role[r] = Unused /\ role' = [role EXCEPT ![r] = shape]
    BY <1>1 DEF CreateRole
  <2>2. \A u \in Staff : member[u].role # r
    BY <2>1, AccessAssumption DEF RoleInUseStays, Belongs, Defined
  <2>3. QED
    BY <1>1, <2>1, <2>2 DEF CreateRole, TypeOK, history
<1>2. CASE DeleteRole
  <2>1. PICK r \in Roles : Removable(r) /\ role' = [role EXCEPT ![r] = Deleted]
    BY <1>2 DEF DeleteRole
  <2>2. \A u \in Staff : member[u].role # r
    BY <2>1 DEF Removable, MembersOf
  <2>3. QED
    BY <1>2, <2>1, <2>2 DEF DeleteRole, TypeOK, history
<1>3. QED
  BY <1>1, <1>2

\* Rows, requests and clocks keep their types.
LEMMA TypeStep ==
  ASSUME TypeOK, Placed, RootExists, [Next]_vars
  PROVE  TypeOK'
<1>1. ASSUME NEW q \in Requests, BeginPatchUser(q) PROVE TypeOK'
  BY <1>1, BeginPatchUserFields, AccessAssumption DEF TypeOK, Membership, Account, Places
<1>2. ASSUME NEW q \in Requests, BeginPatchSelf(q) PROVE TypeOK'
  BY <1>2, BeginPatchSelfFields, AccessAssumption DEF TypeOK, Membership, Account, Places
<1>3. ASSUME NEW q \in Requests, SaveProfile(q) PROVE TypeOK'
  BY <1>3, SaveProfileFields, AccessAssumption DEF TypeOK, Membership, Account, Places
<1>4. ASSUME NEW q \in Requests, Validate(q) PROVE TypeOK'
  BY <1>4, ValidateFields, AccessAssumption DEF TypeOK, Membership, Account, Places
<1>5. ASSUME NEW q \in Requests, WriteMember(q) PROVE TypeOK'
  <2>1. since' \in [Staff -> [Scopes -> 0..Lifetime]]
    BY <1>5, WriteMemberFields, RestartedTyped
  <2>2. QED
    BY <1>5, <2>1, WriteMemberFields DEF TypeOK
<1>6. ASSUME NEW q \in Requests, Sync(q) PROVE TypeOK'
  BY <1>6, SyncFields DEF TypeOK
<1>7. ASSUME NEW q \in Requests, BeginCreateUser(q) PROVE TypeOK'
  BY <1>7, BeginCreateUserFields, AccessAssumption DEF TypeOK, Membership, Account, Places
<1>8. ASSUME NEW q \in Requests, CommitUser(q) PROVE TypeOK'
  <2>1. since' \in [Staff -> [Scopes -> 0..Lifetime]]
    BY <1>8, CommitUserFields, RestartedTyped
  <2>2. QED
    BY <1>8, <2>1, CommitUserFields DEF TypeOK
<1>9. ASSUME NEW q \in Requests, BeginPatchRole(q) PROVE TypeOK'
  BY <1>9, BeginPatchRoleFields, AccessAssumption DEF TypeOK, Membership, Account, Places
<1>10. ASSUME NEW q \in Requests, SaveRole(q) PROVE TypeOK'
  <2>1. since' \in [Staff -> [Scopes -> 0..Lifetime]]
    BY <1>10, SaveRoleFields, RestartedTyped
  <2>2. QED
    BY <1>10, <2>1, SaveRoleFields DEF TypeOK
<1>11. ASSUME NEW q \in Requests, ListMembers(q) PROVE TypeOK'
  <2>1. since' \in [Staff -> [Scopes -> 0..Lifetime]]
    BY <1>11, ListMembersFields, RestartedTyped
  <2>2. QED
    BY <1>11, <2>1, ListMembersFields DEF TypeOK
<1>12. ASSUME NEW q \in Requests, Kill(q) PROVE TypeOK'
  BY <1>12, KillFields, AccessAssumption DEF TypeOK, Membership, Account, Places
<1>13. ASSUME CreateRole PROVE TypeOK'
  BY <1>13, AccessAssumption DEF CreateRole, rows, history, TypeOK, Membership, Account, Places
<1>14. ASSUME DeleteRole PROVE TypeOK'
  BY <1>14, AccessAssumption DEF DeleteRole, rows, history, TypeOK, Membership, Account, Places
<1>15. ASSUME NEW u \in Staff, Login(u) PROVE TypeOK'
  <2>1. granted' = [granted EXCEPT ![u][Lifetime] = granted[u][Lifetime] \cup groups[u]] /\ Lifetime \in 1..Lifetime
    BY <1>15, AccessAssumption DEF Login, Issued
  <2>2. granted' \in [Staff -> [1..Lifetime -> SUBSET Scopes]]
    <3>1. granted[u][Lifetime] \cup groups[u] \in SUBSET Scopes
      BY <2>1 DEF TypeOK
    <3>2. [granted[u] EXCEPT ![Lifetime] = granted[u][Lifetime] \cup groups[u]] \in [1..Lifetime -> SUBSET Scopes]
      BY <2>1, <3>1 DEF TypeOK
    <3>3. granted' = [granted EXCEPT ![u] = [granted[u] EXCEPT ![Lifetime] = granted[u][Lifetime] \cup groups[u]]]
      BY <2>1 DEF TypeOK
    <3>4. QED
      BY <1>15, <3>2, <3>3 DEF TypeOK
  <2>3. QED
    BY <1>15, <2>2 DEF Login, TypeOK, rows, history
<1>16. ASSUME Tick PROVE TypeOK'
  <2>1. granted' \in [Staff -> [1..Lifetime -> SUBSET Scopes]]
    <3>1. \A u \in Staff : \A l \in 1..Lifetime :
            (IF l = Lifetime THEN {} ELSE granted[u][l + 1]) \in SUBSET Scopes
      BY AccessAssumption DEF TypeOK
    <3>2. QED
      BY <1>16, <3>1 DEF Tick
  <2>2. since' \in [Staff -> [Scopes -> 0..Lifetime]]
    <3>1. \A u \in Staff : \A s \in Scopes :
            (IF s \in Due(u) THEN 0 ELSE IF since[u][s] < Lifetime THEN since[u][s] + 1 ELSE Lifetime) \in 0..Lifetime
      BY AccessAssumption DEF TypeOK
    <3>2. QED
      BY <1>16, <3>1 DEF Tick
  <2>3. QED
    BY <1>16, <2>1, <2>2 DEF Tick, TypeOK, rows
<1>17. CASE UNCHANGED vars
  BY <1>17, AccessAssumption DEF vars, rows, history, TypeOK, Membership, Account, Places
<1>18. QED
  BY <1>1, <1>2, <1>3, <1>4, <1>5, <1>6, <1>7, <1>8, <1>9, <1>10, <1>11, <1>12, <1>13, <1>14,
     <1>15, <1>16, <1>17
     DEF Next

\* Requests hold what they may.
LEMMA PlacedStep ==
  ASSUME TypeOK, RootExists, Placed, [Next]_vars
  PROVE  Placed'
<1>1. ASSUME NEW q \in Requests, BeginPatchUser(q) PROVE Placed'
  BY <1>1, BeginPatchUserFields DEF Placed, At
<1>2. ASSUME NEW q \in Requests, BeginPatchSelf(q) PROVE Placed'
  BY <1>2, BeginPatchSelfFields DEF Placed, At
<1>3. ASSUME NEW q \in Requests, SaveProfile(q) PROVE Placed'
  BY <1>3, SaveProfileFields DEF Placed, At
<1>4. ASSUME NEW q \in Requests, Validate(q) PROVE Placed'
  BY <1>4, ValidateFields DEF Placed, At
<1>5. ASSUME NEW q \in Requests, WriteMember(q) PROVE Placed'
  BY <1>5, WriteMemberFields DEF Placed, At
<1>6. ASSUME NEW q \in Requests, Sync(q) PROVE Placed'
  BY <1>6, SyncFields DEF TypeOK, Placed, At
<1>7. ASSUME NEW q \in Requests, BeginCreateUser(q) PROVE Placed'
  BY <1>7, BeginCreateUserFields DEF Placed, At
<1>8. ASSUME NEW q \in Requests, CommitUser(q) PROVE Placed'
  BY <1>8, CommitUserFields DEF Placed, At
<1>9. ASSUME NEW q \in Requests, BeginPatchRole(q) PROVE Placed'
  BY <1>9, BeginPatchRoleFields DEF Placed, At
<1>10. ASSUME NEW q \in Requests, SaveRole(q) PROVE Placed'
  BY <1>10, SaveRoleFields DEF Placed, At
<1>11. ASSUME NEW q \in Requests, ListMembers(q) PROVE Placed'
  BY <1>11, ListMembersFields DEF Placed, At
<1>12. ASSUME NEW q \in Requests, Kill(q) PROVE Placed'
  BY <1>12, KillFields DEF Placed, At
<1>13. ASSUME CreateRole PROVE Placed'
  BY <1>13 DEF CreateRole, rows, history, Placed, At
<1>14. ASSUME DeleteRole PROVE Placed'
  BY <1>14 DEF DeleteRole, rows, history, Placed, At
<1>15. ASSUME NEW u \in Staff, Login(u) PROVE Placed'
  BY <1>15 DEF Login, rows, history, Placed, At
<1>16. ASSUME Tick PROVE Placed'
  BY <1>16 DEF Tick, rows, history, Placed, At
<1>17. CASE UNCHANGED vars
  BY <1>17 DEF vars, rows, history, Placed, At
<1>18. QED
  BY <1>1, <1>2, <1>3, <1>4, <1>5, <1>6, <1>7, <1>8, <1>9, <1>10, <1>11, <1>12, <1>13, <1>14,
     <1>15, <1>16, <1>17
     DEF Next

\* The superuser stays.
LEMMA RootStep ==
  ASSUME TypeOK, RootExists, Placed, [Next]_vars
  PROVE  RootExists'
<1>1. ASSUME NEW q \in Requests, BeginPatchUser(q) PROVE RootExists'
  BY <1>1, BeginPatchUserFields DEF RootExists
<1>2. ASSUME NEW q \in Requests, BeginPatchSelf(q) PROVE RootExists'
  BY <1>2, BeginPatchSelfFields DEF RootExists
<1>3. ASSUME NEW q \in Requests, SaveProfile(q) PROVE RootExists'
  <2>1. Written(req[q]) # "absent"
    BY <1>3, SaveProfileFields DEF Written, Placed, TypeOK, ReqState, Asks, At
  <2>2. QED
    BY <1>3, <2>1, SaveProfileFields, AccessAssumption DEF RootExists
<1>4. ASSUME NEW q \in Requests, Validate(q) PROVE RootExists'
  BY <1>4, ValidateFields DEF RootExists
<1>5. ASSUME NEW q \in Requests, WriteMember(q) PROVE RootExists'
  BY <1>5, WriteMemberFields DEF RootExists
<1>6. ASSUME NEW q \in Requests, Sync(q) PROVE RootExists'
  BY <1>6, SyncFields DEF RootExists
<1>7. ASSUME NEW q \in Requests, BeginCreateUser(q) PROVE RootExists'
  BY <1>7, BeginCreateUserFields DEF RootExists
<1>8. ASSUME NEW q \in Requests, CommitUser(q) PROVE RootExists'
  BY <1>8, CommitUserFields, AccessAssumption DEF Staff, RootExists
<1>9. ASSUME NEW q \in Requests, BeginPatchRole(q) PROVE RootExists'
  BY <1>9, BeginPatchRoleFields DEF RootExists
<1>10. ASSUME NEW q \in Requests, SaveRole(q) PROVE RootExists'
  BY <1>10, SaveRoleFields DEF RootExists
<1>11. ASSUME NEW q \in Requests, ListMembers(q) PROVE RootExists'
  BY <1>11, ListMembersFields DEF RootExists
<1>12. ASSUME NEW q \in Requests, Kill(q) PROVE RootExists'
  BY <1>12, KillFields DEF RootExists
<1>13. ASSUME CreateRole PROVE RootExists'
  BY <1>13 DEF CreateRole, rows, history, RootExists
<1>14. ASSUME DeleteRole PROVE RootExists'
  BY <1>14 DEF DeleteRole, rows, history, RootExists
<1>15. ASSUME NEW u \in Staff, Login(u) PROVE RootExists'
  BY <1>15 DEF Login, rows, history, RootExists
<1>16. ASSUME Tick PROVE RootExists'
  BY <1>16 DEF Tick, rows, history, RootExists
<1>17. CASE UNCHANGED vars
  BY <1>17 DEF vars, rows, history, RootExists
<1>18. QED
  BY <1>1, <1>2, <1>3, <1>4, <1>5, <1>6, <1>7, <1>8, <1>9, <1>10, <1>11, <1>12, <1>13, <1>14,
     <1>15, <1>16, <1>17
     DEF Next

\* Requests are counted as they begin.
LEMMA AloneStep ==
  ASSUME TypeOK, RootExists, Placed, Alone, [Next]_vars
  PROVE  Alone'
<1>1. ASSUME NEW q \in Requests, BeginPatchUser(q) PROVE Alone'
  BY <1>1, BeginPatchUserFields DEF Alone, InFlight, At, Quiet
<1>2. ASSUME NEW q \in Requests, BeginPatchSelf(q) PROVE Alone'
  BY <1>2, BeginPatchSelfFields DEF Alone, InFlight, At, Quiet
<1>3. ASSUME NEW q \in Requests, SaveProfile(q) PROVE Alone'
  BY <1>3, SaveProfileFields DEF Alone, InFlight, At, Quiet
<1>4. ASSUME NEW q \in Requests, Validate(q) PROVE Alone'
  BY <1>4, ValidateFields DEF Alone, InFlight, At, Quiet
<1>5. ASSUME NEW q \in Requests, WriteMember(q) PROVE Alone'
  BY <1>5, WriteMemberFields DEF Alone, InFlight, At, Quiet
<1>6. ASSUME NEW q \in Requests, Sync(q) PROVE Alone'
  BY <1>6, SyncFields DEF Alone, InFlight, At
<1>7. ASSUME NEW q \in Requests, BeginCreateUser(q) PROVE Alone'
  BY <1>7, BeginCreateUserFields DEF Alone, InFlight, At, Quiet
<1>8. ASSUME NEW q \in Requests, CommitUser(q) PROVE Alone'
  BY <1>8, CommitUserFields DEF Alone, InFlight, At, Quiet
<1>9. ASSUME NEW q \in Requests, BeginPatchRole(q) PROVE Alone'
  BY <1>9, BeginPatchRoleFields DEF Alone, InFlight, At, Quiet
<1>10. ASSUME NEW q \in Requests, SaveRole(q) PROVE Alone'
  BY <1>10, SaveRoleFields DEF Alone, InFlight, At, Quiet
<1>11. ASSUME NEW q \in Requests, ListMembers(q) PROVE Alone'
  BY <1>11, ListMembersFields DEF Alone, InFlight, At, Quiet
<1>12. ASSUME NEW q \in Requests, Kill(q) PROVE Alone'
  BY <1>12, KillFields DEF Alone, InFlight, At, Quiet
<1>13. ASSUME CreateRole PROVE Alone'
  BY <1>13 DEF CreateRole, rows, history, Alone, InFlight, At, Quiet
<1>14. ASSUME DeleteRole PROVE Alone'
  BY <1>14 DEF DeleteRole, rows, history, Alone, InFlight, At, Quiet
<1>15. ASSUME NEW u \in Staff, Login(u) PROVE Alone'
  BY <1>15 DEF Login, rows, history, Alone, InFlight, At, Quiet
<1>16. ASSUME Tick PROVE Alone'
  BY <1>16 DEF Tick, rows, history, Alone, InFlight, At, Quiet
<1>17. CASE UNCHANGED vars
  BY <1>17 DEF vars, rows, history, Alone, InFlight, At, Quiet
<1>18. QED
  BY <1>1, <1>2, <1>3, <1>4, <1>5, <1>6, <1>7, <1>8, <1>9, <1>10, <1>11, <1>12, <1>13, <1>14,
     <1>15, <1>16, <1>17
     DEF Next

\* A role in use stays.
LEMMA RoleStep ==
  ASSUME TypeOK, RootExists, Placed, RoleInUseStays, [Next]_vars
  PROVE  RoleInUseStays'
<1>1. ASSUME NEW q \in Requests, BeginPatchUser(q) PROVE RoleInUseStays'
  BY <1>1, BeginPatchUserFields DEF RoleInUseStays, Belongs, Defined, TypeOK, Membership
<1>2. ASSUME NEW q \in Requests, BeginPatchSelf(q) PROVE RoleInUseStays'
  BY <1>2, BeginPatchSelfFields DEF RoleInUseStays, Belongs, Defined, TypeOK, Membership
<1>3. ASSUME NEW q \in Requests, SaveProfile(q) PROVE RoleInUseStays'
  BY <1>3, SaveProfileFields DEF RoleInUseStays, Belongs, Defined, TypeOK, Membership
<1>4. ASSUME NEW q \in Requests, Validate(q) PROVE RoleInUseStays'
  BY <1>4, ValidateFields DEF RoleInUseStays, Belongs, Defined, TypeOK, Membership
<1>5. ASSUME NEW q \in Requests, WriteMember(q) PROVE RoleInUseStays'
  BY <1>5, WriteMemberFields DEF RoleInUseStays, Belongs, Defined, TypeOK, Membership
<1>6. ASSUME NEW q \in Requests, Sync(q) PROVE RoleInUseStays'
  BY <1>6, SyncFields DEF RoleInUseStays, Belongs, Defined, TypeOK, Membership
<1>7. ASSUME NEW q \in Requests, BeginCreateUser(q) PROVE RoleInUseStays'
  BY <1>7, BeginCreateUserFields DEF RoleInUseStays, Belongs, Defined, TypeOK, Membership
<1>8. ASSUME NEW q \in Requests, CommitUser(q) PROVE RoleInUseStays'
  BY <1>8, CommitUserFields DEF RoleInUseStays, Belongs, Defined, TypeOK, Membership
<1>9. ASSUME NEW q \in Requests, BeginPatchRole(q) PROVE RoleInUseStays'
  BY <1>9, BeginPatchRoleFields DEF RoleInUseStays, Belongs, Defined, TypeOK, Membership
<1>10. ASSUME NEW q \in Requests, SaveRole(q) PROVE RoleInUseStays'
  BY <1>10, SaveRoleFields DEF RoleInUseStays, Belongs, Defined, TypeOK, Membership
<1>11. ASSUME NEW q \in Requests, ListMembers(q) PROVE RoleInUseStays'
  BY <1>11, ListMembersFields DEF RoleInUseStays, Belongs, Defined, TypeOK, Membership
<1>12. ASSUME NEW q \in Requests, Kill(q) PROVE RoleInUseStays'
  BY <1>12, KillFields DEF RoleInUseStays, Belongs, Defined, TypeOK, Membership
<1>13. ASSUME CreateRole PROVE RoleInUseStays'
  BY <1>13, AccessAssumption
     DEF CreateRole, rows, history, RoleInUseStays, Belongs, Defined, TypeOK, Membership
<1>14. ASSUME DeleteRole PROVE RoleInUseStays'
  BY <1>14
     DEF DeleteRole, rows, history, Removable, MembersOf, RoleInUseStays, Belongs, Defined,
         TypeOK, Membership
<1>15. ASSUME NEW u \in Staff, Login(u) PROVE RoleInUseStays'
  BY <1>15 DEF Login, rows, history, RoleInUseStays, Belongs, Defined, TypeOK, Membership
<1>16. ASSUME Tick PROVE RoleInUseStays'
  BY <1>16 DEF Tick, rows, history, RoleInUseStays, Belongs, Defined, TypeOK, Membership
<1>17. CASE UNCHANGED vars
  BY <1>17 DEF vars, rows, history, RoleInUseStays, Belongs, Defined, TypeOK, Membership
<1>18. QED
  BY <1>1, <1>2, <1>3, <1>4, <1>5, <1>6, <1>7, <1>8, <1>9, <1>10, <1>11, <1>12, <1>13, <1>14,
     <1>15, <1>16, <1>17
     DEF Next


-----------------------------------------------------------------------------
(* One request at a time                                                   *)

\* A step of a request.
Steps(q) ==
    \/ BeginPatchUser(q) \/ BeginPatchSelf(q) \/ SaveProfile(q) \/ Validate(q) \/ WriteMember(q) \/ Sync(q)
    \/ BeginCreateUser(q) \/ CommitUser(q)
    \/ BeginPatchRole(q) \/ SaveRole(q) \/ ListMembers(q)
    \/ Kill(q)

\* While requests run one at a time, the others rest when one of them moves.
LEMMA OthersRest ==
  ASSUME TypeOK, RootExists, Placed, Alone, NEW q \in Requests, Steps(q), ~overlap'
  PROVE  /\ ~overlap
         /\ \A p \in Requests : p # q => ~InFlight(p) /\ req'[p] = req[p]
<1>1. CASE BeginPatchUser(q)
  BY <1>1, BeginPatchUserFields DEF Quiet
<1>2. CASE BeginPatchSelf(q)
  BY <1>2, BeginPatchSelfFields DEF Quiet
<1>3. CASE BeginCreateUser(q)
  BY <1>3, BeginCreateUserFields DEF Quiet
<1>4. CASE BeginPatchRole(q)
  BY <1>4, BeginPatchRoleFields DEF Quiet
<1>5. CASE SaveProfile(q)
  BY <1>5, SaveProfileFields DEF Alone, InFlight, At
<1>6. CASE Validate(q)
  BY <1>6, ValidateFields DEF Alone, InFlight, At
<1>7. CASE WriteMember(q)
  BY <1>7, WriteMemberFields DEF Alone, InFlight, At
<1>8. CASE Sync(q)
  BY <1>8, SyncFields DEF Alone, InFlight, At
<1>9. CASE CommitUser(q)
  BY <1>9, CommitUserFields DEF Alone, InFlight, At
<1>10. CASE SaveRole(q)
  BY <1>10, SaveRoleFields DEF Alone, InFlight, At
<1>11. CASE ListMembers(q)
  BY <1>11, ListMembersFields DEF Alone, InFlight, At
<1>12. CASE Kill(q)
  BY <1>12, KillFields DEF Alone, InFlight, At
<1>13. QED
  BY <1>1, <1>2, <1>3, <1>4, <1>5, <1>6, <1>7, <1>8, <1>9, <1>10, <1>11, <1>12 DEF Steps

\* What the moving request holds is so.
LEMMA FreshMover ==
  ASSUME TypeOK, RootExists, Placed, RoleInUseStays, NEW q \in Requests, FreshAt(q), Steps(q)
  PROVE  FreshAt(q)'
<1>1. CASE BeginPatchUser(q)
  BY <1>1, BeginPatchUserFields DEF FreshAt, At
<1>2. CASE BeginPatchSelf(q)
  BY <1>2, BeginPatchSelfFields DEF FreshAt, At
<1>3. CASE BeginCreateUser(q)
  BY <1>3, BeginCreateUserFields DEF FreshAt, At, Admissible
<1>4. CASE BeginPatchRole(q)
  BY <1>4, BeginPatchRoleFields DEF FreshAt, At
<1>5. CASE SaveProfile(q)
  BY <1>5, SaveProfileFields DEF FreshAt, At
<1>6. CASE Validate(q)
  BY <1>6, ValidateFields DEF FreshAt, At, Admissible
<1>7. CASE WriteMember(q)
  <2>1. CASE req'[q].pc = "over"
    BY <2>1 DEF FreshAt, At
  <2>2. CASE req'[q].pc = "sync"
    <3>1. /\ req[q].role \in Roles /\ req[q].user \in Staff
          /\ req'[q].todo = {req[q].user} \X Scopes /\ req'[q].shape = req[q].shape
          /\ Defined(req[q].role) /\ member'[req[q].user].role = req[q].role /\ role' = role
      BY <1>7, <2>2, WriteMemberFields
    <3>2. role[req[q].role] = req[q].shape
      <4>1. role[req[q].role] \in {req[q].shape, Deleted}
        BY <1>7, WriteMemberFields DEF FreshAt
      <4>2. QED
        BY <3>1, <4>1, AccessAssumption DEF Defined
    <3>3. PICK w \in Staff : w = req[q].user
      BY <3>1
    <3>4. ASSUME NEW p \in req'[q].todo PROVE p[1] \in Staff /\ Belongs(p[1])' /\ ShapeOf(p[1])' = req'[q].shape
      <4>1. p[1] = w
        BY <3>1, <3>3
      <4>2. member'[w].role = req[q].role /\ role'[member'[w].role] = req[q].shape
        BY <3>1, <3>2, <3>3
      <4>3. QED
        BY <3>1, <4>1, <4>2 DEF Belongs, ShapeOf
    <3>5. QED
      BY <2>2, <3>4 DEF FreshAt, At
  <2>3. QED
    BY <1>7, <2>1, <2>2, WriteMemberFields
<1>8. CASE Sync(q)
  <2>1. CASE req'[q].pc = "over"
    BY <2>1 DEF FreshAt, At
  <2>2. CASE req'[q].pc = "sync"
    BY <1>8, <2>2, SyncFields DEF FreshAt, At, Belongs, ShapeOf
  <2>3. QED
    BY <1>8, <2>1, <2>2, SyncFields
<1>9. CASE CommitUser(q)
  BY <1>9, CommitUserFields DEF FreshAt, At
<1>10. CASE SaveRole(q)
  BY <1>10, SaveRoleFields DEF FreshAt, At
<1>11. CASE ListMembers(q)
  <2>1. CASE req'[q].pc = "over"
    BY <2>1 DEF FreshAt, At
  <2>2. CASE req'[q].pc = "sync"
    <3>1. /\ req[q].role \in Roles /\ req'[q].todo = MembersOf(req[q].role) \X Scopes
          /\ req'[q].shape = req[q].shape /\ role' = role /\ member' = member /\ At(q, "list")
      BY <1>11, <2>2, ListMembersFields
    <3>2. \A p \in req'[q].todo : p[1] \in Staff /\ member[p[1]].role = req[q].role
      BY <3>1 DEF MembersOf
    <3>3. ASSUME NEW p \in req'[q].todo PROVE role[req[q].role] = req[q].shape
      <4>1. Defined(req[q].role)
        BY <3>1, <3>2, <3>3 DEF RoleInUseStays, Belongs
      <4>2. role[req[q].role] \in {req[q].shape, Deleted}
        BY <3>1 DEF FreshAt
      <4>3. QED
        BY <4>1, <4>2, AccessAssumption DEF Defined
    <3>4. QED
      BY <2>2, <3>1, <3>2, <3>3 DEF FreshAt, At, Belongs, ShapeOf
  <2>3. QED
    BY <1>11, <2>1, <2>2, ListMembersFields
<1>12. CASE Kill(q)
  BY <1>12, KillFields DEF FreshAt, At
<1>13. QED
  BY <1>1, <1>2, <1>3, <1>4, <1>5, <1>6, <1>7, <1>8, <1>9, <1>10, <1>11, <1>12 DEF Steps

LEMMA FreshStep ==
  ASSUME TypeOK, RootExists, Placed, Alone, RoleInUseStays, Fresh, [Next]_vars
  PROVE  Fresh'
<1> SUFFICES ASSUME ~overlap', NEW p \in Requests PROVE FreshAt(p)'
  BY DEF Fresh
<1>1. ASSUME NEW q \in Requests, Steps(q) PROVE FreshAt(p)'
  <2>1. ~overlap /\ (p # q => ~InFlight(p) /\ req'[p] = req[p])
    BY <1>1, OthersRest
  <2>2. CASE p # q
    BY <2>1, <2>2 DEF FreshAt, InFlight, At
  <2>3. QED
    BY <1>1, <2>1, <2>2, FreshMover DEF Fresh
<1>2. ASSUME CreateRole \/ DeleteRole PROVE FreshAt(p)'
  <2>1. /\ \A u \in Staff : member[u].role \in Roles => role'[member[u].role] = role[member[u].role]
        /\ \A r \in Roles : role'[r] = role[r] \/ role[r] = Unused \/ role'[r] = Deleted
        /\ UNCHANGED <<acct, member, groups, req, granted, since, owed, overlap>>
    BY <1>2, DueOfOthers
  <2>2. FreshAt(p)
    BY <2>1 DEF Fresh
  <2>3. At(p, "member") \/ At(p, "create") \/ At(p, "list") => role'[req[p].role] \in {req[p].shape, Deleted}
    <3>1. CASE At(p, "member") \/ At(p, "create") \/ At(p, "list")
      <4>1. req[p].role \in Roles /\ req[p].shape \in Shapes /\ role[req[p].role] \in {req[p].shape, Deleted}
        BY <2>2, <3>1 DEF Placed, FreshAt
      <4>2. QED
        BY <2>1, <4>1, AccessAssumption
    <3>2. QED
      BY <3>1
  <2>4. At(p, "sync") => \A x \in req[p].todo : ShapeOf(x[1])' = ShapeOf(x[1])
    BY <2>1, <2>2 DEF FreshAt, Belongs, ShapeOf
  <2>5. QED
    BY <2>1, <2>2, <2>3, <2>4 DEF FreshAt, At, Belongs, Admissible
<1>3. ASSUME NEW u \in Staff, Login(u) PROVE FreshAt(p)'
  BY <1>3 DEF Login, rows, history, Fresh, FreshAt, At, Belongs, ShapeOf, Admissible
<1>4. ASSUME Tick PROVE FreshAt(p)'
  BY <1>4 DEF Tick, rows, Fresh, FreshAt, At, Belongs, ShapeOf, Admissible
<1>5. CASE UNCHANGED vars
  BY <1>5 DEF vars, rows, history, Fresh, FreshAt, At, Belongs, ShapeOf, Admissible
<1>6. QED
  BY <1>1, <1>2, <1>3, <1>4, <1>5 DEF Next, Steps


-----------------------------------------------------------------------------
(* Groups, clocks and tokens                                               *)

LEMMA DueNowStep ==
  ASSUME TypeOK, RootExists, Placed, RoleInUseStays, DueNow, [Next]_vars
  PROVE  DueNow'
<1> SUFFICES ASSUME NEW u \in Staff, NEW s \in Scopes, s \in Due(u)' PROVE since'[u][s] = 0
  BY DEF DueNow
<1>1. CASE Restarted
  BY <1>1, RestartedFields
<1>2. CASE UNCHANGED <<member, role, since>>
  BY <1>2, DueSame DEF DueNow
<1>3. CASE CreateRole \/ DeleteRole
  BY <1>3, DueOfOthers, DueSame DEF DueNow
<1>4. CASE Tick
  <2>1. s \in Due(u)
    BY <1>4, DueSame DEF Tick, rows
  <2>2. QED
    BY <1>4, <2>1 DEF Tick
<1>5. ASSUME NEW q \in Requests, Steps(q) PROVE Restarted \/ UNCHANGED <<member, role, since>>
  BY <1>5, BeginPatchUserFields, BeginPatchSelfFields, BeginCreateUserFields,
     BeginPatchRoleFields,
     SaveProfileFields, ValidateFields, WriteMemberFields, SyncFields, CommitUserFields,
     SaveRoleFields,
     ListMembersFields, KillFields
     DEF Steps
<1>6. ASSUME NEW v \in Staff, Login(v) PROVE UNCHANGED <<member, role, since>>
  BY <1>6 DEF Login, rows, history
<1>7. CASE UNCHANGED vars
  BY <1>2, <1>7 DEF vars, rows, history
<1>8. QED
  BY <1>1, <1>2, <1>3, <1>4, <1>5, <1>6, <1>7 DEF Next, Steps

\* For the groups it is enough to look at one user and one scope.
Right(u, s) == (s \in groups[u] <=> s \in Due(u)) \/ \E q \in Requests : Pending(q, u, s)

\* Beside a request that moves there is no pending one.
LEMMA NoneElse ==
  ASSUME TypeOK, RootExists, Placed, Alone, NEW q \in Requests, Steps(q), ~overlap',
         NEW u \in Staff, NEW s \in Scopes, Right(u, s), ~Pending(q, u, s)
  PROVE  s \in groups[u] <=> s \in Due(u)
<1>1. \A p \in Requests : Pending(p, u, s) => p = q
  BY OthersRest DEF Pending, InFlight, At
<1>2. QED
  BY <1>1 DEF Right

LEMMA InStepStep ==
  ASSUME TypeOK, RootExists, Placed, Alone, RoleInUseStays, Fresh, InStep, [Next]_vars
  PROVE  InStep'
<1> SUFFICES ASSUME ~overlap', NEW u \in Staff \ owed', NEW s \in Scopes PROVE Right(u, s)'
  BY DEF InStep, Right
<1>1. ASSUME NEW q \in Requests, Steps(q) PROVE Right(u, s)'
  <2>1. ~overlap /\ FreshAt(q)
    BY <1>1, OthersRest DEF Fresh
  <2>2. u \notin owed => Right(u, s)
    BY <2>1 DEF InStep, Right
  <2>3. CASE /\ UNCHANGED <<member, groups, role, owed>> /\ ~At(q, "list") /\ ~At(q, "sync")
    <3>1. ~Pending(q, u, s)
      BY <2>3 DEF Pending
    <3>2. s \in groups[u] <=> s \in Due(u)
      BY <1>1, <2>2, <2>3, <3>1, NoneElse
    <3>3. QED
      BY <2>3, <3>2, DueSame DEF Right
  <2>4. CASE WriteMember(q)
    <3>1. CASE req'[q].pc = "over"
      BY <2>3, <2>4, <3>1, WriteMemberFields DEF At
    <3>2. CASE req'[q].pc = "sync" /\ u = req[q].user
      <4>1. Pending(q, u, s)'
        BY <2>4, <3>2, WriteMemberFields DEF Pending, At
      <4>2. QED
        BY <4>1 DEF Right
    <3>3. CASE req'[q].pc = "sync" /\ u # req[q].user
      <4>1. /\ ~Pending(q, u, s) /\ u \notin owed /\ member'[u] = member[u] /\ groups' = groups /\ role' = role
        BY <2>4, <3>3, WriteMemberFields DEF Pending, At
      <4>2. s \in groups[u] <=> s \in Due(u)
        BY <1>1, <2>2, <4>1, NoneElse
      <4>3. QED
        BY <4>1, <4>2, DueSame DEF Right
    <3>4. QED
      BY <2>4, <3>1, <3>2, <3>3, WriteMemberFields
  <2>5. CASE Sync(q)
    <3>1. PICK v \in Staff, t \in Scopes :
            /\ req' \in [Requests -> ReqState] /\ At(q, "sync") /\ <<v, t>> \in req[q].todo
            /\ groups' \in [Staff -> SUBSET Scopes]
            /\ \A w \in Staff : \A x \in Scopes : <<w, x>> # <<v, t>> => (x \in groups'[w] <=> x \in groups[w])
            /\ t \in groups'[v] <=> t \in req[q].shape.scopes
            /\ \/ req'[q].pc = "over" /\ req[q].todo = {<<v, t>>}
               \/ /\ req'[q].pc = "sync" /\ req'[q].todo = req[q].todo \ {<<v, t>>}
                  /\ req'[q].shape = req[q].shape
            /\ \A p \in Requests : p # q => req'[p] = req[p]
            /\ UNCHANGED <<acct, member, role, granted, since, owed, overlap>>
      BY <2>5, SyncFields
    <3>2. Due(u)' = Due(u)
      BY <3>1, DueSame
    <3>3. CASE u = v /\ s = t
      <4>1. Belongs(u) /\ ShapeOf(u) = req[q].shape
        BY <2>1, <3>1, <3>3 DEF FreshAt
      <4>2. s \in Due(u) <=> s \in req[q].shape.scopes
        BY <4>1 DEF Due, RoleInUseStays
      <4>3. QED
        BY <3>1, <3>2, <3>3, <4>2 DEF Right
    <3>4. CASE <<u, s>> # <<v, t>> /\ Pending(q, u, s)
      <4>1. <<u, s>> \in req[q].todo
        BY <3>1, <3>4 DEF Pending, At
      <4>2. req'[q].pc = "sync" /\ <<u, s>> \in req'[q].todo
        BY <3>1, <3>4, <4>1
      <4>3. QED
        BY <4>2 DEF Right, Pending, At
    <3>5. CASE <<u, s>> # <<v, t>> /\ ~Pending(q, u, s)
      <4>1. s \in groups[u] <=> s \in Due(u)
        BY <1>1, <2>2, <3>1, <3>5, NoneElse
      <4>2. QED
        BY <3>1, <3>2, <3>5, <4>1 DEF Right
    <3>6. QED
      BY <3>3, <3>4, <3>5
  <2>6. CASE CommitUser(q)
    <3>1. ~Pending(q, u, s) /\ owed' = owed /\ role' = role
      BY <2>6, CommitUserFields DEF Pending, At
    <3>2. s \in groups[u] <=> s \in Due(u)
      BY <1>1, <2>2, <3>1, NoneElse
    <3>3. CASE member'[u] = member[u] /\ groups'[u] = groups[u]
      BY <3>1, <3>2, <3>3, DueSame DEF Right
    <3>4. CASE /\ u = req[q].user /\ Defined(req[q].role) /\ req[q].role \in Roles
               /\ member'[u].role = req[q].role /\ groups'[u] = req[q].shape.scopes
      <4>1. role[req[q].role] = req[q].shape
        <5>1. role[req[q].role] \in {req[q].shape, Deleted}
          BY <2>1, <2>6 DEF FreshAt, CommitUser
        <5>2. QED
          BY <3>4, <5>1, AccessAssumption DEF Defined
      <4>2. s \in Due(u)' <=> s \in req[q].shape.scopes
        BY <3>1, <3>4, <4>1 DEF Due, Belongs, Defined, ShapeOf
      <4>3. QED
        BY <3>4, <4>2 DEF Right
    <3>5. QED
      BY <2>6, <3>3, <3>4, CommitUserFields
  <2>7. CASE SaveRole(q)
    <3>1. /\ ~Pending(q, u, s) /\ owed' = owed /\ UNCHANGED <<member, groups>>
          /\ req[q].role \in Roles /\ req'[q].role = req[q].role /\ req'[q].pc = "list"
          /\ \A r \in Roles : r # req[q].role => role'[r] = role[r]
      BY <2>7, SaveRoleFields DEF Pending, At
    <3>2. CASE member[u].role = req[q].role
      BY <3>1, <3>2 DEF Right, Pending, At
    <3>3. CASE member[u].role # req[q].role
      <4>1. s \in groups[u] <=> s \in Due(u)
        BY <1>1, <2>2, <3>1, NoneElse
      <4>2. QED
        BY <3>1, <3>3, <4>1, DueSame DEF Right
    <3>4. QED
      BY <3>2, <3>3
  <2>8. CASE ListMembers(q)
    <3>1. CASE u \in MembersOf(req[q].role)
      <4>1. <<u, s>> \in MembersOf(req[q].role) \X Scopes
        BY <3>1
      <4>2. req'[q].pc = "sync" /\ <<u, s>> \in req'[q].todo
        BY <2>8, <4>1, ListMembersFields
      <4>3. QED
        BY <4>2 DEF Right, Pending, At
    <3>2. CASE u \notin MembersOf(req[q].role)
      <4>1. /\ ~Pending(q, u, s) /\ u \notin owed /\ UNCHANGED <<member, groups, role>>
        BY <2>8, <3>2, ListMembersFields DEF Pending, At, MembersOf
      <4>2. s \in groups[u] <=> s \in Due(u)
        BY <1>1, <2>2, <4>1, NoneElse
      <4>3. QED
        BY <4>1, <4>2, DueSame DEF Right
    <3>3. QED
      BY <3>1, <3>2
  <2>9. CASE Kill(q)
    <3>1. u \notin owed /\ UNCHANGED <<member, groups, role>>
      BY <2>9, KillFields
    <3>2. ~Pending(q, u, s)
      <4>1. CASE At(q, "list")
        BY <2>9, <4>1, KillFields DEF Pending, At, MembersOf
      <4>2. CASE ~At(q, "list")
        <5>1. <<u, s>> \in req[q].todo => u \in {p[1] : p \in req[q].todo}
          OBVIOUS
        <5>2. QED
          BY <2>9, <4>2, <5>1, KillFields DEF Pending
      <4>3. QED
        BY <4>1, <4>2
    <3>3. s \in groups[u] <=> s \in Due(u)
      BY <1>1, <2>2, <3>1, <3>2, NoneElse
    <3>4. QED
      BY <3>1, <3>3, DueSame DEF Right
  <2>10. CASE BeginPatchUser(q) \/ BeginPatchSelf(q) \/ BeginCreateUser(q) \/ BeginPatchRole(q)
    BY <2>3, <2>10, BeginPatchUserFields, BeginPatchSelfFields, BeginCreateUserFields,
       BeginPatchRoleFields
       DEF At
  <2>11. CASE SaveProfile(q) \/ Validate(q)
    BY <2>3, <2>11, SaveProfileFields, ValidateFields DEF At
  <2>12. QED
    BY <1>1, <2>4, <2>5, <2>6, <2>7, <2>8, <2>9, <2>10, <2>11 DEF Steps
<1>2. ASSUME CreateRole \/ DeleteRole PROVE Right(u, s)'
  BY <1>2, DueOfOthers, DueSame DEF InStep, Right, Pending, At
<1>3. ASSUME NEW v \in Staff, Login(v) PROVE Right(u, s)'
  BY <1>3, DueSame DEF Login, rows, history, InStep, Right, Pending, At
<1>4. ASSUME Tick PROVE Right(u, s)'
  BY <1>4, DueSame DEF Tick, rows, InStep, Right, Pending, At
<1>5. CASE UNCHANGED vars
  BY <1>5, DueSame DEF vars, rows, history, InStep, Right, Pending, At
<1>6. QED
  BY <1>1, <1>2, <1>3, <1>4, <1>5 DEF Next, Steps

\* A step of a request either leaves the clocks alone or restarts some of them.
LEMMA Clocks ==
  ASSUME TypeOK, RootExists, Placed, Alone, NEW q \in Requests, Steps(q), ~overlap',
         NEW u \in Staff \ owed', NEW s \in Scopes
  PROVE  /\ ~overlap /\ granted' = granted
         /\ since'[u][s] = 0 \/ (since'[u][s] = since[u][s] /\ u \notin owed)
<1>1. ~overlap
  BY OthersRest
<1>2. CASE /\ BeginPatchUser(q) \/ BeginPatchSelf(q) \/ BeginCreateUser(q) \/ BeginPatchRole(q)
              \/ SaveProfile(q) \/ Validate(q) \/ Sync(q) \/ Kill(q)
  BY <1>1, <1>2, BeginPatchUserFields, BeginPatchSelfFields, BeginCreateUserFields,
     BeginPatchRoleFields,
     SaveProfileFields, ValidateFields, SyncFields, KillFields
<1>3. CASE WriteMember(q) \/ CommitUser(q) \/ SaveRole(q) \/ ListMembers(q)
  <2>1. Restarted /\ granted' = granted
    BY <1>3, WriteMemberFields, CommitUserFields, SaveRoleFields, ListMembersFields
  <2>2. QED
    BY <1>1, <2>1, RestartedFields
<1>4. QED
  BY <1>2, <1>3 DEF Steps

LEMMA HeldStep ==
  ASSUME TypeOK, RootExists, Placed, Alone, RoleInUseStays, Fresh, DueNow, InStep, HeldNow, DueNow', [Next]_vars
  PROVE  HeldNow'
<1> SUFFICES ASSUME ~overlap', NEW u \in Staff \ owed', NEW s \in Scopes, s \in groups'[u]
             PROVE  since'[u][s] = 0
  BY DEF HeldNow
<1>1. ASSUME NEW q \in Requests, Steps(q) PROVE since'[u][s] = 0
  <2>1. ~overlap /\ (since'[u][s] = 0 \/ (since'[u][s] = since[u][s] /\ u \notin owed))
    BY <1>1, Clocks
  <2>2. CASE s \in groups[u]
    BY <2>1, <2>2 DEF HeldNow
  <2>3. CASE s \notin groups[u]
    <3>1. CASE Sync(q)
      <4>1. FreshAt(q)
        BY <2>1 DEF Fresh
      <4>2. <<u, s>> \in req[q].todo /\ s \in req[q].shape.scopes /\ At(q, "sync") /\ since' = since
        BY <2>3, <3>1, SyncFields
      <4>3. Belongs(u) /\ ShapeOf(u) = req[q].shape
        BY <4>1, <4>2 DEF FreshAt
      <4>4. s \in Due(u)
        BY <4>2, <4>3 DEF Due, RoleInUseStays
      <4>5. QED
        BY <4>2, <4>4 DEF DueNow
    <3>2. CASE CommitUser(q)
      <4>1. /\ u = req[q].user /\ Defined(req[q].role) /\ req[q].role \in Roles /\ At(q, "create")
            /\ member'[u].role = req[q].role /\ groups'[u] = req[q].shape.scopes /\ role' = role
        BY <2>3, <3>2, CommitUserFields
      <4>2. role[req[q].role] \in {req[q].shape, Deleted}
        BY <2>1, <4>1 DEF Fresh, FreshAt
      <4>3. role[req[q].role] = req[q].shape
        BY <4>1, <4>2, AccessAssumption DEF Defined
      <4>4. s \in Due(u)'
        BY <4>1, <4>3 DEF Due, Belongs, Defined, ShapeOf
      <4>5. QED
        BY <4>4 DEF DueNow
    <3>3. CASE ~Sync(q) /\ ~CommitUser(q)
      <4>1. groups' = groups
        BY <1>1, <3>3, BeginPatchUserFields, BeginPatchSelfFields, BeginCreateUserFields,
           BeginPatchRoleFields,
           SaveProfileFields, ValidateFields, WriteMemberFields, SaveRoleFields,
           ListMembersFields, KillFields
           DEF Steps
      <4>2. QED
        BY <2>3, <4>1
    <3>4. QED
      BY <3>1, <3>2, <3>3
  <2>4. QED
    BY <2>2, <2>3
<1>2. ASSUME CreateRole \/ DeleteRole PROVE since'[u][s] = 0
  BY <1>2, DueOfOthers DEF HeldNow
<1>3. ASSUME NEW v \in Staff, Login(v) PROVE since'[u][s] = 0
  BY <1>3 DEF Login, rows, history, HeldNow
<1>4. ASSUME Tick PROVE since'[u][s] = 0
  <2>1. /\ Quiet /\ u \notin owed /\ ~overlap /\ groups' = groups
        /\ since' = [v \in Staff |-> [t \in Scopes |->
                       IF t \in Due(v) THEN 0 ELSE IF since[v][t] < Lifetime THEN since[v][t] + 1 ELSE Lifetime]]
    BY <1>4 DEF Tick, rows
  <2>2. \A q \in Requests : ~Pending(q, u, s)
    BY <2>1 DEF Quiet, Pending, InFlight, At
  <2>3. s \in Due(u)
    BY <2>1, <2>2 DEF InStep
  <2>4. QED
    BY <2>1, <2>3
<1>5. CASE UNCHANGED vars
  BY <1>5 DEF vars, rows, history, HeldNow
<1>6. QED
  BY <1>1, <1>2, <1>3, <1>4, <1>5 DEF Next, Steps

LEMMA AuthorityStep ==
  ASSUME TypeOK, RootExists, Placed, Alone, RoleInUseStays, HeldNow, AuthorityIsBounded, [Next]_vars
  PROVE  AuthorityIsBounded'
<1> SUFFICES ASSUME ~overlap', NEW u \in Staff \ owed', NEW s \in Scopes, NEW l \in 1..Lifetime,
                    s \in granted'[u][l]
             PROVE  since'[u][s] + l <= Lifetime
  BY DEF AuthorityIsBounded
<1>A. since[u][s] \in 0..Lifetime /\ Lifetime \in Nat \ {0} /\ l \in Nat /\ l <= Lifetime
  BY AccessAssumption DEF TypeOK
<1>B. ~overlap /\ u \notin owed /\ s \in granted[u][l] => since[u][s] + l <= Lifetime
  BY DEF AuthorityIsBounded
<1>1. ASSUME NEW q \in Requests, Steps(q) PROVE since'[u][s] + l <= Lifetime
  <2>1. /\ ~overlap /\ granted' = granted
        /\ since'[u][s] = 0 \/ (since'[u][s] = since[u][s] /\ u \notin owed)
    BY <1>1, Clocks
  <2>2. QED
    BY <1>A, <1>B, <2>1
<1>2. ASSUME CreateRole \/ DeleteRole PROVE since'[u][s] + l <= Lifetime
  BY <1>2, <1>B, DueOfOthers
<1>3. ASSUME NEW v \in Staff, Login(v) PROVE since'[u][s] + l <= Lifetime
  <2>1. /\ granted' = [granted EXCEPT ![v][Lifetime] = granted[v][Lifetime] \cup groups[v]]
        /\ since' = since /\ u \notin owed /\ ~overlap
    BY <1>3 DEF Login, Issued, rows, history
  <2>2. CASE s \in granted[u][l]
    BY <1>B, <2>1, <2>2
  <2>3. CASE s \notin granted[u][l]
    <3>1. v = u /\ l = Lifetime /\ s \in groups[u]
      BY <2>1, <2>3, <1>A DEF TypeOK
    <3>2. since[u][s] = 0
      BY <2>1, <3>1 DEF HeldNow
    <3>3. QED
      BY <1>A, <2>1, <3>1, <3>2
  <2>4. QED
    BY <2>2, <2>3
<1>4. ASSUME Tick PROVE since'[u][s] + l <= Lifetime
  <2>1. /\ granted' = [v \in Staff |-> [k \in 1..Lifetime |-> IF k = Lifetime THEN {} ELSE granted[v][k + 1]]]
        /\ since' = [v \in Staff |-> [t \in Scopes |->
                       IF t \in Due(v) THEN 0 ELSE IF since[v][t] < Lifetime THEN since[v][t] + 1 ELSE Lifetime]]
        /\ u \notin owed /\ ~overlap
    BY <1>4 DEF Tick
  <2>2. l # Lifetime /\ s \in granted[u][l + 1] /\ l + 1 \in 1..Lifetime
    BY <1>A, <2>1
  <2>3. since[u][s] + (l + 1) <= Lifetime
    BY <2>1, <2>2 DEF AuthorityIsBounded
  <2>4. since'[u][s] <= since[u][s] + 1 /\ since'[u][s] \in 0..Lifetime
    <3>1. since'[u][s] = IF s \in Due(u) THEN 0 ELSE IF since[u][s] < Lifetime THEN since[u][s] + 1 ELSE Lifetime
      BY <2>1
    <3>2. QED
      BY <1>A, <3>1
  <2>5. QED
    BY <1>A, <2>3, <2>4
<1>5. CASE UNCHANGED vars
  BY <1>5, <1>B DEF vars, rows, history
<1>6. QED
  BY <1>1, <1>2, <1>3, <1>4, <1>5 DEF Next, Steps

-----------------------------------------------------------------------------
(* Theorems                                                                *)

LEMMA InitInv == Init => IInv
<1> SUFFICES ASSUME Init PROVE IInv
  OBVIOUS
<1>1. TypeOK
  <2>1. NewRequest \in ReqState
    BY AccessAssumption DEF Init, NewRequest, ReqState, Positions, Asks, Account, Places
  <2>2. \A u \in Staff : Due(u) \subseteq Scopes
    BY DEF Due
  <2>3. acct \in [Users -> Account] /\ member \in [Staff -> Membership] /\ owed = {} /\ overlap = FALSE
    BY DEF Init
  <2>4. role \in [Roles -> Shapes \cup {Unused, Deleted}]
    BY DEF Init
  <2>5. groups \in [Staff -> SUBSET Scopes] /\ req \in [Requests -> ReqState]
    BY <2>1, <2>2 DEF Init
  <2>6. granted \in [Staff -> [1..Lifetime -> SUBSET Scopes]] /\ since \in [Staff -> [Scopes -> 0..Lifetime]]
    BY AccessAssumption DEF Init
  <2>7. QED
    BY <2>3, <2>4, <2>5, <2>6 DEF TypeOK
<1>2. \A q \in Requests : At(q, "new")
  BY DEF Init, At, NewRequest
<1>3. Placed /\ Alone /\ Fresh
  BY <1>2 DEF Placed, Alone, Fresh, FreshAt, InFlight, At
<1>4. RootExists /\ RoleInUseStays
  BY AccessAssumption DEF Init, RootExists, RoleInUseStays, Belongs, NoMembership
<1>5. DueNow /\ HeldNow /\ InStep /\ AuthorityIsBounded
  BY DEF Init, DueNow, HeldNow, InStep, AuthorityIsBounded
<1>6. QED
  BY <1>1, <1>3, <1>4, <1>5 DEF IInv

LEMMA StepInv == IInv /\ [Next]_vars => IInv'
<1> SUFFICES ASSUME IInv, [Next]_vars PROVE IInv'
  OBVIOUS
<1>1. TypeOK' /\ Placed' /\ RootExists' /\ Alone' /\ RoleInUseStays'
  BY TypeStep, PlacedStep, RootStep, AloneStep, RoleStep DEF IInv
<1>2. Fresh' /\ DueNow' /\ InStep'
  BY FreshStep, DueNowStep, InStepStep DEF IInv
<1>3. HeldNow' /\ AuthorityIsBounded'
  BY <1>2, HeldStep, AuthorityStep DEF IInv
<1>4. QED
  BY <1>1, <1>2, <1>3 DEF IInv

\* The inductive invariant holds throughout.
THEOREM Invariance == Spec => []IInv
<1>1. QED
  BY InitInv, StepInv, PTL DEF Spec

\* Rows, requests, tokens and clocks have their types.
THEOREM TypeCorrect == Spec => []TypeOK
<1>1. IInv => TypeOK
  BY DEF IInv
<1>2. QED
  BY <1>1, Invariance, PTL

\* No membership ever points at a role that does not exist, whatever runs
\* beside whatever and whatever is killed (RoleDetailView.delete).
THEOREM RolesInUseStay == Spec => []RoleInUseStays
<1>1. IInv => RoleInUseStays
  BY DEF IInv
<1>2. QED
  BY <1>1, Invariance, PTL

\* Between requests that ran one at a time, groups are what roles say, but for
\* the users a killed request left behind (_sync_role_groups).
THEOREM ScopesFollowRoles == Spec => []ScopesFollowRole
<1>1. IInv => ScopesFollowRole
  <2> SUFFICES ASSUME IInv, Quiet, ~overlap, NEW u \in Staff \ owed PROVE groups[u] = Due(u)
    BY DEF ScopesFollowRole
  <2>1. \A s \in Scopes : \A q \in Requests : ~Pending(q, u, s)
    BY DEF Quiet, Pending, InFlight, At
  <2>2. \A s \in Scopes : s \in groups[u] <=> s \in Due(u)
    BY <2>1 DEF IInv, InStep
  <2>3. groups[u] \subseteq Scopes /\ Due(u) \subseteq Scopes
    BY DEF IInv, TypeOK, Due
  <2>4. QED
    BY <2>2, <2>3
<1>2. QED
  BY <1>1, Invariance, PTL

\* A scope taken away is honoured for at most one token's lifetime
\* (issue_access_token, requireScope of the BFF).
THEOREM AuthorityBounded == Spec => []AuthorityIsBounded
<1>1. IInv => AuthorityIsBounded
  BY DEF IInv
<1>2. QED
  BY <1>1, Invariance, PTL

\* Saving a profile does not bring a deactivated account back unless it is
\* asked to (UserDetailView.patch, MyProfileView.patch).
THEOREM DeactivationsHold == Spec => DeactivationHolds
<1> DEFINE A == ~overlap => \A u \in Users : (acct[u] = "inactive" /\ acct'[u] = "active") =>
          \E q \in Requests : At(q, "profile") /\ ~At(q, "profile")' /\ req[q].user = u /\ req[q].asks = "active"
<1>1. IInv /\ [Next]_vars => [A]_vars
  <2> SUFFICES ASSUME IInv, Next, ~overlap, NEW u \in Users, acct[u] = "inactive", acct'[u] = "active"
               PROVE  \E q \in Requests : /\ At(q, "profile") /\ ~At(q, "profile")'
                                          /\ req[q].user = u /\ req[q].asks = "active"
    OBVIOUS
  <2>1. ASSUME NEW q \in Requests, SaveProfile(q)
        PROVE  At(q, "profile") /\ ~At(q, "profile")' /\ req[q].user = u /\ req[q].asks = "active"
    <3>1. /\ At(q, "profile") /\ req'[q].pc \in {"over", "validate"} /\ req[q].user = u
          /\ Written(req[q]) = "active"
      BY <2>1, SaveProfileFields DEF IInv
    <3>2. req[q].row = acct[u]
      BY <3>1 DEF IInv, Fresh, FreshAt
    <3>3. QED
      BY <3>1, <3>2 DEF Written, At
  <2>2. ASSUME NEW q \in Requests, Steps(q), ~SaveProfile(q) PROVE FALSE
    <3>1. acct'[u] = acct[u] \/ (u = req[q].user /\ acct[req[q].user] = "absent")
      BY <2>2, BeginPatchUserFields, BeginPatchSelfFields, BeginCreateUserFields,
         BeginPatchRoleFields,
         ValidateFields, WriteMemberFields, SyncFields, CommitUserFields, SaveRoleFields,
         ListMembersFields, KillFields
         DEF IInv, Steps
    <3>2. QED
      BY <3>1
  <2>3. acct' # acct
    OBVIOUS
  <2>4. ~CreateRole /\ ~DeleteRole /\ (\A v \in Staff : ~Login(v)) /\ ~Tick
    BY <2>3 DEF CreateRole, DeleteRole, Login, Tick, rows
  <2>5. PICK q \in Requests : Steps(q)
    BY <2>4 DEF Next, Steps
  <2>6. QED
    BY <2>1, <2>2, <2>5
<1>2. QED
  BY <1>1, Invariance, PTL DEF Spec, DeactivationHolds

\* An Office's administrator keeps to the Office (_admin_scope, _get_target).
THEOREM KeepToOffices == Spec => KeepsToOffice
<1> DEFINE A == ~overlap => \A q \in Requests : \A u \in Staff :
          (member'[u] # member[u] /\ req'[q] # req[q] /\ req[q].reach # Everywhere) =>
              /\ acct[u] = "absent" \/ member[u].office = req[q].reach
              /\ member'[u].office = req[q].reach /\ ~ShapeOf(u)'.global
<1>1. IInv /\ [Next]_vars => [A]_vars
  <2> SUFFICES ASSUME IInv, Next, ~overlap, NEW q \in Requests, NEW u \in Staff,
                      member'[u] # member[u], req'[q] # req[q], req[q].reach # Everywhere
               PROVE  /\ acct[u] = "absent" \/ member[u].office = req[q].reach
                      /\ member'[u].office = req[q].reach /\ ~ShapeOf(u)'.global
    OBVIOUS
  <2>1. ~CreateRole /\ ~DeleteRole /\ (\A v \in Staff : ~Login(v)) /\ ~Tick
    BY DEF CreateRole, DeleteRole, Login, Tick, rows
  <2>2. PICK p \in Requests : Steps(p)
    BY <2>1 DEF Next, Steps
  <2>3. WriteMember(p) \/ CommitUser(p)
    BY <2>2, BeginPatchUserFields, BeginPatchSelfFields, BeginCreateUserFields,
       BeginPatchRoleFields,
       SaveProfileFields, ValidateFields, SyncFields, SaveRoleFields, ListMembersFields,
       KillFields
       DEF IInv, Steps
  <2>4. p = q
    BY <2>3, WriteMemberFields, CommitUserFields DEF IInv
  <2>5. /\ role[req[q].role] \in {req[q].shape, Deleted}
        /\ Admissible(req[q].reach, req[q].shape, req[q].office)
    BY <2>3, <2>4, WriteMemberFields, CommitUserFields DEF IInv, Fresh, FreshAt
  <2>6. role[req[q].role] = req[q].shape
    BY <2>3, <2>4, <2>5, AccessAssumption, WriteMemberFields, CommitUserFields DEF IInv, Defined
  <2>7. member'[u].role = req[q].role /\ member'[u].office = req[q].office /\ u = req[q].user /\ role' = role
    BY <2>3, <2>4, WriteMemberFields, CommitUserFields DEF IInv
  <2>8. member'[u].office = req[q].reach /\ ~ShapeOf(u)'.global
    BY <2>5, <2>6, <2>7 DEF Admissible, ShapeOf
  <2>9. acct[u] = "absent" \/ member[u].office = req[q].reach
    <3>1. CASE WriteMember(q)
      BY <2>7, <3>1, WriteMemberFields DEF IInv, Fresh, FreshAt
    <3>2. CASE CommitUser(q)
      BY <2>7, <3>2, CommitUserFields DEF IInv
    <3>3. QED
      BY <2>3, <2>4, <3>1, <3>2
  <2>10. QED
    BY <2>8, <2>9
<1>2. QED
  BY <1>1, Invariance, PTL DEF Spec, KeepsToOffice

=============================================================================
