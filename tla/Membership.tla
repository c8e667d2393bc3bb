---------------------------- MODULE Membership ----------------------------
(***************************************************************************)
(* Who belongs to which organization, and as what: the transactions of     *)
(* users.ts and companies.ts (members, invitations, new organizations),    *)
(* the locks and checks of membership.ts, and the accounts of auth.ts.     *)
(*                                                                         *)
(* A request authenticates, waits for the row lock of its organization,    *)
(* checks its permission again, locks the account it is about, reads, and  *)
(* writes when it commits.  Everything it reads is of the moment it reads  *)
(* it (READ COMMITTED); everything it writes is visible when it commits.   *)
(***************************************************************************)
EXTENDS Integers, FiniteSets

CONSTANTS
  Users, Orgs, Requests, Invitations, None,
  MaxOps     \* bound: requests made

Roles == {"ADMIN", "EDITOR", "LECTOR"}
Invite == [state: {"none", "open", "accepted", "revoked", "expired"},
           org: Orgs \cup {None}, person: Users \cup {None}, role: Roles]

ASSUME MembershipAssumption ==
  /\ None \notin Users \cup Orgs \cup Requests \cup Roles
  /\ MaxOps \in Nat

VARIABLES
  home,      \* users.organization_id, or None: no such account
  role,      \* users.role
  active,    \* users.is_active
  version,   \* users.auth_version
  seat,      \* organization_memberships: role of the row, or None
  seated,    \* organization_memberships: is_active of the row
  orgs,      \* organizations that exist
  invites,   \* organization_invitations
  requests,  \* the requests being handled
  orgLock, userLock,  \* the row locks, each held by a request or by nobody
  outdated,  \* auxiliary: invitations from before their person lost access or role
  ops

vars == <<home, role, active, version, seat, seated, orgs, invites, requests,
          orgLock, userLock, outdated, ops>>
accounts == <<home, role, active, version>>
seats    == <<seat, seated>>
tables   == <<accounts, seats, orgs, invites, outdated>>

Pair   == Orgs \X Users
Ops    == {"patch", "remove", "create", "found", "invite", "revoke", "accept", "write"}
Row    == [role: Roles, active: BOOLEAN, owned: BOOLEAN, others: BOOLEAN]
Request ==
  [op: Ops \cup {"idle"},
   stage: {"idle", "begun", "locked", "allowed", "held", "read"},
   actor: Users \cup {None}, from: Orgs \cup {None}, ver: Nat,
   org: Orgs \cup {None},     \* the organization it locks
   target: Users \cup {None}, \* the account it is about
   role: Roles \cup {None},       \* what PATCH asks for: None is left out
   active: BOOLEAN \cup {None}, secret: BOOLEAN,
   invite: Invitations \cup {None}, row: Row]

NoRow == [role |-> "LECTOR", active |-> FALSE, owned |-> FALSE, others |-> FALSE]
IdleRequest ==
  [op |-> "idle", stage |-> "idle", actor |-> None, from |-> None, ver |-> 0,
   org |-> None, target |-> None, role |-> None, active |-> None,
   secret |-> FALSE, invite |-> None, row |-> NoRow]

-----------------------------------------------------------------------------
(* membership.ts *)

\* resolveMembership: the access of an account to an organization, or None.
\* The role of its home is the account's, of any other the row's.
Suspended(u, o) == seat[<<o, u>>] # None /\ ~seated[<<o, u>>]
Access(u, o) ==
  IF active[u] /\ ~Suspended(u, o) /\ o \in orgs
  THEN IF home[u] = o THEN role[u] ELSE seat[<<o, u>>]
  ELSE None

\* The roster of an organization, its own accounts and its memberships.
OnRoster(u, o) == home[u] # None /\ (home[u] = o \/ seat[<<o, u>>] # None)
RosterRole(u, o)   == IF home[u] = o THEN role[u] ELSE seat[<<o, u>>]
RosterActive(u, o) == active[u] /\ ~Suspended(u, o)
RosterAdmin(u, o)  == OnRoster(u, o) /\ RosterActive(u, o) /\ RosterRole(u, o) = "ADMIN"

\* can_edit_identity: the account belongs here and nowhere else.
OwnedBy(u, o) ==
  home[u] = o /\ \A p \in Orgs \ {o} : seat[<<p, u>>] = None

\* Any accounts and memberships, none of them lost, and invitations sent; every
\* organization there is has an administrator.
Init ==
  /\ home \in [Users -> Orgs \cup {None}] /\ role \in [Users -> Roles]
  /\ active = [u \in Users |-> home[u] # None]
  /\ version = [u \in Users |-> 0]
  /\ seat \in [Pair -> Roles \cup {None}]
  /\ \A o \in Orgs, u \in Users : seat[<<o, u>>] # None => home[u] \notin {None, o}
  /\ seated = [p \in Pair |-> seat[p] # None]
  /\ orgs = ({home[u] : u \in Users} \ {None}) \cup {p[1] : p \in {p \in Pair : seated[p]}}
  /\ \A o \in orgs : \E u \in Users : RosterAdmin(u, o)
  /\ invites \in [Invitations -> {i \in Invite :
       i.state = "none" \/ (i.state = "open" /\ i.org \in orgs)}]
  /\ requests = [r \in Requests |-> IdleRequest]
  /\ orgLock = [o \in Orgs |-> None] /\ userLock = [u \in Users |-> None]
  /\ outdated = {} /\ ops = 0

-----------------------------------------------------------------------------
(* A request, step by step. *)

Req(r) == requests[r]
At(r, stage) == Req(r).stage = stage
Step(r, stage) == requests' = [requests EXCEPT ![r].stage = stage]

\* Faulty: the locks stay with the request.
FinishHolding(r) ==
  /\ requests' = [requests EXCEPT ![r] = IdleRequest]
  /\ orgLock' = [o \in Orgs |-> IF orgLock[o] = r THEN None ELSE orgLock[o]]
  /\ UNCHANGED userLock

\* The end of the transaction, with COMMIT or ROLLBACK.
Finish(r) ==
  /\ requests' = [requests EXCEPT ![r] = IdleRequest]
  /\ orgLock' = [o \in Orgs |-> IF orgLock[o] = r THEN None ELSE orgLock[o]]
  /\ userLock' = [u \in Users |-> IF userLock[u] = r THEN None ELSE userLock[u]]

Rollback(r) == Finish(r) /\ UNCHANGED <<tables, ops>>

\* authenticate, and the role check outside the transaction.
Authenticated(u, o) == Access(u, o) # None
Begin(r, request) ==
  /\ At(r, "idle") /\ ops < MaxOps /\ ops' = ops + 1
  /\ requests' = [requests EXCEPT ![r] = request]
  /\ UNCHANGED <<tables, orgLock, userLock>>

AsAdmin(u, o, op) ==
  [IdleRequest EXCEPT !.op = op, !.stage = "begun", !.actor = u, !.from = o,
                      !.ver = version[u], !.org = o]

\* PATCH with one of the three things it can change.
Patches == {<<ro, None, FALSE>> : ro \in Roles} \cup {<<None, ac, FALSE>> : ac \in BOOLEAN}
             \cup {<<None, None, TRUE>>}
BeginPatch(r, u, o, t, patch) ==
  /\ Access(u, o) = "ADMIN"
  /\ Begin(r, [AsAdmin(u, o, "patch") EXCEPT
       !.target = t, !.role = patch[1], !.active = patch[2], !.secret = patch[3]])
BeginRemove(r, u, o, t) ==
  /\ Access(u, o) = "ADMIN" /\ t # u
  /\ Begin(r, [AsAdmin(u, o, "remove") EXCEPT !.target = t])
BeginCreate(r, u, o, t, ro) ==
  /\ Access(u, o) = "ADMIN"
  /\ Begin(r, [AsAdmin(u, o, "create") EXCEPT !.target = t, !.role = ro])
\* Bound: as many new organizations as Orgs has left.
RoomToFound == Cardinality(orgs) + Cardinality({r \in Requests : requests[r].op = "found"})
                 < Cardinality(Orgs)
BeginFound(r, u, o) ==
  /\ Access(u, o) = "ADMIN" /\ RoomToFound
  /\ Begin(r, [AsAdmin(u, o, "found") EXCEPT !.target = u])
BeginInvite(r, u, o, i, t, ro) ==
  /\ Access(u, o) = "ADMIN"
  /\ Begin(r, [AsAdmin(u, o, "invite") EXCEPT !.target = t, !.role = ro, !.invite = i])
BeginRevoke(r, u, o, i) ==
  /\ Access(u, o) = "ADMIN"
  /\ Begin(r, [AsAdmin(u, o, "revoke") EXCEPT !.invite = i])
\* The code of an invitation names the organization to be locked.
BeginAccept(r, u, o, i) ==
  /\ Authenticated(u, o) /\ invites[i].state # "none"
  /\ Begin(r, [AsAdmin(u, o, "accept") EXCEPT !.target = u, !.invite = i,
                                              !.org = invites[i].org])
\* Any route that writes as a member: lockCurrentMembership.
BeginWrite(r, u, o) ==
  /\ Authenticated(u, o)
  /\ Begin(r, [AsAdmin(u, o, "write") EXCEPT !.target = u])

\* Faulty: the row of the organization is not locked.
OrgAlwaysFree(r) == TRUE

\* SELECT ... FROM organizations ... FOR UPDATE
OrgFreeFor(r) == orgLock[Req(r).org] = None
LockOrg(r) ==
  /\ At(r, "begun") /\ OrgFreeFor(r)
  /\ orgLock' = [orgLock EXCEPT ![Req(r).org] = r]
  /\ Step(r, "locked")
  /\ UNCHANGED <<tables, userLock, ops>>

\* The permission of now: lockOrganizationAdmin, or the invitation itself.
SameSession(r) == version[Req(r).actor] = Req(r).ver
\* Faulty: the permission is not read again after the locks.
WasAdmin(r) == TRUE

StillAdmin(r) == SameSession(r) /\ Access(Req(r).actor, Req(r).org) = "ADMIN"
Redeemable(r) == LET i == invites[Req(r).invite] IN
  i.state = "open" /\ i.person = Req(r).actor
Permitted(r) ==
  CASE Req(r).op = "accept" -> Redeemable(r)
    [] Req(r).op = "write"  -> TRUE
    [] OTHER                -> StillAdmin(r)

CheckPermission(r) ==
  /\ At(r, "locked")
  /\ IF Permitted(r)
     THEN Step(r, "allowed") /\ UNCHANGED <<tables, orgLock, userLock, ops>>
     ELSE Rollback(r)

\* SELECT ... FROM users ... FOR UPDATE, where the code takes it.
\* (FOR SHARE for the other routes: two of them would not wait, and write nothing here.)
Locks(r) == Req(r).op \in {"patch", "remove", "found", "accept", "write"}
\* Faulty: the row of the account is not locked.
UserAlwaysFree(r) == TRUE

UserFreeFor(r) == userLock[Req(r).target] = None
LockUser(r) ==
  /\ At(r, "allowed")
  /\ IF Locks(r)
     THEN UserFreeFor(r) /\ userLock' = [userLock EXCEPT ![Req(r).target] = r]
     ELSE UNCHANGED userLock
  /\ Step(r, "held")
  /\ UNCHANGED <<tables, orgLock, ops>>

\* PATCH and DELETE read the member and whether another administrator stays;
\* accept reads the membership again, and lockCurrentMembership the permission.
OtherAdmin(u, o) == \E a \in Users \ {u} : RosterAdmin(a, o)

RowOf(u, o) ==
  [role |-> RosterRole(u, o), active |-> RosterActive(u, o),
   owned |-> OwnedBy(u, o), others |-> OtherAdmin(u, o)]

StaysAccess(r) == SameSession(r) /\ Access(Req(r).actor, Req(r).from) # None
MayWrite(r)    == StaysAccess(r) /\ Access(Req(r).actor, Req(r).from) # "LECTOR"
MayJoin(r)     == StaysAccess(r) /\ Access(Req(r).actor, Req(r).org) = None

ReadMember(r) ==
  LET q == Req(r) IN
  /\ At(r, "held")
  /\ CASE q.op \in {"patch", "remove"} ->
            IF OnRoster(q.target, q.org)
            THEN /\ requests' = [requests EXCEPT ![r].stage = "read",
                                                 ![r].row = RowOf(q.target, q.org)]
                 /\ UNCHANGED <<tables, orgLock, userLock, ops>>
            ELSE Rollback(r)
       [] q.op = "write"  -> IF MayWrite(r) THEN Step(r, "read") /\ UNCHANGED <<tables, orgLock, userLock, ops>>
                             ELSE Rollback(r)
       [] q.op = "accept" -> IF MayJoin(r) THEN Step(r, "read") /\ UNCHANGED <<tables, orgLock, userLock, ops>>
                             ELSE Rollback(r)
       [] OTHER -> Step(r, "read") /\ UNCHANGED <<tables, orgLock, userLock, ops>>

-----------------------------------------------------------------------------
(* What the requests write. *)

\* UPDATE organization_invitations ... WHERE accepted_at IS NULL AND revoked_at IS NULL
OpenFor(o, u) == {i \in Invitations : invites[i].state = "open" /\ invites[i].org = o
                                        /\ invites[i].person = u}
RevokedFor(o, u) ==
  [i \in Invitations |-> IF i \in OpenFor(o, u) THEN [invites[i] EXCEPT !.state = "revoked"]
                         ELSE invites[i]]

NextRole(q)   == IF q.role = None THEN q.row.role ELSE q.role
NextActive(q) == IF q.active = None THEN q.row.active ELSE q.active

\* The last administrator cannot lose the role or the access.
LeavesAdmin(q) ==
  q.row.active /\ q.row.role = "ADMIN" => q.row.others
DropsAdmin(q) == ~NextActive(q) \/ NextRole(q) # "ADMIN"

CommitPatch(r) ==
  LET q == Req(r) u == q.target o == q.org row == q.row IN
  /\ At(r, "read") /\ q.op = "patch"
  /\ IF (DropsAdmin(q) /\ ~LeavesAdmin(q)) \/ (q.secret /\ ~row.owned)
     THEN Rollback(r)
     ELSE /\ IF home[u] = o
             THEN /\ role' = [role EXCEPT ![u] = NextRole(q)]
                  /\ active' = [active EXCEPT ![u] = IF row.owned THEN NextActive(q) ELSE TRUE]
                  /\ version' = [version EXCEPT ![u] = IF q.secret THEN @ + 1 ELSE @]
             ELSE UNCHANGED <<role, active, version>>
          /\ seat' = [seat EXCEPT ![<<o, u>>] = NextRole(q)]
          /\ seated' = [seated EXCEPT ![<<o, u>>] = NextActive(q)]
          /\ IF ~NextActive(q) \/ NextRole(q) # row.role
             THEN invites' = RevokedFor(o, u) /\ outdated' = outdated \cup OpenFor(o, u)
             ELSE UNCHANGED <<invites, outdated>>
          /\ Finish(r) /\ UNCHANGED <<home, orgs, ops>>

CommitRemove(r) ==
  LET q == Req(r) u == q.target o == q.org row == q.row IN
  /\ At(r, "read") /\ q.op = "remove"
  /\ IF ~LeavesAdmin(q) THEN Rollback(r)
     ELSE /\ invites' = RevokedFor(o, u) /\ outdated' = outdated \cup OpenFor(o, u)
          /\ CASE row.owned ->
                    active' = [active EXCEPT ![u] = FALSE] /\ UNCHANGED seats
               [] ~row.owned /\ home[u] = o ->
                    /\ seat' = [seat EXCEPT ![<<o, u>>] = row.role]
                    /\ seated' = [seated EXCEPT ![<<o, u>>] = FALSE]
                    /\ UNCHANGED active
               [] OTHER ->
                    /\ seat' = [seat EXCEPT ![<<o, u>>] = None]
                    /\ seated' = [seated EXCEPT ![<<o, u>>] = FALSE]
                    /\ UNCHANGED active
          /\ Finish(r) /\ UNCHANGED <<home, role, version, orgs, ops>>

\* INSERT INTO users; an address already taken is refused.
CommitCreate(r) ==
  LET q == Req(r) IN
  /\ At(r, "read") /\ q.op = "create"
  /\ IF home[q.target] # None THEN Rollback(r)
     ELSE /\ home' = [home EXCEPT ![q.target] = q.org]
          /\ role' = [role EXCEPT ![q.target] = q.role]
          /\ active' = [active EXCEPT ![q.target] = TRUE]
          /\ Finish(r) /\ UNCHANGED <<version, seats, orgs, invites, outdated, ops>>

\* POST /api/organizations: a new organization with its creator as ADMIN.
CommitFound(r, new) ==
  LET q == Req(r) IN
  /\ At(r, "read") /\ q.op = "found"
  /\ new \notin orgs
  /\ orgs' = orgs \cup {new}
  /\ seat' = [seat EXCEPT ![<<new, q.actor>>] = "ADMIN"]
  /\ seated' = [seated EXCEPT ![<<new, q.actor>>] = TRUE]
  /\ Finish(r) /\ UNCHANGED <<accounts, invites, outdated, ops>>

CommitInvite(r) ==
  LET q == Req(r) IN
  /\ At(r, "read") /\ q.op = "invite"
  /\ IF invites[q.invite].state # "none" THEN Rollback(r)
     ELSE /\ invites' = [invites EXCEPT ![q.invite] =
               [state |-> "open", org |-> q.org, person |-> q.target, role |-> q.role]]
          /\ Finish(r) /\ UNCHANGED <<accounts, seats, orgs, outdated, ops>>

CommitRevoke(r) ==
  LET q == Req(r) i == invites[q.invite] IN
  /\ At(r, "read") /\ q.op = "revoke"
  /\ IF i.state = "open" /\ i.org = q.org
     THEN invites' = [invites EXCEPT ![q.invite].state = "revoked"]
     ELSE UNCHANGED invites
  /\ Finish(r) /\ UNCHANGED <<accounts, seats, orgs, outdated, ops>>

CommitAccept(r) ==
  LET q == Req(r) u == q.actor o == q.org i == invites[q.invite] IN
  /\ At(r, "read") /\ q.op = "accept"
  /\ seat' = [seat EXCEPT ![<<o, u>>] = i.role]
  /\ seated' = [seated EXCEPT ![<<o, u>>] = TRUE]
  /\ role' = IF home[u] = o THEN [role EXCEPT ![u] = i.role] ELSE role
  /\ invites' = [invites EXCEPT ![q.invite].state = "accepted"]
  /\ Finish(r) /\ UNCHANGED <<home, active, version, orgs, outdated, ops>>

\* What the other routes write is ProjectStore's.
CommitWrite(r) ==
  /\ At(r, "read") /\ Req(r).op = "write"
  /\ Finish(r) /\ UNCHANGED <<tables, ops>>

Commit(r) ==
  \/ CommitPatch(r) \/ CommitRemove(r) \/ CommitCreate(r)
  \/ \E o \in Orgs : CommitFound(r, o)
  \/ CommitInvite(r) \/ CommitRevoke(r) \/ CommitAccept(r) \/ CommitWrite(r)

\* Seven days: FOR UPDATE makes the reader's time the one that counts.
Expire(i) ==
  /\ invites[i].state = "open"
  /\ \A r \in Requests : Req(r).invite = i => Req(r).stage \in {"idle", "begun", "locked"}
  /\ invites' = [invites EXCEPT ![i].state = "expired"]
  /\ UNCHANGED <<accounts, seats, orgs, requests, orgLock, userLock, outdated, ops>>

-----------------------------------------------------------------------------
BeginSome(r) == \E u \in Users, o \in Orgs :
  \/ \E t \in Users :
       \/ \E patch \in Patches : BeginPatch(r, u, o, t, patch)
       \/ BeginRemove(r, u, o, t)
       \/ \E ro \in Roles : \/ BeginCreate(r, u, o, t, ro)
                            \/ \E i \in Invitations : BeginInvite(r, u, o, i, t, ro)
  \/ BeginFound(r, u, o) \/ BeginWrite(r, u, o)
  \/ \E i \in Invitations : BeginRevoke(r, u, o, i) \/ BeginAccept(r, u, o, i)

Proceed(r) ==
  LockOrg(r) \/ CheckPermission(r) \/ LockUser(r) \/ ReadMember(r) \/ Commit(r)

Next == \/ \E r \in Requests : BeginSome(r) \/ Proceed(r)
        \/ \E i \in Invitations : Expire(i)

Spec     == Init /\ [][Next]_vars
Fairness == \A r \in Requests : SF_vars(Proceed(r))
FairSpec == Spec /\ Fairness

-----------------------------------------------------------------------------
(* What the organizations rely on. *)

\* The tables and the requests have the shape the code gives them, and the row
\* locks belong to requests under way.
MembershipTypeOK ==
  /\ home \in [Users -> Orgs \cup {None}] /\ role \in [Users -> Roles]
  /\ active \in [Users -> BOOLEAN] /\ version \in [Users -> Nat]
  /\ seat \in [Pair -> Roles \cup {None}] /\ seated \in [Pair -> BOOLEAN]
  /\ orgs \subseteq Orgs /\ invites \in [Invitations -> Invite]
  /\ requests \in [Requests -> Request]
  /\ orgLock \in [Orgs -> Requests \cup {None}]
  /\ userLock \in [Users -> Requests \cup {None}]
  /\ \A o \in Orgs : orgLock[o] # None => requests[orgLock[o]].org = o
  /\ \A u \in Users : userLock[u] # None => requests[userLock[u]].target = u
  /\ outdated \subseteq Invitations /\ ops \in Nat

\* No organization is ever without an active administrator, although two of
\* them may remove, suspend or demote each other at the same time.
AdministratorStays == \A o \in orgs : \E u \in Users : RosterAdmin(u, o)

\* What a member may do in an organization is decided in that organization: a
\* request of another one, about the same account, takes or gives nothing there.
AccessIsLocal ==
  [][\A u \in Users, o \in orgs :
       Access(u, o)' # Access(u, o) => orgLock[o] # None /\ orgLock'[o] = None]_vars

\* Whoever commits has, at that moment, the session and the permission the
\* request needs, however long it waited for its locks.
ActsWithPermission ==
  [][\A r \in Requests :
       LET q == requests[r] may == Access(q.actor, q.from) IN
       q.stage = "read" /\ requests'[r].stage = "idle" =>
         /\ version[q.actor] = q.ver /\ may # None
         /\ q.op = "write" => may # "LECTOR"
         /\ q.op \notin {"accept", "write"} => may = "ADMIN"]_vars

\* Nobody comes back with an invitation from before a removal, a suspension or a
\* change of role.
RemovedStaysOut == \A i \in outdated : invites[i].state # "accepted"

\* The tables have the code's shape, every organization keeps an administrator,
\* and who was removed does not come back with an old invitation.
MembershipInv == MembershipTypeOK /\ AdministratorStays /\ RemovedStaysOut

\* Every request ends: the locks are taken in one order and always released.
RequestsEnd == \A r \in Requests : Req(r).stage # "idle" ~> Req(r).stage = "idle"

=============================================================================
