-------------------------- MODULE MembershipProofs --------------------------
(***************************************************************************)
(* What holds of the organizations for any accounts, organizations,        *)
(* invitations and requests at once: no interleaving of their transactions *)
(* takes the last administrator away, lets an old invitation in, acts      *)
(* without the permission of the moment or reaches into another            *)
(* organization.                                                           *)
(***************************************************************************)
EXTENDS Membership, TLAPS

(* An account that is suspended for good belongs nowhere else; nobody       *)
(* belongs to what does not exist.                                          *)
AccountOK(u) ==
  /\ active[u] => home[u] # None
  /\ home[u] # None => home[u] \in orgs
  /\ \A o \in Orgs : seat[<<o, u>>] # None => home[u] # None /\ o \in orgs
  /\ ~active[u] => \A o \in Orgs : home[u] # o => seat[<<o, u>>] = None

InviteOK(i) ==
  /\ invites[i].state # "none" => invites[i].org \in orgs
  /\ i \in outdated => invites[i].state = "revoked"

Typed ==
  /\ home \in [Users -> Orgs \cup {None}] /\ role \in [Users -> Roles]
  /\ active \in [Users -> BOOLEAN] /\ version \in [Users -> Nat]
  /\ seat \in [Pair -> Roles \cup {None}] /\ seated \in [Pair -> BOOLEAN]
  /\ orgs \subseteq Orgs /\ invites \in [Invitations -> Invite]
  /\ outdated \subseteq Invitations /\ ops \in Nat

Tables ==
  /\ Typed
  /\ \A u \in Users : AccountOK(u)
  /\ \A i \in Invitations : InviteOK(i)
  /\ AdministratorStays

(* What a request was begun with. *)
ShapeOK(q) ==
  q.stage # "idle" =>
    /\ q.op \in Ops /\ q.actor \in Users /\ q.from \in orgs /\ q.org \in orgs
    /\ home[q.actor] # None
    /\ q.op # "accept" => q.org = q.from
    /\ q.op # "revoke" => q.target \in Users
    /\ q.op \in {"found", "accept", "write"} => q.target = q.actor
    /\ q.op \in {"invite", "revoke", "accept"} => q.invite \in Invitations
    /\ q.op \in {"create", "invite"} => q.role \in Roles
    /\ q.op = "accept" => invites[q.invite].state # "none" /\ invites[q.invite].org = q.org

(* What a request has checked or read is still so: nobody else can change   *)
(* it under its locks.                                                      *)
Holding == {"locked", "allowed", "held", "read"}
Locking == {"patch", "remove", "found", "accept", "write"}

AllowedOK(q) ==
  q.stage \in {"allowed", "held", "read"} =>
    /\ q.op \notin {"accept", "write"} =>
         version[q.actor] = q.ver /\ Access(q.actor, q.org) = "ADMIN"
    /\ q.op = "accept" =>
         invites[q.invite].state = "open" /\ invites[q.invite].person = q.actor

RowStands(q) ==
  LET u == q.target o == q.org row == q.row IN
  /\ OnRoster(u, o) /\ row.role = RosterRole(u, o)
  /\ row.active <=> RosterActive(u, o)
  /\ row.owned <=> OwnedBy(u, o)
  /\ row.others => OtherAdmin(u, o)

ReadOK(q) ==
  q.stage = "read" =>
    /\ q.op \in {"patch", "remove"} => RowStands(q)
    /\ q.op = "write" =>
         version[q.actor] = q.ver /\ Access(q.actor, q.from) \notin {None, "LECTOR"}
    /\ q.op = "accept" =>
         /\ version[q.actor] = q.ver /\ Access(q.actor, q.from) # None
         /\ Access(q.actor, q.org) = None

HoldsLocks(r, q) ==
  /\ q.stage \in Holding => orgLock[q.org] = r
  /\ q.stage \in {"held", "read"} /\ q.op \in Locking => userLock[q.target] = r

RequestOK(r, q) ==
  ShapeOK(q) /\ AllowedOK(q) /\ ReadOK(q) /\ HoldsLocks(r, q)

(* A lock belongs to a request that took it. *)
LocksOK ==
  /\ orgLock \in [Orgs -> Requests \cup {None}]
  /\ userLock \in [Users -> Requests \cup {None}]
  /\ \A o \in Orgs : orgLock[o] # None =>
       requests[orgLock[o]].org = o /\ requests[orgLock[o]].stage \in Holding
  /\ \A u \in Users : userLock[u] # None =>
       requests[userLock[u]].target = u /\ requests[userLock[u]].stage \in {"held", "read"}

(* Stated of the request a handler has in hand, so that it can be carried   *)
(* over a step that leaves the request itself alone.                        *)
RequestsOK ==
  /\ requests \in [Requests -> Request]
  /\ \A r \in Requests, q \in Request : requests[r] = q => RequestOK(r, q)

Inv == Tables /\ LocksOK /\ RequestsOK

-----------------------------------------------------------------------------
LEMMA NoneIsNobody ==
  None \notin Users /\ None \notin Orgs /\ None \notin Requests /\ None \notin Roles
BY MembershipAssumption

LEMMA IdleIsARequest == IdleRequest \in Request /\ IdleRequest.stage = "idle"
BY DEF IdleRequest, Request, NoRow, Row, Roles, Ops

LEMMA RosterAdminHasAccess ==
  ASSUME NEW u, NEW o \in orgs, RosterAdmin(u, o)
  PROVE  Access(u, o) = "ADMIN"
BY DEF Access, OnRoster, RosterRole, RosterActive, RosterAdmin

LEMMA Initially == Init => Inv
<1> SUFFICES ASSUME Init PROVE Inv
  OBVIOUS
<1>1. orgs \subseteq Orgs
  <2>1. {home[u] : u \in Users} \ {None} \subseteq Orgs
    BY DEF Init
  <2>2. {p[1] : p \in {p \in Pair : seated[p]}} \subseteq Orgs
    BY DEF Pair
  <2>. QED BY <2>1, <2>2 DEF Init
<1>2. ASSUME NEW u \in Users PROVE AccountOK(u)
  <2>1. home[u] # None => home[u] \in orgs
    BY DEF Init
  <2>2. ASSUME NEW o \in Orgs, seat[<<o, u>>] # None PROVE home[u] \notin {None, o} /\ o \in orgs
    <3>1. <<o, u>> \in Pair /\ seated[<<o, u>>] /\ <<o, u>>[1] = o
      BY <2>2 DEF Init, Pair
    <3>2. o \in {p[1] : p \in {p \in Pair : seated[p]}}
      BY <3>1
    <3>. QED BY <2>2, <3>2 DEF Init
  <2>3. active[u] <=> home[u] # None
    BY DEF Init
  <2>. QED BY <2>1, <2>2, <2>3 DEF AccountOK
<1>3. ASSUME NEW i \in Invitations PROVE InviteOK(i) /\ invites[i] \in Invite
  BY DEF Init, InviteOK
<1>4. Tables
  <2>1. invites \in [Invitations -> Invite]
    BY <1>3 DEF Init
  <2>2. active \in [Users -> BOOLEAN] /\ seated \in [Pair -> BOOLEAN] /\ version \in [Users -> Nat]
    BY DEF Init
  <2>. QED BY <1>1, <1>2, <1>3, <2>1, <2>2 DEF Init, Tables, Typed, AdministratorStays
<1>5. LocksOK
  BY DEF Init, LocksOK
<1>6. RequestsOK
  BY IdleIsARequest
  DEF Init, RequestsOK, RequestOK, ShapeOK, AllowedOK, ReadOK, HoldsLocks, Holding
<1>. QED BY <1>4, <1>5, <1>6 DEF Inv

-----------------------------------------------------------------------------
(* What a step leaves alone. *)

SameSeat(u, p) ==
  seat'[<<p, u>>] = seat[<<p, u>>] /\ seated'[<<p, u>>] = seated[<<p, u>>]
SameAccount(u) ==
  /\ home'[u] = home[u] /\ role'[u] = role[u]
  /\ active'[u] = active[u] /\ version'[u] = version[u]
  /\ \A p \in Orgs : SameSeat(u, p)

(* A transaction of the organization o about the account t: it reaches into *)
(* another organization only through an account that belongs to o alone.    *)
Local(t, o) ==
  /\ \A u \in Users \ {t} : SameAccount(u)
  /\ \A p \in Orgs \ {o} : SameSeat(t, p)
  /\ home'[t] # home[t] => home[t] = None /\ home'[t] = o
  /\ role'[t] # role[t] => home'[t] = o
  /\ active'[t] # active[t] \/ version'[t] # version[t] =>
       home'[t] = o /\ \A p \in Orgs \ {o} : seat[<<p, t>>] = None
  /\ orgs \subseteq orgs'

InvitesOf(o) ==
  \A i \in Invitations : invites[i].state # "none" =>
    /\ invites'[i].state # "none" /\ invites'[i].org = invites[i].org
    /\ invites[i].org # o => invites'[i] = invites[i]

LEMMA LocalKeeps ==
  ASSUME Tables, NEW t \in Users, NEW o \in Orgs, Local(t, o),
         NEW u \in Users, NEW p \in orgs, SameAccount(u) \/ p # o
  PROVE  /\ Access(u, p)' = Access(u, p)
         /\ OnRoster(u, p)' <=> OnRoster(u, p)
         /\ OnRoster(u, p) => RosterRole(u, p)' = RosterRole(u, p)
         /\ OnRoster(u, p) => (RosterActive(u, p)' <=> RosterActive(u, p))
         /\ RosterAdmin(u, p)' <=> RosterAdmin(u, p)
         /\ Access(u, p) # None => version'[u] = version[u]
         /\ home[u] # None => home'[u] = home[u]
<1>1. p \in Orgs /\ p \in orgs' /\ AccountOK(u)
  BY DEF Tables, Typed, Local
<1>2. CASE SameAccount(u)
  BY <1>1, <1>2
  DEF SameAccount, SameSeat, Access, Suspended, OnRoster, RosterRole, RosterActive, RosterAdmin
<1>3. CASE ~SameAccount(u)
  <2>0. u = t /\ p # o
    BY <1>3 DEF Local
  <2>1. SameSeat(u, p) /\ seat[<<p, u>>] \in Roles \cup {None} /\ active[u] \in BOOLEAN
    BY <1>1, <2>0 DEF Local, Tables, Typed, Pair
  <2>2. home'[u] # home[u] => home[u] = None /\ home'[u] # p /\ seat[<<p, u>>] = None
    BY <1>1, <2>0 DEF Local, AccountOK
  <2>3. role'[u] # role[u] => home'[u] # p /\ home[u] # p
    BY <1>1, <2>0, NoneIsNobody DEF Local
  <2>4. active'[u] # active[u] \/ version'[u] # version[u] =>
          seat[<<p, u>>] = None /\ home[u] # p /\ home'[u] # p
    BY <1>1, <2>0, NoneIsNobody DEF Local
  <2>. QED BY <1>1, <2>1, <2>2, <2>3, <2>4, NoneIsNobody
    DEF SameSeat, Access, Suspended, OnRoster, RosterRole, RosterActive, RosterAdmin
<1>. QED BY <1>2, <1>3

(* A transaction of o that holds the locks of o and of t leaves what every   *)
(* other request has read and checked as it is.                              *)
Disturbs(r, t, o) ==
  /\ Local(t, o) /\ InvitesOf(o)
  /\ o \notin orgs \/ orgLock[o] = r
  /\ SameAccount(t) \/ home[t] = None \/ userLock[t] = r

OfOneOrganization(r) == \E t \in Users, o \in Orgs : Disturbs(r, t, o)

LocksKept(s) ==
  /\ \A o \in Orgs : orgLock[o] = s => orgLock'[o] = s
  /\ \A u \in Users : userLock[u] = s => userLock'[u] = s

LEMMA ElsewhereOrAnother ==
  ASSUME Tables, NEW r, NEW s, r # s, NEW t \in Users, NEW o \in Orgs, Disturbs(r, t, o),
         NEW q \in Request, RequestOK(s, q), q.stage # "idle"
  PROVE  /\ q.stage \in Holding => q.org # o
         /\ q.stage \in {"held", "read"} /\ q.op \in Locking /\ home[q.target] # None =>
              SameAccount(t) \/ q.target # t
BY DEF RequestOK, ShapeOK, HoldsLocks, Disturbs

LEMMA OwnedKept ==
  ASSUME Tables, NEW u \in Users, SameAccount(u), NEW o \in Orgs
  PROVE  OwnedBy(u, o)' <=> OwnedBy(u, o)
BY DEF OwnedBy, SameAccount, SameSeat

LEMMA OthersKeep ==
  ASSUME Tables, NEW r, NEW s, r # s, NEW t \in Users, NEW o \in Orgs, Disturbs(r, t, o),
         LocksKept(s), NEW q \in Request, RequestOK(s, q)
  PROVE  RequestOK(s, q)'
<1>1. CASE q.stage = "idle"
  BY <1>1 DEF RequestOK, ShapeOK, AllowedOK, ReadOK, HoldsLocks, Holding
<1>2. CASE q.stage # "idle"
  <2>. USE <1>2
  <2>1. /\ q.op \in Ops /\ q.actor \in Users /\ q.from \in orgs /\ q.org \in orgs
        /\ home[q.actor] # None /\ q.from \in Orgs /\ q.org \in Orgs /\ orgs \subseteq orgs'
    BY DEF RequestOK, ShapeOK, Tables, Typed, Disturbs, Local
  <2>2. /\ q.stage \in Holding => q.org # o
        /\ q.stage \in {"held", "read"} /\ q.op \in Locking /\ home[q.target] # None =>
             SameAccount(t) \/ q.target # t
    BY ElsewhereOrAnother
  <2>3. ShapeOK(q)'
    <3>1. home'[q.actor] # None
      BY <2>1, NoneIsNobody DEF Disturbs, Local, SameAccount
    <3>2. ASSUME q.op = "accept"
          PROVE  invites'[q.invite].state # "none" /\ invites'[q.invite].org = q.org
      BY <3>2, <2>1 DEF RequestOK, ShapeOK, Disturbs, InvitesOf
    <3>. QED BY <2>1, <3>1, <3>2 DEF RequestOK, ShapeOK
  <2>4. AllowedOK(q)'
    <3>1. ASSUME q.stage \in {"allowed", "held", "read"}, q.op \notin {"accept", "write"}
          PROVE  version'[q.actor] = q.ver /\ Access(q.actor, q.org)' = "ADMIN"
      <4>1. q.org # o
        BY <2>2, <3>1 DEF Holding
      <4>2. version[q.actor] = q.ver /\ Access(q.actor, q.org) = "ADMIN"
        BY <3>1 DEF RequestOK, AllowedOK
      <4>. QED BY <2>1, <4>1, <4>2, LocalKeeps, NoneIsNobody DEF Disturbs, Roles
    <3>2. ASSUME q.stage \in {"allowed", "held", "read"}, q.op = "accept"
          PROVE  invites'[q.invite].state = "open" /\ invites'[q.invite].person = q.actor
      BY <2>1, <2>2, <3>2 DEF RequestOK, ShapeOK, AllowedOK, Holding, Disturbs, InvitesOf
    <3>. QED BY <3>1, <3>2 DEF AllowedOK
  <2>5. ReadOK(q)'
    <3>. SUFFICES ASSUME q.stage = "read" PROVE ReadOK(q)'
      BY DEF ReadOK
    <3>0. q.org # o
      BY <2>2 DEF Holding
    <3>1. ASSUME q.op \in {"patch", "remove"} PROVE RowStands(q)'
      <4>0. q.target \in Users
        BY <3>1 DEF RequestOK, ShapeOK
      <4>1. RowStands(q)
        BY <3>1 DEF RequestOK, ReadOK
      <4>2. home[q.target] # None
        BY <4>1 DEF RowStands, OnRoster
      <4>3. SameAccount(q.target)
        BY <2>2, <3>1, <4>0, <4>2 DEF Locking, Disturbs, Local
      <4>4. OwnedBy(q.target, q.org)' <=> OwnedBy(q.target, q.org)
        BY <2>1, <4>0, <4>3, OwnedKept
      <4>5. ASSUME OtherAdmin(q.target, q.org) PROVE OtherAdmin(q.target, q.org)'
        <5>1. PICK a \in Users \ {q.target} : RosterAdmin(a, q.org)
          BY <4>5 DEF OtherAdmin
        <5>2. RosterAdmin(a, q.org)'
          BY <2>1, <3>0, <5>1, LocalKeeps DEF Disturbs
        <5>. QED BY <5>2 DEF OtherAdmin
      <4>6. /\ OnRoster(q.target, q.org)' /\ RosterRole(q.target, q.org)' = RosterRole(q.target, q.org)
            /\ RosterActive(q.target, q.org)' <=> RosterActive(q.target, q.org)
        BY <2>1, <3>0, <4>0, <4>1, LocalKeeps DEF Disturbs, RowStands
      <4>. QED BY <4>1, <4>4, <4>5, <4>6 DEF RowStands
    <3>2. ASSUME q.op = "write"
          PROVE  version'[q.actor] = q.ver /\ Access(q.actor, q.from)' \notin {None, "LECTOR"}
      <4>1. version[q.actor] = q.ver /\ Access(q.actor, q.from) \notin {None, "LECTOR"} /\ q.from = q.org
        BY <3>2 DEF RequestOK, ReadOK, ShapeOK
      <4>. QED BY <2>1, <3>0, <4>1, LocalKeeps DEF Disturbs
    <3>3. ASSUME q.op = "accept"
          PROVE  /\ version'[q.actor] = q.ver /\ Access(q.actor, q.from)' # None
                 /\ Access(q.actor, q.org)' = None
      <4>1. /\ version[q.actor] = q.ver /\ Access(q.actor, q.from) # None
            /\ Access(q.actor, q.org) = None /\ q.target = q.actor
        BY <3>3 DEF RequestOK, ReadOK, ShapeOK
      <4>2. SameAccount(q.actor)
        BY <2>1, <2>2, <3>3, <4>1 DEF Locking, Disturbs, Local
      <4>. QED BY <2>1, <4>1, <4>2, LocalKeeps DEF Disturbs
    <3>. QED BY <3>1, <3>2, <3>3 DEF ReadOK
  <2>6. HoldsLocks(s, q)'
    <3>1. ASSUME q.op \in Locking PROVE q.target \in Users
      BY <3>1 DEF RequestOK, ShapeOK, Locking
    <3>. QED BY <2>1, <3>1 DEF RequestOK, HoldsLocks, LocksKept
  <2>. QED BY <2>3, <2>4, <2>5, <2>6 DEF RequestOK
<1>. QED BY <1>1, <1>2

-----------------------------------------------------------------------------
(* The end of a transaction, and the steps before it. *)

LEMMA FinishReleases ==
  ASSUME LocksOK, RequestsOK, NEW r \in Requests, Finish(r)
  PROVE  /\ LocksOK' /\ requests' \in [Requests -> Request]
         /\ requests'[r] = IdleRequest
         /\ \A s \in Requests \ {r} : requests'[s] = requests[s] /\ LocksKept(s)
<1>1. /\ requests' \in [Requests -> Request] /\ requests'[r] = IdleRequest
      /\ \A s \in Requests \ {r} : requests'[s] = requests[s]
  BY IdleIsARequest DEF Finish, RequestsOK
<1>2. \A s \in Requests \ {r} : LocksKept(s)
  BY DEF Finish, LocksOK, LocksKept
<1>3. LocksOK'
  <2>1. /\ orgLock' \in [Orgs -> Requests \cup {None}]
        /\ userLock' \in [Users -> Requests \cup {None}]
    BY DEF Finish, LocksOK
  <2>2. ASSUME NEW o \in Orgs, orgLock'[o] # None
        PROVE  requests'[orgLock'[o]].org = o /\ requests'[orgLock'[o]].stage \in Holding
    <3>1. orgLock'[o] = orgLock[o] /\ orgLock[o] # r /\ orgLock[o] \in Requests
      BY <2>2 DEF Finish, LocksOK
    <3>. QED BY <1>1, <3>1, NoneIsNobody DEF LocksOK
  <2>3. ASSUME NEW u \in Users, userLock'[u] # None
        PROVE  requests'[userLock'[u]].target = u /\ requests'[userLock'[u]].stage \in {"held", "read"}
    <3>1. userLock'[u] = userLock[u] /\ userLock[u] # r /\ userLock[u] \in Requests
      BY <2>3 DEF Finish, LocksOK
    <3>. QED BY <1>1, <3>1, NoneIsNobody DEF LocksOK
  <2>. QED BY <2>1, <2>2, <2>3 DEF LocksOK
<1>. QED BY <1>1, <1>2, <1>3

LEMMA Committed ==
  ASSUME Inv, NEW r \in Requests, NEW t \in Users, NEW o \in Orgs, Disturbs(r, t, o),
         Finish(r), Tables'
  PROVE  Inv'
<1>1. /\ LocksOK' /\ requests' \in [Requests -> Request]
      /\ requests'[r] = IdleRequest
      /\ \A s \in Requests \ {r} : requests'[s] = requests[s] /\ LocksKept(s)
  BY FinishReleases DEF Inv
<1>2. ASSUME NEW s \in Requests, NEW q \in Request, requests'[s] = q
      PROVE  RequestOK(s, q)'
  <2>1. CASE s = r
    <3>1. q = IdleRequest
      BY <1>1, <1>2, <2>1
    <3>. QED BY <3>1, IdleIsARequest DEF RequestOK, ShapeOK, AllowedOK, ReadOK, HoldsLocks, Holding
  <2>2. CASE s # r
    BY <1>1, <1>2, <2>2, OthersKeep DEF Inv, RequestsOK
  <2>. QED BY <2>1, <2>2
<1>. QED BY <1>1, <1>2 DEF Inv, RequestsOK

LEMMA Unmoved ==
  ASSUME UNCHANGED tables, NEW q
  PROVE  (ShapeOK(q)' <=> ShapeOK(q)) /\ (AllowedOK(q)' <=> AllowedOK(q)) /\ (ReadOK(q)' <=> ReadOK(q))
BY DEF tables, accounts, seats, ShapeOK, AllowedOK, ReadOK, RowStands, Access, Suspended, OnRoster,
       RosterRole, RosterActive, RosterAdmin, OtherAdmin, OwnedBy

LEMMA TablesUnmoved ==
  ASSUME Tables, UNCHANGED tables, ops' \in Nat PROVE Tables'
BY DEF tables, accounts, seats, Tables, Typed, AccountOK, InviteOK, AdministratorStays, Suspended, OnRoster,
       RosterRole, RosterActive, RosterAdmin

LEMMA Quiet ==
  ASSUME Inv, NEW r \in Requests, NEW n \in Request, requests' = [requests EXCEPT ![r] = n],
         UNCHANGED tables, ops' \in Nat, LocksOK', RequestOK(r, n)',
         \A s \in Requests \ {r} : LocksKept(s)
  PROVE  Inv'
<1>1. /\ requests' \in [Requests -> Request] /\ requests'[r] = n
      /\ \A s \in Requests \ {r} : requests'[s] = requests[s]
  BY DEF Inv, RequestsOK
<1>2. ASSUME NEW s \in Requests, NEW q \in Request, requests'[s] = q
      PROVE  RequestOK(s, q)'
  <2>1. CASE s = r
    <3>1. q = n
      BY <1>1, <1>2, <2>1
    <3>. QED BY <2>1, <3>1 DEF RequestOK
  <2>2. CASE s # r
    <3>1. RequestOK(s, q) /\ LocksKept(s)
      BY <1>1, <1>2, <2>2 DEF Inv, RequestsOK
    <3>2. HoldsLocks(s, q)'
      <4>1. q.stage # "idle" => q.org \in Orgs /\ (q.op \in Locking => q.target \in Users)
        BY <3>1 DEF RequestOK, ShapeOK, Inv, Tables, Typed, Locking
      <4>. QED BY <3>1, <4>1 DEF RequestOK, HoldsLocks, LocksKept, Holding
    <3>. QED BY <3>1, <3>2, Unmoved DEF RequestOK
  <2>. QED BY <2>1, <2>2
<1>. QED BY <1>1, <1>2, TablesUnmoved DEF Inv, RequestsOK

LEMMA RollbackKeeps ==
  ASSUME Inv, NEW r \in Requests, Rollback(r)
  PROVE  Inv'
<1>1. /\ LocksOK' /\ \A s \in Requests \ {r} : LocksKept(s)
  BY FinishReleases DEF Inv, Rollback
<1>2. RequestOK(r, IdleRequest)'
  BY IdleIsARequest DEF RequestOK, ShapeOK, AllowedOK, ReadOK, HoldsLocks, Holding
<1>. QED BY <1>1, <1>2, IdleIsARequest, Quiet DEF Rollback, Finish, Inv, Tables, Typed

LEMMA BeginKeeps ==
  ASSUME Inv, NEW r \in Requests, NEW n \in Request, n.stage = "begun", ShapeOK(n), Begin(r, n)
  PROVE  Inv' /\ UNCHANGED tables
<1>1. UNCHANGED tables /\ ops' \in Nat /\ requests' = [requests EXCEPT ![r] = n]
  BY DEF Begin, Inv, Tables, Typed
<1>2. RequestOK(r, n)'
  BY <1>1, Unmoved DEF RequestOK, AllowedOK, ReadOK, HoldsLocks, Holding
<1>3. LocksOK'
  <2>1. \A s \in Requests : requests[s].stage # "idle" => requests'[s] = requests[s]
    BY <1>1 DEF Begin, At, Req, Inv, RequestsOK
  <2>. QED BY <2>1 DEF Begin, Inv, LocksOK, Holding
<1>4. \A s \in Requests \ {r} : LocksKept(s)
  BY DEF Begin, LocksKept
<1>. QED BY <1>1, <1>2, <1>3, <1>4, Quiet

LEMMA AsAdminIs ==
  ASSUME NEW u \in Users, NEW o \in Orgs, NEW op \in Ops, version[u] \in Nat
  PROVE  LET n == AsAdmin(u, o, op) IN
         /\ n \in Request /\ n.stage = "begun" /\ n.op = op /\ n.actor = u
         /\ n.from = o /\ n.org = o
BY IdleIsARequest DEF AsAdmin, IdleRequest, Request

LEMMA PatchIsARequest ==
  ASSUME NEW n \in Request, NEW t \in Users, NEW ro \in Roles \cup {None},
         NEW ac \in BOOLEAN \cup {None}, NEW secret \in BOOLEAN
  PROVE  [n EXCEPT !.target = t, !.role = ro, !.active = ac, !.secret = secret] \in Request
BY DEF Request

LEMMA CreateIsARequest ==
  ASSUME NEW n \in Request, NEW t \in Users, NEW ro \in Roles
  PROVE  [n EXCEPT !.target = t, !.role = ro] \in Request
BY DEF Request

LEMMA InviteIsARequest ==
  ASSUME NEW n \in Request, NEW t \in Users, NEW ro \in Roles, NEW i \in Invitations
  PROVE  [n EXCEPT !.target = t, !.role = ro, !.invite = i] \in Request
BY DEF Request

LEMMA AcceptIsARequest ==
  ASSUME NEW n \in Request, NEW t \in Users, NEW i \in Invitations, NEW o \in Orgs
  PROVE  [n EXCEPT !.target = t, !.invite = i, !.org = o] \in Request
BY DEF Request

LEMMA BeginSomeKeeps ==
  ASSUME Inv, NEW r \in Requests, BeginSome(r)
  PROVE  Inv' /\ UNCHANGED tables
<1>1. PICK u \in Users, o \in Orgs :
        \/ \E t \in Users :
             \/ \E patch \in Patches : BeginPatch(r, u, o, t, patch)
             \/ BeginRemove(r, u, o, t)
             \/ \E ro \in Roles : \/ BeginCreate(r, u, o, t, ro)
                                  \/ \E i \in Invitations : BeginInvite(r, u, o, i, t, ro)
        \/ BeginFound(r, u, o) \/ BeginWrite(r, u, o)
        \/ \E i \in Invitations : BeginRevoke(r, u, o, i) \/ BeginAccept(r, u, o, i)
  BY DEF BeginSome
<1>2. version[u] \in Nat /\ (Access(u, o) # None => home[u] # None /\ o \in orgs)
  BY DEF Inv, Tables, Typed, AccountOK, Access
<1>3. "ADMIN" # None
  BY NoneIsNobody DEF Roles
<1>4. ASSUME NEW op \in Ops
      PROVE  LET n == AsAdmin(u, o, op) IN
             /\ n \in Request /\ n.stage = "begun" /\ n.op = op /\ n.actor = u
             /\ n.from = o /\ n.org = o
  BY <1>2, AsAdminIs
<1>5. CASE \E t \in Users, patch \in Patches : BeginPatch(r, u, o, t, patch)
  <2>1. PICK t \in Users, patch \in Patches : BeginPatch(r, u, o, t, patch)
    BY <1>5
  <2>2. PICK n : n = [AsAdmin(u, o, "patch") EXCEPT
          !.target = t, !.role = patch[1], !.active = patch[2], !.secret = patch[3]]
    OBVIOUS
  <2>3. patch[1] \in Roles \cup {None} /\ patch[2] \in BOOLEAN \cup {None} /\ patch[3] \in BOOLEAN
    <3>1. CASE \E ro \in Roles : patch = <<ro, None, FALSE>>
      BY <3>1
    <3>2. CASE \E ac \in BOOLEAN : patch = <<None, ac, FALSE>>
      BY <3>2
    <3>3. CASE patch = <<None, None, TRUE>>
      BY <3>3
    <3>. QED BY <3>1, <3>2, <3>3 DEF Patches
  <2>4. n \in Request /\ n.stage = "begun" /\ ShapeOK(n)
    <3>1. /\ n.op = "patch" /\ n.stage = "begun" /\ n.actor = u /\ n.from = o
          /\ n.org = o /\ n.target = t
      BY <1>4, <2>2 DEF Request, Ops
    <3>2. n \in Request
      BY <1>4, <2>2, <2>3, PatchIsARequest DEF Ops
    <3>3. Access(u, o) # None
      BY <1>3, <2>1 DEF BeginPatch, Authenticated
    <3>. QED BY <1>2, <3>1, <3>2, <3>3, <2>1, <2>3 DEF ShapeOK, Ops
  <2>. QED BY <2>1, <2>2, <2>4, BeginKeeps DEF BeginPatch
<1>6. CASE \E t \in Users : BeginRemove(r, u, o, t)
  <2>1. PICK t \in Users : BeginRemove(r, u, o, t)
    BY <1>6
  <2>2. PICK n : n = [AsAdmin(u, o, "remove") EXCEPT !.target = t]
    OBVIOUS
  <2>3. n \in Request /\ n.stage = "begun" /\ ShapeOK(n)
    BY <1>2, <1>3, <1>4, <2>1, <2>2 DEF BeginRemove, ShapeOK, Request, Ops
  <2>. QED BY <2>1, <2>2, <2>3, BeginKeeps DEF BeginRemove
<1>7. CASE \E t \in Users, ro \in Roles : BeginCreate(r, u, o, t, ro)
  <2>1. PICK t \in Users, ro \in Roles : BeginCreate(r, u, o, t, ro)
    BY <1>7
  <2>2. PICK n : n = [AsAdmin(u, o, "create") EXCEPT !.target = t, !.role = ro]
    OBVIOUS
  <2>3. n \in Request /\ n.stage = "begun" /\ ShapeOK(n)
    <3>1. /\ n.op = "create" /\ n.stage = "begun" /\ n.actor = u /\ n.from = o
          /\ n.org = o /\ n.target = t /\ n.role = ro
      BY <1>4, <2>2 DEF Request, Ops
    <3>2. n \in Request
      BY <1>4, <2>2, CreateIsARequest DEF Ops
    <3>3. Access(u, o) # None
      BY <1>3, <2>1 DEF BeginCreate, Authenticated
    <3>. QED BY <1>2, <3>1, <3>2, <3>3 DEF ShapeOK, Ops
  <2>. QED BY <2>1, <2>2, <2>3, BeginKeeps DEF BeginCreate
<1>8. CASE \E t \in Users, ro \in Roles, i \in Invitations : BeginInvite(r, u, o, i, t, ro)
  <2>1. PICK t \in Users, ro \in Roles, i \in Invitations : BeginInvite(r, u, o, i, t, ro)
    BY <1>8
  <2>2. PICK n : n = [AsAdmin(u, o, "invite") EXCEPT !.target = t, !.role = ro, !.invite = i]
    OBVIOUS
  <2>3. n \in Request /\ n.stage = "begun" /\ ShapeOK(n)
    <3>1. /\ n.op = "invite" /\ n.stage = "begun" /\ n.actor = u /\ n.from = o
          /\ n.org = o /\ n.target = t /\ n.role = ro /\ n.invite = i
      BY <1>4, <2>2 DEF Request, Ops
    <3>2. n \in Request
      BY <1>4, <2>2, InviteIsARequest DEF Ops
    <3>3. Access(u, o) # None
      BY <1>3, <2>1 DEF BeginInvite, Authenticated
    <3>. QED BY <1>2, <3>1, <3>2, <3>3 DEF ShapeOK, Ops
  <2>. QED BY <2>1, <2>2, <2>3, BeginKeeps DEF BeginInvite
<1>9. CASE BeginFound(r, u, o) \/ BeginWrite(r, u, o)
  <2>1. PICK op \in {"found", "write"} :
          Access(u, o) # None /\ Begin(r, [AsAdmin(u, o, op) EXCEPT !.target = u])
    BY <1>3, <1>9 DEF BeginFound, BeginWrite, Authenticated
  <2>2. PICK n : n = [AsAdmin(u, o, op) EXCEPT !.target = u]
    OBVIOUS
  <2>3. n \in Request /\ n.stage = "begun" /\ ShapeOK(n)
    BY <1>2, <1>4, <2>1, <2>2 DEF ShapeOK, Request, Ops
  <2>. QED BY <2>1, <2>2, <2>3, BeginKeeps
<1>10. CASE \E i \in Invitations : BeginRevoke(r, u, o, i)
  <2>1. PICK i \in Invitations : BeginRevoke(r, u, o, i)
    BY <1>10
  <2>2. PICK n : n = [AsAdmin(u, o, "revoke") EXCEPT !.invite = i]
    OBVIOUS
  <2>3. n \in Request /\ n.stage = "begun" /\ ShapeOK(n)
    BY <1>2, <1>3, <1>4, <2>1, <2>2 DEF BeginRevoke, ShapeOK, Request, Ops
  <2>. QED BY <2>1, <2>2, <2>3, BeginKeeps DEF BeginRevoke
<1>11. CASE \E i \in Invitations : BeginAccept(r, u, o, i)
  <2>1. PICK i \in Invitations : BeginAccept(r, u, o, i)
    BY <1>11
  <2>2. PICK n : n = [AsAdmin(u, o, "accept") EXCEPT !.target = u, !.invite = i, !.org = invites[i].org]
    OBVIOUS
  <2>3. invites[i].state # "none" /\ invites[i].org \in orgs /\ orgs \subseteq Orgs
    BY <2>1 DEF BeginAccept, Inv, Tables, Typed, InviteOK
  <2>4. n \in Request /\ n.stage = "begun" /\ ShapeOK(n)
    <3>1. /\ n.op = "accept" /\ n.stage = "begun" /\ n.actor = u /\ n.from = o
          /\ n.org = invites[i].org /\ n.target = u /\ n.invite = i
      BY <1>4, <2>2 DEF Request, Ops
    <3>2. n \in Request
      BY <1>4, <2>2, <2>3, AcceptIsARequest DEF Ops
    <3>3. Access(u, o) # None
      BY <1>3, <2>1 DEF BeginAccept, Authenticated
    <3>. QED BY <1>2, <3>1, <3>2, <3>3, <2>1, <2>3 DEF ShapeOK, Ops, BeginAccept
  <2>. QED BY <2>1, <2>2, <2>4, BeginKeeps DEF BeginAccept
<1>. QED BY <1>1, <1>5, <1>6, <1>7, <1>8, <1>9, <1>10, <1>11

-----------------------------------------------------------------------------
(* The steps of a request before it writes. *)

SameCall(n, q) ==
  /\ n.op = q.op /\ n.actor = q.actor /\ n.from = q.from /\ n.ver = q.ver
  /\ n.org = q.org /\ n.target = q.target /\ n.role = q.role /\ n.active = q.active
  /\ n.secret = q.secret /\ n.invite = q.invite

LEMMA Stepped ==
  ASSUME RequestsOK, NEW r \in Requests,
         NEW stage \in {"locked", "allowed", "held", "read"}, Step(r, stage)
  PROVE  \E n \in Request : /\ requests' = [requests EXCEPT ![r] = n]
                            /\ n.stage = stage /\ SameCall(n, requests[r]) /\ n.row = requests[r].row
<1>1. requests[r] \in Request
  BY DEF RequestsOK
<1>2. [requests[r] EXCEPT !.stage = stage] \in Request
  BY <1>1 DEF Request
<1>3. requests' = [requests EXCEPT ![r] = [requests[r] EXCEPT !.stage = stage]]
  BY DEF Step
<1>. QED BY <1>1, <1>2, <1>3 DEF SameCall, Request

LEMMA StageKeepsLocks ==
  ASSUME LocksOK, RequestsOK, NEW r \in Requests, NEW n \in Request,
         requests' = [requests EXCEPT ![r] = n], n.org = requests[r].org,
         n.target = requests[r].target, n.stage \in Holding,
         requests[r].stage \in {"held", "read"} => n.stage \in {"held", "read"}
  PROVE  /\ UNCHANGED <<orgLock, userLock>> => LocksOK'
         /\ UNCHANGED userLock /\ orgLock' = [orgLock EXCEPT ![n.org] = r] /\ n.org \in Orgs => LocksOK'
         /\ UNCHANGED orgLock /\ userLock' = [userLock EXCEPT ![n.target] = r] /\ n.target \in Users
              /\ n.stage = "held" => LocksOK'
<1>1. /\ requests'[r] = n /\ \A s \in Requests \ {r} : requests'[s] = requests[s]
  BY DEF RequestsOK
<1>. QED BY <1>1, NoneIsNobody DEF LocksOK

LEMMA LockOrgKeeps ==
  ASSUME Inv, NEW r \in Requests, LockOrg(r)
  PROVE  Inv'
<1>1. PICK n \in Request : /\ requests' = [requests EXCEPT ![r] = n]
                           /\ n.stage = "locked" /\ SameCall(n, requests[r])
  BY Stepped DEF Inv, LockOrg
<1>2. RequestOK(r, requests[r]) /\ requests[r].stage = "begun"
  BY DEF Inv, RequestsOK, LockOrg, At, Req
<1>3. ShapeOK(n) /\ n.org \in Orgs
  BY <1>1, <1>2 DEF RequestOK, ShapeOK, SameCall, Inv, Tables, Typed
<1>4. orgLock[n.org] = None /\ orgLock' = [orgLock EXCEPT ![n.org] = r]
  BY <1>1 DEF LockOrg, OrgFreeFor, Req, SameCall
<1>5. RequestOK(r, n)'
  <2>1. ShapeOK(n)'
    BY <1>3, Unmoved DEF LockOrg
  <2>. QED BY <1>1, <1>3, <1>4, <2>1 DEF RequestOK, AllowedOK, ReadOK, HoldsLocks, Holding, Inv, LocksOK
<1>6. LocksOK'
  BY <1>1, <1>2, <1>3, <1>4, StageKeepsLocks DEF Inv, LockOrg, Holding, SameCall
<1>7. \A s \in Requests \ {r} : LocksKept(s)
  BY <1>3, <1>4, NoneIsNobody DEF LocksKept, LockOrg, Inv, LocksOK
<1>. QED BY <1>1, <1>5, <1>6, <1>7, Quiet DEF LockOrg, Inv, Tables, Typed

LEMMA CheckPermissionKeeps ==
  ASSUME Inv, NEW r \in Requests, CheckPermission(r)
  PROVE  Inv'
<1>1. CASE ~Permitted(r)
  BY <1>1, RollbackKeeps DEF CheckPermission
<1>2. CASE Permitted(r)
  <2>1. PICK n \in Request : /\ requests' = [requests EXCEPT ![r] = n]
                             /\ n.stage = "allowed" /\ SameCall(n, requests[r])
    BY <1>2, Stepped DEF Inv, CheckPermission
  <2>2. RequestOK(r, requests[r]) /\ requests[r].stage = "locked"
    BY DEF Inv, RequestsOK, CheckPermission, At, Req
  <2>3. UNCHANGED <<tables, orgLock, userLock, ops>>
    BY <1>2 DEF CheckPermission
  <2>4. ShapeOK(n) /\ HoldsLocks(r, n)
    BY <2>1, <2>2 DEF RequestOK, ShapeOK, HoldsLocks, SameCall, Holding
  <2>5. AllowedOK(n)
    BY <1>2, <2>1 DEF AllowedOK, Permitted, StillAdmin, SameSession, Redeemable, Req, SameCall
  <2>6. RequestOK(r, n)'
    BY <2>1, <2>3, <2>4, <2>5, Unmoved DEF RequestOK, ReadOK, HoldsLocks
  <2>7. LocksOK'
    BY <2>1, <2>2, <2>3, StageKeepsLocks DEF Inv, Holding, SameCall
  <2>8. \A s \in Requests \ {r} : LocksKept(s)
    BY <2>3 DEF LocksKept
  <2>. QED BY <2>1, <2>3, <2>6, <2>7, <2>8, Quiet DEF Inv, Tables, Typed
<1>. QED BY <1>1, <1>2

LEMMA LockUserKeeps ==
  ASSUME Inv, NEW r \in Requests, LockUser(r)
  PROVE  Inv'
<1>1. PICK n \in Request : /\ requests' = [requests EXCEPT ![r] = n]
                           /\ n.stage = "held" /\ SameCall(n, requests[r])
  BY Stepped DEF Inv, LockUser
<1>2. RequestOK(r, requests[r]) /\ requests[r].stage = "allowed"
  BY DEF Inv, RequestsOK, LockUser, At, Req
<1>3. UNCHANGED <<tables, orgLock, ops>>
  BY DEF LockUser
<1>4. ShapeOK(n) /\ AllowedOK(n) /\ orgLock[n.org] = r
  BY <1>1, <1>2 DEF RequestOK, ShapeOK, AllowedOK, HoldsLocks, SameCall, Holding
<1>5. CASE n.op \in Locking
  <2>1. n.target \in Users
    BY <1>1, <1>4, <1>5 DEF ShapeOK, Locking
  <2>2. userLock[n.target] = None /\ userLock' = [userLock EXCEPT ![n.target] = r]
    BY <1>1, <1>5 DEF LockUser, Locks, Locking, UserFreeFor, Req, SameCall
  <2>3. RequestOK(r, n)'
    <3>1. ShapeOK(n)' /\ AllowedOK(n)'
      BY <1>3, <1>4, Unmoved
    <3>. QED BY <1>1, <1>3, <1>4, <2>1, <2>2, <3>1 DEF RequestOK, ReadOK, HoldsLocks, Inv, LocksOK
  <2>4. LocksOK'
    BY <1>1, <1>2, <1>3, <2>1, <2>2, StageKeepsLocks DEF Inv, Holding, SameCall
  <2>5. \A s \in Requests \ {r} : LocksKept(s)
    BY <1>3, <2>1, <2>2, NoneIsNobody DEF LocksKept, Inv, LocksOK
  <2>. QED BY <1>1, <1>3, <2>3, <2>4, <2>5, Quiet DEF Inv, Tables, Typed
<1>6. CASE n.op \notin Locking
  <2>1. UNCHANGED userLock
    BY <1>1, <1>6 DEF LockUser, Locks, Locking, Req, SameCall
  <2>2. RequestOK(r, n)'
    <3>1. ShapeOK(n)' /\ AllowedOK(n)'
      BY <1>3, <1>4, Unmoved
    <3>. QED BY <1>1, <1>3, <1>4, <1>6, <3>1 DEF RequestOK, ReadOK, HoldsLocks
  <2>3. LocksOK'
    BY <1>1, <1>2, <1>3, <2>1, StageKeepsLocks DEF Inv, Holding, SameCall
  <2>4. \A s \in Requests \ {r} : LocksKept(s)
    BY <1>3, <2>1 DEF LocksKept
  <2>. QED BY <1>1, <1>3, <2>2, <2>3, <2>4, Quiet DEF Inv, Tables, Typed
<1>. QED BY <1>5, <1>6

LEMMA ReadMemberKeeps ==
  ASSUME Inv, NEW r \in Requests, ReadMember(r)
  PROVE  Inv'
<1>1. RequestOK(r, requests[r]) /\ requests[r].stage = "held" /\ requests[r] \in Request
  BY DEF Inv, RequestsOK, ReadMember, At, Req
<1>2. ASSUME NEW n \in Request, requests' = [requests EXCEPT ![r] = n], n.stage = "read",
             SameCall(n, requests[r]), ReadOK(n), UNCHANGED <<tables, orgLock, userLock, ops>>
      PROVE  Inv'
  <2>1. ShapeOK(n) /\ AllowedOK(n) /\ HoldsLocks(r, n)
    BY <1>1, <1>2 DEF RequestOK, ShapeOK, AllowedOK, HoldsLocks, SameCall, Holding
  <2>2. RequestOK(r, n)'
    BY <1>2, <2>1, Unmoved DEF RequestOK, HoldsLocks
  <2>3. LocksOK'
    BY <1>1, <1>2, StageKeepsLocks DEF Inv, Holding, SameCall
  <2>4. \A s \in Requests \ {r} : LocksKept(s)
    BY <1>2 DEF LocksKept
  <2>. QED BY <1>2, <2>2, <2>3, <2>4, Quiet DEF Inv, Tables, Typed
<1>3. CASE requests[r].op \in {"patch", "remove"}
  <2>1. PICK u, o : u = requests[r].target /\ o = requests[r].org
    OBVIOUS
  <2>2. CASE ~OnRoster(u, o)
    BY <1>3, <2>1, <2>2, RollbackKeeps DEF ReadMember, Req
  <2>3. CASE OnRoster(u, o)
    <3>1. u \in Users /\ o \in orgs /\ o \in Orgs
      BY <1>1, <1>3, <2>1 DEF RequestOK, ShapeOK, Inv, Tables, Typed
    <3>2. RowOf(u, o) \in Row
      <4>1. /\ RosterRole(u, o) \in Roles
        BY <2>3, <3>1 DEF RosterRole, OnRoster, Inv, Tables, Typed, Pair
      <4>2. RosterActive(u, o) \in BOOLEAN /\ OwnedBy(u, o) \in BOOLEAN /\ OtherAdmin(u, o) \in BOOLEAN
        BY <3>1 DEF RosterActive, OwnedBy, OtherAdmin
      <4>. QED BY <4>1, <4>2 DEF RowOf, Row
    <3>3. PICK n : n = [requests[r] EXCEPT !.stage = "read", !.row = RowOf(u, o)]
      OBVIOUS
    <3>4. n \in Request /\ n.stage = "read" /\ SameCall(n, requests[r]) /\ n.row = RowOf(u, o)
      BY <1>1, <3>2, <3>3 DEF Request, SameCall
    <3>5. /\ requests' = [requests EXCEPT ![r] = n]
          /\ UNCHANGED <<tables, orgLock, userLock, ops>>
      BY <1>3, <2>1, <2>3, <3>3 DEF ReadMember, Req
    <3>6. RowStands(n)
      BY <2>1, <2>3, <3>4 DEF RowStands, RowOf, SameCall
    <3>7. ReadOK(n)
      BY <1>3, <3>4, <3>6 DEF ReadOK, SameCall
    <3>. QED BY <1>2, <3>4, <3>5, <3>7
  <2>. QED BY <2>2, <2>3
<1>4. CASE requests[r].op \notin {"patch", "remove"}
  <2>1. CASE Rollback(r)
    BY <2>1, RollbackKeeps
  <2>2. CASE ~Rollback(r)
    <3>1. /\ Step(r, "read") /\ UNCHANGED <<tables, orgLock, userLock, ops>>
          /\ requests[r].op = "write" => MayWrite(r)
          /\ requests[r].op = "accept" => MayJoin(r)
      BY <1>4, <2>2 DEF ReadMember, Req
    <3>2. PICK n \in Request : /\ requests' = [requests EXCEPT ![r] = n]
                               /\ n.stage = "read" /\ SameCall(n, requests[r])
      BY <3>1, Stepped DEF Inv
    <3>3. ReadOK(n)
      BY <1>4, <3>1, <3>2
      DEF ReadOK, SameCall, MayWrite, MayJoin, StaysAccess, SameSession, Req
    <3>. QED BY <1>2, <3>1, <3>2, <3>3
  <2>. QED BY <2>1, <2>2
<1>. QED BY <1>3, <1>4

-----------------------------------------------------------------------------
(* The transactions that write. *)

LEMMA TablesKept ==
  ASSUME Tables, NEW t \in Users, NEW o \in Orgs, Local(t, o), Typed', AccountOK(t)',
         \A i \in Invitations : InviteOK(i)', orgs' \subseteq orgs \cup {o},
         \E u \in Users : RosterAdmin(u, o)'
  PROVE  Tables'
<1>1. ASSUME NEW u \in Users PROVE AccountOK(u)'
  <2>1. CASE u = t
    BY <2>1
  <2>2. CASE u # t
    BY <2>2 DEF Local, SameAccount, SameSeat, Tables, AccountOK
  <2>. QED BY <2>1, <2>2
<1>2. ASSUME NEW p \in orgs' PROVE \E u \in Users : RosterAdmin(u, p)'
  <2>1. CASE p = o
    BY <2>1
  <2>2. CASE p # o
    <3>1. PICK u \in Users : RosterAdmin(u, p)
      BY <2>2 DEF Tables, AdministratorStays
    <3>. QED BY <2>2, <3>1, LocalKeeps
  <2>. QED BY <2>1, <2>2
<1>. QED BY <1>1, <1>2 DEF Tables, AdministratorStays

(* What a request that is about to write knows. *)
LEMMA AboutToWrite ==
  ASSUME Inv, NEW r \in Requests, At(r, "read")
  PROVE  LET q == requests[r] IN
         /\ q \in Request /\ RequestOK(r, q) /\ q.stage = "read"
         /\ q.actor \in Users /\ q.org \in orgs /\ q.org \in Orgs /\ orgLock[q.org] = r
         /\ q.op \in Locking => q.target \in Users /\ userLock[q.target] = r
BY DEF Inv, RequestsOK, RequestOK, ShapeOK, HoldsLocks, Holding, Locking, At, Req, Tables, Typed

LEMMA Revoked ==
  ASSUME Tables, NEW o \in Orgs, NEW u \in Users,
         \/ invites' = RevokedFor(o, u) /\ outdated' = outdated \cup OpenFor(o, u)
         \/ UNCHANGED <<invites, outdated>>,
         orgs \subseteq orgs'
  PROVE  /\ invites' \in [Invitations -> Invite] /\ outdated' \subseteq Invitations
         /\ InvitesOf(o) /\ \A i \in Invitations : InviteOK(i)'
<1>1. CASE UNCHANGED <<invites, outdated>>
  BY <1>1 DEF Tables, Typed, InviteOK, InvitesOf
<1>2. CASE invites' = RevokedFor(o, u) /\ outdated' = outdated \cup OpenFor(o, u)
  <2>1. ASSUME NEW i \in Invitations
        PROVE  /\ invites'[i] \in Invite /\ InviteOK(i)'
               /\ invites[i].state # "none" => invites'[i].state # "none" /\ invites'[i].org = invites[i].org
               /\ invites[i].org # o => invites'[i] = invites[i]
    <3>1. invites[i] \in Invite /\ InviteOK(i)
      BY DEF Tables, Typed
    <3>2. CASE i \in OpenFor(o, u)
      <4>1. invites'[i] = [invites[i] EXCEPT !.state = "revoked"] /\ invites[i].org = o
              /\ invites[i].state = "open"
        BY <1>2, <3>2 DEF RevokedFor, OpenFor
      <4>. QED BY <3>1, <4>1 DEF Invite, InviteOK
    <3>3. CASE i \notin OpenFor(o, u)
      <4>1. invites'[i] = invites[i] /\ (i \in outdated' => i \in outdated)
        BY <1>2, <3>3 DEF RevokedFor
      <4>. QED BY <3>1, <4>1 DEF InviteOK
    <3>. QED BY <3>2, <3>3
  <2>2. outdated' \subseteq Invitations
    BY <1>2 DEF OpenFor, Tables, Typed
  <2>3. invites' = [i \in Invitations |-> invites'[i]]
    BY <1>2 DEF RevokedFor
  <2>. QED BY <2>1, <2>2, <2>3 DEF InvitesOf
<1>. QED BY <1>1, <1>2

LEMMA PatchKeeps ==
  ASSUME Inv, NEW r \in Requests, CommitPatch(r), ~Rollback(r)
  PROVE  Inv' /\ Finish(r) /\ OfOneOrganization(r)
<1>1. PICK q \in Request : q = requests[r]
  BY DEF Inv, RequestsOK
<1>2. PICK u, o : u = q.target /\ o = q.org
  OBVIOUS
<1>3. /\ RequestOK(r, q) /\ q.stage = "read" /\ q.op = "patch" /\ u \in Users
      /\ o \in orgs /\ o \in Orgs /\ orgLock[o] = r /\ userLock[u] = r
  BY <1>1, <1>2, AboutToWrite DEF CommitPatch, Req, Locking
<1>4. RowStands(q) /\ q.row \in Row /\ AccountOK(u) /\ Typed
  BY <1>3 DEF RequestOK, ReadOK, Request, Inv, Tables
<1>5. PICK ro, ac : ro = NextRole(q) /\ ac = NextActive(q)
  OBVIOUS
<1>6. ro \in Roles /\ ac \in BOOLEAN
  BY <1>4, <1>5 DEF NextRole, NextActive, Request, Row
<1>7. /\ ~(DropsAdmin(q) /\ ~LeavesAdmin(q)) /\ (q.secret => q.row.owned)
      /\ IF home[u] = o
         THEN /\ role' = [role EXCEPT ![u] = ro]
              /\ active' = [active EXCEPT ![u] = IF q.row.owned THEN ac ELSE TRUE]
              /\ version' = [version EXCEPT ![u] = IF q.secret THEN @ + 1 ELSE @]
         ELSE UNCHANGED <<role, active, version>>
      /\ seat' = [seat EXCEPT ![<<o, u>>] = ro]
      /\ seated' = [seated EXCEPT ![<<o, u>>] = ac]
      /\ \/ invites' = RevokedFor(o, u) /\ outdated' = outdated \cup OpenFor(o, u)
         \/ UNCHANGED <<invites, outdated>>
      /\ Finish(r) /\ UNCHANGED <<home, orgs, ops>>
  BY <1>1, <1>2, <1>5 DEF CommitPatch, Req
<1>8. home[u] # None /\ (home[u] = o \/ active[u])
  BY <1>2, <1>3, <1>4, NoneIsNobody DEF RowStands, OnRoster, AccountOK, Typed
<1>9. /\ seat'[<<o, u>>] = ro /\ seated'[<<o, u>>] = ac
      /\ \A v \in Users, p \in Orgs : v # u \/ p # o => SameSeat(v, p)
  BY <1>3, <1>4, <1>7 DEF Typed, Pair, SameSeat
<1>10. q.row.owned => home[u] = o /\ \A p \in Orgs \ {o} : seat[<<p, u>>] = None
  BY <1>2, <1>4 DEF RowStands, OwnedBy
<1>11. Local(u, o)
  <2>1. \A v \in Users \ {u} : SameAccount(v)
    BY <1>3, <1>4, <1>7, <1>9 DEF Typed, SameAccount
  <2>2. role'[u] # role[u] \/ active'[u] # active[u] \/ version'[u] # version[u] => home'[u] = o
    BY <1>3, <1>4, <1>7
  <2>3. active'[u] # active[u] \/ version'[u] # version[u] => \A p \in Orgs \ {o} : seat[<<p, u>>] = None
    BY <1>3, <1>4, <1>7, <1>10 DEF Typed, AccountOK
  <2>. QED BY <1>3, <1>7, <1>9, <2>1, <2>2, <2>3 DEF Local
<1>12. invites' \in [Invitations -> Invite] /\ outdated' \subseteq Invitations /\ InvitesOf(o)
       /\ \A i \in Invitations : InviteOK(i)'
  BY <1>3, <1>7, Revoked DEF Inv
<1>13. Typed'
  <2>1. active' \in [Users -> BOOLEAN]
    BY <1>4, <1>6, <1>7 DEF Typed, Row
  <2>2. role' \in [Users -> Roles]
    BY <1>4, <1>6, <1>7 DEF Typed
  <2>3. version' \in [Users -> Nat]
    <3>1. version[u] \in Nat /\ version[u] + 1 \in Nat
      BY <1>3, <1>4 DEF Typed
    <3>2. PICK x \in Nat : x = IF q.secret THEN version[u] + 1 ELSE version[u]
      BY <3>1
    <3>3. version' = [version EXCEPT ![u] = x] \/ version' = version
      BY <1>7, <3>2
    <3>. QED BY <1>4, <3>3 DEF Typed
  <2>4. seat' \in [Pair -> Roles \cup {None}] /\ seated' \in [Pair -> BOOLEAN]
    BY <1>4, <1>6, <1>7 DEF Typed
  <2>. QED BY <1>4, <1>7, <1>12, <2>1, <2>2, <2>3, <2>4 DEF Typed
<1>14. AccountOK(u)'
  <2>1. active'[u] => home'[u] # None
    BY <1>7, <1>8
  <2>2. ~active'[u] => \A p \in Orgs : home'[u] # p => seat'[<<p, u>>] = None
    <3>1. ASSUME ~active'[u] PROVE home[u] = o /\ \A p \in Orgs \ {o} : seat[<<p, u>>] = None
      BY <3>1, <1>3, <1>4, <1>7, <1>8, <1>10 DEF Typed
    <3>. QED BY <1>3, <1>7, <1>9, <3>1 DEF SameSeat
  <2>. QED BY <1>3, <1>4, <1>7, <1>8, <1>9, <2>1, <2>2 DEF AccountOK, SameSeat
<1>15. \E v \in Users : RosterAdmin(v, o)'
  <2>1. PICK w \in Users : RosterAdmin(w, o)
    BY <1>3 DEF Inv, Tables, AdministratorStays
  <2>2. CASE \E v \in Users \ {u} : RosterAdmin(v, o)
    BY <1>3, <1>11, <2>2, LocalKeeps DEF Inv, Local
  <2>3. CASE ~\E v \in Users \ {u} : RosterAdmin(v, o)
    <3>1. w = u /\ ~q.row.others
      BY <1>2, <1>4, <2>1, <2>3 DEF RowStands, OtherAdmin
    <3>2. ac /\ ro = "ADMIN"
      BY <1>2, <1>4, <1>5, <1>7, <2>1, <3>1 DEF RowStands, RosterAdmin, DropsAdmin, LeavesAdmin
    <3>3. active'[u] /\ (home[u] = o => role'[u] = "ADMIN")
      BY <1>3, <1>4, <1>7, <1>8, <3>2 DEF Typed
    <3>4. RosterAdmin(u, o)'
      BY <1>7, <1>8, <1>9, <3>2, <3>3, NoneIsNobody
      DEF RosterAdmin, OnRoster, RosterActive, RosterRole, Suspended, Roles
    <3>. QED BY <1>3, <3>4
  <2>. QED BY <2>2, <2>3
<1>16. Tables'
  BY <1>3, <1>7, <1>11, <1>12, <1>13, <1>14, <1>15, TablesKept DEF Inv
<1>17. Finish(r) /\ Disturbs(r, u, o)
  BY <1>3, <1>7, <1>11, <1>12, <1>16 DEF Disturbs
<1>. QED BY <1>3, <1>7, <1>11, <1>12, <1>16, <1>17, Committed DEF OfOneOrganization

LEMMA RemoveKeeps ==
  ASSUME Inv, NEW r \in Requests, CommitRemove(r), ~Rollback(r)
  PROVE  Inv' /\ Finish(r) /\ OfOneOrganization(r)
<1>1. PICK q \in Request : q = requests[r]
  BY DEF Inv, RequestsOK
<1>2. PICK u, o : u = q.target /\ o = q.org
  OBVIOUS
<1>3. /\ RequestOK(r, q) /\ q.stage = "read" /\ q.op = "remove" /\ u \in Users
      /\ o \in orgs /\ o \in Orgs /\ orgLock[o] = r /\ userLock[u] = r
  BY <1>1, <1>2, AboutToWrite DEF CommitRemove, Req, Locking
<1>4. RowStands(q) /\ q.row \in Row /\ AccountOK(u) /\ Typed
  BY <1>3 DEF RequestOK, ReadOK, Request, Inv, Tables
<1>5. /\ LeavesAdmin(q)
      /\ invites' = RevokedFor(o, u) /\ outdated' = outdated \cup OpenFor(o, u)
      /\ Finish(r) /\ UNCHANGED <<home, role, version, orgs, ops>>
      /\ \/ q.row.owned /\ active' = [active EXCEPT ![u] = FALSE] /\ UNCHANGED seats
         \/ /\ UNCHANGED active /\ seated' = [seated EXCEPT ![<<o, u>>] = FALSE]
            /\ \/ ~q.row.owned /\ home[u] = o /\ seat' = [seat EXCEPT ![<<o, u>>] = q.row.role]
               \/ home[u] # o /\ seat' = [seat EXCEPT ![<<o, u>>] = None]
  <2>1. q.row.owned \in BOOLEAN /\ (q.row.owned => home[u] = o)
    BY <1>2, <1>4 DEF RowStands, OwnedBy, Row
  <2>. QED BY <1>1, <1>2, <2>1 DEF CommitRemove, Req
<1>6. home[u] # None /\ (home[u] = o \/ active[u])
  BY <1>2, <1>3, <1>4, NoneIsNobody DEF RowStands, OnRoster, AccountOK, Typed
<1>7. \A v \in Users, p \in Orgs : v # u \/ p # o => SameSeat(v, p)
  BY <1>3, <1>4, <1>5 DEF Typed, Pair, SameSeat, seats
<1>8. q.row.owned => home[u] = o /\ \A p \in Orgs \ {o} : seat[<<p, u>>] = None
  BY <1>2, <1>4 DEF RowStands, OwnedBy
<1>9. Local(u, o)
  <2>1. \A v \in Users \ {u} : SameAccount(v)
    BY <1>3, <1>4, <1>5, <1>7 DEF Typed, SameAccount
  <2>2. active'[u] # active[u] => q.row.owned
    BY <1>5
  <2>. QED BY <1>3, <1>5, <1>7, <1>8, <2>1, <2>2 DEF Local
<1>10. invites' \in [Invitations -> Invite] /\ outdated' \subseteq Invitations /\ InvitesOf(o)
       /\ \A i \in Invitations : InviteOK(i)'
  BY <1>3, <1>5, Revoked DEF Inv
<1>11. Typed'
  <2>1. active' \in [Users -> BOOLEAN]
    BY <1>4, <1>5 DEF Typed
  <2>2. seat' \in [Pair -> Roles \cup {None}] /\ seated' \in [Pair -> BOOLEAN]
    BY <1>4, <1>5 DEF Typed, seats, Row
  <2>. QED BY <1>4, <1>5, <1>10, <2>1, <2>2 DEF Typed
<1>12. AccountOK(u)'
  <2>1. active'[u] => home'[u] # None
    BY <1>5, <1>6
  <2>2. ASSUME NEW p \in Orgs, seat'[<<p, u>>] # None
        PROVE  p \in orgs' /\ (home'[u] # p => active'[u])
    <3>1. CASE p = o
      BY <1>3, <1>5, <1>6, <1>8, <3>1
    <3>2. CASE p # o
      BY <1>3, <1>4, <1>5, <1>7, <1>8, <2>2, <3>2 DEF Typed, SameSeat, AccountOK
    <3>. QED BY <3>1, <3>2
  <2>. QED BY <1>4, <1>5, <1>6, <2>1, <2>2 DEF AccountOK
<1>13. \E v \in Users : RosterAdmin(v, o)'
  <2>1. PICK w \in Users : RosterAdmin(w, o)
    BY <1>3 DEF Inv, Tables, AdministratorStays
  <2>2. \E v \in Users \ {u} : RosterAdmin(v, o)
    BY <1>2, <1>4, <1>5, <2>1 DEF RowStands, OtherAdmin, LeavesAdmin, RosterAdmin
  <2>. QED BY <1>3, <1>9, <2>2, LocalKeeps DEF Inv, Local
<1>14. Tables'
  BY <1>3, <1>5, <1>9, <1>10, <1>11, <1>12, <1>13, TablesKept DEF Inv
<1>15. Finish(r) /\ Disturbs(r, u, o)
  BY <1>3, <1>5, <1>9, <1>10, <1>14 DEF Disturbs
<1>. QED BY <1>3, <1>5, <1>9, <1>10, <1>14, <1>15, Committed DEF OfOneOrganization

LEMMA InviteMoves ==
  ASSUME Tables, NEW o \in orgs, NEW i \in Invitations, NEW n \in Invite,
         invites' = [invites EXCEPT ![i] = n], n.state # "none", n.org = o,
         invites[i].state # "none" => invites[i].org = o,
         i \in outdated => n.state = "revoked", UNCHANGED <<orgs, outdated>>
  PROVE  /\ invites' \in [Invitations -> Invite] /\ outdated' \subseteq Invitations
         /\ InvitesOf(o) /\ \A j \in Invitations : InviteOK(j)'
BY DEF Tables, Typed, InviteOK, InvitesOf

(* The accounts and the memberships stay as they are. *)
LEMMA SameRows ==
  ASSUME Inv, UNCHANGED <<accounts, seats, orgs, ops>>, NEW t \in Users, NEW o \in Orgs,
         invites' \in [Invitations -> Invite], outdated' \subseteq Invitations,
         \A i \in Invitations : InviteOK(i)'
  PROVE  SameAccount(t) /\ Local(t, o) /\ Tables'
<1>1. \A u \in Users : SameAccount(u)
  BY DEF accounts, seats, SameAccount, SameSeat
<1>2. Local(t, o)
  BY <1>1 DEF Local, SameAccount, accounts
<1>3. Typed'
  BY DEF Inv, Tables, Typed, accounts, seats
<1>4. \A u \in Users : AccountOK(u)'
  BY DEF Inv, Tables, AccountOK, accounts, seats
<1>5. AdministratorStays'
  BY DEF Inv, Tables, AdministratorStays, RosterAdmin, RosterRole, RosterActive, OnRoster,
         Suspended, accounts, seats
<1>. QED BY <1>1, <1>2, <1>3, <1>4, <1>5 DEF Tables

LEMMA CreateKeeps ==
  ASSUME Inv, NEW r \in Requests, CommitCreate(r), ~Rollback(r)
  PROVE  Inv' /\ Finish(r) /\ OfOneOrganization(r)
<1>1. PICK q \in Request : q = requests[r]
  BY DEF Inv, RequestsOK
<1>2. PICK t, o, ro : t = q.target /\ o = q.org /\ ro = q.role
  OBVIOUS
<1>3. /\ RequestOK(r, q) /\ q.stage = "read" /\ q.op = "create"
      /\ o \in orgs /\ o \in Orgs /\ orgLock[o] = r
  BY <1>1, <1>2, AboutToWrite DEF CommitCreate, Req
<1>4. t \in Users /\ ro \in Roles /\ AccountOK(t) /\ Typed
  BY <1>2, <1>3 DEF RequestOK, ShapeOK, Inv, Tables
<1>5. /\ home[t] = None
      /\ home' = [home EXCEPT ![t] = o] /\ role' = [role EXCEPT ![t] = ro]
      /\ active' = [active EXCEPT ![t] = TRUE]
      /\ Finish(r) /\ UNCHANGED <<version, seats, orgs, invites, outdated, ops>>
  BY <1>1, <1>2 DEF CommitCreate, Req
<1>6. /\ home'[t] = o /\ active'[t] /\ \A p \in Orgs : seat[<<p, t>>] = None
  BY <1>4, <1>5 DEF AccountOK, Typed
<1>7. \A v \in Users, p \in Orgs : SameSeat(v, p)
  BY <1>5 DEF SameSeat, seats
<1>8. Local(t, o)
  <2>1. \A v \in Users \ {t} : SameAccount(v)
    BY <1>4, <1>5, <1>7 DEF Typed, SameAccount
  <2>. QED BY <1>3, <1>4, <1>5, <1>6, <1>7, <2>1 DEF Local
<1>9. InvitesOf(o) /\ \A i \in Invitations : InviteOK(i)'
  BY <1>3, <1>4, <1>5, Revoked DEF Inv
<1>10. Typed'
  BY <1>3, <1>4, <1>5 DEF Typed, seats
<1>11. AccountOK(t)'
  BY <1>3, <1>5, <1>6, NoneIsNobody DEF AccountOK, seats
<1>12. \E v \in Users : RosterAdmin(v, o)'
  <2>1. PICK w \in Users : RosterAdmin(w, o)
    BY <1>3 DEF Inv, Tables, AdministratorStays
  <2>2. SameAccount(w)
    BY <1>5, <1>8, <2>1 DEF Local, RosterAdmin, OnRoster
  <2>. QED BY <1>3, <1>4, <1>8, <2>1, <2>2, LocalKeeps DEF Inv
<1>13. Tables'
  BY <1>3, <1>4, <1>5, <1>8, <1>9, <1>10, <1>11, <1>12, TablesKept DEF Inv
<1>14. Finish(r) /\ Disturbs(r, t, o)
  BY <1>3, <1>4, <1>5, <1>8, <1>9, <1>13 DEF Disturbs
<1>. QED BY <1>3, <1>4, <1>5, <1>8, <1>9, <1>13, <1>14, Committed DEF OfOneOrganization

LEMMA FoundKeeps ==
  ASSUME Inv, NEW r \in Requests, NEW new \in Orgs, CommitFound(r, new)
  PROVE  Inv' /\ Finish(r) /\ OfOneOrganization(r)
<1>1. PICK q \in Request : q = requests[r]
  BY DEF Inv, RequestsOK
<1>2. PICK u : u = q.actor
  OBVIOUS
<1>3. /\ RequestOK(r, q) /\ q.stage = "read" /\ q.op = "found" /\ u \in Users
      /\ q.org \in orgs /\ q.target = u /\ userLock[u] = r
  BY <1>1, <1>2, AboutToWrite DEF CommitFound, Req, Locking, RequestOK, ShapeOK
<1>4. AccountOK(u) /\ Typed
  BY <1>3 DEF Inv, Tables
<1>5. /\ new \notin orgs /\ orgs' = orgs \cup {new}
      /\ seat' = [seat EXCEPT ![<<new, u>>] = "ADMIN"]
      /\ seated' = [seated EXCEPT ![<<new, u>>] = TRUE]
      /\ Finish(r) /\ UNCHANGED <<accounts, invites, outdated, ops>>
  BY <1>1, <1>2 DEF CommitFound, Req
<1>6. active[u] /\ home[u] # None /\ home[u] # new
  <2>1. Access(u, q.org) = "ADMIN"
    BY <1>2, <1>3 DEF RequestOK, AllowedOK
  <2>2. active[u]
    BY <2>1, NoneIsNobody DEF Access, Roles
  <2>. QED BY <1>4, <1>5, <2>2 DEF AccountOK
<1>7. /\ seat'[<<new, u>>] = "ADMIN" /\ seated'[<<new, u>>]
      /\ \A v \in Users, p \in Orgs : v # u \/ p # new => SameSeat(v, p)
  BY <1>3, <1>4, <1>5 DEF Typed, Pair, SameSeat
<1>8. Local(u, new)
  BY <1>3, <1>5, <1>7 DEF Local, SameAccount, accounts
<1>9. InvitesOf(new) /\ \A i \in Invitations : InviteOK(i)'
  BY <1>3, <1>5, Revoked DEF Inv
<1>10. Typed'
  BY <1>4, <1>5 DEF Typed, accounts, Roles
<1>11. AccountOK(u)'
  BY <1>4, <1>5, <1>6, <1>7 DEF AccountOK, SameSeat, accounts
<1>12. RosterAdmin(u, new)'
  BY <1>5, <1>6, <1>7, NoneIsNobody
  DEF RosterAdmin, OnRoster, RosterActive, RosterRole, Suspended, accounts, Roles
<1>13. Tables'
  BY <1>3, <1>5, <1>8, <1>9, <1>10, <1>11, <1>12, TablesKept DEF Inv
<1>14. Finish(r) /\ Disturbs(r, u, new)
  BY <1>3, <1>5, <1>8, <1>9, <1>13 DEF Disturbs
<1>. QED BY <1>3, <1>5, <1>8, <1>9, <1>13, <1>14, Committed DEF OfOneOrganization

LEMMA InviteKeeps ==
  ASSUME Inv, NEW r \in Requests, CommitInvite(r), ~Rollback(r)
  PROVE  Inv' /\ Finish(r) /\ OfOneOrganization(r)
<1>1. PICK q \in Request : q = requests[r]
  BY DEF Inv, RequestsOK
<1>2. /\ RequestOK(r, q) /\ q.stage = "read" /\ q.op = "invite" /\ q.actor \in Users
      /\ q.org \in orgs /\ q.org \in Orgs /\ orgLock[q.org] = r
  BY <1>1, AboutToWrite DEF CommitInvite, Req
<1>3. PICK n : n = [state |-> "open", org |-> q.org, person |-> q.target, role |-> q.role]
  OBVIOUS
<1>4. q.invite \in Invitations /\ n \in Invite /\ InviteOK(q.invite)
  BY <1>2, <1>3 DEF RequestOK, ShapeOK, Invite, Inv, Tables
<1>5. /\ invites[q.invite].state = "none" /\ invites' = [invites EXCEPT ![q.invite] = n]
      /\ Finish(r) /\ UNCHANGED <<accounts, seats, orgs, outdated, ops>>
  BY <1>1, <1>3 DEF CommitInvite, Req
<1>6. /\ invites' \in [Invitations -> Invite] /\ outdated' \subseteq Invitations
      /\ InvitesOf(q.org) /\ \A j \in Invitations : InviteOK(j)'
  BY <1>2, <1>3, <1>4, <1>5, InviteMoves DEF Inv, InviteOK
<1>7. SameAccount(q.actor) /\ Local(q.actor, q.org) /\ Tables'
  BY <1>2, <1>5, <1>6, SameRows
<1>8. Finish(r) /\ Disturbs(r, q.actor, q.org)
  BY <1>2, <1>5, <1>6, <1>7 DEF Disturbs
<1>. QED BY <1>2, <1>5, <1>6, <1>7, <1>8, Committed DEF OfOneOrganization

LEMMA RevokeKeeps ==
  ASSUME Inv, NEW r \in Requests, CommitRevoke(r)
  PROVE  Inv' /\ Finish(r) /\ OfOneOrganization(r)
<1>1. PICK q \in Request : q = requests[r]
  BY DEF Inv, RequestsOK
<1>2. /\ RequestOK(r, q) /\ q.stage = "read" /\ q.op = "revoke" /\ q.actor \in Users
      /\ q.org \in orgs /\ q.org \in Orgs /\ orgLock[q.org] = r /\ q.invite \in Invitations
  BY <1>1, AboutToWrite DEF CommitRevoke, Req, RequestOK, ShapeOK
<1>3. Finish(r) /\ UNCHANGED <<accounts, seats, orgs, outdated, ops>>
  BY DEF CommitRevoke
<1>4. /\ invites' \in [Invitations -> Invite] /\ outdated' \subseteq Invitations
      /\ InvitesOf(q.org) /\ \A j \in Invitations : InviteOK(j)'
  <2>1. CASE UNCHANGED invites
    BY <1>2, <1>3, <2>1, Revoked DEF Inv
  <2>2. CASE ~UNCHANGED invites
    <3>1. /\ invites[q.invite].state = "open" /\ invites[q.invite].org = q.org
          /\ invites' = [invites EXCEPT ![q.invite].state = "revoked"]
      BY <1>1, <2>2 DEF CommitRevoke, Req
    <3>2. PICK n : n = [invites[q.invite] EXCEPT !.state = "revoked"]
      OBVIOUS
    <3>3. n \in Invite /\ n.state = "revoked" /\ n.org = q.org
      BY <1>2, <3>1, <3>2 DEF Inv, Tables, Typed, Invite
    <3>4. invites' = [invites EXCEPT ![q.invite] = n]
      BY <3>1, <3>2
    <3>. QED BY <1>2, <1>3, <3>1, <3>3, <3>4, InviteMoves DEF Inv
  <2>. QED BY <2>1, <2>2
<1>5. SameAccount(q.actor) /\ Local(q.actor, q.org) /\ Tables'
  BY <1>2, <1>3, <1>4, SameRows
<1>6. Finish(r) /\ Disturbs(r, q.actor, q.org)
  BY <1>2, <1>3, <1>4, <1>5 DEF Disturbs
<1>. QED BY <1>2, <1>3, <1>4, <1>5, <1>6, Committed DEF OfOneOrganization

LEMMA AcceptKeeps ==
  ASSUME Inv, NEW r \in Requests, CommitAccept(r)
  PROVE  Inv' /\ Finish(r) /\ OfOneOrganization(r)
<1>1. PICK q \in Request : q = requests[r]
  BY DEF Inv, RequestsOK
<1>2. PICK u, o, i, ro : u = q.actor /\ o = q.org /\ i = q.invite /\ ro = invites[q.invite].role
  OBVIOUS
<1>3. /\ RequestOK(r, q) /\ q.stage = "read" /\ q.op = "accept" /\ u \in Users
      /\ o \in orgs /\ o \in Orgs /\ orgLock[o] = r /\ userLock[u] = r
  BY <1>1, <1>2, AboutToWrite DEF CommitAccept, Req, Locking, RequestOK, ShapeOK
<1>4. /\ i \in Invitations /\ invites[i].state = "open" /\ invites[i].org = o /\ InviteOK(i)
      /\ q.from \in orgs /\ Access(u, q.from) # None /\ Access(u, o) = None
  BY <1>2, <1>3 DEF RequestOK, ShapeOK, AllowedOK, ReadOK, Inv, Tables
<1>5. AccountOK(u) /\ Typed /\ ro \in Roles
  BY <1>2, <1>3, <1>4 DEF Inv, Tables, Typed, Invite
<1>6. PICK n : n = [invites[i] EXCEPT !.state = "accepted"]
  OBVIOUS
<1>7. /\ seat' = [seat EXCEPT ![<<o, u>>] = ro] /\ seated' = [seated EXCEPT ![<<o, u>>] = TRUE]
      /\ role' = IF home[u] = o THEN [role EXCEPT ![u] = ro] ELSE role
      /\ invites' = [invites EXCEPT ![i] = n]
      /\ Finish(r) /\ UNCHANGED <<home, active, version, orgs, outdated, ops>>
  BY <1>1, <1>2, <1>6 DEF CommitAccept, Req
<1>8. active[u] /\ home[u] # None
  BY <1>4, <1>5 DEF Access, AccountOK
<1>9. \A v \in Users, p \in Orgs : v # u \/ p # o => SameSeat(v, p)
  BY <1>3, <1>5, <1>7 DEF Typed, Pair, SameSeat
<1>10. Local(u, o)
  <2>1. \A v \in Users \ {u} : SameAccount(v)
    BY <1>3, <1>5, <1>7, <1>9 DEF Typed, SameAccount
  <2>. QED BY <1>3, <1>7, <1>9, <2>1 DEF Local
<1>11. /\ invites' \in [Invitations -> Invite] /\ outdated' \subseteq Invitations
       /\ InvitesOf(o) /\ \A j \in Invitations : InviteOK(j)'
  <2>1. n \in Invite /\ n.state = "accepted" /\ n.org = o
    BY <1>4, <1>5, <1>6 DEF Typed, Invite
  <2>. QED BY <1>3, <1>4, <1>7, <2>1, InviteMoves DEF Inv, InviteOK
<1>12. Typed'
  BY <1>5, <1>7, <1>11 DEF Typed
<1>13. AccountOK(u)'
  BY <1>3, <1>5, <1>7, <1>8, <1>9 DEF AccountOK, SameSeat
<1>14. \E v \in Users : RosterAdmin(v, o)'
  <2>1. PICK w \in Users : RosterAdmin(w, o)
    BY <1>3 DEF Inv, Tables, AdministratorStays
  <2>2. w # u
    BY <1>3, <1>4, <2>1, RosterAdminHasAccess, NoneIsNobody DEF Roles
  <2>. QED BY <1>3, <1>10, <2>1, <2>2, LocalKeeps DEF Inv, Local
<1>15. Tables'
  BY <1>3, <1>7, <1>10, <1>11, <1>12, <1>13, <1>14, TablesKept DEF Inv
<1>16. Finish(r) /\ Disturbs(r, u, o)
  BY <1>3, <1>7, <1>10, <1>11, <1>15 DEF Disturbs
<1>. QED BY <1>3, <1>7, <1>10, <1>11, <1>15, <1>16, Committed DEF OfOneOrganization

LEMMA ExpireKeeps ==
  ASSUME Inv, NEW i \in Invitations, Expire(i)
  PROVE  Inv'
<1>1. /\ invites[i].state = "open"
      /\ UNCHANGED <<accounts, seats, orgs, requests, orgLock, userLock, outdated, ops>>
      /\ \A r \in Requests : requests[r].invite = i => requests[r].stage \in {"idle", "begun", "locked"}
      /\ invites[i] \in Invite /\ InviteOK(i)
  BY DEF Expire, Req, Inv, Tables, Typed
<1>2. PICK n : n = [invites[i] EXCEPT !.state = "expired"]
  OBVIOUS
<1>3. n \in Invite /\ n.state = "expired" /\ n.org = invites[i].org /\ invites' = [invites EXCEPT ![i] = n]
  BY <1>1, <1>2 DEF Expire, Invite
<1>4. /\ invites' \in [Invitations -> Invite] /\ outdated' \subseteq Invitations
      /\ InvitesOf(n.org) /\ \A j \in Invitations : InviteOK(j)'
  BY <1>1, <1>3, InviteMoves DEF Inv, InviteOK
<1>5. Tables'
  <2>1. Typed' /\ \A u \in Users : AccountOK(u)'
    BY <1>1, <1>4 DEF Inv, Tables, Typed, AccountOK, accounts, seats
  <2>2. AdministratorStays'
    BY <1>1 DEF Inv, Tables, AdministratorStays, RosterAdmin, RosterRole, RosterActive, OnRoster,
                Suspended, accounts, seats
  <2>. QED BY <1>4, <2>1, <2>2 DEF Tables
<1>6. ASSUME NEW s \in Requests, NEW q \in Request, requests'[s] = q
      PROVE  RequestOK(s, q)'
  <2>1. RequestOK(s, q) /\ (q.invite = i => q.stage \in {"idle", "begun", "locked"})
    BY <1>1, <1>6 DEF Inv, RequestsOK
  <2>2. ShapeOK(q)'
    BY <1>1, <1>3, <1>4, <2>1 DEF RequestOK, ShapeOK, InvitesOf, accounts
  <2>3. q.stage # "idle" => (q.op = "accept" => q.invite \in Invitations)
    BY <2>1 DEF RequestOK, ShapeOK
  <2>4. AllowedOK(q)'
    <3>1. \A j \in Invitations : j # i => invites'[j] = invites[j]
      BY <1>3 DEF Inv, Tables, Typed
    <3>. QED BY <1>1, <2>1, <2>3, <3>1
      DEF RequestOK, AllowedOK, Access, Suspended, accounts, seats
  <2>5. ReadOK(q)'
    BY <1>1, <2>1 DEF RequestOK, ReadOK, RowStands, Access, Suspended, OnRoster, RosterRole,
       RosterActive, RosterAdmin, OtherAdmin, OwnedBy, accounts, seats
  <2>6. HoldsLocks(s, q)'
    BY <1>1, <2>1 DEF RequestOK, HoldsLocks
  <2>. QED BY <2>2, <2>4, <2>5, <2>6 DEF RequestOK
<1>7. LocksOK' /\ requests' \in [Requests -> Request]
  BY <1>1 DEF Inv, LocksOK, RequestsOK
<1>. QED BY <1>5, <1>6, <1>7 DEF Inv, RequestsOK

-----------------------------------------------------------------------------
LEMMA CommitKeeps ==
  ASSUME Inv, NEW r \in Requests, Commit(r)
  PROVE  Inv' /\ (Rollback(r) \/ (Finish(r) /\ OfOneOrganization(r)))
<1>1. CASE Rollback(r)
  <2>1. Inv'
    BY <1>1, RollbackKeeps
  <2>. QED BY <1>1, <2>1
<1>2. CASE ~Rollback(r)
  <2>1. CommitWrite(r) => Rollback(r)
    BY DEF CommitWrite, Rollback
  <2>. QED BY <1>2, <2>1, PatchKeeps, RemoveKeeps, CreateKeeps, FoundKeeps, InviteKeeps, RevokeKeeps,
              AcceptKeeps DEF Commit
<1>. QED BY <1>1, <1>2

LEMMA StepKeeps == Inv /\ [Next]_vars => Inv'
<1> SUFFICES ASSUME Inv, [Next]_vars PROVE Inv'
  OBVIOUS
<1>1. ASSUME NEW r \in Requests, BeginSome(r) PROVE Inv'
  BY <1>1, BeginSomeKeeps
<1>2. ASSUME NEW r \in Requests, Proceed(r) PROVE Inv'
  BY <1>2, LockOrgKeeps, CheckPermissionKeeps, LockUserKeeps, ReadMemberKeeps, CommitKeeps DEF Proceed
<1>3. ASSUME NEW i \in Invitations, Expire(i) PROVE Inv'
  BY <1>3, ExpireKeeps
<1>4. CASE UNCHANGED vars
  <2>1. UNCHANGED tables /\ Tables' /\ UNCHANGED <<requests, orgLock, userLock>>
    BY <1>4, TablesUnmoved DEF vars, tables, accounts, seats, Inv, Tables, Typed
  <2>2. LocksOK'
    BY <2>1 DEF Inv, LocksOK
  <2>3. ASSUME NEW s \in Requests, NEW q \in Request, requests'[s] = q PROVE RequestOK(s, q)'
    <3>1. RequestOK(s, q)
      BY <2>1, <2>3 DEF Inv, RequestsOK
    <3>2. HoldsLocks(s, q)'
      BY <2>1, <3>1 DEF RequestOK, HoldsLocks
    <3>. QED BY <2>1, <3>1, <3>2, Unmoved DEF RequestOK
  <2>. QED BY <2>1, <2>2, <2>3 DEF Inv, RequestsOK
<1>. QED BY <1>1, <1>2, <1>3, <1>4 DEF Next

LEMMA Always == Spec => []Inv
<1>. QED BY Initially, StepKeeps, PTL DEF Spec

(* For any accounts, organizations, invitations and requests at once: the   *)
(* tables keep their shape, every organization keeps an active              *)
(* administrator although two of them demote or remove each other, and no   *)
(* invitation from before a removal or a change of role lets anybody in.    *)
THEOREM OrganizationsStayGoverned == Spec => []MembershipInv
<1>1. Inv => MembershipInv
  BY DEF Inv, Tables, Typed, LocksOK, RequestsOK, InviteOK, MembershipInv, MembershipTypeOK, RemovedStaysOut
<1>. QED BY <1>1, Always, PTL

(* Whoever commits has the session and the permission of that moment, for   *)
(* any number of requests waiting on each other's locks.                    *)
THEOREM PermissionIsOfTheMoment == Spec => ActsWithPermission
<1>1. ASSUME Inv, NEW r \in Requests, requests[r].stage = "read"
      PROVE  LET q == requests[r] may == Access(q.actor, q.from) IN
             /\ version[q.actor] = q.ver /\ may # None
             /\ q.op = "write" => may # "LECTOR"
             /\ q.op \notin {"accept", "write"} => may = "ADMIN"
  <2>1. PICK q \in Request : q = requests[r]
    BY <1>1 DEF Inv, RequestsOK
  <2>2. RequestOK(r, q) /\ q.stage = "read"
    BY <1>1, <2>1 DEF Inv, RequestsOK
  <2>. QED BY <2>1, <2>2, NoneIsNobody DEF RequestOK, ShapeOK, AllowedOK, ReadOK, Roles
<1>2. Inv /\ [Next]_vars =>
        [\A r \in Requests :
           LET q == requests[r] may == Access(q.actor, q.from) IN
           q.stage = "read" /\ requests'[r].stage = "idle" =>
             /\ version[q.actor] = q.ver /\ may # None
             /\ q.op = "write" => may # "LECTOR"
             /\ q.op \notin {"accept", "write"} => may = "ADMIN"]_vars
  BY <1>1
<1>. QED BY <1>2, Always, PTL DEF Spec, ActsWithPermission

(* Whatever changes a member's access to an organization is the commit of a *)
(* request that held the lock of that organization: a transaction of        *)
(* another one, about the same account, gives and takes nothing there.      *)
THEOREM AccessChangesUnderItsLock == Spec => AccessIsLocal
<1>1. ASSUME Inv, Next, NEW u \in Users, NEW p \in orgs, Access(u, p)' # Access(u, p)
      PROVE  orgLock[p] # None /\ orgLock'[p] = None
  <2>1. ~UNCHANGED <<accounts, seats, orgs>>
    BY <1>1 DEF Access, Suspended, accounts, seats
  <2>2. PICK r \in Requests : Commit(r) /\ ~Rollback(r)
    <3>1. \A r \in Requests : ~BeginSome(r)
      BY <1>1, <2>1, BeginSomeKeeps DEF tables
    <3>2. \A r \in Requests : ~Rollback(r) /\ ~LockOrg(r) /\ ~LockUser(r)
      BY <2>1 DEF Rollback, LockOrg, LockUser, tables
    <3>3. \A r \in Requests : ~CheckPermission(r) /\ ~ReadMember(r)
      BY <2>1, <3>2 DEF CheckPermission, ReadMember, tables
    <3>4. \A i \in Invitations : ~Expire(i)
      BY <2>1 DEF Expire
    <3>. QED BY <1>1, <3>1, <3>2, <3>3, <3>4 DEF Next, Proceed
  <2>3. Finish(r) /\ OfOneOrganization(r)
    BY <1>1, <2>2, CommitKeeps
  <2>4. PICK t \in Users, o \in Orgs : Disturbs(r, t, o)
    BY <2>3 DEF OfOneOrganization
  <2>5. p = o
    BY <1>1, <2>4, LocalKeeps DEF Disturbs, Inv
  <2>. QED BY <1>1, <2>3, <2>4, <2>5, NoneIsNobody DEF Disturbs, Finish
<1>2. Inv /\ [Next]_vars =>
        [\A u \in Users, o \in orgs :
           Access(u, o)' # Access(u, o) => orgLock[o] # None /\ orgLock'[o] = None]_vars
  BY <1>1
<1>. QED BY <1>2, Always, PTL DEF Spec, AccessIsLocal
=============================================================================
