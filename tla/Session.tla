------------------------------ MODULE Session ------------------------------
(***************************************************************************)
(* The account of a device: syncAuthSlice.ts (sign-in, sign-out, change of *)
(* organization, the session's epoch, the slot of the synchronisation),    *)
(* fetchWithSessionRetry of syncService.ts (one renewal shared by every    *)
(* request that meets a 401, one retry, refused tokens), and the server's  *)
(* side of it in auth.ts, security.ts and companies.ts.                    *)
(*                                                                         *)
(* A token is what the server signed: whose it is, the account's           *)
(* auth_version, the sign-in it descends from and the day it was issued.   *)
(* A day is as long as a token is accepted; for one more day it can be     *)
(* renewed.  Two tokens that differ in none of this are one.               *)
(***************************************************************************)
EXTENDS Integers, FiniteSets

CONSTANTS
  Users, Orgs,
  Callers,   \* requests of the device that may be under way at once
  Attempts,  \* sign-ins that may be under way at once
  None,
  MaxActs,   \* bound: acts of the user
  MaxDays,   \* bound: days
  MaxEdicts  \* bound: passwords changed and members removed

ASSUME SessionAssumption ==
  /\ MaxActs \in Nat /\ MaxDays \in Nat /\ MaxEdicts \in Nat

VARIABLES
  members,   \* server: who belongs where, and is active
  version,   \* server: auth_version of each account
  day,
  token,     \* syncSettings.authToken
  user,      \* syncSettings.currentUser
  epoch,     \* sessionEpoch
  attempt,   \* authenticationAttempt
  syncing,   \* isSyncing
  invalid,   \* invalidTokens
  renewals,  \* refreshRequests
  calls,     \* requests with the account's token, by caller
  logins,    \* sign-ins under way
  wish,      \* auxiliary: the last thing the user asked for
  strayed,   \* auxiliary: the last epoch whose sign-in began over an open session,
             \* or with automatic synchronisation switched during a pass
  acts, edicts

vars == <<members, version, day, token, user, epoch, attempt, syncing, invalid,
          renewals, calls, logins, wish, strayed, acts, edicts>>
server  == <<members, version, day>>
session == <<token, user, epoch, attempt, syncing>>

Identity == [id: Users, org: Orgs]
Token    == [who: Identity, ver: Nat, login: Nat, day: Nat]
Replies  == {"none", "ok", "unauthorized", "forbidden", "lost"}
Results  == {"none", "ok", "rejected", "unavailable"}
Call     == [kind: {"idle", "pass", "check", "switch"},
             stage: {"asked", "answered", "renewing", "returned"},
             first: Token \cup {None}, sent: Token \cup {None}, retried: BOOLEAN,
             epoch: Nat, user: Identity \cup {None}, org: Orgs \cup {None},
             reply: Replies, result: Results, fresh: Token \cup {None}]
Renewal  == [of: Token, stage: {"asked", "granted", "refused", "failed"},
             new: Token \cup {None}]
Login    == [stage: {"idle", "asked", "granted", "denied", "clearing"},
             id: Users \cup {None}, no: Nat, token: Token \cup {None}]
Wish     == [no: Nat, id: Users \cup {None}, org: Orgs \cup {None}]

ASSUME NoneAssumption == None \notin Users \cup Orgs \cup Identity \cup Token

Idle   == [kind |-> "idle", stage |-> "returned", first |-> None, sent |-> None,
           retried |-> FALSE, epoch |-> 0, user |-> None, org |-> None,
           reply |-> "none", result |-> "none", fresh |-> None]
NoLogin == [stage |-> "idle", id |-> None, no |-> 0, token |-> None]

Init ==
  /\ members \in SUBSET Identity
  /\ version = [u \in Users |-> 0] /\ day = 0
  /\ token = None /\ user = None /\ epoch = 0 /\ attempt = 0
  /\ syncing = FALSE /\ invalid = {} /\ renewals = {}
  /\ calls = [c \in Callers |-> Idle]
  /\ logins = [l \in Attempts |-> NoLogin]
  /\ wish = [no |-> 0, id |-> None, org |-> None] /\ strayed = 0
  /\ acts = 0 /\ edicts = 0

-----------------------------------------------------------------------------
(* The server. *)

\* authenticate: the signature, the membership and auth_version of now.
Renews(t) ==
  /\ t.who \in members
  /\ t.ver = version[t.who.id]
  /\ day <= t.day + 1

Accepts(t) == Renews(t) /\ day = t.day

\* jwt.sign of a context that resolveMembership just returned.
Signed(who, login) ==
  [who |-> who, ver |-> version[who.id], login |-> login, day |-> day]

\* An administrator removes a member, or sets another password.
Remove(who) ==
  /\ edicts < MaxEdicts /\ who \in members
  /\ members' = members \ {who} /\ edicts' = edicts + 1
  /\ UNCHANGED <<version, day, session, invalid, renewals, calls, logins, wish, strayed, acts>>

ChangePassword(u) ==
  /\ edicts < MaxEdicts
  /\ version' = [version EXCEPT ![u] = @ + 1] /\ edicts' = edicts + 1
  /\ UNCHANGED <<members, day, session, invalid, renewals, calls, logins, wish, strayed, acts>>

InFlight == {calls[c].sent : c \in {k \in Callers : calls[k].stage # "returned"}}
              \cup {calls[c].first : c \in {k \in Callers : calls[k].stage # "returned"}}
              \cup {r.of : r \in renewals}

\* No request is under way for as long as a token can be renewed (12 seconds
\* against weeks).
Tick ==
  /\ day < MaxDays /\ \A t \in InFlight : t.day = day
  /\ day' = day + 1
  /\ UNCHANGED <<members, version, session, invalid, renewals, calls, logins, wish, strayed, acts, edicts>>

-----------------------------------------------------------------------------
(* The session. *)

\* captureSession().isCurrent()
Current(c) == epoch = calls[c].epoch /\ user = calls[c].user /\ token # None

\* Faulty: a renewal is installed whatever the token is now.
RenewedAnyway(new, origin) == IF token # None THEN new ELSE token

\* The listener of registerTokenRenewedListener.
Renewed(new, origin) == IF token = origin THEN new ELSE token

\* The session ends by itself: only when it is the refused token's, and without
\* a new epoch when a sign-in is waiting for its answer.
Ends(refused) == token = refused /\ token # None

EpochAfterEnd == IF attempt = epoch THEN epoch ELSE epoch + 1

\* Faulty: the end of a session leaves the slot taken.
SlotKept(refused) == syncing

SlotAfterEnd(refused) == IF Ends(refused) THEN FALSE ELSE syncing

Invalidate(refused) ==
  /\ invalid' = invalid \cup {refused}
  /\ token' = IF Ends(refused) THEN None ELSE token
  /\ epoch' = IF Ends(refused) THEN EpochAfterEnd ELSE epoch
  /\ syncing' = SlotAfterEnd(refused)
  /\ UNCHANGED <<user, attempt>>

\* A request goes out, unless its token is known to be refused.
AskedUnless(refused, kind, t, e, u, org) ==
  [kind |-> kind, stage |-> IF refused THEN "returned" ELSE "asked",
   first |-> t, sent |-> t, retried |-> FALSE, epoch |-> e, user |-> u,
   org |-> org, reply |-> "none",
   result |-> IF refused THEN "rejected" ELSE "none", fresh |-> None]
Asked(kind, t, e, u, org) == AskedUnless(t \in invalid, kind, t, e, u, org)

IdleCall(c) == calls[c].kind = "idle"

\* syncProjectsWithServer: by hand, by App's clock or focus, by its own timer.
SlotFree == ~syncing

StartPass(c) ==
  /\ IdleCall(c) /\ SlotFree /\ token # None
  /\ syncing' = TRUE
  /\ calls' = [calls EXCEPT ![c] = Asked("pass", token, epoch, user, None)]
  /\ UNCHANGED <<server, token, user, epoch, attempt, invalid, renewals, logins, wish, strayed, acts, edicts>>

Act(id, org, no) ==
  /\ acts < MaxActs /\ acts' = acts + 1
  /\ wish' = [no |-> no, id |-> id, org |-> org]

\* setSyncSettings({autoSyncEnabled}): the slot is cleared, the epoch stays;
\* turning it on starts a pass at once.
ToggleAutoSync ==
  /\ acts < MaxActs /\ acts' = acts + 1
  /\ \/ syncing' = FALSE /\ UNCHANGED calls
     \/ \E c \in Callers :
          /\ IdleCall(c) /\ token # None
          /\ syncing' = TRUE
          /\ calls' = [calls EXCEPT ![c] = Asked("pass", token, epoch, user, None)]
  /\ strayed' = IF syncing THEN epoch ELSE strayed
  /\ UNCHANGED <<server, token, user, epoch, attempt, invalid, renewals, logins, wish, edicts>>

\* loginUser up to its await.
StartLogin(l, u) ==
  /\ logins[l].stage = "idle"
  /\ Act(u, None, epoch + 1)
  /\ epoch' = epoch + 1 /\ attempt' = epoch + 1 /\ syncing' = FALSE
  /\ strayed' = IF token # None THEN epoch + 1 ELSE strayed
  /\ logins' = [logins EXCEPT ![l] =
       [stage |-> "asked", id |-> u, no |-> epoch + 1, token |-> None]]
  /\ UNCHANGED <<server, token, user, invalid, renewals, calls, edicts>>

\* POST /api/auth/login: the home organization, or another active membership;
\* a wrong password is denied.
ServeLogin(l) ==
  /\ logins[l].stage = "asked"
  /\ \/ \E who \in members :
          /\ who.id = logins[l].id
          /\ logins' = [logins EXCEPT ![l].stage = "granted",
                                      ![l].token = Signed(who, logins[l].no)]
     \/ logins' = [logins EXCEPT ![l].stage = "denied"]
  /\ UNCHANGED <<server, session, invalid, renewals, calls, wish, strayed, acts, edicts>>

\* Faulty: the answer of a replaced sign-in counts.
AwaitedByAny(l) == TRUE

\* Whether nothing replaced this sign-in while it waited.
Awaited(l) == epoch = logins[l].no

SettledAttempt(l) == IF attempt = logins[l].no THEN 0 ELSE attempt

LoginAnswered(l) ==
  /\ logins[l].stage \in {"granted", "denied"}
  /\ IF Awaited(l) /\ logins[l].stage = "granted"
     THEN logins' = [logins EXCEPT ![l].stage = "clearing"] /\ UNCHANGED attempt
     ELSE /\ logins' = [logins EXCEPT ![l] = NoLogin]
          /\ attempt' = IF Awaited(l) THEN SettledAttempt(l) ELSE attempt
  /\ UNCHANGED <<server, token, user, epoch, syncing, invalid, renewals, calls, wish, strayed, acts, edicts>>

\* After clearInvalidToken: the session is installed and synchronises.
InstallLogin(l) ==
  /\ logins[l].stage = "clearing"
  /\ invalid' = invalid \ {logins[l].token}
  /\ logins' = [logins EXCEPT ![l] = NoLogin]
  /\ IF Awaited(l)
     THEN LET t == logins[l].token IN
          /\ token' = t /\ user' = t.who /\ attempt' = SettledAttempt(l)
          /\ syncing' = TRUE
          /\ IF syncing THEN UNCHANGED calls
             ELSE \E c \in Callers :
                    /\ IdleCall(c)
                    /\ calls' = [calls EXCEPT ![c] =
                         AskedUnless(FALSE, "pass", t, epoch, t.who, None)]
     ELSE UNCHANGED <<token, user, attempt, syncing, calls>>
  /\ UNCHANGED <<server, epoch, renewals, wish, strayed, acts, edicts>>

Logout ==
  /\ user # None /\ Act(None, None, epoch + 1)
  /\ epoch' = epoch + 1 /\ syncing' = FALSE
  /\ token' = None /\ user' = None
  /\ UNCHANGED <<server, attempt, invalid, renewals, calls, logins, strayed, edicts>>

\* setSyncSettings({serverUrl}): another server, where nobody is signed in.
\* What is followed from here on are the accounts there.
LeaveServer ==
  /\ Act(None, None, epoch + 1)
  /\ epoch' = epoch + 1 /\ syncing' = FALSE
  /\ token' = None /\ user' = None
  /\ UNCHANGED <<server, attempt, invalid, renewals, calls, logins, strayed, edicts>>

\* switchOrganization and validateSession up to their awaits; the list of
\* organizations is disabled while a change is under way, and the account page
\* has either the sign-in form or the button that checks the session.
StartSwitch(c, org) ==
  /\ IdleCall(c) /\ token # None /\ org # user.org
  /\ \A k \in Callers : calls[k].kind # "switch"
  /\ Act(user.id, org, 0)
  /\ calls' = [calls EXCEPT ![c] = Asked("switch", token, epoch, user, org)]
  /\ UNCHANGED <<server, session, invalid, renewals, logins, strayed, edicts>>

StartCheck(c) ==
  /\ IdleCall(c) /\ token # None
  /\ \A l \in Attempts : logins[l].stage = "idle"
  /\ acts < MaxActs /\ acts' = acts + 1
  /\ calls' = [calls EXCEPT ![c] = Asked("check", token, epoch, user, None)]
  /\ UNCHANGED <<server, session, invalid, renewals, logins, wish, strayed, edicts>>

-----------------------------------------------------------------------------
(* fetchWithSessionRetry. *)

Says(c, reply, fresh) ==
  calls' = [calls EXCEPT ![c].stage = "answered", ![c].reply = reply, ![c].fresh = fresh]

\* The handlers: GET /api/auth/me, POST /api/auth/switch-organization, and the
\* data routes of a pass.
Answer(c) ==
  LET t == calls[c].sent
      target == [id |-> t.who.id, org |-> calls[c].org]
  IN \/ ~Accepts(t) /\ Says(c, "unauthorized", None)
     \/ /\ Accepts(t)
        /\ \/ calls[c].kind = "check" /\ Says(c, "ok", Signed(t.who, t.login))
           \/ /\ calls[c].kind = "switch" /\ target \in members
              /\ Says(c, "ok", Signed(target, t.login))
           \/ calls[c].kind = "switch" /\ target \notin members /\ Says(c, "forbidden", None)
           \/ calls[c].kind = "pass" /\ Says(c, "ok", None)

ServeCall(c) ==
  /\ ~IdleCall(c) /\ calls[c].stage = "asked"
  /\ Answer(c)
  /\ UNCHANGED <<server, session, invalid, renewals, logins, wish, strayed, acts, edicts>>

\* No answer within twelve seconds.
LoseCall(c) ==
  /\ ~IdleCall(c) /\ calls[c].stage = "asked"
  /\ calls' = [calls EXCEPT ![c].stage = "answered", ![c].reply = "lost"]
  /\ UNCHANGED <<server, session, invalid, renewals, logins, wish, strayed, acts, edicts>>

Waiting(t) == {c \in Callers : calls[c].stage = "renewing" /\ calls[c].first = t}

Returns(c, result) ==
  calls' = [calls EXCEPT ![c].stage = "returned", ![c].result = result]

ReceiveCall(c) ==
  /\ ~IdleCall(c) /\ calls[c].stage = "answered"
  /\ LET call == calls[c] IN
     CASE call.reply = "ok" ->
            \* checkRenewedToken: /me answers with a fresh token.
            /\ Returns(c, "ok")
            /\ token' = IF call.kind = "check" THEN Renewed(call.fresh, call.first) ELSE token
            /\ UNCHANGED <<user, epoch, attempt, syncing, invalid, renewals>>
       [] call.reply \in {"lost", "forbidden"} ->
            /\ Returns(c, "unavailable")
            /\ UNCHANGED <<session, invalid, renewals>>
       [] call.reply = "unauthorized" /\ call.retried ->
            /\ Returns(c, "rejected")
            /\ Invalidate(call.sent)
            /\ UNCHANGED renewals
       [] OTHER ->
            /\ calls' = [calls EXCEPT ![c].stage = "renewing"]
            /\ renewals' = IF \E r \in renewals : r.of = call.first THEN renewals
                           ELSE renewals \cup {[of |-> call.first, stage |-> "asked", new |-> None]}
            /\ UNCHANGED <<session, invalid>>
  /\ UNCHANGED <<server, logins, wish, strayed, acts, edicts>>

\* POST /api/auth/refresh
ServeRenewal(r) ==
  /\ r.stage = "asked"
  /\ renewals' = (renewals \ {r}) \cup
       {IF Renews(r.of) THEN [of |-> r.of, stage |-> "granted", new |-> Signed(r.of.who, r.of.login)]
        ELSE [of |-> r.of, stage |-> "refused", new |-> None]}
  /\ UNCHANGED <<server, session, invalid, calls, logins, wish, strayed, acts, edicts>>

LoseRenewal(r) ==
  /\ r.stage = "asked"
  /\ renewals' = (renewals \ {r}) \cup {[of |-> r.of, stage |-> "failed", new |-> None]}
  /\ UNCHANGED <<server, session, invalid, calls, logins, wish, strayed, acts, edicts>>

\* Faulty: the answer reaches a caller only when it waits alone.
ResumedOne(waiting, result) ==
  [c \in Callers |-> IF waiting = {c}
     THEN [calls[c] EXCEPT !.stage = "returned", !.result = result] ELSE calls[c]]

\* The answer of the renewal resumes everyone who waits for it.
Resumed(waiting, result) ==
  [c \in Callers |-> IF c \in waiting
     THEN [calls[c] EXCEPT !.stage = "returned", !.result = result] ELSE calls[c]]

Retried(waiting, new) ==
  [c \in Callers |-> IF c \in waiting
     THEN [calls[c] EXCEPT !.stage = "asked", !.sent = new, !.retried = TRUE, !.reply = "none"]
     ELSE calls[c]]

ReceiveRenewal(r) ==
  /\ r.stage \in {"granted", "refused", "failed"}
  /\ renewals' = renewals \ {r}
  /\ CASE r.stage = "granted" ->
            /\ calls' = Retried(Waiting(r.of), r.new)
            /\ token' = Renewed(r.new, r.of)
            /\ UNCHANGED <<user, epoch, attempt, syncing, invalid>>
       [] r.stage = "refused" ->
            /\ calls' = Resumed(Waiting(r.of), "rejected")
            /\ Invalidate(r.of)
       [] OTHER ->
            /\ calls' = Resumed(Waiting(r.of), IF r.of \in invalid THEN "rejected" ELSE "unavailable")
            /\ UNCHANGED <<session, invalid>>
  /\ UNCHANGED <<server, logins, wish, strayed, acts, edicts>>

-----------------------------------------------------------------------------
(* After the awaits. *)

Returned(c, kind) == calls[c].kind = kind /\ calls[c].stage = "returned"

\* The pass asks for the next thing, with the token of now: ensureCurrent().
PassGoesOn(c) ==
  /\ Returned(c, "pass") /\ Current(c)
  /\ calls' = [calls EXCEPT ![c] = Asked("pass", token, calls[c].epoch, calls[c].user, None)]
  /\ UNCHANGED <<server, session, invalid, renewals, logins, wish, strayed, acts, edicts>>

\* The pass is done, or fails: its catch frees the slot of its own session only.
SlotAfterPass(c) == IF Current(c) THEN FALSE ELSE syncing

PassEnds(c) ==
  /\ Returned(c, "pass")
  /\ syncing' = SlotAfterPass(c)
  /\ calls' = [calls EXCEPT ![c] = Idle]
  /\ UNCHANGED <<server, token, user, epoch, attempt, invalid, renewals, logins, wish, strayed, acts, edicts>>

SwitchEnds(c) ==
  /\ Returned(c, "switch")
  /\ IF Current(c) /\ calls[c].result = "ok"
     THEN LET t == calls[c].fresh IN
          /\ epoch' = epoch + 1
          /\ token' = t /\ user' = t.who /\ syncing' = TRUE
          /\ calls' = [calls EXCEPT ![c] = Asked("pass", t, epoch + 1, t.who, None)]
     ELSE /\ calls' = [calls EXCEPT ![c] = Idle]
          /\ UNCHANGED <<token, user, epoch, syncing>>
  /\ UNCHANGED <<server, attempt, invalid, renewals, logins, wish, strayed, acts, edicts>>

CheckEnds(c) ==
  /\ Returned(c, "check")
  /\ calls' = [calls EXCEPT ![c] = Idle]
  /\ CASE Current(c) /\ calls[c].result = "ok" ->
            user' = calls[c].sent.who /\ UNCHANGED <<token, epoch, syncing>>
       [] Current(c) /\ calls[c].result = "rejected" ->
            token' = None /\ epoch' = epoch + 1 /\ syncing' = FALSE /\ UNCHANGED user
       [] OTHER -> UNCHANGED <<token, user, epoch, syncing>>
  /\ UNCHANGED <<server, attempt, invalid, renewals, logins, wish, strayed, acts, edicts>>

-----------------------------------------------------------------------------
Next ==
  \/ \E who \in Identity : Remove(who)
  \/ \E u \in Users : ChangePassword(u)
  \/ Tick
  \/ ToggleAutoSync
  \/ \E l \in Attempts : \/ \E u \in Users : StartLogin(l, u)
                         \/ ServeLogin(l) \/ LoginAnswered(l) \/ InstallLogin(l)
  \/ Logout \/ LeaveServer
  \/ \E c \in Callers : \/ StartPass(c) \/ StartCheck(c)
                        \/ \E org \in Orgs : StartSwitch(c, org)
                        \/ ServeCall(c) \/ LoseCall(c) \/ ReceiveCall(c)
                        \/ PassGoesOn(c) \/ PassEnds(c) \/ SwitchEnds(c) \/ CheckEnds(c)
  \/ \E r \in renewals : ServeRenewal(r) \/ LoseRenewal(r) \/ ReceiveRenewal(r)

Spec == Init /\ [][Next]_vars

\* A request is answered or timed out, and not always timed out; what was
\* awaited goes on.  Nothing says that a pass begins: automatic synchronisation
\* may be off.
Fairness ==
  /\ \A c \in Callers :
       /\ SF_vars(ServeCall(c)) /\ WF_vars(ReceiveCall(c))
       /\ WF_vars(PassGoesOn(c) \/ PassEnds(c) \/ SwitchEnds(c) \/ CheckEnds(c))
  /\ SF_vars(\E r \in renewals : ServeRenewal(r))
  /\ WF_vars(\E r \in renewals : ReceiveRenewal(r))
  /\ WF_vars(\E l \in Attempts : LoginAnswered(l) \/ InstallLogin(l))

FairSpec == Spec /\ Fairness

-----------------------------------------------------------------------------
(* What the session promises. *)

\* Every variable has the values the code gives it; a request under way carries
\* a token.
SessionTypeOK ==
  /\ members \subseteq Identity /\ version \in [Users -> Nat] /\ day \in Nat
  /\ token \in Token \cup {None} /\ user \in Identity \cup {None}
  /\ epoch \in Nat /\ attempt \in Nat /\ syncing \in BOOLEAN
  /\ invalid \subseteq Token /\ renewals \subseteq Renewal
  /\ calls \in [Callers -> Call] /\ logins \in [Attempts -> Login]
  /\ \A c \in Callers : ~IdleCall(c) => calls[c].sent \in Token /\ calls[c].first \in Token
  /\ wish \in Wish /\ strayed \in Nat /\ acts \in Nat /\ edicts \in Nat

\* The token is the signed-in account's and organization's: no late renewal,
\* sign-in or change of organization leaves one account with another's token.
TokenIsTheUsers == token # None => user = token.who

\* A request speaks for the account that was signed in when its operation began,
\* also after a renewal, a retry, or a change of account meanwhile.
SpeaksForItsUser ==
  \A c \in Callers : ~IdleCall(c) => calls[c].sent.who = calls[c].user

\* The state has the code's shape, and neither the device nor a request under way
\* has one account with another's token.
SessionInv == SessionTypeOK /\ TokenIsTheUsers /\ SpeaksForItsUser

\* The slot is taken only while a pass of the present session will free it: a
\* change of session never leaves synchronisation blocked.
SlotIsHeld ==
  syncing => \E c \in Callers : calls[c].kind = "pass" /\ Current(c)

\* One pass at a time works for the session ("Ya hay una sincronización en
\* curso."): passes of ended sessions only wait to notice.
OnePass ==
  \A c, d \in Callers :
    calls[c].kind = "pass" /\ calls[d].kind = "pass" /\ Current(c) /\ Current(d) => c = d

\* Where automatic synchronisation is not switched during a pass, which clears
\* the slot under it (setSyncSettings), and no sign-in began over an open session,
\* which the account page does not offer: the slot never stays taken, and one pass
\* works at a time.
SlotIsFreed == strayed # epoch => SlotIsHeld /\ OnePass

\* The session ends by itself only when the server would not renew its token
\* any more: a late rejection of an older token does not end a newer session.
EndsOnlyWhenRefused ==
  token # None /\ token' = None /\ user' # None => ~Renews(token)

\* The account changes only to what the user asked for last: the answer of an
\* earlier sign-in or change of organization is dropped, and after signing out
\* nobody is signed in.  Only a sign-in over an open session may still be
\* installed when another organization was chosen in that session meanwhile.
ChangesAsWished ==
  user' # user /\ user' # None =>
    \/ user'.id = wish.id /\ wish.org \in {None, user'.org}
    \/ strayed = epoch /\ wish.no = 0

\* An accepted sign-in that nothing replaced is installed, whatever becomes of
\* the previous session while it waits.
SignInCompletes ==
  \A l \in Attempts :
    /\ logins[l].stage \in {"granted", "clearing"} /\ logins'[l].stage = "idle"
    /\ wish = [no |-> logins[l].no, id |-> logins[l].id, org |-> None]
    => token' = logins[l].token

\* The session is the one the user asked for last: it comes about, it stays, and
\* it ends by itself only when the server ends it.
FollowsTheUser ==
  [][ChangesAsWished /\ SignInCompletes /\ EndsOnlyWhenRefused]_vars

\* Nobody waits for a renewal for ever.
RenewalsResume ==
  \A c \in Callers : calls[c].stage = "renewing" ~> calls[c].stage # "renewing"

=============================================================================
