--------------------------- MODULE SessionProofs ---------------------------
(***************************************************************************)
(* What holds of the session of a device for any accounts, organizations,  *)
(* requests at once, sign-ins at once and bounds.                          *)
(***************************************************************************)
EXTENDS Session, TLAPS

(* A request carries tokens of the account it was begun for, and the server *)
(* answered it with a token of that account, or of the organization chosen. *)
CallOK(x) ==
  x.kind # "idle" =>
    /\ x.sent \in Token /\ x.first \in Token
    /\ x.sent.who = x.user /\ x.first.who = x.user
    /\ x.stage # "returned" => x.result = "none"
    /\ x.kind = "switch" /\ (x.reply = "ok" \/ x.result = "ok") => x.fresh \in Token
    /\ x.kind = "check" /\ x.reply = "ok" => x.fresh \in Token /\ x.fresh.who = x.user

(* A renewal is of the same account and organization. *)
RenewalOK(r) == r.stage = "granted" => r.new \in Token /\ r.new.who = r.of.who

(* A sign-in that was accepted has its token. *)
LoginOK(x) == x.stage \in {"granted", "clearing"} => x.token \in Token

CallsOK    == \A c \in Callers : CallOK(calls[c])
RenewalsOK == \A r \in renewals : RenewalOK(r)
LoginsOK   == \A l \in Attempts : LoginOK(logins[l])

ServerTypes  == members \subseteq Identity /\ version \in [Users -> Nat] /\ day \in Nat
SessionTypes ==
  /\ token \in Token \cup {None} /\ user \in Identity \cup {None}
  /\ epoch \in Nat /\ attempt \in Nat /\ syncing \in BOOLEAN
OtherTypes   == wish \in Wish /\ strayed \in Nat /\ acts \in Nat /\ edicts \in Nat

Inv ==
  /\ ServerTypes /\ SessionTypes /\ OtherTypes
  /\ invalid \subseteq Token
  /\ renewals \subseteq Renewal /\ RenewalsOK
  /\ calls \in [Callers -> Call] /\ CallsOK
  /\ logins \in [Attempts -> Login] /\ LoginsOK
  /\ TokenIsTheUsers

-----------------------------------------------------------------------------
LEMMA IdleIsACall == Idle \in Call /\ CallOK(Idle)
BY DEF Idle, Call, Replies, Results, CallOK

LEMMA NoLoginIsALogin == NoLogin \in Login /\ LoginOK(NoLogin)
BY DEF NoLogin, Login, LoginOK

LEMMA Initially == Init => Inv
<1> SUFFICES ASSUME Init PROVE Inv
  OBVIOUS
<1>1. ServerTypes /\ SessionTypes /\ OtherTypes
  BY DEF Init, ServerTypes, SessionTypes, OtherTypes, Wish
<1>2. calls \in [Callers -> Call] /\ CallsOK
  BY IdleIsACall DEF Init, CallsOK
<1>3. logins \in [Attempts -> Login] /\ LoginsOK
  BY NoLoginIsALogin DEF Init, LoginsOK
<1>. QED BY <1>1, <1>2, <1>3 DEF Init, Inv, RenewalsOK, TokenIsTheUsers

(* A request begun with a token of the account it speaks for. *)
LEMMA AskedIsOK ==
  ASSUME NEW refused \in BOOLEAN, NEW kind \in {"pass", "check", "switch"},
         NEW t \in Token, NEW e \in Nat, NEW org \in Orgs \cup {None}
  PROVE  LET x == AskedUnless(refused, kind, t, e, t.who, org) IN x \in Call /\ CallOK(x)
<1>1. t.who \in Identity
  BY DEF Token
<1>2. PICK stage \in {"asked", "returned"} : stage = IF refused THEN "returned" ELSE "asked"
  OBVIOUS
<1>3. PICK result \in {"none", "rejected"} : result = IF refused THEN "rejected" ELSE "none"
  OBVIOUS
<1>. QED BY <1>1, <1>2, <1>3 DEF AskedUnless, Call, CallOK, Replies, Results

LEMMA BegunIsOK ==
  ASSUME Inv, token # None, NEW kind \in {"pass", "check", "switch"}, NEW org \in Orgs \cup {None}
  PROVE  \E x \in Call : x = Asked(kind, token, epoch, user, org) /\ CallOK(x)
<1>1. PICK t \in Token : t = token /\ user = t.who
  BY DEF Inv, SessionTypes, TokenIsTheUsers
<1>2. PICK refused \in BOOLEAN : refused <=> token \in invalid
  <2>1. CASE token \in invalid
    <3>. WITNESS TRUE \in BOOLEAN
    <3>. QED BY <2>1
  <2>2. CASE token \notin invalid
    <3>. WITNESS FALSE \in BOOLEAN
    <3>. QED BY <2>2
  <2>. QED BY <2>1, <2>2
<1>3. PICK e \in Nat : e = epoch
  BY DEF Inv, SessionTypes
<1>4. AskedUnless(refused, kind, t, e, t.who, org) \in Call
      /\ CallOK(AskedUnless(refused, kind, t, e, t.who, org))
  BY AskedIsOK
<1>5. AskedUnless(refused, kind, t, e, t.who, org) = Asked(kind, token, epoch, user, org)
  BY <1>1, <1>2, <1>3 DEF Asked, AskedUnless
<1>. QED BY <1>4, <1>5

(* One request moves, and the account stays as it is. *)
LEMMA CallStep ==
  ASSUME Inv, NEW c \in Callers, NEW x \in Call, CallOK(x), calls' = [calls EXCEPT ![c] = x]
  PROVE  calls' \in [Callers -> Call] /\ CallsOK'
<1>1. \A k \in Callers : calls'[k] = IF k = c THEN x ELSE calls[k]
  BY DEF Inv
<1>2. ASSUME NEW k \in Callers, NEW y, y = calls'[k] PROVE CallOK(y)
  BY <1>1, <1>2 DEF Inv, CallsOK
<1>. QED BY <1>2 DEF Inv, CallsOK, CallOK

LEMMA LoginStep ==
  ASSUME Inv, NEW l \in Attempts, NEW x \in Login, LoginOK(x), logins' = [logins EXCEPT ![l] = x]
  PROVE  logins' \in [Attempts -> Login] /\ LoginsOK'
<1>1. \A k \in Attempts : logins'[k] = IF k = l THEN x ELSE logins[k]
  BY DEF Inv
<1>. QED BY <1>1 DEF Inv, LoginsOK, LoginOK

(* What is left alone stays well. *)
LEMMA Untouched ==
  ASSUME Inv
  PROVE  /\ UNCHANGED server => ServerTypes'
         /\ UNCHANGED session => SessionTypes' /\ TokenIsTheUsers'
         /\ UNCHANGED <<wish, strayed, acts, edicts>> => OtherTypes'
         /\ invalid' = invalid => invalid' \subseteq Token
         /\ renewals' = renewals => renewals' \subseteq Renewal /\ RenewalsOK'
         /\ calls' = calls => calls' \in [Callers -> Call] /\ CallsOK'
         /\ logins' = logins => logins' \in [Attempts -> Login] /\ LoginsOK'
BY DEF Inv, server, session, ServerTypes, SessionTypes, OtherTypes, TokenIsTheUsers,
       RenewalsOK, RenewalOK, CallsOK, CallOK, LoginsOK, LoginOK

-----------------------------------------------------------------------------
(* The server, and what the user begins. *)

LEMMA ServerPreserves ==
  ASSUME Inv, \/ \E who \in Identity : Remove(who)
              \/ \E u \in Users : ChangePassword(u)
              \/ Tick
  PROVE  Inv'
<1>1. ServerTypes' /\ OtherTypes'
  BY DEF Inv, ServerTypes, OtherTypes, Remove, ChangePassword, Tick
<1>2. UNCHANGED <<session, invalid, renewals, calls, logins>>
  BY DEF Remove, ChangePassword, Tick
<1>. QED BY <1>1, <1>2, Untouched DEF Inv

LEMMA StartPassPreserves ==
  ASSUME Inv, NEW c \in Callers, StartPass(c) PROVE Inv'
<1>2. PICK x \in Call : CallOK(x) /\ calls' = [calls EXCEPT ![c] = x]
  <2>1. PICK x \in Call : x = Asked("pass", token, epoch, user, None) /\ CallOK(x)
    BY BegunIsOK DEF StartPass
  <2>. QED BY <2>1 DEF StartPass
<1>3. SessionTypes' /\ TokenIsTheUsers'
  BY DEF StartPass, Inv, SessionTypes, TokenIsTheUsers
<1>. QED BY <1>2, <1>3, CallStep, Untouched DEF StartPass, Inv

LEMMA TogglePreserves ==
  ASSUME Inv, ToggleAutoSync PROVE Inv'
<1>1. SessionTypes' /\ TokenIsTheUsers'
  BY DEF ToggleAutoSync, Inv, SessionTypes, TokenIsTheUsers
<1>3. OtherTypes'
  BY DEF ToggleAutoSync, Inv, SessionTypes, OtherTypes
<1>2. calls' \in [Callers -> Call] /\ CallsOK'
  <2>1. CASE UNCHANGED calls
    BY <2>1, Untouched
  <2>2. ASSUME NEW c \in Callers, token # None,
               calls' = [calls EXCEPT ![c] = Asked("pass", token, epoch, user, None)]
        PROVE  calls' \in [Callers -> Call] /\ CallsOK'
    <3>1. PICK x \in Call : x = Asked("pass", token, epoch, user, None) /\ CallOK(x)
      BY <2>2, BegunIsOK
    <3>. QED BY <2>2, <3>1, CallStep
  <2>. QED BY <2>1, <2>2 DEF ToggleAutoSync
<1>. QED BY <1>1, <1>2, <1>3, Untouched DEF ToggleAutoSync, Inv

LEMMA StartLoginPreserves ==
  ASSUME Inv, NEW l \in Attempts, NEW u \in Users, StartLogin(l, u) PROVE Inv'
<1>1. epoch + 1 \in Nat
  BY DEF Inv, SessionTypes
<1>2. PICK x \in Login : LoginOK(x) /\ logins' = [logins EXCEPT ![l] = x]
  <2>1. LET x == [stage |-> "asked", id |-> u, no |-> epoch + 1, token |-> None]
        IN  x \in Login /\ LoginOK(x)
    BY <1>1 DEF Login, LoginOK
  <2>. QED BY <2>1 DEF StartLogin
<1>3. SessionTypes' /\ TokenIsTheUsers'
  BY <1>1 DEF StartLogin, Inv, SessionTypes, TokenIsTheUsers
<1>4. OtherTypes'
  BY <1>1 DEF StartLogin, Act, Inv, OtherTypes, Wish
<1>. QED BY <1>2, <1>3, <1>4, LoginStep, Untouched DEF StartLogin, Inv

LEMMA SigningOutPreserves ==
  ASSUME Inv, Logout \/ LeaveServer PROVE Inv'
<1>1. epoch + 1 \in Nat
  BY DEF Inv, SessionTypes
<1>2. SessionTypes' /\ TokenIsTheUsers'
  BY <1>1 DEF Logout, LeaveServer, Inv, SessionTypes, TokenIsTheUsers
<1>3. OtherTypes'
  BY <1>1 DEF Logout, LeaveServer, Act, Inv, OtherTypes, Wish
<1>. QED BY <1>2, <1>3, Untouched DEF Logout, LeaveServer, Inv

LEMMA StartSwitchPreserves ==
  ASSUME Inv, NEW c \in Callers, NEW org \in Orgs, StartSwitch(c, org) PROVE Inv'
<1>1. token \in Token /\ user = token.who /\ epoch \in Nat /\ user.id \in Users
  <2>1. token \in Token /\ user = token.who /\ epoch \in Nat
    BY DEF StartSwitch, Inv, SessionTypes, TokenIsTheUsers
  <2>. QED BY <2>1 DEF Token, Identity
<1>2. PICK x \in Call : CallOK(x) /\ calls' = [calls EXCEPT ![c] = x]
  <2>1. PICK x \in Call : x = Asked("switch", token, epoch, user, org) /\ CallOK(x)
    BY BegunIsOK DEF StartSwitch
  <2>. QED BY <2>1 DEF StartSwitch
<1>3. OtherTypes'
  BY <1>1 DEF StartSwitch, Act, Inv, OtherTypes, Wish
<1>. QED BY <1>2, <1>3, CallStep, Untouched DEF StartSwitch, Inv

LEMMA StartCheckPreserves ==
  ASSUME Inv, NEW c \in Callers, StartCheck(c) PROVE Inv'
<1>2. PICK x \in Call : CallOK(x) /\ calls' = [calls EXCEPT ![c] = x]
  <2>1. PICK x \in Call : x = Asked("check", token, epoch, user, None) /\ CallOK(x)
    BY BegunIsOK DEF StartCheck
  <2>. QED BY <2>1 DEF StartCheck
<1>3. OtherTypes'
  BY DEF StartCheck, Inv, OtherTypes
<1>. QED BY <1>2, <1>3, CallStep, Untouched DEF StartCheck, Inv

-----------------------------------------------------------------------------
(* Sign-ins. *)

LEMMA SignedIsAToken ==
  ASSUME Inv, NEW who \in Identity, NEW n \in Nat
  PROVE  Signed(who, n) \in Token /\ Signed(who, n).who = who
BY DEF Signed, Token, Identity, Inv, ServerTypes

LEMMA ServeLoginPreserves ==
  ASSUME Inv, NEW l \in Attempts, ServeLogin(l) PROVE Inv'
<1> DEFINE y == logins[l]
<1>1. y \in Login
  BY DEF Inv
<1>2. PICK x \in Login : LoginOK(x) /\ logins' = [logins EXCEPT ![l] = x]
  <2>1. ASSUME NEW who \in members,
               logins' = [logins EXCEPT ![l].stage = "granted", ![l].token = Signed(who, y.no)]
        PROVE  \E x \in Login : LoginOK(x) /\ logins' = [logins EXCEPT ![l] = x]
    <3>1. who \in Identity /\ y.no \in Nat
      BY <1>1 DEF Inv, ServerTypes, Login
    <3>2. PICK t \in Token : t = Signed(who, y.no)
      BY <3>1, SignedIsAToken
    <3> DEFINE x == [y EXCEPT !.stage = "granted", !.token = t]
    <3>3. x \in Login /\ LoginOK(x)
      BY <1>1 DEF Login, LoginOK
    <3>4. logins' = [logins EXCEPT ![l] = x]
      BY <2>1, <3>2 DEF Inv
    <3>. HIDE DEF x
    <3>. QED BY <3>3, <3>4
  <2>2. ASSUME logins' = [logins EXCEPT ![l].stage = "denied"]
        PROVE  \E x \in Login : LoginOK(x) /\ logins' = [logins EXCEPT ![l] = x]
    <3> DEFINE x == [y EXCEPT !.stage = "denied"]
    <3>1. x \in Login /\ LoginOK(x)
      BY <1>1 DEF Login, LoginOK
    <3>2. logins' = [logins EXCEPT ![l] = x]
      BY <2>2
    <3>. HIDE DEF x
    <3>. QED BY <3>1, <3>2
  <2>. QED BY <2>1, <2>2 DEF ServeLogin
<1>. QED BY <1>2, LoginStep, Untouched DEF ServeLogin, Inv

LEMMA LoginAnsweredPreserves ==
  ASSUME Inv, NEW l \in Attempts, LoginAnswered(l) PROVE Inv'
<1> DEFINE y == logins[l]
<1>1. y \in Login /\ LoginOK(y)
  BY DEF Inv, LoginsOK
<1>2. PICK x \in Login : LoginOK(x) /\ logins' = [logins EXCEPT ![l] = x]
  <2>1. ASSUME y.stage = "granted", logins' = [logins EXCEPT ![l].stage = "clearing"]
        PROVE  \E x \in Login : LoginOK(x) /\ logins' = [logins EXCEPT ![l] = x]
    <3> DEFINE x == [y EXCEPT !.stage = "clearing"]
    <3>1. x \in Login /\ LoginOK(x)
      BY <1>1, <2>1 DEF Login, LoginOK
    <3>2. logins' = [logins EXCEPT ![l] = x]
      BY <2>1
    <3>. HIDE DEF x
    <3>. QED BY <3>1, <3>2
  <2>2. CASE logins' = [logins EXCEPT ![l] = NoLogin]
    BY <2>2, NoLoginIsALogin
  <2>. QED BY <2>1, <2>2 DEF LoginAnswered
<1>3. attempt' \in Nat
  BY <1>1 DEF LoginAnswered, SettledAttempt, Inv, SessionTypes
<1>4. SessionTypes' /\ TokenIsTheUsers'
  BY <1>3 DEF LoginAnswered, Inv, SessionTypes, TokenIsTheUsers
<1>. QED BY <1>2, <1>4, LoginStep, Untouched DEF LoginAnswered, Inv

LEMMA InstallLoginPreserves ==
  ASSUME Inv, NEW l \in Attempts, InstallLogin(l) PROVE Inv'
<1>1. PICK t \in Token : t = logins[l].token
  BY DEF InstallLogin, Inv, LoginsOK, LoginOK
<1>2. t.who \in Identity
  BY DEF Token
<1>3. logins' \in [Attempts -> Login] /\ LoginsOK'
  BY NoLoginIsALogin, LoginStep DEF InstallLogin
<1>4. calls' \in [Callers -> Call] /\ CallsOK'
  <2>1. CASE UNCHANGED calls
    BY <2>1, Untouched
  <2>2. ASSUME NEW c \in Callers,
               calls' = [calls EXCEPT ![c] = AskedUnless(FALSE, "pass", t, epoch, t.who, None)]
        PROVE  calls' \in [Callers -> Call] /\ CallsOK'
    <3>1. PICK x \in Call : x = AskedUnless(FALSE, "pass", t, epoch, t.who, None) /\ CallOK(x)
      BY AskedIsOK DEF Inv, SessionTypes
    <3>. QED BY <2>2, <3>1, CallStep
  <2>. QED BY <1>1, <2>1, <2>2 DEF InstallLogin
<1>5. SessionTypes' /\ TokenIsTheUsers'
  <2>1. CASE UNCHANGED <<token, user, attempt, syncing>>
    BY <2>1 DEF InstallLogin, Inv, SessionTypes, TokenIsTheUsers
  <2>2. CASE token' = t /\ user' = t.who /\ attempt' = SettledAttempt(l) /\ syncing' = TRUE
    BY <1>2, <2>2 DEF InstallLogin, SettledAttempt, Inv, SessionTypes, TokenIsTheUsers
  <2>. QED BY <1>1, <2>1, <2>2 DEF InstallLogin
<1>6. invalid' \subseteq Token
  BY DEF InstallLogin, Inv
<1>. QED BY <1>3, <1>4, <1>5, <1>6, Untouched DEF InstallLogin, Inv

-----------------------------------------------------------------------------
(* Requests and their answers. *)

(* The server heard a request, or nobody did. *)
AnswerWith(x, reply, fresh) ==
  [x EXCEPT !.stage = "answered", !.reply = reply, !.fresh = fresh]

LEMMA AnsweredIsOK ==
  ASSUME NEW x \in Call, CallOK(x), x.stage = "asked",
         NEW reply \in Replies, NEW fresh \in Token \cup {None},
         x.kind = "switch" /\ reply = "ok" => fresh \in Token,
         x.kind = "check" /\ reply = "ok" => fresh \in Token /\ fresh.who = x.user
  PROVE  AnswerWith(x, reply, fresh) \in Call /\ CallOK(AnswerWith(x, reply, fresh))
<1>1. AnswerWith(x, reply, fresh) \in Call
  BY DEF AnswerWith, Call
<1>2. LET y == AnswerWith(x, reply, fresh) IN
      /\ y.kind = x.kind /\ y.sent = x.sent /\ y.first = x.first /\ y.user = x.user
      /\ y.stage = "answered" /\ y.reply = reply /\ y.fresh = fresh /\ y.result = x.result
  BY DEF AnswerWith, Call
<1>. QED BY <1>1, <1>2 DEF CallOK

LEMMA ServeCallPreserves ==
  ASSUME Inv, NEW c \in Callers, ServeCall(c) PROVE Inv'
<1> DEFINE y == calls[c]
           target == [id |-> y.sent.who.id, org |-> y.org]
<1>1. y \in Call /\ CallOK(y) /\ y.kind # "idle" /\ y.stage = "asked"
  BY DEF Inv, CallsOK, ServeCall, IdleCall
<1>2. y.sent \in Token /\ y.sent.who = y.user /\ y.sent.who \in Identity /\ y.sent.login \in Nat
  BY <1>1 DEF CallOK, Token
<1>3. PICK reply \in Replies, fresh \in Token \cup {None} :
        /\ y.kind = "switch" /\ reply = "ok" => fresh \in Token
        /\ y.kind = "check" /\ reply = "ok" => fresh \in Token /\ fresh.who = y.user
        /\ Says(c, reply, fresh)
  <2>1. Signed(y.sent.who, y.sent.login) \in Token
        /\ Signed(y.sent.who, y.sent.login).who = y.user
    BY <1>2, SignedIsAToken
  <2>2. target \in members => Signed(target, y.sent.login) \in Token
    BY <1>2, SignedIsAToken DEF Inv, ServerTypes
  <2>3. \/ Says(c, "unauthorized", None)
        \/ y.kind = "check" /\ Says(c, "ok", Signed(y.sent.who, y.sent.login))
        \/ y.kind = "switch" /\ target \in members /\ Says(c, "ok", Signed(target, y.sent.login))
        \/ Says(c, "forbidden", None)
        \/ y.kind \notin {"check", "switch"} /\ Says(c, "ok", None)
    BY DEF ServeCall, Answer
  <2>. QED BY <2>1, <2>2, <2>3 DEF Replies
<1>4. calls' = [calls EXCEPT ![c] = AnswerWith(y, reply, fresh)]
  BY <1>3 DEF Says, AnswerWith, Inv
<1>5. PICK x \in Call : x = AnswerWith(y, reply, fresh) /\ CallOK(x)
  BY <1>1, <1>3, AnsweredIsOK
<1>6. calls' \in [Callers -> Call] /\ CallsOK'
  BY <1>4, <1>5, CallStep
<1>. QED BY <1>6, Untouched DEF ServeCall, Inv

LEMMA LoseCallPreserves ==
  ASSUME Inv, NEW c \in Callers, LoseCall(c) PROVE Inv'
<1> DEFINE y == calls[c]
<1>1. y \in Call /\ CallOK(y) /\ y.stage = "asked" /\ y.fresh \in Token \cup {None}
  BY DEF Inv, CallsOK, LoseCall, Call
<1>2. calls' = [calls EXCEPT ![c] = AnswerWith(y, "lost", y.fresh)]
  BY <1>1 DEF LoseCall, AnswerWith, Inv, Call
<1>3. PICK x \in Call : x = AnswerWith(y, "lost", y.fresh) /\ CallOK(x)
  BY <1>1, AnsweredIsOK DEF Replies
<1>4. calls' \in [Callers -> Call] /\ CallsOK'
  BY <1>2, <1>3, CallStep
<1>. QED BY <1>4, Untouched DEF LoseCall, Inv

(* A request comes back to what awaits it. *)
Back(x, result) == [x EXCEPT !.stage = "returned", !.result = result]

LEMMA BackIsOK ==
  ASSUME NEW x \in Call, CallOK(x), NEW result \in Results, result = "ok" => x.reply = "ok"
  PROVE  Back(x, result) \in Call /\ CallOK(Back(x, result))
<1>1. Back(x, result) \in Call
  BY DEF Back, Call
<1>2. LET y == Back(x, result) IN
      /\ y.kind = x.kind /\ y.sent = x.sent /\ y.first = x.first /\ y.user = x.user
      /\ y.stage = "returned" /\ y.reply = x.reply /\ y.fresh = x.fresh /\ y.result = result
  BY DEF Back, Call
<1>. QED BY <1>1, <1>2 DEF CallOK

LEMMA InvalidateKeeps ==
  ASSUME Inv, NEW refused \in Token, Invalidate(refused)
  PROVE  SessionTypes' /\ TokenIsTheUsers' /\ invalid' \subseteq Token
<1>1. token' \in {token, None} /\ user' = user /\ attempt' = attempt
  BY DEF Invalidate
<1>2. epoch' \in Nat
  BY DEF Invalidate, EpochAfterEnd, Inv, SessionTypes
<1>3. syncing' \in BOOLEAN
  BY DEF Invalidate, SlotAfterEnd, Inv, SessionTypes
<1>4. invalid' \subseteq Token
  BY DEF Invalidate, Inv
<1>. QED BY <1>1, <1>2, <1>3, <1>4 DEF Inv, SessionTypes, TokenIsTheUsers

LEMMA ReceiveCallPreserves ==
  ASSUME Inv, NEW c \in Callers, ReceiveCall(c) PROVE Inv'
<1> DEFINE y == calls[c]
<1>1. y \in Call /\ CallOK(y) /\ y.kind # "idle" /\ y.stage = "answered"
  BY DEF Inv, CallsOK, ReceiveCall, IdleCall
<1>2. UNCHANGED <<server, logins, wish, strayed, acts, edicts>>
  BY DEF ReceiveCall
<1>3. ASSUME NEW result \in Results, result = "ok" => y.reply = "ok", Returns(c, result)
      PROVE  calls' \in [Callers -> Call] /\ CallsOK'
  <2>1. calls' = [calls EXCEPT ![c] = Back(y, result)]
    BY <1>3 DEF Returns, Back, Inv
  <2>2. PICK x \in Call : x = Back(y, result) /\ CallOK(x)
    BY <1>1, <1>3, BackIsOK
  <2>. QED BY <2>1, <2>2, CallStep
<1>4. CASE y.reply = "ok"
  <2>1. /\ Returns(c, "ok")
        /\ token' = IF y.kind = "check" THEN Renewed(y.fresh, y.first) ELSE token
        /\ UNCHANGED <<user, epoch, attempt, syncing, invalid, renewals>>
    BY <1>4 DEF ReceiveCall
  <2>2. calls' \in [Callers -> Call] /\ CallsOK'
    BY <1>3, <1>4, <2>1 DEF Results
  <2>3. y.kind = "check" => y.fresh \in Token /\ y.fresh.who = y.first.who
    BY <1>1, <1>4 DEF CallOK
  <2>4. y.first \in Token
    BY <1>1 DEF CallOK
  <2>5. SessionTypes' /\ TokenIsTheUsers'
    BY <2>1, <2>3, <2>4, NoneAssumption DEF Renewed, Inv, SessionTypes, TokenIsTheUsers
  <2>. QED BY <1>2, <2>1, <2>2, <2>5, Untouched DEF Inv
<1>5. CASE y.reply \in {"lost", "forbidden"}
  <2>1. Returns(c, "unavailable") /\ UNCHANGED <<session, invalid, renewals>>
    BY <1>5 DEF ReceiveCall
  <2>2. calls' \in [Callers -> Call] /\ CallsOK'
    BY <1>3, <2>1 DEF Results
  <2>. QED BY <1>2, <2>1, <2>2, Untouched DEF Inv
<1>6. CASE y.reply = "unauthorized" /\ y.retried
  <2>1. Returns(c, "rejected") /\ Invalidate(y.sent) /\ UNCHANGED renewals
    BY <1>6 DEF ReceiveCall
  <2>2. calls' \in [Callers -> Call] /\ CallsOK'
    BY <1>3, <2>1 DEF Results
  <2>3. y.sent \in Token
    BY <1>1 DEF CallOK
  <2>. QED BY <1>2, <2>1, <2>2, <2>3, InvalidateKeeps, Untouched DEF Inv
<1>7. CASE /\ calls' = [calls EXCEPT ![c].stage = "renewing"]
           /\ renewals' = IF \E r \in renewals : r.of = y.first THEN renewals
                ELSE renewals \cup {[of |-> y.first, stage |-> "asked", new |-> None]}
           /\ UNCHANGED <<session, invalid>>
  <2>1. PICK x \in Call : calls' = [calls EXCEPT ![c] = x] /\ CallOK(x)
    <3> DEFINE x == [y EXCEPT !.stage = "renewing"]
    <3>1. x \in Call /\ CallOK(x)
      BY <1>1 DEF Call, CallOK
    <3>2. calls' = [calls EXCEPT ![c] = x]
      BY <1>7
    <3>. HIDE DEF x
    <3>. QED BY <3>1, <3>2
  <2>2. PICK r \in Renewal : RenewalOK(r) /\ renewals' \subseteq renewals \cup {r}
    <3>1. y.first \in Token
      BY <1>1 DEF CallOK
    <3>2. LET r == [of |-> y.first, stage |-> "asked", new |-> None] IN r \in Renewal /\ RenewalOK(r)
      BY <3>1 DEF Renewal, RenewalOK
    <3>. QED BY <1>7, <3>2
  <2>3. renewals' \subseteq Renewal /\ RenewalsOK'
    BY <2>2 DEF Inv, RenewalsOK, RenewalOK
  <2>. QED BY <1>2, <1>7, <2>1, <2>3, CallStep, Untouched DEF Inv
<1>. QED BY <1>4, <1>5, <1>6, <1>7 DEF ReceiveCall

-----------------------------------------------------------------------------
(* Renewals. *)

LEMMA RenewalAnswered ==
  ASSUME Inv, NEW r \in renewals, ServeRenewal(r) \/ LoseRenewal(r) PROVE Inv'
<1>1. r.of \in Token
  BY DEF Inv, Renewal
<1>2. r.of.who \in Identity /\ r.of.login \in Nat
  BY <1>1 DEF Token
<1>3. PICK x \in Renewal : RenewalOK(x) /\ renewals' = (renewals \ {r}) \cup {x}
  <2>1. Signed(r.of.who, r.of.login) \in Token /\ Signed(r.of.who, r.of.login).who = r.of.who
    BY <1>2, SignedIsAToken
  <2>2. LET x == [of |-> r.of, stage |-> "granted", new |-> Signed(r.of.who, r.of.login)]
        IN  x \in Renewal /\ RenewalOK(x)
    BY <1>1, <2>1 DEF Renewal, RenewalOK
  <2>3. ASSUME NEW s \in {"refused", "failed"}
        PROVE  LET x == [of |-> r.of, stage |-> s, new |-> None] IN x \in Renewal /\ RenewalOK(x)
    BY <1>1 DEF Renewal, RenewalOK
  <2>. QED BY <2>2, <2>3 DEF ServeRenewal, LoseRenewal
<1>4. renewals' \subseteq Renewal /\ RenewalsOK'
  BY <1>3 DEF Inv, RenewalsOK, RenewalOK
<1>. QED BY <1>4, Untouched DEF ServeRenewal, LoseRenewal, Inv

LEMMA ReceiveRenewalPreserves ==
  ASSUME Inv, NEW r \in renewals, ReceiveRenewal(r) PROVE Inv'
<1>1. r.of \in Token /\ (r.stage = "granted" => r.new \in Token /\ r.new.who = r.of.who)
  BY DEF Inv, Renewal, RenewalsOK, RenewalOK
<1>2. renewals' \subseteq Renewal /\ RenewalsOK' /\ UNCHANGED <<server, logins, wish, strayed, acts, edicts>>
  BY DEF ReceiveRenewal, Inv, RenewalsOK, RenewalOK
<1>3. ASSUME NEW c \in Waiting(r.of)
      PROVE  /\ c \in Callers /\ calls[c] \in Call /\ CallOK(calls[c])
             /\ calls[c].first = r.of
  BY DEF Waiting, Inv, CallsOK
<1>4. ASSUME NEW result \in {"rejected", "unavailable"}, calls' = Resumed(Waiting(r.of), result)
      PROVE  calls' \in [Callers -> Call] /\ CallsOK'
  <2>1. ASSUME NEW c \in Callers, NEW y, y = calls'[c] PROVE y \in Call /\ CallOK(y)
    <3>1. CASE c \in Waiting(r.of)
      <4>1. y = Back(calls[c], result)
        BY <1>4, <2>1, <3>1 DEF Resumed, Back
      <4>. QED BY <1>3, <3>1, <4>1, BackIsOK DEF Results
    <3>2. CASE c \notin Waiting(r.of)
      BY <1>4, <2>1, <3>2 DEF Resumed, Inv, CallsOK
    <3>. QED BY <3>1, <3>2
  <2>2. calls' = [c \in Callers |-> calls'[c]]
    BY <1>4 DEF Resumed
  <2>. QED BY <2>1, <2>2 DEF CallsOK, CallOK
<1>5. CASE r.stage = "granted"
  <2>1. calls' = Retried(Waiting(r.of), r.new) /\ token' = Renewed(r.new, r.of)
        /\ UNCHANGED <<user, epoch, attempt, syncing, invalid>>
    BY <1>5 DEF ReceiveRenewal
  <2>2. ASSUME NEW c \in Callers, NEW y, y = calls'[c] PROVE y \in Call /\ CallOK(y)
    <3>1. CASE c \in Waiting(r.of)
      <4> DEFINE x == calls[c]
                 z == [x EXCEPT !.stage = "asked", !.sent = r.new, !.retried = TRUE, !.reply = "none"]
      <4>1. y = z
        BY <2>1, <2>2, <3>1 DEF Retried
      <4>2. x \in Call /\ CallOK(x) /\ x.first = r.of /\ x.stage = "renewing"
        BY <1>3, <3>1 DEF Waiting
      <4>3. z \in Call
        BY <1>1, <1>5, <4>2 DEF Call, Replies
      <4>4. /\ z.kind = x.kind /\ z.sent = r.new /\ z.first = x.first /\ z.user = x.user
            /\ z.stage = "asked" /\ z.reply = "none" /\ z.fresh = x.fresh /\ z.result = x.result
        BY <4>2 DEF Call
      <4>5. CallOK(z)
        <5>. HIDE DEF z, x
        <5>. QED BY <1>1, <1>5, <4>2, <4>4 DEF CallOK
      <4>. QED BY <4>1, <4>3, <4>5
    <3>2. CASE c \notin Waiting(r.of)
      BY <2>1, <2>2, <3>2 DEF Retried, Inv, CallsOK
    <3>. QED BY <3>1, <3>2
  <2>3. calls' = [c \in Callers |-> calls'[c]]
    BY <2>1 DEF Retried
  <2>4. calls' \in [Callers -> Call] /\ CallsOK'
    BY <2>2, <2>3 DEF CallsOK, CallOK
  <2>5. SessionTypes' /\ TokenIsTheUsers'
    BY <1>1, <1>5, <2>1, NoneAssumption DEF Renewed, Inv, SessionTypes, TokenIsTheUsers
  <2>. QED BY <1>2, <2>1, <2>4, <2>5, Untouched DEF Inv
<1>6. CASE r.stage = "refused"
  <2>1. calls' = Resumed(Waiting(r.of), "rejected") /\ Invalidate(r.of)
    BY <1>6 DEF ReceiveRenewal
  <2>. QED BY <1>1, <1>2, <1>4, <2>1, InvalidateKeeps, Untouched DEF Inv
<1>7. CASE r.stage = "failed"
  <2>1. /\ \E result \in {"rejected", "unavailable"} : calls' = Resumed(Waiting(r.of), result)
        /\ UNCHANGED <<session, invalid>>
    BY <1>7 DEF ReceiveRenewal
  <2>. QED BY <1>2, <1>4, <2>1, Untouched DEF Inv
<1>. QED BY <1>5, <1>6, <1>7 DEF ReceiveRenewal

-----------------------------------------------------------------------------
(* After the awaits. *)

LEMMA PassGoesOnPreserves ==
  ASSUME Inv, NEW c \in Callers, PassGoesOn(c) PROVE Inv'
<1>1. user = calls[c].user /\ epoch = calls[c].epoch /\ token # None
  BY DEF PassGoesOn, Current
<1>2. PICK x \in Call : x = Asked("pass", token, epoch, user, None) /\ CallOK(x)
  BY <1>1, BegunIsOK
<1>3. calls' = [calls EXCEPT ![c] = x]
  BY <1>1, <1>2 DEF PassGoesOn
<1>. QED BY <1>2, <1>3, CallStep, Untouched DEF PassGoesOn, Inv

LEMMA PassEndsPreserves ==
  ASSUME Inv, NEW c \in Callers, PassEnds(c) PROVE Inv'
<1>1. calls' \in [Callers -> Call] /\ CallsOK'
  BY IdleIsACall, CallStep DEF PassEnds
<1>2. syncing' \in BOOLEAN
  BY DEF PassEnds, SlotAfterPass, Inv, SessionTypes
<1>3. SessionTypes' /\ TokenIsTheUsers'
  BY <1>2 DEF PassEnds, Inv, SessionTypes, TokenIsTheUsers
<1>. QED BY <1>1, <1>3, Untouched DEF PassEnds, Inv

LEMMA SwitchEndsPreserves ==
  ASSUME Inv, NEW c \in Callers, SwitchEnds(c) PROVE Inv'
<1>1. CASE Current(c) /\ calls[c].result = "ok"
  <2>1. PICK t \in Token : t = calls[c].fresh
    BY <1>1 DEF SwitchEnds, Returned, Inv, CallsOK, CallOK
  <2>2. /\ epoch' = epoch + 1 /\ token' = t /\ user' = t.who /\ syncing' = TRUE
        /\ calls' = [calls EXCEPT ![c] = Asked("pass", t, epoch + 1, t.who, None)]
        /\ UNCHANGED <<server, attempt, invalid, renewals, logins, wish, strayed, acts, edicts>>
    BY <1>1, <2>1 DEF SwitchEnds
  <2>3. t.who \in Identity /\ epoch + 1 \in Nat
    BY DEF Token, Inv, SessionTypes
  <2>4. SessionTypes' /\ TokenIsTheUsers'
    BY <2>2, <2>3 DEF Inv, SessionTypes, TokenIsTheUsers
  <2>5. PICK x \in Call : x = Asked("pass", t, epoch + 1, t.who, None) /\ CallOK(x)
    <3>1. AskedUnless(TRUE, "pass", t, epoch + 1, t.who, None) \in Call
          /\ CallOK(AskedUnless(TRUE, "pass", t, epoch + 1, t.who, None))
      BY <2>3, AskedIsOK
    <3>2. AskedUnless(FALSE, "pass", t, epoch + 1, t.who, None) \in Call
          /\ CallOK(AskedUnless(FALSE, "pass", t, epoch + 1, t.who, None))
      BY <2>3, AskedIsOK
    <3>3. Asked("pass", t, epoch + 1, t.who, None) =
            IF t \in invalid THEN AskedUnless(TRUE, "pass", t, epoch + 1, t.who, None)
            ELSE AskedUnless(FALSE, "pass", t, epoch + 1, t.who, None)
      BY DEF Asked, AskedUnless
    <3>. QED BY <3>1, <3>2, <3>3
  <2>. QED BY <2>2, <2>4, <2>5, CallStep, Untouched DEF Inv
<1>2. CASE ~(Current(c) /\ calls[c].result = "ok")
  <2>1. calls' = [calls EXCEPT ![c] = Idle] /\ UNCHANGED session
    BY <1>2 DEF SwitchEnds, session
  <2>. QED BY <2>1, IdleIsACall, CallStep, Untouched DEF SwitchEnds, Inv
<1>. QED BY <1>1, <1>2

LEMMA CheckEndsPreserves ==
  ASSUME Inv, NEW c \in Callers, CheckEnds(c) PROVE Inv'
<1>1. calls' \in [Callers -> Call] /\ CallsOK'
  BY IdleIsACall, CallStep DEF CheckEnds
<1>2. CASE Current(c) /\ calls[c].result = "ok"
  <2>1. calls[c].sent.who = user
    BY <1>2 DEF CheckEnds, Returned, Current, Inv, CallsOK, CallOK
  <2>2. UNCHANGED session
    BY <1>2, <2>1 DEF CheckEnds, session
  <2>. QED BY <1>1, <2>2, Untouched DEF CheckEnds, Inv
<1>3. CASE Current(c) /\ calls[c].result = "rejected"
  <2>1. token' = None /\ epoch' = epoch + 1 /\ syncing' = FALSE /\ UNCHANGED <<user, attempt>>
    BY <1>3 DEF CheckEnds
  <2>2. epoch' \in Nat /\ None \in Token \cup {None}
    BY <2>1 DEF Inv, SessionTypes
  <2>3. SessionTypes'
    BY <2>1, <2>2 DEF Inv, SessionTypes
  <2>4. TokenIsTheUsers'
    BY <2>1 DEF TokenIsTheUsers
  <2>. QED BY <1>1, <2>3, <2>4, Untouched DEF CheckEnds, Inv
<1>4. CASE UNCHANGED <<token, user, epoch, syncing>>
  BY <1>1, <1>4, Untouched DEF CheckEnds, Inv, session
<1>. QED BY <1>2, <1>3, <1>4 DEF CheckEnds

-----------------------------------------------------------------------------
LEMMA StepPreserves == Inv /\ [Next]_vars => Inv'
<1> SUFFICES ASSUME Inv, [Next]_vars PROVE Inv'
  OBVIOUS
<1>1. CASE \/ \E who \in Identity : Remove(who)
           \/ \E u \in Users : ChangePassword(u)
           \/ Tick
  BY <1>1, ServerPreserves
<1>2. CASE ToggleAutoSync
  BY <1>2, TogglePreserves
<1>3. ASSUME NEW l \in Attempts,
             (\E u \in Users : StartLogin(l, u)) \/ ServeLogin(l) \/ LoginAnswered(l) \/ InstallLogin(l)
      PROVE  Inv'
  BY <1>3, StartLoginPreserves, ServeLoginPreserves, LoginAnsweredPreserves, InstallLoginPreserves
<1>4. CASE Logout \/ LeaveServer
  BY <1>4, SigningOutPreserves
<1>5. ASSUME NEW c \in Callers,
             \/ StartPass(c) \/ StartCheck(c) \/ \E org \in Orgs : StartSwitch(c, org)
             \/ ServeCall(c) \/ LoseCall(c) \/ ReceiveCall(c)
             \/ PassGoesOn(c) \/ PassEnds(c) \/ SwitchEnds(c) \/ CheckEnds(c)
      PROVE  Inv'
  BY <1>5, StartPassPreserves, StartCheckPreserves, StartSwitchPreserves, ServeCallPreserves,
     LoseCallPreserves, ReceiveCallPreserves, PassGoesOnPreserves, PassEndsPreserves,
     SwitchEndsPreserves, CheckEndsPreserves
<1>6. ASSUME NEW r \in renewals, ServeRenewal(r) \/ LoseRenewal(r) \/ ReceiveRenewal(r) PROVE Inv'
  BY <1>6, RenewalAnswered, ReceiveRenewalPreserves
<1>7. CASE UNCHANGED vars
  BY <1>7, Untouched DEF vars, server, session, Inv
<1>. QED BY <1>1, <1>2, <1>3, <1>4, <1>5, <1>6, <1>7 DEF Next

-----------------------------------------------------------------------------
(* Sessions, sign-ins and requests in time. *)

(* Numbers of sessions and sign-ins only grow, and no two sign-ins share one. *)
NumbersOK ==
  /\ attempt <= epoch /\ strayed <= epoch
  /\ \A c \in Callers : calls[c].epoch <= epoch
  /\ \A l \in Attempts : logins[l].stage # "idle" => logins[l].no \in 1..epoch
  /\ \A l, k \in Attempts :
       logins[l].stage # "idle" /\ logins[k].stage # "idle" /\ logins[l].no = logins[k].no => l = k

Present(c) == calls[c].kind # "idle" /\ calls[c].epoch = epoch

(* While a sign-in is awaited nobody works in the session it will install. *)
AwaitedOK ==
  /\ \A l \in Attempts : logins[l].stage # "idle" /\ Awaited(l) => attempt = epoch
  /\ (attempt = epoch /\ strayed # epoch) => (token = None /\ \A c \in Callers : ~Present(c))

(* Only a pass of the present session has the slot, and only one. *)
SlotOK ==
  strayed # epoch =>
    /\ SlotIsHeld /\ OnePass
    /\ \A c \in Callers : calls[c].kind = "pass" /\ Current(c) => syncing

(* A sign-in is awaited exactly when it is what the user asked for last; only *)
(* one over an open session survives the choice of another organization.      *)
AwaitedIsWished ==
  \A l \in Attempts :
    logins[l].stage # "idle" =>
      /\ wish.no = logins[l].no => Awaited(l)
      /\ Awaited(l) => \/ wish = [no |-> logins[l].no, id |-> logins[l].id, org |-> None]
                       \/ strayed = epoch /\ wish.no = 0

(* The change of organization under way is what the user asked for last. *)
SwitchIsWished ==
  \A c \in Callers :
    Present(c) /\ calls[c].kind = "switch" =>
      wish = [no |-> 0, id |-> calls[c].user.id, org |-> calls[c].org]

(* No sign-in is awaited while the session is checked. *)
CheckIsAlone ==
  \A c \in Callers, l \in Attempts :
    Present(c) /\ calls[c].kind = "check" /\ logins[l].stage # "idle" => ~Awaited(l)

(* Who signs in is who asked to. *)
GrantedIsAsked ==
  \A l \in Attempts :
    logins[l].stage \in {"granted", "clearing"} => logins[l].token.who.id = logins[l].id

WishOK == AwaitedIsWished /\ SwitchIsWished /\ CheckIsAlone /\ GrantedIsAsked

(* What the server signed is no newer than its own versions and day; what is *)
(* gone for another reason than its age stays so.                            *)
Issued(t) == t.ver <= version[t.who.id] /\ t.day <= day
Gone(t) == t.who \notin members \/ t.ver # version[t.who.id]

(* What a request carries, and how long ago it can have been signed. *)
CallIsRecent(x) ==
  x.kind # "idle" =>
    /\ Issued(x.sent) /\ Issued(x.first) /\ (x.fresh # None => Issued(x.fresh))
    /\ x.sent.ver = x.first.ver
    /\ ~x.retried => x.sent = x.first
    /\ x.retried /\ x.stage # "returned" => x.sent.day = day /\ x.first.day + 1 = day
    /\ x.stage = "answered" => x.reply # "none"
    /\ \/ x.stage = "answered" /\ x.reply = "unauthorized"
       \/ x.stage = "renewing"
       => Gone(x.sent) \/ x.sent.day # day
    /\ x.stage = "renewing" => ~x.retried
    /\ x.kind = "check" /\ x.stage = "answered" /\ x.reply = "ok" =>
         x.fresh.ver = x.first.ver /\ day <= x.first.day + 1
    /\ x.kind = "switch" /\ ((x.stage = "answered" /\ x.reply = "ok") \/ x.result = "ok") =>
         x.fresh.who = [id |-> x.user.id, org |-> x.org]

(* Only what the server does not accept any more is renewed. *)
RenewalIsRecent(r) ==
  /\ Issued(r.of) /\ (Gone(r.of) \/ r.of.day # day)
  /\ r.stage = "granted" => r.new.ver = r.of.ver /\ r.new.day = day /\ r.of.day + 1 = day
  /\ r.stage = "refused" => ~Renews(r.of)

(* The token of a session that is being checked descends from the one the check *)
(* went out with, and a rejection of that one tells of it too.                 *)
CheckOK(c) ==
  Present(c) /\ calls[c].kind = "check" /\ token # None =>
    /\ token.ver = calls[c].first.ver
    /\ token # calls[c].first /\ calls[c].stage # "returned" => day <= calls[c].first.day + 1
    /\ user = calls[c].user /\ calls[c].result = "rejected" => ~Renews(token)

TokenIsIssued    == token # None => Issued(token)
InvalidIsRefused == \A t \in invalid : Issued(t) /\ ~Renews(t)
CallsRecent      == \A c \in Callers : CallIsRecent(calls[c])
RenewalsRecent   == \A r \in renewals : RenewalIsRecent(r)
LoginsIssued     ==
  \A l \in Attempts : logins[l].stage \in {"granted", "clearing"} => Issued(logins[l].token)
ChecksOK         == \A c \in Callers : CheckOK(c)

TokensOK ==
  TokenIsIssued /\ InvalidIsRefused /\ CallsRecent /\ RenewalsRecent /\ LoginsIssued /\ ChecksOK

IInv == Inv /\ NumbersOK /\ AwaitedOK /\ SlotOK /\ WishOK /\ TokensOK

-----------------------------------------------------------------------------
(* A request keeps what it works for. *)
SameWork(c) ==
  /\ calls'[c].kind = calls[c].kind /\ calls'[c].epoch = calls[c].epoch
  /\ calls'[c].user = calls[c].user
  /\ calls[c].kind = "switch" => calls'[c].org = calls[c].org

LEMMA QuietStep ==
  ASSUME IInv, UNCHANGED <<user, epoch, attempt, syncing, logins, wish, strayed>>,
         token' = None <=> token = None,
         \A c \in Callers : SameWork(c)
  PROVE  NumbersOK' /\ AwaitedOK' /\ SlotOK' /\ WishOK'
<1>1. NumbersOK'
  BY DEF IInv, NumbersOK, SameWork
<1>2. \A c \in Callers : Present(c)' = Present(c) /\ Current(c)' = Current(c)
  BY DEF SameWork, Present, Current
<1>3. \A l \in Attempts : Awaited(l)' = Awaited(l)
  BY DEF Awaited
<1>4. AwaitedOK'
  BY <1>2, <1>3 DEF IInv, AwaitedOK
<1>5. SlotOK'
  BY <1>2 DEF IInv, SlotOK, SlotIsHeld, OnePass, SameWork
<1>6. AwaitedIsWished' /\ GrantedIsAsked'
  BY <1>3 DEF IInv, WishOK, AwaitedIsWished, GrantedIsAsked
<1>7. SwitchIsWished' /\ CheckIsAlone'
  BY <1>2, <1>3 DEF IInv, WishOK, SwitchIsWished, CheckIsAlone, SameWork
<1>. QED BY <1>1, <1>4, <1>5, <1>6, <1>7 DEF WishOK

LEMMA EpochsAreOld ==
  ASSUME IInv PROVE \A c \in Callers : calls[c].epoch \in 0..epoch
BY DEF IInv, NumbersOK, Inv, SessionTypes, Call

(* Another session begins, and nobody works in it yet. *)
LEMMA NewEpoch ==
  ASSUME IInv, epoch' = epoch + 1, UNCHANGED <<attempt, strayed, logins>>,
         \A c \in Callers : calls'[c].epoch \in 0..epoch,
         syncing' = FALSE,
         \A l \in Attempts : logins[l].stage # "idle" => wish'.no # logins[l].no
  PROVE  NumbersOK' /\ AwaitedOK' /\ SlotOK' /\ WishOK'
<1>1. epoch \in Nat /\ attempt \in Nat /\ strayed \in Nat /\ attempt <= epoch /\ strayed <= epoch
  BY DEF IInv, NumbersOK, Inv, SessionTypes, OtherTypes
<1>2. \A c \in Callers : calls'[c].epoch # epoch'
  BY <1>1
<1>3. \A l \in Attempts : logins[l].stage # "idle" => logins[l].no \in 1..epoch
  BY DEF IInv, NumbersOK
<1>4. \A c \in Callers : ~Present(c)' /\ ~Current(c)'
  BY <1>2 DEF Present, Current
<1>5. \A l \in Attempts : logins[l].stage # "idle" => ~Awaited(l)'
  BY <1>1, <1>3 DEF Awaited
<1>6. NumbersOK'
  <2>1. \A c \in Callers : calls'[c].epoch <= epoch'
    BY <1>1
  <2>2. attempt' <= epoch' /\ strayed' <= epoch'
    BY <1>1
  <2>3. \A l \in Attempts : logins'[l].stage # "idle" => logins'[l].no \in 1..epoch'
    BY <1>1, <1>3
  <2>. QED BY <2>1, <2>2, <2>3 DEF IInv, NumbersOK
<1>7. AwaitedOK'
  BY <1>1, <1>4, <1>5 DEF AwaitedOK
<1>8. SlotOK'
  BY <1>4 DEF SlotOK, SlotIsHeld, OnePass
<1>9. WishOK'
  BY <1>4, <1>5 DEF IInv, WishOK, AwaitedIsWished, SwitchIsWished, CheckIsAlone, GrantedIsAsked
<1>. QED BY <1>6, <1>7, <1>8, <1>9

(* The session ends, and a sign-in under way is still awaited. *)
LEMMA EndedStep ==
  ASSUME IInv, NEW refused \in Token, Invalidate(refused), UNCHANGED <<logins, wish, strayed>>,
         \A c \in Callers : SameWork(c)
  PROVE  NumbersOK' /\ AwaitedOK' /\ SlotOK' /\ WishOK'
<1>1. CASE ~Ends(refused)
  <2>1. UNCHANGED <<token, user, epoch, attempt, syncing>>
    BY <1>1 DEF Invalidate, SlotAfterEnd
  <2>. QED BY <2>1, QuietStep
<1>2. CASE Ends(refused)
  <2>1. token' = None /\ syncing' = FALSE /\ epoch' = EpochAfterEnd /\ UNCHANGED <<user, attempt>>
    BY <1>2 DEF Invalidate, SlotAfterEnd
  <2>2. \A c \in Callers : ~Current(c)'
    BY <2>1 DEF Current
  <2>3. SlotOK'
    BY <2>1, <2>2 DEF SlotOK, SlotIsHeld, OnePass
  <2>4. token # None
    BY <1>2 DEF Ends
  <2>5. CASE attempt = epoch
    <3>1. epoch' = epoch
      BY <2>1, <2>5 DEF EpochAfterEnd
    <3>2. strayed = epoch
      BY <2>4, <2>5 DEF IInv, AwaitedOK
    <3>3. \A c \in Callers : Present(c)' = Present(c)
      BY <3>1 DEF SameWork, Present
    <3>4. \A l \in Attempts : Awaited(l)' = Awaited(l)
      BY <3>1 DEF Awaited
    <3>5. NumbersOK'
      BY <2>1, <3>1 DEF IInv, NumbersOK, SameWork
    <3>6. AwaitedOK'
      BY <2>1, <3>1, <3>2, <3>4 DEF IInv, AwaitedOK
    <3>7. AwaitedIsWished' /\ GrantedIsAsked'
      BY <3>1, <3>4 DEF IInv, WishOK, AwaitedIsWished, GrantedIsAsked
    <3>8. SwitchIsWished' /\ CheckIsAlone'
      BY <3>3, <3>4 DEF IInv, WishOK, SwitchIsWished, CheckIsAlone, SameWork
    <3>. QED BY <2>3, <3>5, <3>6, <3>7, <3>8 DEF WishOK
  <2>6. CASE attempt # epoch
    <3>1. epoch' = epoch + 1 /\ epoch \in Nat
      BY <2>1, <2>6 DEF EpochAfterEnd, IInv, Inv, SessionTypes
    <3>2. \A c \in Callers : calls'[c].epoch \in 0..epoch
      BY <3>1, EpochsAreOld DEF SameWork
    <3>3. \A l \in Attempts : logins[l].stage # "idle" => wish'.no # logins[l].no
      BY <2>6 DEF IInv, AwaitedOK, WishOK, AwaitedIsWished
    <3>. QED BY <2>1, <3>1, <3>2, <3>3, NewEpoch
  <2>. QED BY <2>5, <2>6
<1>. QED BY <1>1, <1>2

-----------------------------------------------------------------------------
(* What the user begins, in time. *)

(* An operation begins for the present session. *)
LEMMA BegunStep ==
  ASSUME IInv, token # None, NEW c \in Callers, NEW x,
         calls' = [calls EXCEPT ![c] = x], x.kind \in {"pass", "switch", "check"},
         x.epoch = epoch, x.user = user,
         UNCHANGED <<token, user, epoch, attempt, logins>>,
         strayed' \in {strayed, epoch}
  PROVE  /\ NumbersOK' /\ AwaitedOK' /\ GrantedIsAsked'
         /\ Current(c)'
         /\ \A k \in Callers \ {c} :
              calls'[k] = calls[k] /\ Present(k)' = Present(k) /\ Current(k)' = Current(k)
         /\ \A l \in Attempts : Awaited(l)' = Awaited(l)
<1>1. \A k \in Callers : calls'[k] = IF k = c THEN x ELSE calls[k]
  BY DEF IInv, Inv
<1>2. epoch \in Nat /\ strayed \in Nat /\ \A k \in Callers : calls[k].epoch \in 0..epoch
  BY EpochsAreOld DEF IInv, Inv, SessionTypes, OtherTypes
<1>3. NumbersOK'
  BY <1>1, <1>2 DEF IInv, NumbersOK
<1>4. \A l \in Attempts : Awaited(l)' = Awaited(l)
  BY DEF Awaited
<1>5. AwaitedOK'
  BY <1>4 DEF IInv, AwaitedOK
<1>6. Current(c)'
  BY <1>1 DEF Current
<1>7. ASSUME NEW k \in Callers \ {c}
      PROVE  calls'[k] = calls[k] /\ Present(k)' = Present(k) /\ Current(k)' = Current(k)
  BY <1>1 DEF Present, Current
<1>. QED BY <1>3, <1>4, <1>5, <1>6, <1>7 DEF IInv, WishOK, GrantedIsAsked

(* A pass begins where the slot is free, or is taken by force in a session that *)
(* has strayed from then on.                                                     *)
LEMMA PassBegun ==
  ASSUME IInv, token # None, NEW c \in Callers, IdleCall(c),
         calls' = [calls EXCEPT ![c] = Asked("pass", token, epoch, user, None)],
         syncing' = TRUE, strayed' = IF syncing THEN epoch ELSE strayed,
         UNCHANGED <<token, user, epoch, attempt, logins, wish>>
  PROVE  NumbersOK' /\ AwaitedOK' /\ SlotOK' /\ WishOK'
<1>1. PICK x : x = Asked("pass", token, epoch, user, None)
  OBVIOUS
<1>2. x.kind = "pass" /\ x.epoch = epoch /\ x.user = user
  BY <1>1 DEF Asked, AskedUnless
<1>3. calls' = [calls EXCEPT ![c] = x] /\ calls'[c] = x
  BY <1>1 DEF IInv, Inv
<1>4. /\ NumbersOK' /\ AwaitedOK' /\ GrantedIsAsked'
      /\ Current(c)'
      /\ \A k \in Callers \ {c} :
           calls'[k] = calls[k] /\ Present(k)' = Present(k) /\ Current(k)' = Current(k)
      /\ \A l \in Attempts : Awaited(l)' = Awaited(l)
  BY <1>2, <1>3, BegunStep
<1>5. SlotOK'
  <2>1. SUFFICES ASSUME strayed' # epoch PROVE SlotOK'
    BY DEF SlotOK
  <2>2. ~syncing /\ strayed # epoch
    BY <2>1
  <2>3. \A k \in Callers \ {c} : ~(calls'[k].kind = "pass" /\ Current(k)')
    BY <1>4, <2>2 DEF IInv, SlotOK
  <2>. QED BY <1>2, <1>3, <1>4, <2>3 DEF SlotOK, SlotIsHeld, OnePass
<1>6. AwaitedIsWished'
  BY <1>4 DEF IInv, WishOK, AwaitedIsWished
<1>7. SwitchIsWished'
  BY <1>2, <1>3, <1>4 DEF IInv, WishOK, SwitchIsWished
<1>8. CheckIsAlone'
  BY <1>2, <1>3, <1>4 DEF IInv, WishOK, CheckIsAlone
<1>. QED BY <1>4, <1>5, <1>6, <1>7, <1>8 DEF WishOK

LEMMA StartPassInTime ==
  ASSUME IInv, NEW c \in Callers, StartPass(c)
  PROVE  NumbersOK' /\ AwaitedOK' /\ SlotOK' /\ WishOK'
BY PassBegun DEF StartPass, SlotFree

LEMMA ToggleInTime ==
  ASSUME IInv, ToggleAutoSync PROVE NumbersOK' /\ AwaitedOK' /\ SlotOK' /\ WishOK'
<1>1. CASE syncing' = FALSE /\ UNCHANGED calls
  <2>1. UNCHANGED <<token, user, epoch, attempt, logins, wish, calls>>
        /\ strayed' = IF syncing THEN epoch ELSE strayed
    BY <1>1 DEF ToggleAutoSync
  <2>2. CASE ~syncing
    BY <1>1, <2>1, <2>2, QuietStep DEF SameWork, IInv, Inv, SessionTypes
  <2>3. CASE syncing
    <3>1. strayed' = epoch /\ epoch \in Nat
      BY <2>1, <2>3 DEF IInv, Inv, SessionTypes
    <3>2. NumbersOK'
      BY <2>1, <3>1 DEF IInv, NumbersOK
    <3>3. AwaitedOK' /\ SlotOK'
      BY <2>1, <3>1 DEF IInv, AwaitedOK, Awaited, SlotOK
    <3>4. WishOK'
      BY <2>1, <3>1
         DEF IInv, WishOK, AwaitedIsWished, SwitchIsWished, CheckIsAlone, GrantedIsAsked,
             Awaited, Present
    <3>. QED BY <3>2, <3>3, <3>4
  <2>. QED BY <2>2, <2>3
<1>2. ASSUME NEW c \in Callers, IdleCall(c), token # None, syncing' = TRUE,
             calls' = [calls EXCEPT ![c] = Asked("pass", token, epoch, user, None)]
      PROVE  NumbersOK' /\ AwaitedOK' /\ SlotOK' /\ WishOK'
  BY <1>2, PassBegun DEF ToggleAutoSync
<1>. QED BY <1>1, <1>2 DEF ToggleAutoSync

LEMMA StartLoginInTime ==
  ASSUME IInv, NEW l \in Attempts, NEW u \in Users, StartLogin(l, u)
  PROVE  NumbersOK' /\ AwaitedOK' /\ SlotOK' /\ WishOK'
<1> DEFINE y == [stage |-> "asked", id |-> u, no |-> epoch + 1, token |-> None]
<1>1. /\ epoch' = epoch + 1 /\ attempt' = epoch + 1 /\ syncing' = FALSE
      /\ strayed' = IF token # None THEN epoch + 1 ELSE strayed
      /\ wish' = [no |-> epoch + 1, id |-> u, org |-> None]
      /\ UNCHANGED <<token, user, calls>>
      /\ \A k \in Attempts : logins'[k] = IF k = l THEN y ELSE logins[k]
  BY DEF StartLogin, Act, IInv, Inv
<1>2. y.stage = "asked" /\ y.id = u /\ y.no = epoch + 1
  OBVIOUS
<1>3. wish'.no = epoch + 1 /\ wish'.id = u /\ wish'.org = None
  BY <1>1
<1>. HIDE DEF y
<1>4. epoch \in Nat /\ strayed \in Nat /\ strayed <= epoch /\ \A c \in Callers : calls[c].epoch \in 0..epoch
  BY EpochsAreOld DEF IInv, NumbersOK, Inv, SessionTypes, OtherTypes
<1>5. \A k \in Attempts : logins[k].stage # "idle" => logins[k].no \in 1..epoch
  BY DEF IInv, NumbersOK
<1>6. \A c \in Callers : ~Present(c)' /\ ~Current(c)'
  BY <1>1, <1>4 DEF Present, Current
<1>7. \A k \in Attempts : logins'[k].stage # "idle" /\ k # l => logins'[k] = logins[k] /\ ~Awaited(k)'
  BY <1>1, <1>4, <1>5 DEF Awaited
<1>8. NumbersOK'
  <2>1. attempt' <= epoch' /\ strayed' <= epoch' /\ \A c \in Callers : calls'[c].epoch <= epoch'
    BY <1>1, <1>4
  <2>2. \A k \in Attempts : logins'[k].stage # "idle" => logins'[k].no \in 1..epoch'
    BY <1>1, <1>2, <1>4, <1>5
  <2>3. ASSUME NEW i \in Attempts, NEW k \in Attempts,
               logins'[i].stage # "idle", logins'[k].stage # "idle", logins'[i].no = logins'[k].no
        PROVE  i = k
    <3>1. CASE i = l
      BY <1>1, <1>2, <1>4, <1>5, <2>3, <3>1
    <3>2. CASE i # l
      <4>1. CASE k = l
        BY <1>1, <1>2, <1>4, <1>5, <2>3, <3>2, <4>1
      <4>2. CASE k # l
        BY <1>1, <2>3, <3>2, <4>2 DEF IInv, NumbersOK
      <4>. QED BY <4>1, <4>2
    <3>. QED BY <3>1, <3>2
  <2>. QED BY <2>1, <2>2, <2>3 DEF NumbersOK
<1>9. AwaitedOK'
  BY <1>1, <1>6, <1>7 DEF AwaitedOK
<1>10. SlotOK'
  BY <1>1, <1>6 DEF SlotOK, SlotIsHeld, OnePass
<1>11. AwaitedIsWished'
  <2>1. \A k \in Attempts : k # l /\ logins'[k].stage # "idle" => wish'.no # logins'[k].no
    BY <1>3, <1>4, <1>5, <1>7
  <2>2. logins'[l].no = epoch' /\ wish' = [no |-> logins'[l].no, id |-> logins'[l].id, org |-> None]
    BY <1>1, <1>2
  <2>. QED BY <1>7, <2>1, <2>2 DEF AwaitedIsWished, Awaited
<1>12. SwitchIsWished' /\ CheckIsAlone'
  BY <1>6 DEF SwitchIsWished, CheckIsAlone
<1>13. GrantedIsAsked'
  BY <1>1, <1>2 DEF IInv, WishOK, GrantedIsAsked
<1>. QED BY <1>8, <1>9, <1>10, <1>11, <1>12, <1>13 DEF WishOK

LEMMA SigningOutInTime ==
  ASSUME IInv, Logout \/ LeaveServer PROVE NumbersOK' /\ AwaitedOK' /\ SlotOK' /\ WishOK'
<1>1. /\ epoch' = epoch + 1 /\ UNCHANGED <<attempt, strayed, logins, calls>>
      /\ syncing' = FALSE /\ wish' = [no |-> epoch + 1, id |-> None, org |-> None]
  BY DEF Logout, LeaveServer, Act
<1>2. epoch \in Nat /\ \A l \in Attempts : logins[l].stage # "idle" => logins[l].no \in 1..epoch
  BY DEF IInv, NumbersOK, Inv, SessionTypes
<1>3. \A l \in Attempts : logins[l].stage # "idle" => wish'.no # logins[l].no
  BY <1>1, <1>2
<1>. QED BY <1>1, <1>3, EpochsAreOld, NewEpoch

LEMMA StartSwitchInTime ==
  ASSUME IInv, NEW c \in Callers, NEW org \in Orgs, StartSwitch(c, org)
  PROVE  NumbersOK' /\ AwaitedOK' /\ SlotOK' /\ WishOK'
<1>1. PICK x : x = Asked("switch", token, epoch, user, org)
  OBVIOUS
<1>2. x.kind = "switch" /\ x.epoch = epoch /\ x.user = user /\ x.org = org
  BY <1>1 DEF Asked, AskedUnless
<1>3. calls' = [calls EXCEPT ![c] = x] /\ calls'[c] = x
      /\ UNCHANGED <<token, user, epoch, attempt, syncing, logins, strayed>> /\ token # None
      /\ wish' = [no |-> 0, id |-> user.id, org |-> org]
  BY <1>1 DEF StartSwitch, Act, session, IInv, Inv
<1>4. /\ NumbersOK' /\ AwaitedOK' /\ GrantedIsAsked'
      /\ \A k \in Callers \ {c} :
           calls'[k] = calls[k] /\ Present(k)' = Present(k) /\ Current(k)' = Current(k)
      /\ \A l \in Attempts : Awaited(l)' = Awaited(l)
  BY <1>2, <1>3, BegunStep
<1>5. \A k \in Callers : calls'[k].kind = "pass" => k # c
  BY <1>2, <1>3
<1>6. calls[c].kind # "pass" /\ \A k \in Callers : calls[k].kind # "switch"
  BY DEF StartSwitch, IdleCall
<1>7. SlotOK'
  BY <1>3, <1>4, <1>5, <1>6 DEF IInv, SlotOK, SlotIsHeld, OnePass
<1>8. AwaitedIsWished'
  <2>1. \A l \in Attempts : logins[l].stage # "idle" => logins[l].no # 0
    BY DEF IInv, NumbersOK
  <2>2. \A l \in Attempts : logins[l].stage # "idle" /\ Awaited(l) => strayed = epoch
    BY <1>3 DEF IInv, AwaitedOK
  <2>. QED BY <1>3, <1>4, <2>1, <2>2 DEF AwaitedIsWished
<1>9. SwitchIsWished'
  BY <1>2, <1>3, <1>4, <1>6 DEF SwitchIsWished
<1>10. CheckIsAlone'
  BY <1>2, <1>3, <1>4 DEF IInv, WishOK, CheckIsAlone
<1>. QED BY <1>4, <1>7, <1>8, <1>9, <1>10 DEF WishOK

LEMMA StartCheckInTime ==
  ASSUME IInv, NEW c \in Callers, StartCheck(c)
  PROVE  NumbersOK' /\ AwaitedOK' /\ SlotOK' /\ WishOK'
<1>1. PICK x : x = Asked("check", token, epoch, user, None)
  OBVIOUS
<1>2. x.kind = "check" /\ x.epoch = epoch /\ x.user = user
  BY <1>1 DEF Asked, AskedUnless
<1>3. calls' = [calls EXCEPT ![c] = x] /\ calls'[c] = x
      /\ UNCHANGED <<token, user, epoch, attempt, syncing, logins, strayed, wish>> /\ token # None
  BY <1>1 DEF StartCheck, session, IInv, Inv
<1>4. /\ NumbersOK' /\ AwaitedOK' /\ GrantedIsAsked'
      /\ \A k \in Callers \ {c} :
           calls'[k] = calls[k] /\ Present(k)' = Present(k) /\ Current(k)' = Current(k)
      /\ \A l \in Attempts : Awaited(l)' = Awaited(l)
  BY <1>2, <1>3, BegunStep
<1>5. calls'[c].kind # "pass" /\ calls[c].kind # "pass" /\ \A l \in Attempts : logins'[l].stage = "idle"
  BY <1>2, <1>3 DEF StartCheck, IdleCall
<1>6. SlotOK'
  BY <1>3, <1>4, <1>5 DEF IInv, SlotOK, SlotIsHeld, OnePass
<1>7. AwaitedIsWished' /\ CheckIsAlone'
  BY <1>5 DEF AwaitedIsWished, CheckIsAlone
<1>8. SwitchIsWished'
  BY <1>2, <1>3, <1>4 DEF IInv, WishOK, SwitchIsWished
<1>. QED BY <1>4, <1>6, <1>7, <1>8 DEF WishOK

-----------------------------------------------------------------------------
(* Sign-ins, in time. *)

(* A sign-in comes to nothing. *)
LEMMA DroppedLogin ==
  ASSUME IInv, NEW l \in Attempts, logins' = [logins EXCEPT ![l] = NoLogin],
         UNCHANGED <<epoch, calls, wish, strayed>>,
         attempt' \in {attempt, 0}, attempt' <= epoch,
         \A k \in Attempts : k # l /\ logins[k].stage # "idle" /\ Awaited(k) => attempt' = attempt,
         attempt' = epoch => attempt = epoch
  PROVE  /\ NumbersOK' /\ WishOK'
         /\ \A k \in Attempts : logins'[k].stage # "idle" /\ Awaited(k)' => attempt' = epoch'
<1>1. \A k \in Attempts : logins'[k] = IF k = l THEN NoLogin ELSE logins[k]
  BY DEF IInv, Inv
<1>2. NoLogin.stage = "idle"
  BY DEF NoLogin
<1>3. \A k \in Attempts : logins'[k].stage # "idle" =>
        k # l /\ logins'[k] = logins[k] /\ Awaited(k)' = Awaited(k)
  BY <1>1, <1>2 DEF Awaited
<1>4. NumbersOK'
  BY <1>3 DEF IInv, NumbersOK
<1>5. AwaitedIsWished'
  BY <1>3 DEF IInv, WishOK, AwaitedIsWished
<1>6. SwitchIsWished'
  BY DEF IInv, WishOK, SwitchIsWished, Present
<1>7. CheckIsAlone'
  BY <1>3 DEF IInv, WishOK, CheckIsAlone, Present
<1>8. GrantedIsAsked'
  BY <1>3 DEF IInv, WishOK, GrantedIsAsked
<1>9. \A k \in Attempts : logins'[k].stage # "idle" /\ Awaited(k)' => attempt' = epoch'
  BY <1>3 DEF IInv, AwaitedOK
<1>. QED BY <1>4, <1>5, <1>6, <1>7, <1>8, <1>9 DEF WishOK

(* A sign-in moves on. *)
LEMMA MovedLogin ==
  ASSUME IInv, NEW l \in Attempts, NEW x, logins' = [logins EXCEPT ![l] = x],
         logins[l].stage # "idle", x.no = logins[l].no, x.id = logins[l].id,
         x.stage \in {"granted", "clearing"} => x.token.who.id = x.id,
         UNCHANGED <<token, user, epoch, attempt, syncing, calls, wish, strayed>>
  PROVE  NumbersOK' /\ AwaitedOK' /\ SlotOK' /\ WishOK'
<1>1. \A k \in Attempts : logins'[k] = IF k = l THEN x ELSE logins[k]
  BY DEF IInv, Inv
<1>2. \A k \in Attempts :
        /\ logins'[k].stage # "idle" => logins[k].stage # "idle"
        /\ logins'[k].no = logins[k].no /\ logins'[k].id = logins[k].id
        /\ Awaited(k)' = Awaited(k)
  BY <1>1 DEF Awaited
<1>3. \A c \in Callers : Present(c)' = Present(c) /\ Current(c)' = Current(c)
  BY DEF Present, Current
<1>4. NumbersOK'
  BY <1>2 DEF IInv, NumbersOK
<1>5. AwaitedOK'
  BY <1>2, <1>3 DEF IInv, AwaitedOK
<1>6. SlotOK'
  BY <1>3 DEF IInv, SlotOK, SlotIsHeld, OnePass
<1>7. AwaitedIsWished'
  BY <1>2 DEF IInv, WishOK, AwaitedIsWished
<1>8. SwitchIsWished' /\ CheckIsAlone'
  BY <1>2, <1>3 DEF IInv, WishOK, SwitchIsWished, CheckIsAlone
<1>9. GrantedIsAsked'
  BY <1>1 DEF IInv, WishOK, GrantedIsAsked
<1>. QED BY <1>4, <1>5, <1>6, <1>7, <1>8, <1>9 DEF WishOK

LEMMA ServeLoginInTime ==
  ASSUME IInv, NEW l \in Attempts, ServeLogin(l)
  PROVE  NumbersOK' /\ AwaitedOK' /\ SlotOK' /\ WishOK'
<1>1. logins[l].stage = "asked" /\ UNCHANGED <<token, user, epoch, attempt, syncing, calls, wish, strayed>>
  BY DEF ServeLogin, session
<1>2. ASSUME NEW who \in members, who.id = logins[l].id,
             logins' = [logins EXCEPT ![l].stage = "granted", ![l].token = Signed(who, logins[l].no)]
      PROVE  NumbersOK' /\ AwaitedOK' /\ SlotOK' /\ WishOK'
  <2>1. PICK t : t = Signed(who, logins[l].no)
    OBVIOUS
  <2>2. t.who = who
    BY <2>1 DEF Signed
  <2>3. PICK x : x = [logins[l] EXCEPT !.stage = "granted", !.token = t]
    OBVIOUS
  <2>4. logins' = [logins EXCEPT ![l] = x]
    BY <1>2, <2>1, <2>3 DEF IInv, Inv
  <2>5. x.no = logins[l].no /\ x.id = logins[l].id /\ x.token = t
    BY <2>3 DEF IInv, Inv, Login
  <2>. QED BY <1>1, <1>2, <2>2, <2>4, <2>5, MovedLogin
<1>3. ASSUME logins' = [logins EXCEPT ![l].stage = "denied"]
      PROVE  NumbersOK' /\ AwaitedOK' /\ SlotOK' /\ WishOK'
  <2>1. PICK x : x = [logins[l] EXCEPT !.stage = "denied"]
    OBVIOUS
  <2>2. logins' = [logins EXCEPT ![l] = x]
    BY <1>3, <2>1
  <2>3. x.no = logins[l].no /\ x.id = logins[l].id /\ x.stage = "denied"
    BY <2>1 DEF IInv, Inv, Login
  <2>. QED BY <1>1, <2>2, <2>3, MovedLogin
<1>. QED BY <1>2, <1>3 DEF ServeLogin

LEMMA LoginAnsweredInTime ==
  ASSUME IInv, NEW l \in Attempts, LoginAnswered(l)
  PROVE  NumbersOK' /\ AwaitedOK' /\ SlotOK' /\ WishOK'
<1>1. /\ logins[l].stage \in {"granted", "denied"}
      /\ UNCHANGED <<token, user, epoch, syncing, calls, wish, strayed>>
  BY DEF LoginAnswered
<1>2. CASE Awaited(l) /\ logins[l].stage = "granted"
  <2>1. logins' = [logins EXCEPT ![l].stage = "clearing"] /\ UNCHANGED attempt
    BY <1>2 DEF LoginAnswered
  <2>2. PICK x : x = [logins[l] EXCEPT !.stage = "clearing"]
    OBVIOUS
  <2>3. logins' = [logins EXCEPT ![l] = x]
    BY <2>1, <2>2
  <2>4. x.no = logins[l].no /\ x.id = logins[l].id /\ x.token = logins[l].token
    BY <2>2 DEF IInv, Inv, Login
  <2>5. logins[l].token.who.id = logins[l].id
    BY <1>2 DEF IInv, WishOK, GrantedIsAsked
  <2>. QED BY <1>1, <2>1, <2>3, <2>4, <2>5, MovedLogin
<1>3. CASE ~(Awaited(l) /\ logins[l].stage = "granted")
  <2>1. /\ logins' = [logins EXCEPT ![l] = NoLogin]
        /\ attempt' = IF Awaited(l) THEN SettledAttempt(l) ELSE attempt
    BY <1>3 DEF LoginAnswered
  <2>2. attempt' \in {attempt, 0} /\ attempt' <= epoch
    BY <2>1 DEF SettledAttempt, IInv, NumbersOK, Inv, SessionTypes
  <2>3. Awaited(l) => attempt' = 0 /\ epoch # 0
    BY <1>1, <2>1 DEF SettledAttempt, Awaited, IInv, AwaitedOK, NumbersOK
  <2>4. \A k \in Attempts : k # l /\ logins[k].stage # "idle" /\ Awaited(k) => attempt' = attempt
    BY <1>1, <2>1 DEF Awaited, IInv, NumbersOK
  <2>5. attempt' = epoch => attempt = epoch
    BY <2>1, <2>3
  <2>6. NumbersOK' /\ WishOK'
        /\ (\A k \in Attempts : logins'[k].stage # "idle" /\ Awaited(k)' => attempt' = epoch')
    BY <1>1, <2>1, <2>2, <2>4, <2>5, DroppedLogin
  <2>7. \A c \in Callers : Present(c)' = Present(c) /\ Current(c)' = Current(c)
    BY <1>1 DEF Present, Current
  <2>8. AwaitedOK'
    BY <1>1, <2>5, <2>6, <2>7 DEF IInv, AwaitedOK
  <2>9. SlotOK'
    BY <1>1, <2>7 DEF IInv, SlotOK, SlotIsHeld, OnePass
  <2>. QED BY <2>6, <2>8, <2>9
<1>. QED BY <1>2, <1>3


LEMMA InstallLoginInTime ==
  ASSUME IInv, NEW l \in Attempts, InstallLogin(l)
  PROVE  NumbersOK' /\ AwaitedOK' /\ SlotOK' /\ WishOK'
<1>1. /\ logins[l].stage = "clearing" /\ logins' = [logins EXCEPT ![l] = NoLogin]
      /\ UNCHANGED <<epoch, wish, strayed>>
  BY DEF InstallLogin
<1>2. logins[l].token \in Token
  BY <1>1 DEF IInv, Inv, LoginsOK, LoginOK
<1>3. CASE ~Awaited(l)
  <2>1. UNCHANGED <<token, user, attempt, syncing, calls>>
    BY <1>3 DEF InstallLogin
  <2>2. NumbersOK' /\ WishOK'
        /\ (\A k \in Attempts : logins'[k].stage # "idle" /\ Awaited(k)' => attempt' = epoch')
    BY <1>1, <2>1, DroppedLogin DEF IInv, NumbersOK
  <2>3. \A c \in Callers : Present(c)' = Present(c) /\ Current(c)' = Current(c)
    BY <1>1, <2>1 DEF Present, Current
  <2>4. AwaitedOK' /\ SlotOK'
    BY <1>1, <2>1, <2>2, <2>3 DEF IInv, AwaitedOK, SlotOK, SlotIsHeld, OnePass
  <2>. QED BY <2>2, <2>4
<1>4. CASE Awaited(l)
  <2> DEFINE t == logins[l].token
  <2>1. /\ token' = t /\ user' = t.who /\ attempt' = SettledAttempt(l) /\ syncing' = TRUE
        /\ IF syncing THEN UNCHANGED calls
           ELSE \E c \in Callers :
                  /\ IdleCall(c)
                  /\ calls' = [calls EXCEPT ![c] = AskedUnless(FALSE, "pass", t, epoch, t.who, None)]
    BY <1>4 DEF InstallLogin
  <2>. HIDE DEF t
  <2>2. epoch = logins[l].no /\ attempt = epoch /\ epoch \in Nat /\ epoch # 0
    BY <1>1, <1>4 DEF Awaited, IInv, AwaitedOK, NumbersOK, Inv, SessionTypes
  <2>3. attempt' = 0
    BY <2>1, <2>2 DEF SettledAttempt
  <2>4. \A k \in Attempts : logins'[k] = IF k = l THEN NoLogin ELSE logins[k]
    BY <1>1 DEF IInv, Inv
  <2>5. \A k \in Attempts :
          logins'[k].stage # "idle" => k # l /\ logins'[k] = logins[k] /\ ~Awaited(k) /\ ~Awaited(k)'
    BY <1>1, <2>2, <2>4 DEF NoLogin, Awaited, IInv, NumbersOK
  <2>6. PICK x : x = AskedUnless(FALSE, "pass", t, epoch, t.who, None)
    OBVIOUS
  <2>7. x.kind = "pass" /\ x.epoch = epoch /\ x.user = t.who
    BY <2>6 DEF AskedUnless
  <2>8. \A k \in Callers : calls'[k] \in {calls[k], x}
    BY <2>1, <2>6 DEF IInv, Inv
  <2>9. NumbersOK'
    <3>1. \A k \in Callers : calls'[k].epoch <= epoch'
      BY <1>1, <2>2, <2>7, <2>8 DEF IInv, NumbersOK
    <3>. QED BY <1>1, <2>2, <2>3, <2>5, <3>1 DEF IInv, NumbersOK
  <2>10. AwaitedOK'
    BY <1>1, <2>2, <2>3, <2>5 DEF AwaitedOK
  <2>11. AwaitedIsWished' /\ GrantedIsAsked'
    BY <1>1, <2>5 DEF IInv, WishOK, AwaitedIsWished, GrantedIsAsked
  <2>12. SwitchIsWished'
    BY <1>1, <2>7, <2>8 DEF IInv, WishOK, SwitchIsWished, Present
  <2>13. CheckIsAlone'
    BY <2>5 DEF CheckIsAlone
  <2>14. SlotOK'
    <3>1. SUFFICES ASSUME strayed' # epoch' PROVE SlotOK'
      BY DEF SlotOK
    <3>2. strayed # epoch
      BY <1>1, <3>1
    <3>3. token = None /\ \A c \in Callers : ~Present(c)
      BY <2>2, <3>2 DEF IInv, AwaitedOK
    <3>4. ~syncing
      BY <3>2, <3>3 DEF IInv, SlotOK, SlotIsHeld, Current
    <3>5. PICK c \in Callers : calls' = [calls EXCEPT ![c] = x]
      BY <2>1, <2>6, <3>4
    <3>6. \A k \in Callers : calls'[k] = IF k = c THEN x ELSE calls[k]
      BY <3>5 DEF IInv, Inv
    <3>7. calls'[c].kind = "pass" /\ Current(c)'
      BY <1>1, <1>2, <2>1, <2>7, <3>6, NoneAssumption DEF Current, t
    <3>8. \A k \in Callers : calls'[k].kind = "pass" /\ Current(k)' => k = c
      BY <1>1, <3>3, <3>6 DEF Present, Current
    <3>. QED BY <2>1, <3>7, <3>8 DEF SlotOK, SlotIsHeld, OnePass
  <2>. QED BY <2>9, <2>10, <2>11, <2>12, <2>13, <2>14 DEF WishOK
<1>. QED BY <1>3, <1>4

-----------------------------------------------------------------------------
(* Requests and renewals, in time. *)

LEMMA MovedCall ==
  ASSUME IInv, NEW c \in Callers, NEW x, calls' = [calls EXCEPT ![c] = x],
         x.kind = calls[c].kind, x.epoch = calls[c].epoch, x.user = calls[c].user,
         x.kind = "switch" => x.org = calls[c].org
  PROVE  \A k \in Callers : SameWork(k)
BY DEF IInv, Inv, SameWork

LEMMA WorkedCall ==
  ASSUME IInv, NEW c \in Callers, ServeCall(c) \/ LoseCall(c) \/ ReceiveCall(c)
  PROVE  \A k \in Callers : SameWork(k)
<1>1. \A k \in Callers : k # c => calls'[k] = calls[k]
  BY DEF ServeCall, Answer, Says, LoseCall, ReceiveCall, Returns, IInv, Inv
<1>2. calls[c] \in Call
  BY DEF IInv, Inv
<1>3. /\ calls'[c].kind = calls[c].kind /\ calls'[c].epoch = calls[c].epoch
      /\ calls'[c].user = calls[c].user /\ calls'[c].org = calls[c].org
  BY <1>2 DEF ServeCall, Answer, Says, LoseCall, ReceiveCall, Returns, IInv, Inv, Call
<1>. QED BY <1>1, <1>3 DEF SameWork

LEMMA ServedInTime ==
  ASSUME IInv, \/ \E who \in Identity : Remove(who)
               \/ \E u \in Users : ChangePassword(u)
               \/ Tick
               \/ \E c \in Callers : ServeCall(c) \/ LoseCall(c)
               \/ \E r \in renewals : ServeRenewal(r) \/ LoseRenewal(r)
               \/ UNCHANGED vars
  PROVE  NumbersOK' /\ AwaitedOK' /\ SlotOK' /\ WishOK'
<1>1. UNCHANGED <<token, user, epoch, attempt, syncing, logins, wish, strayed>>
  BY DEF Remove, ChangePassword, Tick, ServeCall, LoseCall, ServeRenewal, LoseRenewal, session, vars
<1>2. \A k \in Callers : SameWork(k)
  <2>1. CASE UNCHANGED calls
    BY <2>1 DEF SameWork
  <2>2. ASSUME NEW c \in Callers, ServeCall(c) \/ LoseCall(c) PROVE \A k \in Callers : SameWork(k)
    BY <2>2, WorkedCall
  <2>. QED BY <2>1, <2>2 DEF Remove, ChangePassword, Tick, ServeRenewal, LoseRenewal, vars
<1>. QED BY <1>1, <1>2, QuietStep

LEMMA ReceiveCallInTime ==
  ASSUME IInv, NEW c \in Callers, ReceiveCall(c)
  PROVE  NumbersOK' /\ AwaitedOK' /\ SlotOK' /\ WishOK'
<1> DEFINE y == calls[c]
<1>1. CallOK(y) /\ y.kind # "idle" /\ y.sent \in Token /\ y.first \in Token
  BY DEF IInv, Inv, CallsOK, CallOK, ReceiveCall, IdleCall
<1>2. \A k \in Callers : SameWork(k)
  BY WorkedCall
<1>3. UNCHANGED <<logins, wish, strayed>>
  BY DEF ReceiveCall
<1>4. CASE Invalidate(y.sent)
  BY <1>1, <1>2, <1>3, <1>4, EndedStep
<1>5. CASE ~Invalidate(y.sent)
  <2>1. UNCHANGED <<user, epoch, attempt, syncing>>
    BY <1>5 DEF ReceiveCall, session
  <2>2. token' = None <=> token = None
    <3>1. y.kind = "check" /\ y.reply = "ok" => y.fresh \in Token
      BY <1>1 DEF CallOK
    <3>2. token' # token => y.reply = "ok" /\ y.kind = "check" /\ token' = Renewed(y.fresh, y.first)
      BY <1>5 DEF ReceiveCall, session
    <3>. QED BY <1>1, <3>1, <3>2, NoneAssumption DEF Renewed
  <2>. QED BY <1>2, <1>3, <2>1, <2>2, QuietStep
<1>. QED BY <1>4, <1>5

LEMMA ReceiveRenewalInTime ==
  ASSUME IInv, NEW r \in renewals, ReceiveRenewal(r)
  PROVE  NumbersOK' /\ AwaitedOK' /\ SlotOK' /\ WishOK'
<1>1. r.of \in Token /\ (r.stage = "granted" => r.new \in Token)
  BY DEF IInv, Inv, Renewal, RenewalsOK, RenewalOK
<1>2. UNCHANGED <<logins, wish, strayed>>
  BY DEF ReceiveRenewal
<1>3. ASSUME NEW k \in Callers PROVE SameWork(k)
  <2>1. calls[k] \in Call
    BY DEF IInv, Inv
  <2>2. CASE k \in Waiting(r.of)
    BY <2>1, <2>2 DEF ReceiveRenewal, Retried, Resumed, SameWork, Call
  <2>3. CASE k \notin Waiting(r.of)
    BY <2>3 DEF ReceiveRenewal, Retried, Resumed, SameWork
  <2>. QED BY <2>2, <2>3
<1>4. CASE r.stage = "refused"
  <2>1. Invalidate(r.of)
    BY <1>4 DEF ReceiveRenewal
  <2>. QED BY <1>1, <1>2, <1>3, <2>1, EndedStep
<1>5. CASE r.stage = "granted"
  <2>1. token' = Renewed(r.new, r.of) /\ UNCHANGED <<user, epoch, attempt, syncing>>
    BY <1>5 DEF ReceiveRenewal
  <2>2. token' = None <=> token = None
    BY <1>1, <1>5, <2>1, NoneAssumption DEF Renewed
  <2>. QED BY <1>2, <1>3, <2>1, <2>2, QuietStep
<1>6. CASE r.stage = "failed"
  <2>1. UNCHANGED <<token, user, epoch, attempt, syncing>>
    BY <1>6 DEF ReceiveRenewal, session
  <2>. QED BY <1>2, <1>3, <2>1, QuietStep
<1>. QED BY <1>4, <1>5, <1>6 DEF ReceiveRenewal

-----------------------------------------------------------------------------
(* After the awaits, in time. *)

LEMMA PassGoesOnInTime ==
  ASSUME IInv, NEW c \in Callers, PassGoesOn(c)
  PROVE  NumbersOK' /\ AwaitedOK' /\ SlotOK' /\ WishOK'
<1>1. PICK x : x = Asked("pass", token, calls[c].epoch, calls[c].user, None)
  OBVIOUS
<1>2. x.kind = "pass" /\ x.epoch = calls[c].epoch /\ x.user = calls[c].user
  BY <1>1 DEF Asked, AskedUnless
<1>3. calls[c].kind = "pass" /\ calls' = [calls EXCEPT ![c] = x]
      /\ UNCHANGED <<token, user, epoch, attempt, syncing, logins, wish, strayed>>
  BY <1>1 DEF PassGoesOn, Returned, session
<1>4. \A k \in Callers : SameWork(k)
  BY <1>2, <1>3, MovedCall
<1>. QED BY <1>3, <1>4, QuietStep

(* An operation is over. *)
LEMMA EndedCall ==
  ASSUME IInv, NEW c \in Callers, calls' = [calls EXCEPT ![c] = Idle],
         UNCHANGED <<token, user, epoch, attempt, logins, wish, strayed>>
  PROVE  /\ NumbersOK' /\ AwaitedOK' /\ WishOK'
         /\ calls'[c].kind = "idle"
         /\ \A k \in Callers \ {c} : calls'[k] = calls[k] /\ Current(k)' = Current(k)
         /\ calls[c].kind # "pass" /\ UNCHANGED syncing => SlotOK'
<1>1. \A k \in Callers : calls'[k] = IF k = c THEN Idle ELSE calls[k]
  BY DEF IInv, Inv
<1>2. Idle.kind = "idle" /\ Idle.epoch = 0
  BY DEF Idle
<1>3. epoch \in Nat
  BY DEF IInv, Inv, SessionTypes
<1>4. ~Present(c)' /\ calls'[c].kind = "idle" /\ calls'[c].epoch = 0
  BY <1>1, <1>2 DEF Present
<1>5. \A k \in Callers \ {c} :
        calls'[k] = calls[k] /\ Present(k)' = Present(k) /\ Current(k)' = Current(k)
  BY <1>1 DEF Present, Current
<1>6. \A l \in Attempts : Awaited(l)' = Awaited(l)
  BY DEF Awaited
<1>7. NumbersOK'
  BY <1>3, <1>4, <1>5 DEF IInv, NumbersOK
<1>8. AwaitedOK'
  BY <1>4, <1>5, <1>6 DEF IInv, AwaitedOK
<1>9. AwaitedIsWished' /\ GrantedIsAsked'
  BY <1>6 DEF IInv, WishOK, AwaitedIsWished, GrantedIsAsked
<1>10. SwitchIsWished' /\ CheckIsAlone'
  BY <1>4, <1>5, <1>6 DEF IInv, WishOK, SwitchIsWished, CheckIsAlone
<1>11. ASSUME calls[c].kind # "pass", UNCHANGED syncing PROVE SlotOK'
  BY <1>4, <1>5, <1>11 DEF IInv, SlotOK, SlotIsHeld, OnePass
<1>. QED BY <1>4, <1>5, <1>7, <1>8, <1>9, <1>10, <1>11 DEF WishOK

LEMMA PassEndsInTime ==
  ASSUME IInv, NEW c \in Callers, PassEnds(c)
  PROVE  NumbersOK' /\ AwaitedOK' /\ SlotOK' /\ WishOK'
<1>1. /\ calls[c].kind = "pass" /\ calls' = [calls EXCEPT ![c] = Idle]
      /\ syncing' = IF Current(c) THEN FALSE ELSE syncing
      /\ UNCHANGED <<token, user, epoch, attempt, logins, wish, strayed>>
  BY DEF PassEnds, Returned, SlotAfterPass
<1>2. /\ NumbersOK' /\ AwaitedOK' /\ WishOK'
      /\ calls'[c].kind = "idle"
      /\ \A k \in Callers \ {c} : calls'[k] = calls[k] /\ Current(k)' = Current(k)
  BY <1>1, EndedCall
<1>3. SlotOK'
  <2>1. CASE Current(c)
    <3>1. SUFFICES ASSUME strayed # epoch PROVE SlotOK'
      BY <1>1 DEF SlotOK
    <3>2. \A k \in Callers : calls'[k].kind = "pass" => ~Current(k)'
      BY <1>1, <1>2, <2>1, <3>1 DEF IInv, SlotOK, OnePass
    <3>. QED BY <1>1, <2>1, <3>2 DEF SlotOK, SlotIsHeld, OnePass
  <2>2. CASE ~Current(c)
    BY <1>1, <1>2, <2>2 DEF IInv, SlotOK, SlotIsHeld, OnePass
  <2>. QED BY <2>1, <2>2
<1>. QED BY <1>2, <1>3

LEMMA SwitchEndsInTime ==
  ASSUME IInv, NEW c \in Callers, SwitchEnds(c)
  PROVE  NumbersOK' /\ AwaitedOK' /\ SlotOK' /\ WishOK'
<1>1. calls[c].kind = "switch" /\ UNCHANGED <<attempt, logins, wish, strayed>>
  BY DEF SwitchEnds, Returned
<1>2. CASE ~(Current(c) /\ calls[c].result = "ok")
  <2>1. calls' = [calls EXCEPT ![c] = Idle] /\ UNCHANGED <<token, user, epoch, syncing>>
    BY <1>2 DEF SwitchEnds
  <2>. QED BY <1>1, <2>1, EndedCall
<1>3. CASE Current(c) /\ calls[c].result = "ok"
  <2>1. PICK t \in Token : t = calls[c].fresh
    BY <1>1, <1>3 DEF IInv, Inv, CallsOK, CallOK
  <2>2. PICK x : x = Asked("pass", t, epoch + 1, t.who, None)
    OBVIOUS
  <2>3. x.kind = "pass" /\ x.epoch = epoch + 1 /\ x.user = t.who
    BY <2>2 DEF Asked, AskedUnless
  <2>4. /\ epoch' = epoch + 1 /\ token' = t /\ user' = t.who /\ syncing' = TRUE
        /\ \A k \in Callers : calls'[k] = IF k = c THEN x ELSE calls[k]
    BY <1>3, <2>1, <2>2 DEF SwitchEnds, IInv, Inv
  <2>5. /\ epoch \in Nat /\ attempt \in Nat /\ strayed \in Nat /\ attempt <= epoch /\ strayed <= epoch
        /\ \A k \in Callers : calls[k].epoch \in 0..epoch
    BY EpochsAreOld DEF IInv, NumbersOK, Inv, SessionTypes, OtherTypes
  <2>6. \A l \in Attempts : logins[l].stage # "idle" => logins[l].no \in 1..epoch /\ ~Awaited(l)'
    BY <1>1, <2>4, <2>5 DEF IInv, NumbersOK, Awaited
  <2>7. \A k \in Callers \ {c} : calls'[k] = calls[k] /\ ~Present(k)' /\ ~Current(k)'
    BY <2>4, <2>5 DEF Present, Current
  <2>8. calls'[c] = x /\ Current(c)'
    BY <2>3, <2>4, NoneAssumption DEF Current
  <2>9. NumbersOK'
    <3>1. \A k \in Callers : calls'[k].epoch <= epoch'
      BY <2>3, <2>4, <2>5
    <3>. QED BY <1>1, <2>4, <2>5, <2>6, <3>1 DEF IInv, NumbersOK
  <2>10. AwaitedOK'
    BY <1>1, <2>4, <2>5, <2>6 DEF AwaitedOK
  <2>11. SlotOK'
    BY <2>3, <2>4, <2>7, <2>8 DEF SlotOK, SlotIsHeld, OnePass
  <2>12. wish.no = 0
    BY <1>1, <1>3 DEF Current, Present, IInv, WishOK, SwitchIsWished
  <2>13. AwaitedIsWished' /\ CheckIsAlone' /\ GrantedIsAsked'
    BY <1>1, <2>6, <2>12 DEF IInv, WishOK, AwaitedIsWished, CheckIsAlone, GrantedIsAsked
  <2>14. SwitchIsWished'
    BY <2>3, <2>7, <2>8 DEF SwitchIsWished
  <2>. QED BY <2>9, <2>10, <2>11, <2>13, <2>14 DEF WishOK
<1>. QED BY <1>2, <1>3

LEMMA CheckEndsInTime ==
  ASSUME IInv, NEW c \in Callers, CheckEnds(c)
  PROVE  NumbersOK' /\ AwaitedOK' /\ SlotOK' /\ WishOK'
<1>1. calls[c].kind = "check" /\ calls' = [calls EXCEPT ![c] = Idle]
      /\ UNCHANGED <<attempt, logins, wish, strayed>>
  BY DEF CheckEnds, Returned
<1>2. CASE Current(c) /\ calls[c].result = "rejected"
  <2>1. epoch' = epoch + 1 /\ syncing' = FALSE
    BY <1>2 DEF CheckEnds
  <2>2. \A k \in Callers : calls'[k].epoch \in 0..epoch
    BY <1>1, EpochsAreOld DEF IInv, Inv, SessionTypes, Idle
  <2>3. \A l \in Attempts : logins[l].stage # "idle" => wish'.no # logins[l].no
    BY <1>1, <1>2 DEF Current, Present, IInv, WishOK, CheckIsAlone, AwaitedIsWished
  <2>. QED BY <1>1, <2>1, <2>2, <2>3, NewEpoch
<1>3. CASE ~(Current(c) /\ calls[c].result = "rejected")
  <2>1. UNCHANGED <<token, epoch, syncing>>
    BY <1>3 DEF CheckEnds
  <2>2. user' = user
    <3>1. calls[c].sent.who = calls[c].user
      BY <1>1 DEF IInv, Inv, CallsOK, CallOK
    <3>. QED BY <1>3, <3>1 DEF CheckEnds, Current
  <2>. QED BY <1>1, <2>1, <2>2, EndedCall
<1>. QED BY <1>2, <1>3


-----------------------------------------------------------------------------
(* Tokens, in time. *)

LEMMA TokenFields ==
  ASSUME NEW t \in Token PROVE t.who \in Identity /\ t.who.id \in Users /\ t.ver \in Nat /\ t.day \in Nat
<1>1. t.who \in Identity /\ t.ver \in Nat /\ t.day \in Nat
  BY DEF Token
<1>. QED BY <1>1 DEF Identity

LEMMA CallTokens ==
  ASSUME IInv, NEW c \in Callers, calls[c].kind # "idle"
  PROVE  /\ calls[c].sent \in Token /\ calls[c].first \in Token /\ calls[c].fresh \in Token \cup {None}
         /\ calls[c].sent.who = calls[c].user /\ calls[c].first.who = calls[c].user
         /\ CallIsRecent(calls[c]) /\ CallOK(calls[c])
<1>1. calls[c] \in Call /\ CallOK(calls[c]) /\ CallIsRecent(calls[c])
  BY DEF IInv, Inv, CallsOK, TokensOK, CallsRecent
<1>2. calls[c].fresh \in Token \cup {None}
  BY <1>1 DEF Call
<1>. QED BY <1>1, <1>2 DEF CallOK

(* What was issued stays issued, and what is refused stays refused. *)
LEMMA Older ==
  ASSUME IInv, NEW t \in Token, Issued(t),
         (\E who \in Identity : Remove(who)) \/ (\E u \in Users : ChangePassword(u)) \/ Tick
  PROVE  Issued(t)' /\ (Gone(t) => Gone(t)') /\ (~Renews(t) => ~Renews(t)')
<1>1. t.who.id \in Users /\ t.ver \in Nat /\ t.day \in Nat
  BY TokenFields
<1>2. version \in [Users -> Nat] /\ day \in Nat
  BY DEF IInv, Inv, ServerTypes
<1>3. members' \subseteq members /\ day' \in {day, day + 1}
  BY DEF Remove, ChangePassword, Tick
<1>4. version'[t.who.id] \in {version[t.who.id], version[t.who.id] + 1}
  BY <1>1, <1>2 DEF Remove, ChangePassword, Tick
<1>5. version[t.who.id] \in Nat
  BY <1>1, <1>2
<1>6. Issued(t)'
  BY <1>1, <1>2, <1>3, <1>4, <1>5 DEF Issued
<1>7. Gone(t) => Gone(t)'
  BY <1>1, <1>3, <1>4, <1>5 DEF Gone, Issued
<1>8. ~Renews(t) => ~Renews(t)'
  BY <1>1, <1>2, <1>3, <1>4, <1>5 DEF Renews, Issued
<1>. QED BY <1>6, <1>7, <1>8

LEMMA RefusedIsGone ==
  ASSUME NEW t, t.day \in Nat, day \in Nat
  PROVE  /\ Gone(t) => ~Renews(t)
         /\ ~Renews(t) /\ day <= t.day + 1 => Gone(t)
BY DEF Gone, Renews

(* The server stays as it is. *)
LEMMA SameServer ==
  ASSUME UNCHANGED server
  PROVE  /\ \A t : Issued(t)' <=> Issued(t)
         /\ \A t : Renews(t)' <=> Renews(t)
         /\ \A x : CallIsRecent(x)' <=> CallIsRecent(x)
         /\ \A r : RenewalIsRecent(r)' <=> RenewalIsRecent(r)
BY DEF server, Issued, Renews, Gone, CallIsRecent, RenewalIsRecent

LEMMA TokensStep ==
  ASSUME UNCHANGED server, ChecksOK',
         \A t : t = token' /\ t # None => Issued(t),
         \A t \in invalid' : Issued(t) /\ ~Renews(t),
         \A c \in Callers : \A x : x = calls'[c] => CallIsRecent(x),
         \A r \in renewals' : RenewalIsRecent(r),
         \A l \in Attempts : \A t :
           logins'[l].stage \in {"granted", "clearing"} /\ t = logins'[l].token => Issued(t)
  PROVE  TokensOK'
<1>1. TokenIsIssued'
  BY SameServer DEF TokenIsIssued
<1>2. InvalidIsRefused'
  BY SameServer DEF InvalidIsRefused
<1>3. CallsRecent'
  BY SameServer DEF CallsRecent
<1>4. RenewalsRecent'
  BY SameServer DEF RenewalsRecent
<1>5. LoginsIssued'
  BY SameServer DEF LoginsIssued
<1>. QED BY <1>1, <1>2, <1>3, <1>4, <1>5 DEF TokensOK

LEMMA ServerTokens ==
  ASSUME IInv, (\E who \in Identity : Remove(who)) \/ (\E u \in Users : ChangePassword(u)) \/ Tick
  PROVE  TokensOK'
<1>1. UNCHANGED <<token, user, epoch, invalid, renewals, calls, logins>>
  BY DEF Remove, ChangePassword, Tick, session
<1>2. \/ UNCHANGED day
      \/ day' = day + 1 /\ \A t \in InFlight : t.day = day
  BY DEF Remove, ChangePassword, Tick
<1>3. day \in Nat
  BY DEF IInv, Inv, ServerTypes
<1>4. TokenIsIssued'
  BY <1>1, Older DEF IInv, Inv, SessionTypes, TokensOK, TokenIsIssued
<1>5. InvalidIsRefused'
  BY <1>1, Older DEF IInv, Inv, TokensOK, InvalidIsRefused
<1>6. LoginsIssued'
  BY <1>1, Older DEF IInv, Inv, LoginsOK, LoginOK, TokensOK, LoginsIssued
<1>7. RenewalsRecent'
  <2> SUFFICES ASSUME NEW r \in renewals PROVE RenewalIsRecent(r)'
    BY <1>1 DEF RenewalsRecent
  <2>1. r.of \in Token /\ r.of \in InFlight /\ RenewalIsRecent(r)
    BY DEF IInv, Inv, Renewal, InFlight, TokensOK, RenewalsRecent
  <2>2. Issued(r.of)' /\ (Gone(r.of) => Gone(r.of)') /\ (~Renews(r.of) => ~Renews(r.of)')
    BY <2>1, Older DEF RenewalIsRecent
  <2>3. r.of.day \in Nat
    BY <2>1, TokenFields
  <2>. QED BY <1>2, <1>3, <2>1, <2>2, <2>3 DEF RenewalIsRecent
<1>8. ASSUME NEW c \in Callers, NEW x, x = calls[c], x.kind # "idle"
      PROVE  CallIsRecent(x)'
  <2>1. x.sent \in Token /\ x.first \in Token /\ x.fresh \in Token \cup {None} /\ CallIsRecent(x)
    BY <1>8, CallTokens
  <2>2. Issued(x.sent)' /\ Issued(x.first)' /\ (x.fresh # None => Issued(x.fresh)')
        /\ (Gone(x.sent) => Gone(x.sent)')
    BY <1>8, <2>1, Older DEF CallIsRecent
  <2>3. x.stage # "returned" => x.sent \in InFlight /\ x.first \in InFlight
    BY <1>8 DEF InFlight
  <2>4. x.sent.day \in Nat /\ x.first.day \in Nat
    BY <2>1, TokenFields
  <2>5. CASE x.stage = "returned"
    BY <1>8, <2>1, <2>2, <2>5 DEF CallIsRecent
  <2>6. CASE x.stage # "returned" /\ UNCHANGED day
    BY <1>8, <2>1, <2>2, <2>6 DEF CallIsRecent
  <2>7. CASE x.stage # "returned" /\ day' = day + 1 /\ \A t \in InFlight : t.day = day
    <3>1. x.sent.day = day /\ x.first.day = day
      BY <2>3, <2>7
    <3>2. ~x.retried
      BY <1>3, <1>8, <2>1, <2>7, <3>1 DEF CallIsRecent
    <3>. QED BY <1>3, <1>8, <2>1, <2>2, <2>7, <3>1, <3>2 DEF CallIsRecent
  <2>. QED BY <1>2, <2>5, <2>6, <2>7
<1>9. CallsRecent'
  BY <1>1, <1>8 DEF CallsRecent, CallIsRecent
<1>10. ChecksOK'
  <2> SUFFICES ASSUME NEW c \in Callers, Present(c), calls[c].kind = "check", token # None
               PROVE  CheckOK(c)'
    BY <1>1 DEF ChecksOK, CheckOK, Present
  <2>1. CheckOK(c) /\ token \in Token /\ Issued(token)
    BY DEF IInv, Inv, SessionTypes, TokensOK, ChecksOK, TokenIsIssued
  <2>2. ~Renews(token) => ~Renews(token)'
    BY <1>1, <2>1, Older
  <2>3. calls[c].first \in Token /\ (calls[c].stage # "returned" => calls[c].first \in InFlight)
    BY CallTokens DEF InFlight
  <2>4. calls[c].first.day \in Nat
    BY <2>3, TokenFields
  <2>5. calls[c].stage # "returned" /\ day <= calls[c].first.day + 1 => day' <= calls[c].first.day + 1
    BY <1>2, <1>3, <2>3, <2>4
  <2>. QED BY <1>1, <2>1, <2>2, <2>5 DEF CheckOK
<1>. QED BY <1>4, <1>5, <1>6, <1>7, <1>9, <1>10 DEF TokensOK


(* A check goes on, in the same session. *)
Alike(c) ==
  /\ calls'[c].kind = calls[c].kind /\ calls'[c].epoch = calls[c].epoch
  /\ calls'[c].user = calls[c].user /\ calls'[c].first = calls[c].first
  /\ calls'[c].stage # "returned" => calls[c].stage # "returned"
  /\ calls'[c].result = "rejected" => calls[c].result = "rejected"

LEMMA CheckKept ==
  ASSUME IInv, UNCHANGED <<server, token, user, epoch>>, NEW c \in Callers, Alike(c)
  PROVE  CheckOK(c)'
<1>1. CheckOK(c)
  BY DEF IInv, TokensOK, ChecksOK
<1>. QED BY <1>1, SameServer DEF CheckOK, Alike, Present, server

(* The token is renewed under a check. *)
LEMMA CheckRenewed ==
  ASSUME IInv, UNCHANGED <<server, user, epoch>>, NEW c \in Callers, Alike(c),
         NEW new \in Token, token \in Token, token' = new,
         new.ver = token.ver, new.who = token.who, day <= token.day + 1
  PROVE  CheckOK(c)'
<1>1. CheckOK(c)
  BY DEF IInv, TokensOK, ChecksOK
<1>2. token # None
  BY NoneAssumption
<1>3. token.day \in Nat /\ new.day \in Nat /\ day \in Nat
  BY TokenFields DEF IInv, Inv, ServerTypes
<1>4. ~Renews(token) => ~Renews(new)
  BY <1>3 DEF Renews
<1>5. UNCHANGED <<members, version, day>>
  BY DEF server
<1>6. Renews(new)' <=> Renews(new)
  BY <1>5 DEF Renews
<1> SUFFICES ASSUME Present(c)', calls'[c].kind = "check"
             PROVE  /\ token'.ver = calls'[c].first.ver
                    /\ token' # calls'[c].first /\ calls'[c].stage # "returned" =>
                         day' <= calls'[c].first.day + 1
                    /\ user' = calls'[c].user /\ calls'[c].result = "rejected" => ~Renews(token)'
  BY DEF CheckOK
<1>7. Present(c) /\ calls[c].kind = "check"
  BY DEF Present, Alike
<1>8. /\ token.ver = calls[c].first.ver
      /\ token # calls[c].first /\ calls[c].stage # "returned" => day <= calls[c].first.day + 1
      /\ user = calls[c].user /\ calls[c].result = "rejected" => ~Renews(token)
  BY <1>1, <1>2, <1>7 DEF CheckOK
<1>9. Renews(token)' <=> Renews(new)'
  BY DEF Renews
<1>. QED BY <1>4, <1>5, <1>6, <1>8, <1>9 DEF Alike

(* The rejection of what a check went out with tells of the token of now. *)
LEMMA RejectedCheck ==
  ASSUME IInv, NEW c \in Callers, Present(c), calls[c].kind = "check", token # None,
         user = calls[c].user, calls[c].stage # "returned", ~Renews(calls[c].first)
  PROVE  ~Renews(token)
<1>1. CheckOK(c) /\ token \in Token /\ user = token.who
  BY DEF IInv, Inv, SessionTypes, TokenIsTheUsers, TokensOK, ChecksOK
<1>2. calls[c].first \in Token /\ calls[c].first.who = calls[c].user
  BY CallTokens
<1>3. calls[c].first.day \in Nat /\ token.day \in Nat /\ day \in Nat
  BY <1>1, <1>2, TokenFields DEF IInv, Inv, ServerTypes
<1>4. CASE token # calls[c].first
  <2>1. token.ver = calls[c].first.ver /\ day <= calls[c].first.day + 1
    BY <1>1, <1>4 DEF CheckOK
  <2>2. Gone(calls[c].first)
    BY <1>3, <2>1, RefusedIsGone
  <2>3. Gone(token)
    BY <1>1, <1>2, <2>1, <2>2 DEF Gone
  <2>. QED BY <1>3, <2>3, RefusedIsGone
<1>. QED BY <1>4

(* Nobody checks a session that is over, or that begins. *)
LEMMA CheckIsOver ==
  ASSUME IInv, token' = None \/ epoch' = epoch + 1,
         NEW c \in Callers, calls'[c].kind = "check" => calls'[c].epoch \in 0..epoch
  PROVE  CheckOK(c)'
<1>1. epoch \in Nat
  BY DEF IInv, Inv, SessionTypes
<1>. QED BY <1>1 DEF CheckOK, Present

-----------------------------------------------------------------------------
(* What begins and what ends, with its tokens. *)

LEMMA FreshIsRecent ==
  ASSUME NEW x, Issued(x.first), x.sent = x.first, x.retried = FALSE, x.fresh = None,
         x.stage \in {"returned", "asked"}, x.result # "ok"
  PROVE  CallIsRecent(x)
BY DEF CallIsRecent

LEMMA Recently ==
  ASSUME IInv
  PROVE  /\ \A t : t = token /\ t # None => t \in Token /\ Issued(t)
         /\ \A t \in invalid : Issued(t) /\ ~Renews(t)
         /\ \A c \in Callers : \A x : x = calls[c] => CallIsRecent(x)
         /\ \A r \in renewals : RenewalIsRecent(r)
         /\ \A l \in Attempts : \A t :
              logins[l].stage \in {"granted", "clearing"} /\ t = logins[l].token => Issued(t)
BY DEF IInv, Inv, SessionTypes, TokensOK, TokenIsIssued, InvalidIsRefused, CallsRecent, RenewalsRecent,
       LoginsIssued

LEMMA BegunTokens ==
  ASSUME IInv, token # None, NEW c \in Callers, NEW kind \in {"pass", "switch", "check"}, NEW org,
         NEW e, NEW u, calls' = [calls EXCEPT ![c] = Asked(kind, token, e, u, org)],
         UNCHANGED <<server, token, user, epoch, invalid, renewals, logins>>
  PROVE  TokensOK'
<1>1. PICK t \in Token : t = token /\ Issued(t)
  BY Recently
<1>2. PICK x : x = Asked(kind, t, e, u, org)
  OBVIOUS
<1>3. /\ CallIsRecent(x) /\ x.kind = kind /\ x.first = t
      /\ x.result = "rejected" => t \in invalid
  <2>1. /\ x.kind = kind /\ x.first = t /\ x.sent = t /\ x.retried = FALSE /\ x.fresh = None
        /\ x.stage \in {"returned", "asked"} /\ x.result \in {"rejected", "none"}
        /\ x.result = "rejected" => t \in invalid
    BY <1>2 DEF Asked, AskedUnless
  <2>. QED BY <1>1, <2>1, FreshIsRecent
<1>4. \A k \in Callers : calls'[k] = IF k = c THEN x ELSE calls[k]
  BY <1>1, <1>2 DEF IInv, Inv
<1>5. \A k \in Callers : \A z : z = calls'[k] => CallIsRecent(z)
  BY <1>3, <1>4, Recently
<1>6. ASSUME NEW k \in Callers PROVE CheckOK(k)'
  <2>1. CASE k # c
    BY <1>4, <2>1, CheckKept DEF Alike
  <2>2. CASE k = c
    <3>1. t \in invalid => ~Renews(t)'
      BY Recently, SameServer
    <3>2. calls'[k] = x /\ token' = t
      BY <1>1, <1>4, <2>2
    <3>. QED BY <1>3, <3>1, <3>2 DEF CheckOK
  <2>. QED BY <2>1, <2>2
<1>. QED BY <1>5, <1>6, Recently, TokensStep DEF ChecksOK

(* The request of an operation is over. *)
LEMMA IdleIsRecent == CallIsRecent(Idle) /\ Idle.kind = "idle"
BY DEF Idle, CallIsRecent

LEMMA EndedTokens ==
  ASSUME IInv, NEW c \in Callers, calls' = [calls EXCEPT ![c] = Idle],
         UNCHANGED <<server, user, invalid, renewals, logins>>,
         \/ UNCHANGED <<token, epoch>>
         \/ token' = None
  PROVE  TokensOK'
<1>1. \A k \in Callers : calls'[k] = IF k = c THEN Idle ELSE calls[k]
  BY DEF IInv, Inv
<1>2. \A k \in Callers : \A z : z = calls'[k] => CallIsRecent(z)
  BY <1>1, IdleIsRecent, Recently
<1>3. ASSUME NEW k \in Callers PROVE CheckOK(k)'
  <2>1. CASE k = c
    BY <1>1, <2>1, IdleIsRecent DEF CheckOK, Present
  <2>2. CASE token' = None
    BY <2>2 DEF CheckOK
  <2>3. CASE k # c /\ UNCHANGED <<token, epoch>>
    BY <1>1, <2>3, CheckKept DEF Alike
  <2>. QED BY <2>1, <2>2, <2>3
<1>. QED BY <1>2, <1>3, Recently, TokensStep DEF ChecksOK

(* Nothing happens to a request. *)
LEMMA SameTokens ==
  ASSUME IInv, UNCHANGED <<server, invalid, renewals, calls>>,
         \/ UNCHANGED <<token, user, epoch>>
         \/ token' = None
         \/ UNCHANGED token /\ epoch' = epoch + 1,
         \A l \in Attempts : \A t :
           logins'[l].stage \in {"granted", "clearing"} /\ t = logins'[l].token => Issued(t)
  PROVE  TokensOK'
<1>1. ASSUME NEW k \in Callers PROVE CheckOK(k)'
  <2>1. CASE token' = None
    BY <2>1 DEF CheckOK
  <2>2. CASE UNCHANGED <<token, user, epoch>>
    BY <2>2, CheckKept DEF Alike
  <2>3. CASE epoch' = epoch + 1
    BY <2>3, CheckIsOver, EpochsAreOld
  <2>. QED BY <2>1, <2>2, <2>3
<1>. QED BY <1>1, Recently, TokensStep DEF ChecksOK

LEMMA UserTokens ==
  ASSUME IInv, \/ ToggleAutoSync \/ Logout \/ LeaveServer
               \/ \E l \in Attempts : (\E u \in Users : StartLogin(l, u)) \/ LoginAnswered(l)
               \/ \E c \in Callers : StartPass(c) \/ StartCheck(c) \/ \E org \in Orgs : StartSwitch(c, org)
               \/ UNCHANGED vars
  PROVE  TokensOK'
<1>1. ASSUME NEW c \in Callers, NEW kind \in {"pass", "switch", "check"}, NEW org, token # None,
             calls' = [calls EXCEPT ![c] = Asked(kind, token, epoch, user, org)],
             UNCHANGED <<server, token, user, epoch, invalid, renewals, logins>>
      PROVE  TokensOK'
  BY <1>1, BegunTokens
<1>2. ASSUME NEW c \in Callers, StartPass(c) PROVE TokensOK'
  BY <1>1, <1>2 DEF StartPass
<1>3. ASSUME NEW c \in Callers, StartCheck(c) PROVE TokensOK'
  BY <1>1, <1>3 DEF StartCheck, session
<1>4. ASSUME NEW c \in Callers, NEW org \in Orgs, StartSwitch(c, org) PROVE TokensOK'
  BY <1>1, <1>4 DEF StartSwitch, session
<1>5. CASE ToggleAutoSync
  <2>1. CASE UNCHANGED calls
    <3>1. UNCHANGED <<server, invalid, renewals, calls, token, user, epoch, logins>>
      BY <1>5, <2>1 DEF ToggleAutoSync
    <3>. QED BY <3>1, SameTokens, Recently
  <2>2. CASE \E c \in Callers :
               token # None /\ calls' = [calls EXCEPT ![c] = Asked("pass", token, epoch, user, None)]
    BY <1>1, <1>5, <2>2 DEF ToggleAutoSync
  <2>. QED BY <1>5, <2>1, <2>2 DEF ToggleAutoSync
<1>6. CASE Logout \/ LeaveServer
  <2>1. UNCHANGED <<server, invalid, renewals, calls, logins>> /\ token' = None
    BY <1>6 DEF Logout, LeaveServer
  <2>. QED BY <2>1, SameTokens, Recently
<1>7. ASSUME NEW l \in Attempts, NEW u \in Users, StartLogin(l, u) PROVE TokensOK'
  <2>1. UNCHANGED <<server, invalid, renewals, calls, token>> /\ epoch' = epoch + 1
    BY <1>7 DEF StartLogin
  <2>2. \A k \in Attempts : logins'[k].stage \in {"granted", "clearing"} => logins'[k] = logins[k]
    BY <1>7 DEF StartLogin, IInv, Inv
  <2>3. \A k \in Attempts : \A t :
          logins'[k].stage \in {"granted", "clearing"} /\ t = logins'[k].token => Issued(t)
    BY <2>2, Recently
  <2>. QED BY <2>1, <2>3, SameTokens
<1>8. ASSUME NEW l \in Attempts, LoginAnswered(l) PROVE TokensOK'
  <2>1. UNCHANGED <<server, invalid, renewals, calls, token, user, epoch>>
    BY <1>8 DEF LoginAnswered
  <2>2. \A k \in Attempts : logins'[k].stage \in {"granted", "clearing"} =>
          logins'[k].token = logins[k].token /\ logins[k].stage \in {"granted", "clearing"}
    BY <1>8 DEF LoginAnswered, NoLogin, IInv, Inv, Login
  <2>3. \A k \in Attempts : \A t :
          logins'[k].stage \in {"granted", "clearing"} /\ t = logins'[k].token => Issued(t)
    BY <2>2, Recently
  <2>. QED BY <2>1, <2>3, SameTokens
<1>9. CASE UNCHANGED vars
  BY <1>9, SameTokens, Recently DEF vars, server
<1>. QED BY <1>2, <1>3, <1>4, <1>5, <1>6, <1>7, <1>8, <1>9

LEMMA SignedIsIssued ==
  ASSUME IInv, NEW who \in Identity, NEW n
  PROVE  Issued(Signed(who, n)) /\ Signed(who, n).who = who
         /\ Signed(who, n).ver = version[who.id] /\ Signed(who, n).day = day
<1>1. who.id \in Users
  BY DEF Identity
<1>2. version[who.id] \in Nat /\ day \in Nat
  BY <1>1 DEF IInv, Inv, ServerTypes
<1>. QED BY <1>2 DEF Issued, Signed

LEMMA ServeLoginTokens ==
  ASSUME IInv, NEW l \in Attempts, ServeLogin(l) PROVE TokensOK'
<1>1. UNCHANGED <<server, invalid, renewals, calls, token, user, epoch>>
  BY DEF ServeLogin, session
<1>2. ASSUME NEW k \in Attempts, NEW t, logins'[k].stage \in {"granted", "clearing"}, t = logins'[k].token
      PROVE  Issued(t)
  <2>1. CASE logins'[k] = logins[k]
    BY <1>2, <2>1, Recently
  <2>2. CASE k = l /\ \E who \in members : logins'[k].token = Signed(who, logins[l].no)
    BY <1>2, <2>2, SignedIsIssued DEF IInv, Inv, ServerTypes
  <2>. QED BY <1>2, <2>1, <2>2 DEF ServeLogin, IInv, Inv, Login
<1>. QED BY <1>1, <1>2, SameTokens

LEMMA InstallLoginTokens ==
  ASSUME IInv, NEW l \in Attempts, InstallLogin(l) PROVE TokensOK'
<1>1. /\ logins[l].stage = "clearing" /\ logins' = [logins EXCEPT ![l] = NoLogin]
      /\ UNCHANGED <<server, epoch, renewals>> /\ invalid' \subseteq invalid
  BY DEF InstallLogin
<1>2. \A k \in Attempts : logins'[k].stage \in {"granted", "clearing"} => logins'[k] = logins[k]
  BY <1>1 DEF NoLogin, IInv, Inv
<1>3. \A k \in Attempts : \A t :
        logins'[k].stage \in {"granted", "clearing"} /\ t = logins'[k].token => Issued(t)
  BY <1>2, Recently
<1>4. PICK t \in Token : t = logins[l].token /\ Issued(t)
  BY <1>1, Recently DEF IInv, Inv, LoginsOK, LoginOK
<1>5. CASE ~Awaited(l)
  <2>1. UNCHANGED <<token, user, calls>>
    BY <1>5 DEF InstallLogin
  <2>2. ChecksOK'
    BY <1>1, <2>1, CheckKept DEF Alike, ChecksOK
  <2>. QED BY <1>1, <1>3, <2>1, <2>2, Recently, TokensStep
<1>6. CASE Awaited(l)
  <2>1. PICK x : x = AskedUnless(FALSE, "pass", t, epoch, t.who, None)
    OBVIOUS
  <2>2. CallIsRecent(x) /\ x.kind = "pass"
    <3>1. /\ x.kind = "pass" /\ x.first = t /\ x.sent = t /\ x.retried = FALSE /\ x.fresh = None
          /\ x.stage = "asked" /\ x.result = "none"
      BY <2>1 DEF AskedUnless
    <3>. QED BY <1>4, <3>1, FreshIsRecent
  <2>3. \A k \in Callers : calls'[k] \in {calls[k], x}
    BY <1>4, <1>6, <2>1 DEF InstallLogin, IInv, Inv
  <2>4. token' = t
    BY <1>4, <1>6 DEF InstallLogin
  <2>5. \A k \in Callers : \A z : z = calls'[k] => CallIsRecent(z)
    BY <2>2, <2>3, Recently
  <2>6. ChecksOK'
    BY <1>1, <1>6, <2>2, <2>3 DEF IInv, WishOK, CheckIsAlone, ChecksOK, CheckOK, Present
  <2>. QED BY <1>1, <1>3, <1>4, <2>4, <2>5, <2>6, Recently, TokensStep
<1>. QED BY <1>5, <1>6


-----------------------------------------------------------------------------
(* Requests and renewals, with their tokens. *)

(* One request moves, its check included; the session's tokens stay. *)
LEMMA MovedTokens ==
  ASSUME IInv, UNCHANGED <<server, token, user, epoch, invalid, logins>>,
         NEW c \in Callers, \A k \in Callers : k # c => calls'[k] = calls[k],
         Alike(c), \A x : x = calls'[c] => CallIsRecent(x),
         \A r \in renewals' : RenewalIsRecent(r)
  PROVE  TokensOK'
<1>1. ASSUME NEW k \in Callers PROVE CheckOK(k)'
  <2>1. Alike(k)
    BY DEF Alike
  <2>. QED BY <2>1, CheckKept
<1>2. \A k \in Callers : \A x : x = calls'[k] => CallIsRecent(x)
  BY Recently
<1>. QED BY <1>1, <1>2, Recently, TokensStep DEF ChecksOK

LEMMA AnsweredIsRecent ==
  ASSUME NEW y, CallIsRecent(y), y.kind # "idle", y.stage = "asked", y.result = "none",
         NEW x, x.kind = y.kind, x.sent = y.sent, x.first = y.first, x.retried = y.retried,
         x.user = y.user, x.org = y.org, x.result = y.result, x.stage = "answered",
         x.reply # "none", x.fresh # None => Issued(x.fresh),
         x.reply = "unauthorized" => Gone(y.sent) \/ y.sent.day # day,
         x.kind = "check" /\ x.reply = "ok" => x.fresh.ver = y.first.ver /\ day <= y.first.day + 1,
         x.kind = "switch" /\ x.reply = "ok" => x.fresh.who = [id |-> y.user.id, org |-> y.org]
  PROVE  CallIsRecent(x)
BY DEF CallIsRecent

LEMMA ServeCallTokens ==
  ASSUME IInv, NEW c \in Callers, ServeCall(c) PROVE TokensOK'
<1> DEFINE y == calls[c]
           t == y.sent
           target == [id |-> t.who.id, org |-> y.org]
<1>1. /\ y.kind # "idle" /\ y.stage = "asked" /\ Answer(c)
      /\ UNCHANGED <<server, token, user, epoch, invalid, renewals, logins>>
  BY DEF ServeCall, IdleCall, session
<1>2. /\ y \in Call /\ t \in Token /\ y.first \in Token /\ t.who = y.user /\ y.result = "none"
      /\ CallIsRecent(y)
  BY <1>1, CallTokens DEF IInv, Inv, CallOK
<1>3. /\ t.who \in Identity /\ t.day \in Nat /\ y.first.day \in Nat /\ day \in Nat
      /\ y.kind \in {"pass", "check", "switch"}
  BY <1>1, <1>2, TokenFields DEF IInv, Inv, ServerTypes, Call
<1>4. ~Accepts(t) => Gone(t) \/ t.day # day
  BY <1>3 DEF Accepts, Renews, Gone
<1>5. Accepts(t) => t.ver = version[t.who.id] /\ t.day = day
  BY DEF Accepts, Renews
<1>6. Accepts(t) => y.first.ver = version[t.who.id] /\ day <= y.first.day + 1
  BY <1>1, <1>2, <1>3, <1>5 DEF CallIsRecent
<1>14. \/ ~Accepts(t) /\ Says(c, "unauthorized", None)
       \/ Accepts(t) /\ y.kind = "check" /\ Says(c, "ok", Signed(t.who, t.login))
       \/ Accepts(t) /\ y.kind = "switch" /\ target \in members /\ Says(c, "ok", Signed(target, t.login))
       \/ Accepts(t) /\ y.kind = "switch" /\ Says(c, "forbidden", None)
       \/ Accepts(t) /\ y.kind = "pass" /\ Says(c, "ok", None)
  BY <1>1, <1>3 DEF Answer
<1>7. PICK reply, fresh :
        /\ Says(c, reply, fresh) /\ reply # "none" /\ (fresh # None => Issued(fresh))
        /\ reply = "unauthorized" => Gone(t) \/ t.day # day
        /\ y.kind = "check" /\ reply = "ok" => fresh.ver = y.first.ver /\ day <= y.first.day + 1
        /\ y.kind = "switch" /\ reply = "ok" => fresh.who = [id |-> y.user.id, org |-> y.org]
  <2>1. CASE ~Accepts(t) /\ Says(c, "unauthorized", None)
    BY <1>4, <2>1
  <2>2. CASE Accepts(t) /\ y.kind = "check" /\ Says(c, "ok", Signed(t.who, t.login))
    <3>1. PICK f : f = Signed(t.who, t.login)
      OBVIOUS
    <3>2. Issued(f) /\ f.ver = version[t.who.id]
      BY <1>3, <3>1, SignedIsIssued
    <3>. QED BY <1>6, <2>2, <3>1, <3>2
  <2>3. CASE Accepts(t) /\ y.kind = "switch" /\ target \in members /\ Says(c, "ok", Signed(target, t.login))
    <3>1. PICK f : f = Signed(target, t.login)
      OBVIOUS
    <3>2. target \in Identity
      BY <2>3 DEF IInv, Inv, ServerTypes
    <3>3. Issued(f) /\ f.who = target
      BY <3>1, <3>2, SignedIsIssued
    <3>. QED BY <1>2, <2>3, <3>1, <3>3
  <2>4. CASE Accepts(t) /\ y.kind = "switch" /\ Says(c, "forbidden", None)
    BY <2>4
  <2>5. CASE Accepts(t) /\ y.kind = "pass" /\ Says(c, "ok", None)
    BY <2>5
  <2>. QED BY <1>14, <2>1, <2>2, <2>3, <2>4, <2>5
<1>8. PICK x : x = AnswerWith(y, reply, fresh)
  OBVIOUS
<1>9. calls' = [calls EXCEPT ![c] = x]
  BY <1>7, <1>8 DEF Says, AnswerWith, IInv, Inv
<1>10. /\ x.kind = y.kind /\ x.sent = y.sent /\ x.first = y.first /\ x.retried = y.retried
       /\ x.user = y.user /\ x.org = y.org /\ x.result = y.result /\ x.stage = "answered"
       /\ x.reply = reply /\ x.fresh = fresh /\ x.epoch = y.epoch
  BY <1>2, <1>8 DEF AnswerWith, Call
<1>11. \A k \in Callers : calls'[k] = IF k = c THEN x ELSE calls[k]
  BY <1>9 DEF IInv, Inv
<1>. HIDE DEF y, t, target
<1>12. CallIsRecent(x)
  BY <1>1, <1>2, <1>7, <1>10, AnsweredIsRecent DEF t
<1>13. Alike(c)
  BY <1>1, <1>10, <1>11 DEF Alike, y
<1>. QED BY <1>1, <1>11, <1>12, <1>13, MovedTokens, Recently

LEMMA LoseCallTokens ==
  ASSUME IInv, NEW c \in Callers, LoseCall(c) PROVE TokensOK'
<1> DEFINE y == calls[c]
<1>1. /\ y.kind # "idle" /\ y.stage = "asked"
      /\ calls' = [calls EXCEPT ![c].stage = "answered", ![c].reply = "lost"]
      /\ UNCHANGED <<server, token, user, epoch, invalid, renewals, logins>>
  BY DEF LoseCall, IdleCall, session
<1>2. y \in Call /\ y.result = "none" /\ CallIsRecent(y)
  BY <1>1, CallTokens DEF IInv, Inv, CallOK
<1>3. PICK x : x = AnswerWith(y, "lost", y.fresh)
  OBVIOUS
<1>4. /\ x.kind = y.kind /\ x.sent = y.sent /\ x.first = y.first /\ x.retried = y.retried
      /\ x.user = y.user /\ x.org = y.org /\ x.result = y.result /\ x.stage = "answered"
      /\ x.reply = "lost" /\ x.fresh = y.fresh /\ x.epoch = y.epoch
  BY <1>2, <1>3 DEF AnswerWith, Call
<1>5. calls' = [calls EXCEPT ![c] = x]
  BY <1>1, <1>2, <1>3 DEF AnswerWith, IInv, Inv, Call
<1>6. \A k \in Callers : calls'[k] = IF k = c THEN x ELSE calls[k]
  BY <1>5 DEF IInv, Inv
<1>. HIDE DEF y
<1>7. x.fresh # None => Issued(x.fresh)
  BY <1>1, <1>2, <1>4 DEF CallIsRecent
<1>8. CallIsRecent(x)
  BY <1>1, <1>2, <1>4, <1>7, AnsweredIsRecent
<1>9. Alike(c)
  BY <1>1, <1>4, <1>6 DEF Alike, y
<1>. QED BY <1>1, <1>6, <1>8, <1>9, MovedTokens, Recently

(* A request comes back. *)
LEMMA BackFields ==
  ASSUME NEW y \in Call, NEW result, NEW x, x = Back(y, result)
  PROVE  /\ x.kind = y.kind /\ x.sent = y.sent /\ x.first = y.first /\ x.retried = y.retried
         /\ x.user = y.user /\ x.org = y.org /\ x.epoch = y.epoch /\ x.fresh = y.fresh
         /\ x.reply = y.reply /\ x.stage = "returned" /\ x.result = result
BY DEF Back, Call

LEMMA BackIsRecent ==
  ASSUME NEW y \in Call, CallIsRecent(y), NEW result, NEW x, x = Back(y, result),
         result = "ok" => y.stage = "answered" /\ y.reply = "ok"
  PROVE  CallIsRecent(x)
<1>1. /\ x.kind = y.kind /\ x.sent = y.sent /\ x.first = y.first /\ x.retried = y.retried
      /\ x.user = y.user /\ x.org = y.org /\ x.fresh = y.fresh
      /\ x.reply = y.reply /\ x.stage = "returned" /\ x.result = result
  BY BackFields
<1>. QED BY <1>1 DEF CallIsRecent

(* The refusal of a token ends its session, and tells of the token of now to *)
(* every check that came back with it.                                       *)
LEMMA RefusedTokens ==
  ASSUME IInv, NEW refused \in Token, Issued(refused), ~Renews(refused), Invalidate(refused),
         UNCHANGED <<server, logins>>,
         \A c \in Callers :
           /\ \A x : x = calls'[c] => CallIsRecent(x)
           /\ \/ Alike(c)
              \/ /\ calls[c].stage # "returned" /\ calls'[c].stage = "returned"
                 /\ calls'[c].kind = calls[c].kind /\ calls'[c].epoch = calls[c].epoch
                 /\ calls'[c].user = calls[c].user /\ calls'[c].first = calls[c].first
                 /\ calls[c].kind # "idle" => ~Renews(calls[c].first),
         \A r \in renewals' : RenewalIsRecent(r)
  PROVE  TokensOK'
<1>1. invalid' = invalid \cup {refused} /\ UNCHANGED user
  BY DEF Invalidate
<1>2. token' = None \/ UNCHANGED <<token, epoch>>
  BY DEF Invalidate
<1>3. ASSUME NEW c \in Callers PROVE CheckOK(c)'
  <2>1. CASE token' = None
    BY <2>1 DEF CheckOK
  <2>2. CASE UNCHANGED <<token, epoch>> /\ Alike(c)
    BY <1>1, <2>2, CheckKept
  <2>3. CASE /\ UNCHANGED <<token, epoch>>
             /\ calls[c].stage # "returned" /\ calls'[c].stage = "returned"
             /\ calls'[c].kind = calls[c].kind /\ calls'[c].epoch = calls[c].epoch
             /\ calls'[c].user = calls[c].user /\ calls'[c].first = calls[c].first
             /\ calls[c].kind # "idle" => ~Renews(calls[c].first)
    <3>1. SUFFICES ASSUME Present(c), calls[c].kind = "check", token # None
                   PROVE  CheckOK(c)'
      BY <2>3 DEF CheckOK, Present
    <3>2. CheckOK(c)
      BY DEF IInv, TokensOK, ChecksOK
    <3>3. user = calls[c].user => ~Renews(token)
      BY <2>3, <3>1, RejectedCheck
    <3>4. UNCHANGED <<members, version, day>>
      BY DEF server
    <3>5. Renews(token)' <=> Renews(token)
      BY <2>3, <3>4 DEF Renews
    <3>. QED BY <1>1, <2>3, <3>1, <3>2, <3>3, <3>5 DEF CheckOK
  <2>. QED BY <1>2, <2>1, <2>2, <2>3
<1>4. \A t : t = token' /\ t # None => Issued(t)
  BY <1>2, Recently
<1>5. \A t \in invalid' : Issued(t) /\ ~Renews(t)
  BY <1>1, Recently
<1>. QED BY <1>3, <1>4, <1>5, Recently, TokensStep DEF ChecksOK

LEMMA ReceiveCallTokens ==
  ASSUME IInv, NEW c \in Callers, ReceiveCall(c) PROVE TokensOK'
<1> DEFINE y == calls[c]
<1>1. /\ y.kind # "idle" /\ y.stage = "answered" /\ UNCHANGED <<server, logins>>
      /\ \A k \in Callers : k # c => calls'[k] = calls[k]
  BY DEF ReceiveCall, IdleCall, Returns, IInv, Inv
<1>2. /\ y \in Call /\ y.sent \in Token /\ y.first \in Token /\ CallIsRecent(y) /\ CallOK(y)
      /\ y.sent.who = y.user /\ y.first.who = y.user
  BY <1>1, CallTokens DEF IInv, Inv
<1>3. y.sent.day \in Nat /\ y.first.day \in Nat /\ day \in Nat
  BY <1>2, TokenFields DEF IInv, Inv, ServerTypes
<1>. HIDE DEF y
<1>4. ASSUME NEW result, Returns(c, result), result = "ok" => y.reply = "ok"
      PROVE  /\ \A x : x = calls'[c] => CallIsRecent(x)
             /\ calls'[c].kind = y.kind /\ calls'[c].epoch = y.epoch
             /\ calls'[c].user = y.user /\ calls'[c].first = y.first
             /\ calls'[c].stage = "returned" /\ calls'[c].result = result
  <2>1. calls'[c] = Back(y, result)
    BY <1>4 DEF Returns, Back, IInv, Inv, y
  <2>2. PICK x : x = Back(y, result)
    OBVIOUS
  <2>3. CallIsRecent(x)
    BY <1>1, <1>2, <1>4, <2>2, BackIsRecent
  <2>4. /\ x.kind = y.kind /\ x.first = y.first /\ x.user = y.user /\ x.epoch = y.epoch
        /\ x.stage = "returned" /\ x.result = result
    BY <1>2, <2>2, BackFields
  <2>. QED BY <2>1, <2>2, <2>3, <2>4
<1>5. CASE y.reply = "ok"
  <2>1. /\ Returns(c, "ok")
        /\ token' = IF y.kind = "check" THEN Renewed(y.fresh, y.first) ELSE token
        /\ UNCHANGED <<user, epoch, invalid, renewals>>
    BY <1>5 DEF ReceiveCall, y
  <2>2. \A x : x = calls'[c] => CallIsRecent(x)
    BY <1>4, <1>5, <2>1
  <2>3. ASSUME NEW k \in Callers PROVE Alike(k)
    <3>1. CASE k = c
      BY <1>1, <1>4, <1>5, <2>1, <3>1 DEF Alike, y
    <3>2. CASE k # c
      BY <1>1, <3>2 DEF Alike
    <3>. QED BY <3>1, <3>2
  <2>4. CASE UNCHANGED token
    BY <1>1, <2>1, <2>2, <2>3, <2>4, MovedTokens, Recently
  <2>5. CASE token' # token
    <3>1. y.kind = "check" /\ token = y.first /\ token' = y.fresh
      BY <2>1, <2>5 DEF Renewed
    <3>2. PICK new \in Token : new = y.fresh /\ new.who = y.user
      BY <1>2, <1>5, <3>1 DEF CallOK
    <3>3. new.ver = y.first.ver /\ day <= y.first.day + 1 /\ Issued(new)
      BY <1>1, <1>2, <1>5, <3>1, <3>2, NoneAssumption DEF CallIsRecent
    <3>4. ASSUME NEW k \in Callers PROVE CheckOK(k)'
      BY <1>1, <1>2, <2>1, <2>3, <3>1, <3>2, <3>3, CheckRenewed
    <3>5. \A k \in Callers : \A x : x = calls'[k] => CallIsRecent(x)
      BY <1>1, <2>2, Recently
    <3>6. \A t : t = token' /\ t # None => Issued(t)
      BY <3>1, <3>2, <3>3
    <3>. QED BY <1>1, <2>1, <3>4, <3>5, <3>6, Recently, TokensStep DEF ChecksOK
  <2>. QED BY <2>4, <2>5
<1>6. CASE y.reply \in {"lost", "forbidden"}
  <2>1. Returns(c, "unavailable") /\ UNCHANGED <<token, user, epoch, invalid, renewals>>
    BY <1>6 DEF ReceiveCall, y, session
  <2>2. (\A x : x = calls'[c] => CallIsRecent(x)) /\ Alike(c)
    BY <1>1, <1>4, <2>1 DEF Alike, y
  <2>. QED BY <1>1, <2>1, <2>2, MovedTokens, Recently
<1>7. CASE y.reply = "unauthorized" /\ y.retried
  <2>1. Returns(c, "rejected") /\ Invalidate(y.sent) /\ UNCHANGED renewals
    BY <1>7 DEF ReceiveCall, y
  <2>2. Gone(y.sent) /\ y.sent.ver = y.first.ver /\ Issued(y.sent)
    BY <1>1, <1>2, <1>7 DEF CallIsRecent
  <2>3. ~Renews(y.sent) /\ ~Renews(y.first)
    BY <1>2, <2>2 DEF Renews, Gone
  <2>4. /\ \A x : x = calls'[c] => CallIsRecent(x)
        /\ calls'[c].kind = y.kind /\ calls'[c].epoch = y.epoch
        /\ calls'[c].user = y.user /\ calls'[c].first = y.first /\ calls'[c].stage = "returned"
    BY <1>4, <2>1
  <2>5. \A k \in Callers : k # c => Alike(k)
    BY <1>1 DEF Alike
  <2>6. ASSUME NEW k \in Callers
        PROVE  /\ \A x : x = calls'[k] => CallIsRecent(x)
               /\ \/ Alike(k)
                  \/ /\ calls[k].stage # "returned" /\ calls'[k].stage = "returned"
                     /\ calls'[k].kind = calls[k].kind /\ calls'[k].epoch = calls[k].epoch
                     /\ calls'[k].user = calls[k].user /\ calls'[k].first = calls[k].first
                     /\ calls[k].kind # "idle" => ~Renews(calls[k].first)
    <3>1. CASE k = c
      BY <1>1, <2>3, <2>4, <3>1 DEF y
    <3>2. CASE k # c
      BY <1>1, <2>5, <3>2, Recently
    <3>. QED BY <3>1, <3>2
  <2>. QED BY <1>1, <1>2, <2>1, <2>2, <2>3, <2>6, Recently, RefusedTokens
<1>8. CASE y.reply = "unauthorized" /\ ~y.retried
  <2>1. /\ calls' = [calls EXCEPT ![c].stage = "renewing"]
        /\ \A r \in renewals' : r \in renewals \/ r = [of |-> y.first, stage |-> "asked", new |-> None]
        /\ UNCHANGED <<token, user, epoch, invalid>>
    BY <1>8 DEF ReceiveCall, y, session
  <2>2. PICK x : x = [y EXCEPT !.stage = "renewing"]
    OBVIOUS
  <2>3. /\ x.kind = y.kind /\ x.sent = y.sent /\ x.first = y.first /\ x.retried = y.retried
        /\ x.user = y.user /\ x.org = y.org /\ x.epoch = y.epoch /\ x.fresh = y.fresh
        /\ x.reply = y.reply /\ x.stage = "renewing" /\ x.result = y.result
    BY <1>2, <2>2 DEF Call
  <2>4. calls'[c] = x
    BY <2>1, <2>2 DEF y, IInv, Inv
  <2>5. (Gone(y.sent) \/ y.sent.day # day) /\ y.sent = y.first
    BY <1>1, <1>2, <1>8 DEF CallIsRecent
  <2>6. y.result = "none"
    BY <1>1, <1>2 DEF CallOK
  <2>7. CallIsRecent(x)
    BY <1>1, <1>2, <1>8, <2>3, <2>5, <2>6 DEF CallIsRecent
  <2>8. Alike(c)
    BY <1>1, <2>3, <2>4 DEF Alike, y
  <2>9. ASSUME NEW r \in renewals' PROVE RenewalIsRecent(r)
    <3>1. CASE r \in renewals
      BY <3>1, Recently
    <3>2. CASE r = [of |-> y.first, stage |-> "asked", new |-> None]
      <4>1. r.of = y.first /\ r.stage = "asked"
        BY <3>2
      <4>2. Issued(y.first)
        BY <1>1, <1>2 DEF CallIsRecent
      <4>. QED BY <2>5, <4>1, <4>2 DEF RenewalIsRecent
    <3>. QED BY <2>1, <3>1, <3>2
  <2>. QED BY <1>1, <2>1, <2>4, <2>7, <2>8, <2>9, MovedTokens
<1>9. y.reply \in {"ok", "lost", "forbidden", "unauthorized"}
  BY <1>1, <1>2 DEF CallIsRecent, Call, Replies
<1>10. y.retried \in BOOLEAN
  BY <1>2 DEF Call
<1>. QED BY <1>5, <1>6, <1>7, <1>8, <1>9, <1>10


LEMMA RenewalTokens ==
  ASSUME IInv, NEW r \in renewals, ServeRenewal(r) \/ LoseRenewal(r) PROVE TokensOK'
<1>1. UNCHANGED <<server, token, user, epoch, invalid, calls, logins>>
  BY DEF ServeRenewal, LoseRenewal, session
<1>2. r.of \in Token /\ RenewalIsRecent(r)
  BY Recently DEF IInv, Inv, Renewal
<1>3. r.of.who \in Identity /\ r.of.day \in Nat /\ day \in Nat
  BY <1>2, TokenFields DEF IInv, Inv, ServerTypes
<1>4. PICK f : f = Signed(r.of.who, r.of.login)
  OBVIOUS
<1>5. f.ver = version[r.of.who.id] /\ f.day = day
  BY <1>4 DEF Signed
<1>6. ASSUME NEW s \in renewals' PROVE RenewalIsRecent(s)
  <2>1. CASE s \in renewals
    BY <2>1, Recently
  <2>2. CASE s = [of |-> r.of, stage |-> "granted", new |-> f] /\ Renews(r.of)
    <3>1. s.of = r.of /\ s.stage = "granted" /\ s.new = f
      BY <2>2
    <3>2. ~Gone(r.of) /\ day <= r.of.day + 1
      BY <2>2 DEF Renews, Gone
    <3>3. r.of.day # day /\ r.of.day <= day /\ r.of.ver = version[r.of.who.id]
      BY <1>2, <3>2 DEF RenewalIsRecent, Issued, Gone
    <3>4. r.of.day + 1 = day
      BY <1>3, <3>2, <3>3
    <3>. QED BY <1>2, <1>5, <3>1, <3>3, <3>4 DEF RenewalIsRecent
  <2>3. CASE s = [of |-> r.of, stage |-> "refused", new |-> None] /\ ~Renews(r.of)
    <3>1. s.of = r.of /\ s.stage = "refused"
      BY <2>3
    <3>. QED BY <1>2, <2>3, <3>1 DEF RenewalIsRecent
  <2>4. CASE s = [of |-> r.of, stage |-> "failed", new |-> None]
    <3>1. s.of = r.of /\ s.stage = "failed"
      BY <2>4
    <3>. QED BY <1>2, <3>1 DEF RenewalIsRecent
  <2>. QED BY <1>4, <2>1, <2>2, <2>3, <2>4 DEF ServeRenewal, LoseRenewal
<1>7. ChecksOK'
  BY <1>1, CheckKept DEF Alike, ChecksOK
<1>. QED BY <1>1, <1>6, <1>7, Recently, TokensStep

(* Everyone who waited for a renewal comes back with it. *)
LEMMA ResumedTokens ==
  ASSUME IInv, NEW r \in renewals, NEW result, result # "ok",
         calls' = Resumed(Waiting(r.of), result)
  PROVE  \A k \in Callers :
           /\ \A x : x = calls'[k] => CallIsRecent(x)
           /\ \/ k \notin Waiting(r.of) /\ calls'[k] = calls[k]
              \/ /\ calls[k].first = r.of /\ calls[k].stage # "returned" /\ calls'[k].stage = "returned"
                 /\ calls'[k].kind = calls[k].kind /\ calls'[k].epoch = calls[k].epoch
                 /\ calls'[k].user = calls[k].user /\ calls'[k].first = calls[k].first
                 /\ calls'[k].result = result
<1> SUFFICES ASSUME NEW k \in Callers
             PROVE  /\ \A x : x = calls'[k] => CallIsRecent(x)
                    /\ \/ k \notin Waiting(r.of) /\ calls'[k] = calls[k]
                       \/ /\ calls[k].first = r.of
                          /\ calls[k].stage # "returned" /\ calls'[k].stage = "returned"
                          /\ calls'[k].kind = calls[k].kind /\ calls'[k].epoch = calls[k].epoch
                          /\ calls'[k].user = calls[k].user /\ calls'[k].first = calls[k].first
                          /\ calls'[k].result = result
  OBVIOUS
<1>1. CASE k \notin Waiting(r.of)
  <2>1. calls'[k] = calls[k]
    BY <1>1 DEF Resumed
  <2>. QED BY <1>1, <2>1, Recently
<1>2. CASE k \in Waiting(r.of)
  <2>1. PICK y \in Call : y = calls[k] /\ y.stage = "renewing" /\ y.first = r.of /\ CallIsRecent(y)
    BY <1>2, Recently DEF Waiting, IInv, Inv
  <2>2. PICK x : x = Back(y, result)
    OBVIOUS
  <2>3. calls'[k] = x
    BY <1>2, <2>1, <2>2 DEF Resumed, Back
  <2>4. CallIsRecent(x)
    BY <2>1, <2>2, BackIsRecent
  <2>5. /\ x.kind = y.kind /\ x.first = y.first /\ x.user = y.user /\ x.epoch = y.epoch
        /\ x.stage = "returned" /\ x.result = result
    BY <2>1, <2>2, BackFields
  <2>. QED BY <2>1, <2>3, <2>4, <2>5
<1>. QED BY <1>1, <1>2

LEMMA RetriedIsRecent ==
  ASSUME NEW y \in Call, CallIsRecent(y), y.kind # "idle", y.stage = "renewing", y.result = "none",
         NEW new, new.ver = y.first.ver, new.day = day, y.first.day + 1 = day, Issued(new),
         NEW x, x = [y EXCEPT !.stage = "asked", !.sent = new, !.retried = TRUE, !.reply = "none"]
  PROVE  /\ CallIsRecent(x)
         /\ x.kind = y.kind /\ x.epoch = y.epoch /\ x.user = y.user /\ x.first = y.first
         /\ x.result = y.result
<1>1. /\ x.kind = y.kind /\ x.epoch = y.epoch /\ x.user = y.user /\ x.first = y.first
      /\ x.result = y.result /\ x.stage = "asked" /\ x.sent = new /\ x.retried = TRUE
      /\ x.reply = "none" /\ x.fresh = y.fresh
  BY DEF Call
<1>. QED BY <1>1 DEF CallIsRecent

LEMMA ReceiveRenewalTokens ==
  ASSUME IInv, NEW r \in renewals, ReceiveRenewal(r) PROVE TokensOK'
<1>1. /\ r.of \in Token /\ RenewalIsRecent(r)
      /\ r.stage = "granted" => r.new \in Token /\ r.new.who = r.of.who
  BY Recently DEF IInv, Inv, Renewal, RenewalsOK, RenewalOK
<1>2. UNCHANGED <<server, logins>> /\ \A s \in renewals' : RenewalIsRecent(s)
  BY Recently DEF ReceiveRenewal
<1>3. Issued(r.of) /\ r.of.day \in Nat /\ day \in Nat
  BY <1>1, TokenFields DEF RenewalIsRecent, IInv, Inv, ServerTypes
<1>4. CASE r.stage = "granted"
  <2>1. /\ calls' = Retried(Waiting(r.of), r.new) /\ token' = Renewed(r.new, r.of)
        /\ UNCHANGED <<user, epoch, invalid>>
    BY <1>4 DEF ReceiveRenewal
  <2>2. PICK new \in Token : new = r.new
    BY <1>1, <1>4
  <2>3. new.ver = r.of.ver /\ new.day = day /\ r.of.day + 1 = day /\ new.who = r.of.who
    BY <1>1, <1>4, <2>2 DEF RenewalIsRecent
  <2>4. Issued(new)
    BY <1>3, <2>3 DEF Issued
  <2>5. ASSUME NEW k \in Callers PROVE Alike(k) /\ \A x : x = calls'[k] => CallIsRecent(x)
    <3>1. CASE k \notin Waiting(r.of)
      <4>1. calls'[k] = calls[k]
        BY <2>1, <3>1 DEF Retried
      <4>. QED BY <4>1, Recently DEF Alike
    <3>2. CASE k \in Waiting(r.of)
      <4>1. PICK y \in Call : y = calls[k] /\ y.stage = "renewing" /\ y.first = r.of /\ CallIsRecent(y)
                              /\ CallOK(y)
        BY <3>2, Recently DEF Waiting, IInv, Inv, CallsOK
      <4>2. PICK x : x = [y EXCEPT !.stage = "asked", !.sent = new, !.retried = TRUE, !.reply = "none"]
        OBVIOUS
      <4>3. calls'[k] = x
        BY <2>1, <2>2, <3>2, <4>1, <4>2 DEF Retried
      <4>4. x.kind = y.kind /\ x.epoch = y.epoch /\ x.user = y.user /\ x.first = y.first
            /\ x.result = y.result
        BY <4>1, <4>2 DEF Call
      <4>5. CallIsRecent(x)
        <5>1. CASE y.kind = "idle"
          BY <4>4, <5>1 DEF CallIsRecent
        <5>2. CASE y.kind # "idle"
          <6>1. y.result = "none"
            BY <4>1, <5>2 DEF CallOK
          <6>. QED BY <2>3, <2>4, <4>1, <4>2, <5>2, <6>1, RetriedIsRecent
        <5>. QED BY <5>1, <5>2
      <4>. QED BY <4>1, <4>3, <4>4, <4>5 DEF Alike
    <3>. QED BY <3>1, <3>2
  <2>6. ASSUME NEW k \in Callers PROVE CheckOK(k)'
    <3>1. CASE token = r.of
      <4>1. token' = new
        BY <2>1, <2>2, <3>1 DEF Renewed
      <4>2. token \in Token /\ day <= token.day + 1
        BY <1>1, <1>3, <2>3, <3>1
      <4>. QED BY <1>2, <2>1, <2>3, <2>5, <3>1, <4>1, <4>2, CheckRenewed
    <3>2. CASE token # r.of
      BY <1>2, <2>1, <2>5, <3>2, CheckKept DEF Renewed
    <3>. QED BY <3>1, <3>2
  <2>7. \A t : t = token' /\ t # None => Issued(t)
    BY <2>1, <2>2, <2>4, Recently DEF Renewed
  <2>. QED BY <1>2, <2>1, <2>5, <2>6, <2>7, Recently, TokensStep DEF ChecksOK
<1>5. CASE r.stage = "refused"
  <2>1. calls' = Resumed(Waiting(r.of), "rejected") /\ Invalidate(r.of)
    BY <1>5 DEF ReceiveRenewal
  <2>2. ~Renews(r.of)
    BY <1>1, <1>5 DEF RenewalIsRecent
  <2>3. \A k \in Callers :
          /\ \A x : x = calls'[k] => CallIsRecent(x)
          /\ \/ Alike(k)
             \/ /\ calls[k].stage # "returned" /\ calls'[k].stage = "returned"
                /\ calls'[k].kind = calls[k].kind /\ calls'[k].epoch = calls[k].epoch
                /\ calls'[k].user = calls[k].user /\ calls'[k].first = calls[k].first
                /\ calls[k].kind # "idle" => ~Renews(calls[k].first)
    BY <2>1, <2>2, ResumedTokens DEF Alike
  <2>. QED BY <1>1, <1>2, <1>3, <2>1, <2>2, <2>3, RefusedTokens
<1>6. CASE r.stage = "failed"
  <2>1. PICK result : /\ calls' = Resumed(Waiting(r.of), result) /\ result # "ok"
                      /\ result = "rejected" => r.of \in invalid
    BY <1>6 DEF ReceiveRenewal
  <2>2. UNCHANGED <<token, user, epoch, invalid>>
    BY <1>6 DEF ReceiveRenewal, session
  <2>3. \A k \in Callers :
          /\ \A x : x = calls'[k] => CallIsRecent(x)
          /\ \/ k \notin Waiting(r.of) /\ calls'[k] = calls[k]
             \/ /\ calls[k].first = r.of /\ calls[k].stage # "returned" /\ calls'[k].stage = "returned"
                /\ calls'[k].kind = calls[k].kind /\ calls'[k].epoch = calls[k].epoch
                /\ calls'[k].user = calls[k].user /\ calls'[k].first = calls[k].first
                /\ calls'[k].result = result
    BY <2>1, ResumedTokens
  <2>4. ASSUME NEW k \in Callers PROVE CheckOK(k)'
    <3>1. CASE calls'[k] = calls[k] \/ result # "rejected"
      BY <1>2, <2>2, <2>3, <3>1, CheckKept DEF Alike
    <3>2. CASE calls'[k] # calls[k] /\ result = "rejected"
      <4>1. SUFFICES ASSUME Present(k), calls[k].kind = "check", token # None PROVE CheckOK(k)'
        BY <2>2, <2>3, <3>2 DEF CheckOK, Present
      <4>2. CheckOK(k)
        BY DEF IInv, TokensOK, ChecksOK
      <4>3. ~Renews(r.of)
        BY <2>1, <3>2, Recently
      <4>4. user = calls[k].user => ~Renews(token)
        BY <2>3, <3>2, <4>1, <4>3, RejectedCheck
      <4>5. Renews(token)' <=> Renews(token)
        BY <1>2, <2>2 DEF server, Renews
      <4>. QED BY <2>2, <2>3, <3>2, <4>1, <4>2, <4>4, <4>5 DEF CheckOK
    <3>. QED BY <3>1, <3>2
  <2>. QED BY <1>2, <2>2, <2>3, <2>4, Recently, TokensStep DEF ChecksOK
<1>. QED BY <1>4, <1>5, <1>6 DEF ReceiveRenewal

-----------------------------------------------------------------------------
(* After the awaits, with their tokens. *)

LEMMA PassGoesOnTokens ==
  ASSUME IInv, NEW c \in Callers, PassGoesOn(c) PROVE TokensOK'
BY BegunTokens DEF PassGoesOn, Current, session

LEMMA SwitchEndsTokens ==
  ASSUME IInv, NEW c \in Callers, SwitchEnds(c) PROVE TokensOK'
<1>1. UNCHANGED <<server, invalid, renewals, logins>> /\ calls[c].kind = "switch"
  BY DEF SwitchEnds, Returned
<1>2. CASE ~(Current(c) /\ calls[c].result = "ok")
  <2>1. calls' = [calls EXCEPT ![c] = Idle] /\ UNCHANGED <<token, user, epoch>>
    BY <1>2 DEF SwitchEnds
  <2>. QED BY <1>1, <2>1, EndedTokens
<1>3. CASE Current(c) /\ calls[c].result = "ok"
  <2>1. PICK t \in Token : t = calls[c].fresh /\ Issued(t)
    BY <1>1, <1>3, CallTokens, NoneAssumption DEF CallOK, CallIsRecent
  <2>2. PICK x : x = Asked("pass", t, epoch + 1, t.who, None)
    OBVIOUS
  <2>3. /\ x.kind = "pass" /\ x.first = t /\ x.sent = t /\ x.retried = FALSE /\ x.fresh = None
        /\ x.stage \in {"returned", "asked"} /\ x.result # "ok"
    BY <2>2 DEF Asked, AskedUnless
  <2>4. CallIsRecent(x)
    BY <2>1, <2>3, FreshIsRecent
  <2>5. token' = t /\ epoch' = epoch + 1 /\ \A k \in Callers : calls'[k] = IF k = c THEN x ELSE calls[k]
    BY <1>3, <2>1, <2>2 DEF SwitchEnds, IInv, Inv
  <2>6. \A k \in Callers : \A z : z = calls'[k] => CallIsRecent(z)
    BY <2>4, <2>5, Recently
  <2>7. ChecksOK'
    BY <2>3, <2>5, CheckIsOver, EpochsAreOld DEF ChecksOK
  <2>. QED BY <1>1, <2>1, <2>5, <2>6, <2>7, Recently, TokensStep
<1>. QED BY <1>2, <1>3

LEMMA PassOrCheckEndsTokens ==
  ASSUME IInv, NEW c \in Callers, PassEnds(c) \/ CheckEnds(c) PROVE TokensOK'
<1>1. calls' = [calls EXCEPT ![c] = Idle] /\ UNCHANGED <<server, invalid, renewals, logins>>
  BY DEF PassEnds, CheckEnds
<1>2. UNCHANGED user
  <2>1. CASE PassEnds(c)
    BY <2>1 DEF PassEnds
  <2>2. CASE CheckEnds(c)
    <3>1. calls[c].kind = "check"
      BY <2>2 DEF CheckEnds, Returned
    <3>2. calls[c].sent.who = calls[c].user
      BY <3>1, CallTokens
    <3>. QED BY <2>2, <3>2 DEF CheckEnds, Current
  <2>. QED BY <2>1, <2>2
<1>3. UNCHANGED <<token, epoch>> \/ token' = None
  BY DEF PassEnds, CheckEnds
<1>. QED BY <1>1, <1>2, <1>3, EndedTokens

-----------------------------------------------------------------------------
LEMMA IInvInitially == Init => IInv
<1> SUFFICES ASSUME Init PROVE IInv
  OBVIOUS
<1>1. \A c \in Callers : calls[c] = Idle /\ calls[c].kind = "idle" /\ calls[c].epoch = 0
  BY DEF Init, Idle
<1>2. \A l \in Attempts : logins[l].stage = "idle"
  BY DEF Init, NoLogin
<1>3. /\ token = None /\ epoch = 0 /\ attempt = 0 /\ strayed = 0
      /\ syncing = FALSE /\ invalid = {} /\ renewals = {}
  BY DEF Init
<1>4. NumbersOK
  BY <1>1, <1>2, <1>3 DEF NumbersOK
<1>5. AwaitedOK /\ SlotOK
  BY <1>3 DEF AwaitedOK, SlotOK
<1>6. WishOK
  BY <1>1, <1>2 DEF WishOK, AwaitedIsWished, SwitchIsWished, CheckIsAlone, GrantedIsAsked, Present
<1>7. TokensOK
  BY <1>1, <1>2, <1>3, IdleIsRecent
     DEF TokensOK, TokenIsIssued, InvalidIsRefused, CallsRecent, RenewalsRecent, LoginsIssued,
         ChecksOK, CheckOK
<1>. QED BY <1>4, <1>5, <1>6, <1>7, Initially DEF IInv

LEMMA IInvPreserved == IInv /\ [Next]_vars => IInv'
<1> SUFFICES ASSUME IInv, [Next]_vars PROVE IInv'
  OBVIOUS
<1>1. Inv'
  BY StepPreserves DEF IInv
<1>2. CASE \/ \E who \in Identity : Remove(who)
           \/ \E u \in Users : ChangePassword(u)
           \/ Tick
  BY <1>1, <1>2, ServedInTime, ServerTokens DEF IInv
<1>3. CASE ToggleAutoSync \/ Logout \/ LeaveServer
  BY <1>1, <1>3, ToggleInTime, SigningOutInTime, UserTokens DEF IInv
<1>4. ASSUME NEW l \in Attempts,
             (\E u \in Users : StartLogin(l, u)) \/ ServeLogin(l) \/ LoginAnswered(l) \/ InstallLogin(l)
      PROVE  IInv'
  BY <1>1, <1>4, StartLoginInTime, ServeLoginInTime, LoginAnsweredInTime, InstallLoginInTime,
     UserTokens, ServeLoginTokens, InstallLoginTokens DEF IInv
<1>5. ASSUME NEW c \in Callers, StartPass(c) \/ StartCheck(c) \/ \E org \in Orgs : StartSwitch(c, org)
      PROVE  IInv'
  BY <1>1, <1>5, StartPassInTime, StartCheckInTime, StartSwitchInTime, UserTokens DEF IInv
<1>6. ASSUME NEW c \in Callers, ServeCall(c) \/ LoseCall(c) \/ ReceiveCall(c) PROVE IInv'
  BY <1>1, <1>6, ServedInTime, ReceiveCallInTime, ServeCallTokens, LoseCallTokens, ReceiveCallTokens
     DEF IInv
<1>7. ASSUME NEW c \in Callers, PassGoesOn(c) \/ PassEnds(c) \/ SwitchEnds(c) \/ CheckEnds(c)
      PROVE  IInv'
  BY <1>1, <1>7, PassGoesOnInTime, PassEndsInTime, SwitchEndsInTime, CheckEndsInTime,
     PassGoesOnTokens, SwitchEndsTokens, PassOrCheckEndsTokens DEF IInv
<1>8. ASSUME NEW r \in renewals, ServeRenewal(r) \/ LoseRenewal(r) \/ ReceiveRenewal(r) PROVE IInv'
  BY <1>1, <1>8, ServedInTime, ReceiveRenewalInTime, RenewalTokens, ReceiveRenewalTokens DEF IInv
<1>9. CASE UNCHANGED vars
  BY <1>1, <1>9, ServedInTime, UserTokens DEF IInv
<1>. QED BY <1>2, <1>3, <1>4, <1>5, <1>6, <1>7, <1>8, <1>9 DEF Next

LEMMA Invariant == Spec => []IInv
BY IInvInitially, IInvPreserved, PTL DEF Spec


(* The state of the session has the code's shape, its token is the signed-in *)
(* account's, and every request speaks for the account it was begun for      *)
(* (syncAuthSlice.ts, fetchWithSessionRetry of syncService.ts).              *)
THEOREM SessionCorrect == Spec => []SessionInv
<1>1. IInv => SessionInv
  BY DEF IInv, Inv, ServerTypes, SessionTypes, OtherTypes, CallsOK, CallOK, IdleCall,
         SessionInv, SessionTypeOK, TokenIsTheUsers, SpeaksForItsUser
<1>. QED BY <1>1, Invariant, PTL

(* Whoever signs in and out, whatever is renewed or refused meanwhile: unless   *)
(* automatic synchronisation was switched during a pass, or somebody signed in  *)
(* over an open session, the slot is taken exactly by the one pass of the       *)
(* present session (isSyncing and ensureCurrent of syncAuthSlice.ts).           *)
THEOREM SlotIsNeverStuck == Spec => []SlotIsFreed
<1>1. IInv => SlotIsFreed
  BY DEF IInv, SlotOK, SlotIsFreed
<1>. QED BY <1>1, Invariant, PTL

-----------------------------------------------------------------------------
(* What a step does to the account and to its session. *)

(* Only a sign-in that is awaited and a change of organization install an account. *)
LEMMA WhoInstalls ==
  ASSUME IInv, Next, user' # user, user' # None
  PROVE  \/ \E l \in Attempts : InstallLogin(l) /\ Awaited(l)
         \/ \E c \in Callers : SwitchEnds(c) /\ Current(c) /\ calls[c].result = "ok"
<1>1. ASSUME NEW l \in Attempts,
             (\E u \in Users : StartLogin(l, u)) \/ ServeLogin(l) \/ LoginAnswered(l)
      PROVE  UNCHANGED user
  BY <1>1 DEF StartLogin, ServeLogin, LoginAnswered, session
<1>2. ASSUME NEW l \in Attempts, InstallLogin(l), ~Awaited(l) PROVE UNCHANGED user
  BY <1>2 DEF InstallLogin
<1>3. ASSUME (\E who \in Identity : Remove(who)) \/ (\E u \in Users : ChangePassword(u)) \/ Tick
             \/ ToggleAutoSync
      PROVE  UNCHANGED user
  BY <1>3 DEF Remove, ChangePassword, Tick, ToggleAutoSync, session
<1>4. ~(Logout \/ LeaveServer)
  BY DEF Logout, LeaveServer
<1>5. ASSUME NEW c \in Callers,
             StartPass(c) \/ StartCheck(c) \/ (\E org \in Orgs : StartSwitch(c, org)) \/ ServeCall(c)
             \/ LoseCall(c) \/ PassGoesOn(c) \/ PassEnds(c)
      PROVE  UNCHANGED user
  BY <1>5 DEF StartPass, StartCheck, StartSwitch, ServeCall, LoseCall, PassGoesOn, PassEnds, session
<1>6. ASSUME NEW c \in Callers, ReceiveCall(c) PROVE UNCHANGED user
  BY <1>6 DEF ReceiveCall, Invalidate, session
<1>7. ASSUME NEW c \in Callers, SwitchEnds(c), ~(Current(c) /\ calls[c].result = "ok")
      PROVE  UNCHANGED user
  BY <1>7 DEF SwitchEnds
<1>8. ASSUME NEW c \in Callers, CheckEnds(c) PROVE UNCHANGED user
  <2>1. calls[c].sent.who = calls[c].user
    BY <1>8, CallTokens DEF CheckEnds, Returned
  <2>. QED BY <1>8, <2>1 DEF CheckEnds, Current
<1>9. ASSUME NEW r \in renewals, ServeRenewal(r) \/ LoseRenewal(r) \/ ReceiveRenewal(r)
      PROVE  UNCHANGED user
  BY <1>9 DEF ServeRenewal, LoseRenewal, ReceiveRenewal, Invalidate, session
<1>. QED BY <1>1, <1>2, <1>3, <1>4, <1>5, <1>6, <1>7, <1>8, <1>9 DEF Next

LEMMA AccountIsWished ==
  ASSUME IInv, [Next]_vars PROVE ChangesAsWished
<1>. SUFFICES ASSUME Next, user' # user, user' # None PROVE ChangesAsWished
  BY DEF ChangesAsWished, vars
<1>1. ASSUME NEW l \in Attempts, InstallLogin(l), Awaited(l) PROVE ChangesAsWished
  <2>1. logins[l].stage = "clearing" /\ user' = logins[l].token.who
    BY <1>1 DEF InstallLogin
  <2>2. user'.id = logins[l].id
    BY <2>1 DEF IInv, WishOK, GrantedIsAsked
  <2>3. \/ wish = [no |-> logins[l].no, id |-> logins[l].id, org |-> None]
        \/ strayed = epoch /\ wish.no = 0
    BY <1>1, <2>1 DEF IInv, WishOK, AwaitedIsWished
  <2>. QED BY <2>2, <2>3 DEF ChangesAsWished
<1>2. ASSUME NEW c \in Callers, SwitchEnds(c), Current(c), calls[c].result = "ok"
      PROVE  ChangesAsWished
  <2>1. calls[c].kind = "switch" /\ user' = calls[c].fresh.who
    BY <1>2 DEF SwitchEnds, Returned
  <2>2. user' = [id |-> calls[c].user.id, org |-> calls[c].org]
    BY <1>2, <2>1, CallTokens DEF CallIsRecent
  <2>3. wish = [no |-> 0, id |-> calls[c].user.id, org |-> calls[c].org]
    BY <1>2, <2>1 DEF IInv, WishOK, SwitchIsWished, Present, Current
  <2>. QED BY <2>2, <2>3 DEF ChangesAsWished
<1>. QED BY <1>1, <1>2, WhoInstalls

(* Which sign-ins a step ends. *)
LEMMA WhoEndsALogin ==
  ASSUME IInv, Next, NEW l \in Attempts, logins[l].stage # "idle", logins'[l].stage = "idle"
  PROVE  LoginAnswered(l) \/ InstallLogin(l)
<1>1. ASSUME NEW k \in Attempts, NEW x, logins' = [logins EXCEPT ![k] = x], k = l => x.stage # "idle"
      PROVE  FALSE
  BY <1>1 DEF IInv, Inv
<1>2. ~UNCHANGED logins
  OBVIOUS
<1>3. ASSUME NEW k \in Attempts, NEW u \in Users, StartLogin(k, u) PROVE FALSE
  BY <1>1, <1>3 DEF StartLogin
<1>4. ASSUME NEW k \in Attempts, ServeLogin(k) PROVE FALSE
  BY <1>4 DEF ServeLogin, IInv, Inv, Login
<1>5. ASSUME NEW k \in Attempts, k # l, LoginAnswered(k) \/ InstallLogin(k) PROVE FALSE
  BY <1>5 DEF LoginAnswered, InstallLogin, IInv, Inv
<1>6. ASSUME (\E who \in Identity : Remove(who)) \/ (\E u \in Users : ChangePassword(u)) \/ Tick
             \/ ToggleAutoSync \/ Logout \/ LeaveServer
      PROVE  UNCHANGED logins
  BY <1>6 DEF Remove, ChangePassword, Tick, ToggleAutoSync, Logout, LeaveServer
<1>7. ASSUME NEW c \in Callers,
             \/ StartPass(c) \/ StartCheck(c) \/ \E org \in Orgs : StartSwitch(c, org)
             \/ ServeCall(c) \/ LoseCall(c) \/ ReceiveCall(c)
             \/ PassGoesOn(c) \/ PassEnds(c) \/ SwitchEnds(c) \/ CheckEnds(c)
      PROVE  UNCHANGED logins
  BY <1>7 DEF StartPass, StartCheck, StartSwitch, ServeCall, LoseCall, ReceiveCall, PassGoesOn,
              PassEnds, SwitchEnds, CheckEnds
<1>8. ASSUME NEW r \in renewals, ServeRenewal(r) \/ LoseRenewal(r) \/ ReceiveRenewal(r)
      PROVE  UNCHANGED logins
  BY <1>8 DEF ServeRenewal, LoseRenewal, ReceiveRenewal
<1>. QED BY <1>2, <1>3, <1>4, <1>5, <1>6, <1>7, <1>8 DEF Next

LEMMA AcceptedIsInstalled ==
  ASSUME IInv, [Next]_vars PROVE SignInCompletes
<1>. SUFFICES ASSUME NEW l \in Attempts,
                     logins[l].stage \in {"granted", "clearing"}, logins'[l].stage = "idle",
                     wish = [no |-> logins[l].no, id |-> logins[l].id, org |-> None]
              PROVE  token' = logins[l].token
  BY DEF SignInCompletes
<1>1. Next
  BY DEF vars
<1>2. Awaited(l)
  BY DEF IInv, WishOK, AwaitedIsWished
<1>3. ~LoginAnswered(l)
  BY <1>2 DEF LoginAnswered, IInv, Inv, Login
<1>4. InstallLogin(l)
  BY <1>1, <1>3, WhoEndsALogin
<1>. QED BY <1>2, <1>4 DEF InstallLogin

(* Only a refusal, or the user, ends a session. *)
LEMMA WhoEndsTheSession ==
  ASSUME IInv, Next, token # None, token' = None, user' # None
  PROVE  \/ \E c \in Callers : ReceiveCall(c) \/ CheckEnds(c)
         \/ \E r \in renewals : ReceiveRenewal(r)
<1>1. ASSUME NEW l \in Attempts,
             (\E u \in Users : StartLogin(l, u)) \/ ServeLogin(l) \/ LoginAnswered(l)
      PROVE  FALSE
  BY <1>1 DEF StartLogin, ServeLogin, LoginAnswered, session
<1>2. ASSUME NEW l \in Attempts, InstallLogin(l) PROVE FALSE
  <2>1. logins[l].token \in Token
    BY <1>2 DEF InstallLogin, IInv, Inv, LoginsOK, LoginOK
  <2>. QED BY <1>2, <2>1, NoneAssumption DEF InstallLogin
<1>3. ASSUME (\E who \in Identity : Remove(who)) \/ (\E u \in Users : ChangePassword(u)) \/ Tick
             \/ ToggleAutoSync \/ Logout \/ LeaveServer
      PROVE  FALSE
  BY <1>3 DEF Remove, ChangePassword, Tick, ToggleAutoSync, Logout, LeaveServer, session
<1>4. ASSUME NEW c \in Callers,
             StartPass(c) \/ StartCheck(c) \/ (\E org \in Orgs : StartSwitch(c, org)) \/ ServeCall(c)
             \/ LoseCall(c) \/ PassGoesOn(c) \/ PassEnds(c)
      PROVE  FALSE
  BY <1>4 DEF StartPass, StartCheck, StartSwitch, ServeCall, LoseCall, PassGoesOn, PassEnds, session
<1>5. ASSUME NEW c \in Callers, SwitchEnds(c) PROVE FALSE
  <2>1. calls[c].kind = "switch"
    BY <1>5 DEF SwitchEnds, Returned
  <2>2. calls[c].result = "ok" => calls[c].fresh \in Token
    BY <2>1, CallTokens DEF CallOK
  <2>. QED BY <1>5, <2>2, NoneAssumption DEF SwitchEnds
<1>6. ASSUME NEW r \in renewals, ServeRenewal(r) \/ LoseRenewal(r) PROVE FALSE
  BY <1>6 DEF ServeRenewal, LoseRenewal, session
<1>. QED BY <1>1, <1>2, <1>3, <1>4, <1>5, <1>6 DEF Next

LEMMA EndedIsRefused ==
  ASSUME IInv, [Next]_vars PROVE EndsOnlyWhenRefused
<1>. SUFFICES ASSUME Next, token # None, token' = None, user' # None PROVE ~Renews(token)
  BY DEF EndsOnlyWhenRefused, vars
<1>1. ASSUME NEW refused \in Token, ~Renews(refused), Invalidate(refused) PROVE ~Renews(token)
  BY <1>1 DEF Invalidate, Ends
<1>2. ASSUME NEW c \in Callers, ReceiveCall(c) PROVE ~Renews(token)
  <2>1. /\ calls[c].kind # "idle" /\ calls[c].stage = "answered"
    BY <1>2 DEF ReceiveCall, IdleCall
  <2>2. /\ calls[c].sent \in Token /\ CallIsRecent(calls[c]) /\ CallOK(calls[c])
    BY <2>1, CallTokens
  <2>3. CASE calls[c].reply = "ok"
    <3>1. token' = IF calls[c].kind = "check" THEN Renewed(calls[c].fresh, calls[c].first) ELSE token
      BY <1>2, <2>3 DEF ReceiveCall
    <3>2. calls[c].kind = "check" => calls[c].fresh # None
      BY <2>2, <2>3, NoneAssumption DEF CallOK
    <3>. QED BY <3>1, <3>2 DEF Renewed
  <2>4. CASE calls[c].reply = "unauthorized" /\ calls[c].retried
    <3>1. Invalidate(calls[c].sent)
      BY <1>2, <2>4 DEF ReceiveCall
    <3>2. Gone(calls[c].sent)
      BY <2>1, <2>2, <2>4 DEF CallIsRecent
    <3>3. ~Renews(calls[c].sent)
      BY <3>2 DEF Gone, Renews
    <3>. QED BY <1>1, <2>2, <3>1, <3>3
  <2>5. CASE calls[c].reply # "ok" /\ ~(calls[c].reply = "unauthorized" /\ calls[c].retried)
    BY <1>2, <2>5 DEF ReceiveCall, session
  <2>. QED BY <2>3, <2>4, <2>5
<1>3. ASSUME NEW c \in Callers, CheckEnds(c) PROVE ~Renews(token)
  <2>1. Current(c) /\ calls[c].result = "rejected" /\ calls[c].kind = "check"
    BY <1>3 DEF CheckEnds, Returned
  <2>2. CheckOK(c)
    BY DEF IInv, TokensOK, ChecksOK
  <2>. QED BY <2>1, <2>2 DEF CheckOK, Present, Current
<1>4. ASSUME NEW r \in renewals, ReceiveRenewal(r) PROVE ~Renews(token)
  <2>1. r \in Renewal /\ RenewalOK(r) /\ RenewalIsRecent(r)
    BY DEF IInv, Inv, RenewalsOK, TokensOK, RenewalsRecent
  <2>2. CASE r.stage = "granted"
    BY <1>4, <2>1, <2>2, NoneAssumption DEF ReceiveRenewal, Renewed, RenewalOK
  <2>3. CASE r.stage = "refused"
    <3>1. Invalidate(r.of) /\ ~Renews(r.of) /\ r.of \in Token
      BY <1>4, <2>1, <2>3 DEF ReceiveRenewal, RenewalIsRecent, Renewal
    <3>. QED BY <1>1, <3>1
  <2>4. CASE r.stage \notin {"granted", "refused"}
    BY <1>4, <2>4 DEF ReceiveRenewal, session
  <2>. QED BY <2>2, <2>3, <2>4
<1>. QED BY <1>2, <1>3, <1>4, WhoEndsTheSession

(* The session is the one the user asked for last: only that one is installed,  *)
(* an accepted sign-in that nothing replaced is, and the session ends by itself *)
(* only when the server would not renew its token any more (loginUser,          *)
(* switchOrganization, validateSession and the listeners of syncAuthSlice.ts).  *)
THEOREM SessionFollowsTheUser == Spec => FollowsTheUser
<1>1. IInv /\ [Next]_vars => [ChangesAsWished /\ SignInCompletes /\ EndsOnlyWhenRefused]_vars
  BY AccountIsWished, AcceptedIsInstalled, EndedIsRefused
<1>. QED BY <1>1, Invariant, PTL DEF Spec, FollowsTheUser

=============================================================================
