--------------------------- MODULE FeaturePolicy ---------------------------
(***************************************************************************)
(* The calculation policy of an organization: GET and PATCH                *)
(* /api/organization/features (organization.ts) and the copy each device   *)
(* keeps (featureSettingsSlice.ts, featurePolicyService.ts).               *)
(*                                                                         *)
(* modes[o] is every setting the organization ever had, the version being  *)
(* its length; only the last one is stored by the server.                  *)
(***************************************************************************)
EXTENDS Integers, Sequences

CONSTANTS
  Devices, Users, Orgs, None,
  MaxVersion,   \* bound: changes of one organization's policy
  MaxSessions,  \* bound: changes of the session of one device
  MaxAsks,      \* bound: requests of one device
  MaxEdicts     \* bound: changes of role

Modes == {"legacy", "self_consumption"}
Roles == {"none", "LECTOR", "EDITOR", "ADMIN"}

ASSUME FeaturePolicyAssumption ==
  /\ MaxVersion \in Nat \ {0}
  /\ MaxSessions \in Nat /\ MaxAsks \in Nat /\ MaxEdicts \in Nat

VARIABLES
  modes,     \* server: the settings of each organization, oldest first
  role,      \* server: what each user is in each organization
  edicts,    \* changes of role so far
  session,   \* syncSettings.currentUser of each device
  epoch,     \* sessionGeneration
  known,     \* organizationFeaturePolicies
  status,    \* featurePolicyRequest.status
  sequence,  \* requestSequence
  asks       \* requests under way

policyVars == <<modes, role, edicts, session, epoch, known, status, sequence, asks>>

Identity == [id: Users, org: Orgs]
Policy   == [version: Nat \ {0}, mode: Modes]
Ask      == [dev: Devices, seq: Nat, epoch: Nat, who: Identity,
             change: Policy \cup {None},  \* the mode wished and baseVersion
             stage: {"sent", "granted", "denied"}, answer: Policy \cup {None}]

PolicyInit ==
  /\ modes \in [Orgs -> {<<m>> : m \in Modes}]
  /\ role \in [Users \X Orgs -> Roles] /\ edicts = 0
  /\ session = [d \in Devices |-> None] /\ epoch = [d \in Devices |-> 0]
  /\ known = [d \in Devices |-> [o \in Orgs |-> None]]
  /\ status = [d \in Devices |-> "none"]
  /\ sequence = [d \in Devices |-> 0] /\ asks = {}

-----------------------------------------------------------------------------
(* The server. *)

\* authenticate: a token speaks for a membership that exists now.
RoleOf(who) == role[<<who.id, who.org>>]

\* Faulty: answers are taken in the order they come.
StillCurrentAnyOrder(a) == a.epoch = epoch[a.dev] /\ session[a.dev] = a.who

\* The row of the organization.
Current(o) == [version |-> Len(modes[o]), mode |-> modes[o][Len(modes[o])]]

\* PATCH: ADMIN, and the version the change was made against is the last.
Accepts(a) ==
  /\ RoleOf(a.who) = "ADMIN"
  /\ a.change.version = Len(modes[a.who.org])

Serve(a) ==
  LET org == a.who.org
      Reply(stage, r) ==
        asks' = (asks \ {a}) \cup {[a EXCEPT !.stage = stage, !.answer = r]}
  IN
  /\ a \in asks /\ a.stage = "sent"
  /\ \/ /\ RoleOf(a.who) # "none" /\ a.change = None
        /\ Reply("granted", Current(org)) /\ UNCHANGED modes
     \/ /\ a.change # None /\ Accepts(a) /\ Len(modes[org]) < MaxVersion
        /\ modes' = [modes EXCEPT ![org] = Append(@, a.change.mode)]
        /\ Reply("granted", [version |-> Len(modes[org]) + 1, mode |-> a.change.mode])
     \/ /\ \/ RoleOf(a.who) = "none"
           \/ a.change # None /\ ~Accepts(a)
        /\ Reply("denied", None) /\ UNCHANGED modes
  /\ UNCHANGED <<role, edicts, session, epoch, known, status, sequence>>

\* An administrator of the organization changes what a member is.
ChangeRole(u, o, r) ==
  /\ edicts < MaxEdicts /\ r # role[<<u, o>>]
  /\ role' = [role EXCEPT ![<<u, o>>] = r] /\ edicts' = edicts + 1
  /\ UNCHANGED <<modes, session, epoch, known, status, sequence, asks>>

-----------------------------------------------------------------------------
(* The device. *)

\* Sign-in, sign-out, a change of organization: the generation advances.
Become(d, who) ==
  /\ epoch[d] < MaxSessions /\ who # session[d]
  /\ who # None => RoleOf(who) # "none"
  /\ session' = [session EXCEPT ![d] = who]
  /\ epoch' = [epoch EXCEPT ![d] = @ + 1]
  /\ status' = [status EXCEPT ![d] = "none"]
  /\ UNCHANGED <<modes, role, edicts, known, sequence, asks>>

\* request(): a load, or a save of mode m.  A save without a policy the
\* server confirmed, or by one the device takes for no administrator, ends
\* in an error before it is sent.
Request(d, m) ==
  LET org == session[d].org
      Sent(change) ==
        /\ status' = [status EXCEPT ![d] = IF change = None THEN "loading" ELSE "saving"]
        /\ asks' = asks \cup {[dev |-> d, seq |-> sequence[d] + 1, epoch |-> epoch[d],
                               who |-> session[d], change |-> change,
                               stage |-> "sent", answer |-> None]}
  IN
  /\ session[d] # None /\ sequence[d] < MaxAsks
  /\ sequence' = [sequence EXCEPT ![d] = @ + 1]
  /\ \/ m = None /\ Sent(None)
     \/ /\ m # None /\ known[d][org] # None
        /\ Sent([version |-> known[d][org].version, mode |-> m])
     \/ /\ m # None
        /\ status' = [status EXCEPT ![d] = "error"] /\ UNCHANGED asks
  /\ UNCHANGED <<modes, role, edicts, session, epoch, known>>

StillCurrent(a) ==
  /\ a.epoch = epoch[a.dev] /\ a.seq = sequence[a.dev]
  /\ session[a.dev] = a.who

\* The answer arrives, or is lost on its way, before or after the server
\* acted on the request.
Receive(a) ==
  /\ a \in asks /\ asks' = asks \ {a}
  /\ \/ /\ StillCurrent(a) /\ a.stage = "granted"
        /\ known' = [known EXCEPT ![a.dev][a.who.org] = a.answer]
        /\ status' = [status EXCEPT ![a.dev] = "ready"]
     \/ /\ StillCurrent(a)
        /\ status' = [status EXCEPT ![a.dev] = "error"] /\ UNCHANGED known
     \/ ~StillCurrent(a) /\ UNCHANGED <<known, status>>
  /\ UNCHANGED <<modes, role, edicts, session, epoch, sequence>>

\* The policies are kept; the session's counters and what was under way are not.
ForgetRequests(d) ==
  /\ epoch[d] < MaxSessions
  /\ epoch' = [epoch EXCEPT ![d] = @ + 1]
  /\ status' = [status EXCEPT ![d] = "none"]
  /\ asks' = {a \in asks : a.dev # d}
  /\ UNCHANGED <<modes, role, edicts, session, known, sequence>>

PolicyNext ==
  \/ \E a \in asks : Serve(a) \/ Receive(a)
  \/ \E u \in Users, o \in Orgs, r \in Roles : ChangeRole(u, o, r)
  \/ \E d \in Devices :
       \/ \E who \in Identity \cup {None} : Become(d, who)
       \/ \E m \in Modes \cup {None} : Request(d, m)
       \/ ForgetRequests(d)

PolicySpec == PolicyInit /\ [][PolicyNext]_policyVars

-----------------------------------------------------------------------------
(* Properties. *)

PolicyTypeOK ==
  /\ modes \in [Orgs -> Seq(Modes)] /\ \A o \in Orgs : Len(modes[o]) \in 1 .. MaxVersion
  /\ role \in [Users \X Orgs -> Roles] /\ edicts \in 0 .. MaxEdicts
  /\ session \in [Devices -> Identity \cup {None}] /\ epoch \in [Devices -> 0 .. MaxSessions]
  /\ known \in [Devices -> [Orgs -> Policy \cup {None}]]
  /\ status \in [Devices -> {"none", "loading", "saving", "ready", "error"}]
  /\ sequence \in [Devices -> 0 .. MaxAsks] /\ asks \subseteq Ask

\* The policy a device calculates with was the organization's: version and
\* mode belong together, also when two administrators save at once, the
\* answer of one organization arrives in another or an answer is lost.
KnownWasInForce ==
  \A d \in Devices, o \in Orgs : known[d][o] # None =>
    /\ known[d][o].version <= Len(modes[o])
    /\ known[d][o].mode = modes[o][known[d][o].version]

\* What a device knows of an organization's policy never goes back: the
\* answer of an older request is dropped, whatever order answers come in.
KnownNeverGoesBack ==
  [][\A d \in Devices, o \in Orgs :
       known[d][o] # None => known'[d][o].version >= known[d][o].version]_policyVars
=============================================================================
