----------------------------- MODULE AgentTools -----------------------------
(***************************************************************************)
(* The tools an assistant or an external agent calls on the proposals of a *)
(* workspace (registry.ts): a call is checked against the policy of the    *)
(* device, prepared, and then applied, queued for the user's confirmation  *)
(* or refused.  The queue, the confirmation and the undo are agentSlice.ts.*)
(*                                                                         *)
(* Preparing awaits, and a queued change waits for minutes: meanwhile the  *)
(* policy, the session, the role, the workspace and the proposal change.   *)
(***************************************************************************)
EXTENDS Naturals, Sequences, SequencesExt, FiniteSets

CONSTANTS
  Users, Docs, Calls, Null,
  Seen,       \* the proposals every workspace begins with
  OrgOf,      \* the organization of each user
  Offered,    \* bound: the tools called
  Asking,     \* bound: the surfaces that call them
  MaxPending, \* MAX_PENDING of the code
  MaxActivity,\* MAX_AGENT_ACTIVITY of the code
  MaxStamp,   \* bound: changes made to proposals and plans prepared
  MaxTurns    \* bound: changes of policy, session, role, and restarts

ASSUME AgentAssumption ==
  /\ Seen \subseteq Docs
  /\ Null \notin Users \cup Docs
  /\ \A u \in Users : OrgOf[u] # "local"
  /\ MaxPending \in Nat \ {0} /\ MaxActivity \in Nat \ {0}
  /\ MaxStamp \in Nat /\ MaxTurns \in Nat

VARIABLES
  policy,    \* what the device allows to agents
  session,   \* who is signed in, whether the token is valid and may write
  gen,       \* sessionGeneration
  scope,     \* the workspace on display
  projects,  \* the proposals of each workspace
  open,      \* the open proposal of each workspace
  activity,  \* what agents did in each workspace, newest first
  pending,   \* pendingAgentActions
  underway,  \* calls under way
  stamp, turns

agentVars == <<policy, session, gen, scope, projects, open, activity, pending, underway, stamp, turns>>
place == <<policy, session, gen, scope, turns>>

Sources == {"app-assistant", "proposal-assistant", "mcp"}
Kinds   == {"draft", "guarded"}
Levels  == {"allow", "confirm", "deny"}
Scopes  == {"local"} \cup {OrgOf[u] : u \in Users}

\* The tools that change a proposal, one of each sort: the section it writes, how
\* it is undone, and whether its plan revalidates itself ("native") or goes through
\* the assistant's planner again.  The planner's tool is listed twice, without and
\* with fields of the price.
Tool ==
  LET writes(kind, native, part) == [kind |-> kind, native |-> native, undo |-> "fields", part |-> part] IN
  [set_document_text       |-> writes("draft", TRUE, "content"),
   attach_file_to_proposal |-> writes("draft", TRUE, "content"),
   apply_proposal_draft    |-> writes("draft", TRUE, "content"),
   set_proposal_status     |-> writes("guarded", TRUE, "status"),
   propose_project_update  |-> writes("draft", FALSE, "content"),
   propose_project_prices  |-> writes("guarded", FALSE, "content"),
   add_commercial_report   |-> [kind |-> "guarded", native |-> TRUE, undo |-> "none", part |-> "status"],
   create_proposal         |-> [kind |-> "draft", native |-> TRUE, undo |-> "trash", part |-> "none"],
   move_proposal_to_trash  |-> [kind |-> "guarded", native |-> TRUE, undo |-> "restore", part |-> "none"]]
ToolNames == DOMAIN Tool

ASSUME OfferAssumption == Offered \subseteq ToolNames /\ Asking \subseteq Sources

\* The tools each surface calls: the proposal assistant only its own.
Surfaces(t) == IF t = "apply_proposal_draft" THEN {"proposal-assistant"} ELSE {"app-assistant", "mcp"}

\* Tools that bypass mode never spares the confirmation.
Exempt == {"add_commercial_report"}

Absent  == [there |-> FALSE, deleted |-> FALSE, conflict |-> FALSE, content |-> 0, status |-> 0]
Project == [there: BOOLEAN, deleted: BOOLEAN, conflict: BOOLEAN, content: 0..MaxStamp, status: 0..MaxStamp]
Session == [user: Users \cup {Null}, token: BOOLEAN, writer: BOOLEAN]
\* assistantOwner(): workspace, user, role and generation.
Owners  == [scope: Scopes, user: Users \cup {Null}, writer: BOOLEAN, gen: 0..MaxTurns]
Owner   == [scope |-> scope, user |-> session.user, writer |-> session.writer, gen |-> gen]
Plans   == [id: 1..MaxStamp, tool: ToolNames, kind: Kinds, source: Sources, doc: Docs,
            owner: Owners, seen: Project]
NoCall  == [at |-> "none"]

PolicyKey(s) == IF s = "mcp" THEN "external" ELSE "internal"
Level(s, k)  == policy[PolicyKey(s)][k]

AgentTypeOK ==
  /\ policy \in [{"internal", "external"} -> [Kinds -> Levels]]
  /\ session \in Session /\ gen \in 0..MaxTurns /\ scope \in Scopes
  /\ projects \in [Scopes -> [Docs -> Project]]
  /\ open \in [Scopes -> Docs \cup {Null}]
  /\ \A s \in Scopes : Len(activity[s]) <= MaxActivity
  /\ Len(pending) <= MaxPending
  /\ \A i \in DOMAIN pending :
       /\ pending[i].plan \in Plans
       /\ pending[i].status \in {"pending", "applied", "rejected", "expired", "failed"}
  /\ \A c \in Calls : underway[c].at \in {"none", "asked", "preparing"}
  /\ stamp \in 0..MaxStamp /\ turns \in 0..MaxTurns

AgentInit ==
  /\ policy = [k \in {"internal", "external"} |-> [draft |-> "allow", guarded |-> "confirm"]]
  /\ session = [user |-> Null, token |-> FALSE, writer |-> TRUE]
  /\ gen = 0 /\ scope = "local"
  /\ projects = [s \in Scopes |-> [d \in Docs |-> [Absent EXCEPT !.there = d \in Seen]]]
  /\ open = [s \in Scopes |-> Null]
  /\ activity = [s \in Scopes |-> <<>>]
  /\ pending = <<>>
  /\ underway = [c \in Calls |-> NoCall]
  /\ stamp = 0 /\ turns = 0

-----------------------------------------------------------------------------
(* The workspace on display, and changes of a proposal. *)

Here(d) == projects[scope][d]

\* A role that may write, with a valid session; without account, this device.
CanWriteNow == session.user = Null \/ (session.token /\ session.writer)
Reachable   == session.user = Null \/ session.token

Visible(d)  == Here(d).there /\ ~Here(d).deleted /\ Reachable
Editable(d) == Visible(d) /\ CanWriteNow /\ ~Here(d).conflict

\* Every local change leaves the proposal pending, whatever it was.
Written(p, part, v) ==
  IF part = "content" THEN [p EXCEPT !.content = v, !.conflict = FALSE]
                      ELSE [p EXCEPT !.status = v, !.conflict = FALSE]
Put(d, p) == projects' = [projects EXCEPT ![scope][d] = p]

OpenAfterTrash(d) ==
  LET left == {x \in Docs : projects[scope][x].there /\ ~projects[scope][x].deleted} \ {d} IN
  IF open[scope] # d THEN open' = open
  ELSE IF left = {} THEN open' = [open EXCEPT ![scope] = Null]
  ELSE \E x \in left : open' = [open EXCEPT ![scope] = x]

MoveToTrash(d) ==
  /\ Put(d, [Here(d) EXCEPT !.deleted = TRUE, !.conflict = FALSE])
  /\ OpenAfterTrash(d)

RestoreProject(d) ==
  /\ Put(d, [Here(d) EXCEPT !.deleted = FALSE, !.conflict = FALSE])
  /\ open' = [open EXCEPT ![scope] = d]

-----------------------------------------------------------------------------
(* What a plan needs when it is prepared, and again when it is applied. *)

DraftApplies(d) == open[scope] = d /\ Here(d).there /\ ~Here(d).deleted /\ session.writer

\* The planner of the assistant edits the open proposal, for its owner only.
Proposes(d, owner) == owner = Owner /\ Editable(d) /\ open[scope] = d

Prepares(t, d, owner) ==
  CASE t = "create_proposal"  -> CanWriteNow /\ ~Here(d).there
    [] t = "apply_proposal_draft"      -> DraftApplies(d)
    [] Tool[t].native /\ t \notin {"create_proposal", "apply_proposal_draft"} -> Editable(d)
    [] ~Tool[t].native        -> Proposes(d, owner)

\* The proposal a plan writes: a new one (of those the bound leaves), the one
\* open by then, or the one it names.
Targets(p) ==
  CASE p.tool = "create_proposal" -> {x \in Docs : ~Here(x).there}
    [] p.tool = "apply_proposal_draft"     -> {open[scope]} \ {Null}
    [] OTHER                      -> {p.doc}

\* A plan of the assistant's planner also finds the proposal as it saw it.
Applicable(p) ==
  /\ \E d \in Targets(p) : Prepares(p.tool, d, p.owner)
  /\ Tool[p.tool].native \/ Here(p.doc) = p.seen

\* An entry keeps what undo needs; "asked" is auxiliary.
Entry(p, d, before) ==
  [id |-> p.id, tool |-> p.tool, kind |-> p.kind, source |-> p.source, doc |-> d,
   before |-> before, after |-> p.id, status |-> "applied", asked |-> p.owner]

Newest(s, most) == SubSeq(s, 1, IF Len(s) < most THEN Len(s) ELSE most)
Record(e) == activity' = [activity EXCEPT ![scope] = Newest(<<e>> \o @, MaxActivity)]

\* runNativePlan, applyPlan: the change, and the activity that tells of it.
Apply(p) == \E d \in Targets(p) :
  LET part == Tool[p.tool].part IN
  /\ CASE p.tool = "create_proposal" ->
            /\ Put(d, [Absent EXCEPT !.there = TRUE, !.content = p.id, !.status = p.id])
            /\ open' = open
       [] p.tool = "move_proposal_to_trash" -> MoveToTrash(d)
       [] part # "none" -> Put(d, Written(Here(d), part, p.id)) /\ open' = open
  /\ Record(Entry(p, d, IF part = "status" THEN Here(d).status ELSE Here(d).content))

\* queueAgentAction: the newest first, and the oldest is let go.
Queue(p) ==
  pending' = Newest(<<[plan |-> p, status |-> "pending", late |-> FALSE]>> \o pending, MaxPending)

-----------------------------------------------------------------------------
(* A call. *)

\* The general assistant captures its owner when the user sends the message.
AskAssistant(c) ==
  /\ "app-assistant" \in Asking /\ underway[c].at = "none" /\ stamp < MaxStamp
  /\ underway' = [underway EXCEPT ![c] = [at |-> "asked", owner |-> Owner]]
  /\ UNCHANGED <<place, projects, open, activity, pending, stamp>>

\* Without the user's click, if the policy of today allows it.
GoesAhead(p) ==
  \/ p.kind = "draft" /\ Level(p.source, "draft") = "allow"
  \/ p.kind = "draft" /\ Level(p.source, "draft") = "confirm" /\ p.source = "proposal-assistant"
  \/ p.kind = "guarded" /\ Level(p.source, "guarded") = "allow" /\ p.tool \notin Exempt

Denied(p) == Level(p.source, p.kind) = "deny"

\* Applied, refused by its own revalidation, or queued.
SettlePlan(p) ==
  IF GoesAhead(p)
  THEN /\ pending' = pending
       /\ IF Applicable(p) THEN Apply(p) ELSE UNCHANGED <<projects, open, activity>>
  ELSE Queue(p) /\ UNCHANGED <<projects, open, activity>>

EndCall(c) == underway' = [underway EXCEPT ![c] = NoCall]
Refuse(c) == EndCall(c) /\ UNCHANGED <<projects, open, activity, pending, stamp>>

\* executeAgentTool: the policy, and the preparation up to its first await.  A
\* plan of the assistant's planner has none and is settled at once.
Start(c, source, t, d) ==
  LET owner == IF source = "app-assistant" THEN underway[c].owner ELSE Owner
      p == [id |-> stamp + 1, tool |-> t, kind |-> Tool[t].kind, source |-> source,
            doc |-> d, owner |-> owner, seen |-> Here(d)]
      ready == owner = Owner /\ Level(source, "draft") # "deny" /\ Prepares(t, d, owner)
      readyNative == owner = Owner /\ ~Denied(p) /\ Prepares(t, d, owner)
  IN
  /\ stamp < MaxStamp
  /\ source \in Surfaces(t)
  /\ underway[c].at = (IF source = "app-assistant" THEN "asked" ELSE "none")
  /\ UNCHANGED place
  /\ \/ /\ Tool[t].native /\ readyNative
        /\ underway' = [underway EXCEPT ![c] = [at |-> "preparing", plan |-> p]]
        /\ stamp' = stamp + 1
        /\ UNCHANGED <<projects, open, activity, pending>>
     \/ /\ ~Tool[t].native /\ ready /\ ~Denied(p)
        /\ EndCall(c) /\ stamp' = stamp + 1 /\ SettlePlan(p)
     \/ /\ IF Tool[t].native THEN ~readyNative ELSE ~(ready /\ ~Denied(p))
        /\ underway[c].at = "asked" /\ Refuse(c)

\* executeNative after its await: cancelled, of another session, denied today,
\* of an account that may no longer write, or settled.
StillAllowed(p) == p.owner = Owner /\ ~Denied(p) /\ CanWriteNow
Finish(c) ==
  /\ underway[c].at = "preparing"
  /\ UNCHANGED place
  /\ \/ StillAllowed(underway[c].plan) /\ EndCall(c) /\ SettlePlan(underway[c].plan) /\ UNCHANGED stamp
     \/ ~StillAllowed(underway[c].plan) /\ Refuse(c)

\* The user cancels the conversation: its signal is aborted.
Cancel(c) ==
  /\ underway[c].at = "asked" \/ (underway[c].at = "preparing" /\ underway[c].plan.source = "app-assistant")
  /\ Refuse(c) /\ UNCHANGED place

-----------------------------------------------------------------------------
(* The user: confirmation, rejection, undo. *)

Decidable(a) == a.status = "pending"

\* Faulty: the policy counts when the action is queued only.
ConfirmableAsQueued(p) == CanWriteNow /\ Applicable(p)
Confirmable(p) == ~Denied(p) /\ CanWriteNow /\ Applicable(p)

SetPending(i, status) == pending' = [pending EXCEPT ![i].status = status]

\* Confirming is a new write: today's policy, account and proposal.
Confirm(i) ==
  LET p == pending[i].plan IN
  /\ Decidable(pending[i])
  /\ UNCHANGED <<place, underway, stamp>>
  /\ \/ /\ pending[i].late
        /\ SetPending(i, "expired") /\ UNCHANGED <<projects, open, activity>>
     \/ /\ ~pending[i].late /\ Confirmable(p)
        /\ Apply(p) /\ SetPending(i, "applied")
     \/ /\ ~pending[i].late /\ ~Confirmable(p)
        /\ SetPending(i, "failed") /\ UNCHANGED <<projects, open, activity>>

Reject(i) ==
  /\ pending[i].status = "pending"
  /\ SetPending(i, "rejected")
  /\ UNCHANGED <<place, projects, open, activity, underway, stamp>>

\* Ten minutes pass for an action, and for those queued before it.
Expire(i) ==
  /\ ~pending[i].late
  /\ pending' = [j \in DOMAIN pending |-> IF j >= i THEN [pending[j] EXCEPT !.late = TRUE] ELSE pending[j]]
  /\ UNCHANGED <<place, projects, open, activity, underway, stamp>>

\* Undo of fields: while the proposal still has what the agent left.
\* Faulty: undo does not look at what the proposal holds now.
UnchangedOrNot(e) == TRUE
Unchanged(e) ==
  LET now == Here(e.doc) IN
  IF Tool[e.tool].part = "status" THEN now.status = e.after ELSE now.content = e.after

Undo(i) ==
  LET e == activity[scope][i]  how == Tool[e.tool].undo  d == e.doc IN
  /\ e.status = "applied" /\ how # "none" /\ CanWriteNow /\ Here(d).there
  /\ CASE how = "trash"   -> MoveToTrash(d)
       [] how = "restore" -> RestoreProject(d)
       [] how = "fields"  ->
            /\ ~Here(d).deleted /\ ~Here(d).conflict /\ Unchanged(e)
            /\ Put(d, Written(Here(d), Tool[e.tool].part, e.before)) /\ open' = open
  /\ activity' = [activity EXCEPT ![scope][i].status = "undone"]
  /\ UNCHANGED <<place, pending, underway, stamp>>

-----------------------------------------------------------------------------
(* The rest of the application. *)

\* The user or a synchronisation writes a section.
Edit(d, part) ==
  /\ stamp < MaxStamp /\ Here(d).there /\ ~Here(d).deleted
  /\ stamp' = stamp + 1
  /\ Put(d, Written(Here(d), part, stamp + 1))
  /\ UNCHANGED <<place, open, activity, pending, underway>>

OpenProject(d) ==
  /\ Here(d).there /\ ~Here(d).deleted /\ open[scope] # d
  /\ open' = [open EXCEPT ![scope] = d]
  /\ UNCHANGED <<place, projects, activity, pending, underway, stamp>>

Turn == turns < MaxTurns /\ turns' = turns + 1

\* The server refuses a revision: the proposal is in conflict.
Conflict(d) ==
  /\ Turn /\ Here(d).there /\ session.token
  /\ Put(d, [Here(d) EXCEPT !.conflict = TRUE])
  /\ UNCHANGED <<policy, session, gen, scope, open, activity, pending, underway, stamp>>

SetPolicy(key, kind, level) ==
  /\ Turn /\ policy[key][kind] # level
  /\ policy' = [policy EXCEPT ![key][kind] = level]
  /\ UNCHANGED <<session, gen, scope, projects, open, activity, pending, underway, stamp>>

\* Another workspace begins with no action waiting.
\* Faulty: the actions follow to the next workspace.
QueueKept(next) == pending
QueueIn(next) == IF next = scope THEN pending ELSE <<>>

Enter(s, next) ==
  /\ Turn
  /\ session' = s /\ gen' = gen + 1 /\ scope' = next
  /\ pending' = QueueIn(next)
  /\ UNCHANGED <<policy, projects, open, activity, underway, stamp>>

\* Sign-in, offered while there is no valid session.
SignIn(u, writer) ==
  /\ ~session.token
  /\ Enter([user |-> u, token |-> TRUE, writer |-> writer], OrgOf[u])

SignOut ==
  /\ session.user # Null
  /\ Enter([user |-> Null, token |-> FALSE, writer |-> TRUE], "local")

\* The server rejects the token: the user and the workspace stay on display.
SessionDies ==
  /\ session.token
  /\ Enter([session EXCEPT !.token = FALSE], scope)

\* The server tells another role of the same user.
RoleChanges ==
  /\ Turn /\ session.token
  /\ session' = [session EXCEPT !.writer = ~@]
  /\ UNCHANGED <<policy, gen, scope, projects, open, activity, pending, underway, stamp>>

\* Closing the application: the queue is not persisted, the calls end.
Reload ==
  /\ Turn
  /\ pending' = <<>> /\ underway' = [c \in Calls |-> NoCall] /\ gen' = 0
  /\ UNCHANGED <<policy, session, scope, projects, open, activity, stamp>>

AgentNext ==
  \/ \E c \in Calls : AskAssistant(c) \/ Finish(c) \/ Cancel(c)
  \/ \E c \in Calls, s \in Asking, t \in Offered, d \in Docs : Start(c, s, t, d)
  \/ \E i \in DOMAIN pending : Confirm(i) \/ Reject(i) \/ Expire(i)
  \/ \E i \in DOMAIN activity[scope] : Undo(i)
  \/ \E d \in Docs, part \in {"content", "status"} : Edit(d, part)
  \/ \E d \in Docs : OpenProject(d) \/ Conflict(d)
  \/ \E key \in {"internal", "external"}, kind \in Kinds, level \in Levels : SetPolicy(key, kind, level)
  \/ \E u \in Users, w \in BOOLEAN : SignIn(u, w)
  \/ SignOut \/ SessionDies \/ RoleChanges \/ Reload

AgentSpec == AgentInit /\ [][AgentNext]_agentVars

-----------------------------------------------------------------------------
(* What the tools promise. *)

New(s) == {e \in ToSet(activity'[s]) : \A o \in ToSet(activity[s]) : o.id # e.id}

\* A change is made in the workspace it was asked for, however long the plan
\* waited and whoever signed in and out meanwhile (registry.ts, the queue of
\* agentSlice.ts, changeWorkspace).
ChangesWhereAsked ==
  \A s \in Scopes : \A e \in ToSet(activity[s]) : e.asked.scope = s

\* The plan of one call changes the workspace once: it is not applied again by a
\* second confirmation, nor confirmed after it was applied at once.
PlanAppliedOnce ==
  \A s \in Scopes : \A i, j \in DOMAIN activity[s] : activity[s][i].id = activity[s][j].id => i = j

\* The state has the code's shape, and every plan changes at most the workspace
\* it was asked in, and once.
AgentInv == AgentTypeOK /\ ChangesWhereAsked /\ PlanAppliedOnce

\* A change is made with the policy and the role of that moment, and what waits
\* for the user is made by a confirmation that came in time: a policy read
\* before an await or when the action was queued does not count.
AgentActsAsAllowed == [][
  \A s \in Scopes : \A e \in New(s) :
    /\ s = scope /\ CanWriteNow
    /\ policy[PolicyKey(e.source)][e.kind] # "deny"
    /\ \/ policy[PolicyKey(e.source)][e.kind] = "allow" /\ e.tool \notin Exempt
       \/ e.kind = "draft" /\ e.source = "proposal-assistant"
       \/ \E i \in DOMAIN pending : /\ pending[i].plan.id = e.id /\ ~pending[i].late
                                    /\ pending[i].status = "pending" /\ pending'[i].status = "applied"
  ]_agentVars

\* Undoing a change of fields takes back that change and no later work: the
\* section still held what the agent wrote, and gets back what it held before.
UndoTakesBackItsOwn == [][
  \A s \in Scopes : \A i \in DOMAIN activity[s] :
    LET e == activity[s][i]  p == projects[s][e.doc]  q == projects'[s][e.doc] IN
    e.status = "applied" /\ i \in DOMAIN activity'[s] /\ activity'[s][i] = [e EXCEPT !.status = "undone"] =>
      /\ \A d \in Docs \ {e.doc} : projects'[s][d] = projects[s][d]
      /\ p.content # q.content => p.content = e.id /\ q.content = e.before
      /\ p.status # q.status => p.status = e.id /\ q.status = e.before
  ]_agentVars
==============================================================================
