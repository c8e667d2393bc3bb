---------------------------- MODULE ProjectSync ----------------------------
(***************************************************************************)
(* One project as the devices of an organization work on it: edits, trash  *)
(* and permanent deletion on every device, syncProjectsWithServer with its *)
(* awaits, and the server's answers (syncAuthSlice.ts, sync/*.ts,          *)
(* versionHistorySlice.ts, projectSlice.ts).                               *)
(*                                                                         *)
(* A device is single threaded: an action is what it does between two      *)
(* awaits.  Between them the user edits, the other devices write, and a    *)
(* request may be lost, answered after the device gave up on it, or never  *)
(* answered.  The items of a batch do not depend on each other, so the     *)
(* life of one id is followed; a copy made under a new id is work that is  *)
(* kept.  Every device may write.                                          *)
(*                                                                         *)
(* One client of the directory is followed with it, the one the project    *)
(* may be linked to: published at the start, it may be deleted.  The link  *)
(* is content, and the pass over the clients, which a run makes before its *)
(* pull, takes it from a copy without moving its status or its base.       *)
(***************************************************************************)
EXTENDS Integers, Sequences, FiniteSets

CONSTANTS
  Devices,
  Bodies,     \* editable contents
  None,
  Started,    \* whether the project is published and downloaded at the start
  MaxOps,     \* bound: steps of users and of other writers
  MaxLate     \* bound: requests given up on that may still arrive, per device

ASSUME SyncAssumption ==
  /\ None \notin Devices \cup Bodies
  /\ Started \in BOOLEAN
  /\ MaxOps \in Nat /\ MaxLate \in Nat

VARIABLES
  published,  \* the server: versions 1, 2, ... and their authors; the row is
              \* the last, the earlier ones record what devices may still hold
  purged,     \* the server: the row is gone and the id has a tombstone
  clientGone, \* the server: the client is deleted
  local,      \* per device: its copy of the project, or None
  queue,      \* projectDeletionQueue: its command, or None
  conflict,   \* projectConflicts: the server side of the conflict, or None
  kept,       \* bodies in the local version history or in copies
  told,       \* the devices whose directory has dropped the client
  sync,       \* the run of syncProjectsWithServer
  requests,   \* push and delete requests the server has not handled
  seen,       \* auxiliary: the newest version the device has shown
  ops         \* auxiliary: steps counted against MaxOps

vars == <<published, purged, clientGone, local, queue, conflict, kept, told,
          sync, requests, seen, ops>>
server == <<published, purged, clientGone>>
device == <<local, queue, conflict, kept, told>>

Content == [body: Bodies, linked: BOOLEAN, trashed: BOOLEAN]
Copy    == [status: {"pending", "synced", "conflict"}, content: Content,
            base: Nat]
Command == [base: Nat, stage: {"trash", "delete"}, body: Bodies,
            linked: BOOLEAN]
Card    == [version: Nat, content: Content \cup {None}]
Answer  == [version: Nat, content: Content \cup {None}, purged: BOOLEAN]
Outcome == [status: {"saved", "conflict", "deleted", "refused"},
            version: Nat, content: Content \cup {None}]
Phases  == {"idle", "pulling", "trashing", "removing", "rereading", "pushing"}
Run     == [phase: Phases, pull: Answer \cup {None},
            reply: Outcome \cup {None}, touched: BOOLEAN]
Request == [from: Devices, kind: {"push", "remove"}, base: Nat,
            content: Content \cup {None}, awaited: BOOLEAN]

Entry   == [content: Content, by: Devices \cup {None}]

\* null is not an object.
ASSUME NoneAssumption ==
  None \notin Content \cup Copy \cup Command \cup Card \cup Answer \cup Outcome

Version == Len(published)
Row     == published[Version].content

Enter(phase) ==
  [phase |-> phase, pull |-> None, reply |-> None, touched |-> FALSE]

Idle == Enter("idle")

Later(v, w) == IF w > v THEN w ELSE v

SyncedCopy(version, content) ==
  [status |-> "synced", content |-> content, base |-> version]

Init ==
  /\ purged = FALSE
  /\ clientGone = FALSE
  /\ told = {}
  /\ queue = [d \in Devices |-> None]
  /\ conflict = [d \in Devices |-> None]
  /\ kept = [d \in Devices |-> {}]
  /\ sync = [d \in Devices |-> Idle]
  /\ requests = {}
  /\ ops = 0
  /\ \/ /\ ~Started
        /\ published = <<>>
        /\ local = [d \in Devices |-> None]
        /\ seen = [d \in Devices |-> 0]
     \/ \E body \in Bodies, linked \in BOOLEAN :
          LET content == [body |-> body, linked |-> linked, trashed |-> FALSE] IN
          /\ Started
          /\ published = <<[content |-> content, by |-> None]>>
          /\ local = [d \in Devices |-> SyncedCopy(1, content)]
          /\ seen = [d \in Devices |-> 1]

-----------------------------------------------------------------------------
(* The user of a device.                                                   *)

Spend == ops < MaxOps /\ ops' = ops + 1

\* Every edit makes a new document object, which is how the acknowledgement
\* of a push in flight finds out that the document changed after it was sent.
Touch(d) == sync' = [sync EXCEPT ![d].touched = @ \/ sync[d].phase = "pushing"]

Unused ==
  /\ published = <<>> /\ ~purged /\ requests = {}
  /\ \A d \in Devices : local[d] = None /\ queue[d] = None /\ kept[d] = {}

\* A duplicate is created with the link of its original.
CreateProject(d, body, linked) ==
  /\ Unused
  /\ Spend
  /\ local' = [local EXCEPT ![d] =
       [status |-> "pending", base |-> 0,
        content |-> [body |-> body, linked |-> linked, trashed |-> FALSE]]]
  /\ UNCHANGED <<server, queue, conflict, kept, told, sync, requests, seen>>

\* projectMutationMetadata: the last confirmed revision stays the base.
Mutated(copy, content) ==
  [status |-> "pending", content |-> content, base |-> copy.base]

Mutate(d, content) ==
  /\ Spend
  /\ local' = [local EXCEPT ![d] = Mutated(@, content)]
  /\ Touch(d)
  /\ UNCHANGED <<server, queue, conflict, told, requests, seen>>

\* Editing, undo and redo refuse a project in the trash.
Edit(d, body) ==
  /\ local[d] # None
  /\ ~local[d].content.trashed
  /\ Mutate(d, [local[d].content EXCEPT !.body = body])
  /\ UNCHANGED kept

\* linkProposalToClient: to a client that the directory of the device lists,
\* and not before a conflict is resolved.
LinkProposal(d, linked) ==
  /\ local[d] # None
  /\ ~local[d].content.trashed /\ local[d].status # "conflict"
  /\ linked => d \notin told
  /\ local[d].content.linked # linked
  /\ Mutate(d, [local[d].content EXCEPT !.linked = linked])
  /\ UNCHANGED kept

SetProjectStatus(d, body) ==
  /\ local[d] # None
  /\ Mutate(d, [local[d].content EXCEPT !.body = body])
  /\ UNCHANGED kept

\* The current body goes to the local history first; the link stays.
RestoreSnapshot(d, body) ==
  /\ local[d] # None
  /\ body \in kept[d]
  /\ kept' = [kept EXCEPT ![d] = @ \cup {local[d].content.body}]
  /\ Mutate(d, [local[d].content EXCEPT !.body = body])

MoveToTrash(d) ==
  /\ local[d] # None
  /\ Mutate(d, [local[d].content EXCEPT !.trashed = TRUE])
  /\ UNCHANGED kept

RestoreProject(d) ==
  /\ local[d] # None
  /\ Mutate(d, [local[d].content EXCEPT !.trashed = FALSE])
  /\ UNCHANGED kept

\* createProjectDeletion: only a confirmed trash document skips the trash.
Deletion(copy) ==
  [base |-> copy.base, body |-> copy.content.body,
   linked |-> copy.content.linked,
   stage |-> IF copy.status = "synced" /\ copy.content.trashed
             THEN "delete" ELSE "trash"]

HardDeleteProject(d) ==
  /\ local[d] # None
  /\ Spend
  /\ queue' = [queue EXCEPT ![d] = Deletion(local[d])]
  /\ local' = [local EXCEPT ![d] = None]
  /\ Touch(d)
  /\ UNCHANGED <<server, conflict, kept, told, requests, seen>>

-----------------------------------------------------------------------------
(* Conflicts.                                                              *)

DeletedCard == [version |-> 0, content |-> None]

CardOf(version, content) == [version |-> version, content |-> content]

\* openProjectConflict shows what a pull answered: any version published
\* since it was sent, or the deletion.
OpenConflict(d) ==
  /\ local[d] # None /\ local[d].status = "conflict"
  /\ \/ /\ purged
        /\ conflict' = [conflict EXCEPT ![d] = DeletedCard]
        /\ UNCHANGED seen
     \/ \E v \in 1..Version :
          /\ conflict' = [conflict EXCEPT ![d] =
               CardOf(v, published[v].content)]
          /\ seen' = [seen EXCEPT ![d] = Later(@, v)]
  /\ UNCHANGED <<server, local, queue, kept, told, sync, requests, ops>>

SnapshotBefore(d) == kept[d] \cup {local[d].content.body}

\* The guard asks for a conflict that was opened, not for the status of the
\* copy: that may have changed since.  Only a fork answers a deletion; the
\* copy it makes under a new id is kept, the original leaves the list.
ResolveConflict(d, resolution) ==
  /\ local[d] # None /\ conflict[d] # None
  /\ conflict[d].content = None => resolution = "fork"
  /\ Spend
  /\ kept' = [kept EXCEPT ![d] = SnapshotBefore(d)]
  /\ local' = [local EXCEPT ![d] =
       IF conflict[d].content = None THEN None
       ELSE IF resolution = "keep_local"
       THEN [status |-> "pending", content |-> @.content,
             base |-> conflict[d].version]
       ELSE [status |-> "synced", content |-> conflict[d].content,
             base |-> conflict[d].version]]
  /\ conflict' = [conflict EXCEPT ![d] = None]
  /\ Touch(d)
  /\ UNCHANGED <<server, queue, told, requests, seen>>

-----------------------------------------------------------------------------
(* The pass over the clients.                                              *)

Unlinked(content) == [content EXCEPT !.linked = FALSE]

\* Faulty: the unlinked copy moves to the version the server must be at.
RevisionInferred(copy) == [copy EXCEPT !.content.linked = FALSE, !.base = @ + 1]

\* unlinkDeleted: the link goes, the status and the base stay.
LinkDropped(copy) == [copy EXCEPT !.content = Unlinked(@)]

LinkedCopy(d) == local[d] # None /\ local[d].content.linked

\* The end of a pass whose list, or whose own DELETE, told of the deletion: the
\* pass a run makes before its pull, or one that a change of a client began at
\* any time.  A run goes on when its pass fails, and a list may be older than
\* the deletion: nothing says that the link is gone before the push.
UnlinkDeleted(d) ==
  /\ clientGone
  /\ d \notin told \/ LinkedCopy(d)
  /\ told' = told \cup {d}
  /\ \/ /\ LinkedCopy(d)
        /\ local' = [local EXCEPT ![d] = LinkDropped(@)]
        /\ Touch(d)
     \/ ~LinkedCopy(d) /\ UNCHANGED <<local, sync>>
  /\ UNCHANGED <<server, queue, conflict, kept, requests, seen, ops>>

-----------------------------------------------------------------------------
(* syncProjectsWithServer on a device: sending.                            *)

Ask(d, kind, base, content) ==
  [from |-> d, kind |-> kind, base |-> base, content |-> content,
   awaited |-> TRUE]

\* The document of a command, which no pass over the clients touches.
InTrash(command) ==
  [body |-> command.body, linked |-> command.linked, trashed |-> TRUE]

AskTrash(d, command) ==
  Ask(d, "push", command.base, InTrash(command))

AskRemove(d, command) ==
  Ask(d, "remove", command.base, None)

StartSync(d) ==
  /\ sync[d].phase = "idle"
  /\ sync' = [sync EXCEPT ![d] = Enter("pulling")]
  /\ UNCHANGED <<server, device, requests, seen, ops>>

\* The server answers a pull with its row and its tombstone.
AnswerPull(d) ==
  /\ sync[d].phase \in {"pulling", "rereading"}
  /\ sync[d].pull = None
  /\ sync' = [sync EXCEPT ![d].pull =
       [version |-> IF purged THEN 0 ELSE Version, purged |-> purged,
        content |-> IF purged \/ Version = 0 THEN None ELSE Row]]
  /\ UNCHANGED <<server, device, requests, seen, ops>>

Unconfirmed(copy) == copy.status \in {"pending", "conflict"}

\* Faulty: a teammate's purge takes the unconfirmed copy with it.
PurgeWins(copy, answer) == None

\* Faulty: a purged project stays on the list of the devices that had it.
PurgeIgnored(copy, answer) == copy

AfterPurge(copy, answer) ==
  IF copy # None /\ Unconfirmed(copy) THEN [copy EXCEPT !.status = "conflict"]
                                      ELSE None

\* Faulty: an unconfirmed copy moves to the version that was pulled.
Rebased(copy, answer) ==
  IF copy.content = answer.content
  THEN SyncedCopy(answer.version, answer.content)
  ELSE [copy EXCEPT !.base = answer.version]

\* A lost acknowledgement is recovered by an identical read.
AfterRead(copy, answer) ==
  IF answer.version >= copy.base /\ copy.content = answer.content
  THEN SyncedCopy(answer.version, answer.content)
  ELSE copy

\* reconcilePulledProjects, for a project with no queued deletion.
Reconciled(copy, answer) ==
  CASE answer.purged -> AfterPurge(copy, answer)
    [] ~answer.purged /\ answer.version = 0 -> copy
    [] OTHER -> IF copy # None /\ Unconfirmed(copy)
                THEN AfterRead(copy, answer)
                ELSE SyncedCopy(answer.version, answer.content)

\* A conflict is remembered while its project is in conflict.
Remembered(card, copy, answer) ==
  IF copy = None \/ copy.status # "conflict" THEN None
  ELSE IF answer.purged THEN DeletedCard
  ELSE card

PullArrived(d, phase) == sync[d].phase = phase /\ sync[d].pull # None

\* The reconciliation and the capture of the pending documents happen in
\* one turn; a document with an edit goes out at once.
Reconcile(d) ==
  LET answer == sync[d].pull
      copy == Reconciled(local[d], answer)
      sends == copy # None /\ copy.status = "pending"
  IN
  /\ PullArrived(d, "pulling")
  /\ queue[d] = None
  /\ local' = [local EXCEPT ![d] = copy]
  /\ conflict' = [conflict EXCEPT ![d] = Remembered(@, copy, answer)]
  /\ seen' = [seen EXCEPT ![d] =
       IF copy # None /\ copy.status = "synced"
       THEN Later(@, answer.version) ELSE @]
  /\ requests' = IF sends
                 THEN requests \cup {Ask(d, "push", copy.base, copy.content)}
                 ELSE requests
  /\ sync' = [sync EXCEPT ![d] = IF sends THEN Enter("pushing") ELSE Idle]
  /\ UNCHANGED <<server, queue, kept, told, ops>>

-----------------------------------------------------------------------------
(* The queued deletion: trash first, then DELETE, each with its base.      *)

Release(d) ==
  /\ queue' = [queue EXCEPT ![d] = None]
  /\ sync' = [sync EXCEPT ![d] = Idle]
  /\ conflict' = [conflict EXCEPT ![d] = None]
  /\ UNCHANGED <<server, local, kept, told, requests, seen, ops>>

\* A refusal without a document of the server makes no card.
Shown(card, version, content) ==
  IF content = None THEN card ELSE CardOf(version, content)

\* recoverDeletion: the project comes back, in the trash and in conflict.
Recover(d, version, content) ==
  /\ queue' = [queue EXCEPT ![d] = None]
  /\ local' = [local EXCEPT ![d] =
       [status |-> "conflict", base |-> queue[d].base,
        content |-> InTrash(queue[d])]]
  /\ conflict' = [conflict EXCEPT ![d] = Shown(@, version, content)]
  /\ seen' = [seen EXCEPT ![d] = Later(@, version)]
  /\ sync' = [sync EXCEPT ![d] = Idle]
  /\ UNCHANGED <<server, kept, told, requests, ops>>

Send(d, phase, request, command) ==
  /\ requests' = requests \cup {request}
  /\ queue' = [queue EXCEPT ![d] = command]
  /\ conflict' = [conflict EXCEPT ![d] = None]
  /\ sync' = [sync EXCEPT ![d] = Enter(phase)]
  /\ UNCHANGED <<server, local, kept, told, ops>>

WrittenSince(command, answer) ==
  answer.version # 0 /\ answer.version # command.base

BeginDeletion(d) ==
  LET answer == sync[d].pull
      command == queue[d]
  IN
  /\ PullArrived(d, "pulling")
  /\ command # None
  /\ \/ answer.purged /\ Release(d)
     \/ /\ ~answer.purged /\ WrittenSince(command, answer)
        /\ Recover(d, answer.version, answer.content)
     \/ /\ ~answer.purged /\ ~WrittenSince(command, answer)
        /\ command.stage = "trash"
        /\ Send(d, "trashing", AskTrash(d, command), command)
        /\ UNCHANGED seen
     \/ /\ ~answer.purged /\ ~WrittenSince(command, answer)
        /\ command.stage = "delete"
        /\ Send(d, "removing", AskRemove(d, command), command)
        /\ UNCHANGED seen

\* acknowledgeQueuedProjectDeletions.
Confirmed(command, outcome) ==
  [command EXCEPT !.base = outcome.version,
     !.stage = IF outcome.content.trashed THEN "delete" ELSE "trash"]

AckTrash(d) ==
  LET outcome == sync[d].reply
      command == Confirmed(queue[d], outcome)
  IN
  /\ sync[d].phase = "trashing" /\ outcome # None
  /\ \/ /\ outcome.status = "saved"
        /\ Send(d, "removing", AskRemove(d, command), command)
        /\ seen' = [seen EXCEPT ![d] = Later(@, outcome.version)]
     \/ /\ outcome.status = "conflict"
        /\ Recover(d, outcome.version, outcome.content)
     \/ outcome.status = "deleted" /\ Release(d)

AckRemove(d) ==
  /\ sync[d].phase = "removing" /\ sync[d].reply # None
  /\ sync[d].reply.status = "deleted"
  /\ Release(d)

Awaited(d) == {r \in requests : r.from = d /\ r.awaited}
Late(d)    == {r \in requests : r.from = d /\ ~r.awaited}

\* The request the device stops waiting for is lost, or arrives later.
Abandon(d) ==
  \/ requests' = requests \ Awaited(d)
  \/ /\ Awaited(d) # {}
     /\ Cardinality(Late(d)) < MaxLate
     /\ requests' = (requests \ Awaited(d)) \cup
          {[r EXCEPT !.awaited = FALSE] : r \in Awaited(d)}

\* A DELETE that was refused, or whose answer is lost, is looked up again.
RemoveFailed(d) ==
  /\ sync[d].phase = "removing"
  /\ Abandon(d)
  /\ sync' = [sync EXCEPT ![d] = Enter("rereading")]
  /\ UNCHANGED <<server, device, seen, ops>>

FinishReread(d) ==
  LET answer == sync[d].pull
      changed == \/ answer.version # queue[d].base
                 \/ ~answer.content.trashed
  IN
  /\ PullArrived(d, "rereading")
  /\ \/ answer.purged /\ Release(d)
     \/ /\ ~answer.purged /\ answer.version # 0 /\ changed
        /\ Recover(d, answer.version, answer.content)
     \/ /\ ~answer.purged /\ answer.version # 0 => ~changed
        /\ sync' = [sync EXCEPT ![d] = Idle]
        /\ UNCHANGED <<server, device, requests, seen, ops>>

-----------------------------------------------------------------------------
(* acknowledgeProjectPush.                                                 *)

Acknowledged(copy, outcome, touched) ==
  IF touched
  THEN [copy EXCEPT !.status = "pending", !.base = outcome.version]
  ELSE SyncedCopy(outcome.version, outcome.content)

AckPush(d) ==
  LET outcome == sync[d].reply
      card == IF outcome.status = "deleted" THEN DeletedCard
              ELSE Shown(conflict[d], outcome.version, outcome.content)
  IN
  /\ sync[d].phase = "pushing" /\ outcome # None
  /\ IF outcome.status = "saved"
     THEN /\ local' = [local EXCEPT ![d] =
               IF @ = None THEN @
               ELSE Acknowledged(@, outcome, sync[d].touched)]
          /\ queue' = [queue EXCEPT ![d] =
               IF @ = None THEN @ ELSE Confirmed(@, outcome)]
          /\ UNCHANGED conflict
     ELSE /\ local' = [local EXCEPT ![d] =
               IF @ = None THEN @ ELSE [@ EXCEPT !.status = "conflict"]]
          /\ conflict' = [conflict EXCEPT ![d] =
               IF local[d] = None THEN @ ELSE card]
          /\ UNCHANGED queue
  /\ seen' = [seen EXCEPT ![d] =
       IF outcome.status = "saved" \/ local[d] # None
       THEN Later(@, outcome.version) ELSE @]
  /\ sync' = [sync EXCEPT ![d] = Idle]
  /\ UNCHANGED <<server, kept, told, requests, ops>>

\* A timeout, a lost connection, a restart or the end of the session ends
\* the run; the documents and the queue stay.
GiveUp(d) ==
  /\ sync[d].phase # "idle"
  /\ Abandon(d)
  /\ sync' = [sync EXCEPT ![d] = Idle]
  /\ UNCHANGED <<server, device, seen, ops>>

-----------------------------------------------------------------------------
(* The server: one transaction per request.                                *)

Reply(r, status, version, content) ==
  /\ requests' = requests \ {r}
  /\ sync' = IF r.awaited
             THEN [sync EXCEPT ![r.from].reply =
                     [status |-> status, version |-> version,
                      content |-> content]]
             ELSE sync
  /\ UNCHANGED <<device, seen, ops>>

Current(r) == Version = 0 \/ r.base = Version

\* Faulty: a push does not look for the tombstone.
NeverPurged(r) == FALSE

IsPurged(r) == purged

Linkable(r) == ~(r.content.linked /\ clientGone)

\* A dead link is refused before the base is compared, and also for an id the
\* server does not know: the answer then has no document.
HandlePush(r) ==
  /\ r \in requests /\ r.kind = "push"
  /\ \/ /\ IsPurged(r)
        /\ Reply(r, "deleted", 0, None)
        /\ UNCHANGED server
     \/ /\ ~IsPurged(r) /\ Linkable(r) /\ Current(r)
        /\ published' = Append(published, [content |-> r.content, by |-> r.from])
        /\ purged' = FALSE
        /\ Reply(r, "saved", Version + 1, r.content)
        /\ UNCHANGED clientGone
     \/ /\ ~IsPurged(r) /\ ~(Linkable(r) /\ Current(r))
        /\ Reply(r, "conflict", Version, IF Version = 0 THEN None ELSE Row)
        /\ UNCHANGED server

Removable(r) == Version > 0 /\ Row.trashed /\ r.base = Version

HandleRemove(r) ==
  /\ r \in requests /\ r.kind = "remove"
  /\ \/ /\ purged
        /\ Reply(r, "deleted", 0, None)
        /\ UNCHANGED server
     \/ /\ ~purged /\ Removable(r)
        /\ purged' = TRUE
        /\ Reply(r, "deleted", 0, None)
        /\ UNCHANGED <<published, clientGone>>
     \/ /\ ~purged /\ ~Removable(r)
        /\ Reply(r, "refused", 0, None)
        /\ UNCHANGED server

\* Writers other than these devices: the unlinking of a folder, the trash and
\* history endpoints.  All of them keep the link to the client.
OtherWrite(body, trashed) ==
  /\ Version > 0 /\ ~purged
  /\ Spend
  /\ published' = Append(published, [by |-> None,
       content |-> [body |-> body, linked |-> Row.linked, trashed |-> trashed]])
  /\ UNCHANGED <<purged, clientGone, device, sync, requests, seen>>

\* A member deletes the client: in the same transaction the row loses its link,
\* also in the trash, and moves to its next version.
DeleteClient ==
  /\ ~clientGone
  /\ Spend
  /\ clientGone' = TRUE
  /\ published' = IF Version > 0 /\ ~purged /\ Row.linked
                  THEN Append(published, [content |-> Unlinked(Row), by |-> None])
                  ELSE published
  /\ UNCHANGED <<purged, device, sync, requests, seen>>

\* The purge of expired trash by a member's pull, or DELETE of the trash.
PurgeTrash ==
  /\ Version > 0 /\ ~purged /\ Row.trashed
  /\ purged' = TRUE
  /\ UNCHANGED <<published, clientGone, device, sync, requests, seen, ops>>

-----------------------------------------------------------------------------
User(d) ==
  \/ \E body \in Bodies :
       \/ \E linked \in BOOLEAN : CreateProject(d, body, linked)
       \/ Edit(d, body) \/ SetProjectStatus(d, body) \/ RestoreSnapshot(d, body)
  \/ \E linked \in BOOLEAN : LinkProposal(d, linked)
  \/ MoveToTrash(d) \/ RestoreProject(d) \/ HardDeleteProject(d)
  \/ OpenConflict(d)
  \/ \E resolution \in {"accept_server", "keep_local", "fork"} :
       ResolveConflict(d, resolution)

Synchronise(d) ==
  \/ StartSync(d) \/ AnswerPull(d) \/ Reconcile(d) \/ BeginDeletion(d)
  \/ AckTrash(d) \/ AckRemove(d) \/ RemoveFailed(d) \/ FinishReread(d)
  \/ AckPush(d) \/ GiveUp(d)

Next ==
  \/ \E d \in Devices : User(d) \/ UnlinkDeleted(d) \/ Synchronise(d)
  \/ \E r \in requests : HandlePush(r) \/ HandleRemove(r)
  \/ \E body \in Bodies, trashed \in BOOLEAN : OtherWrite(body, trashed)
  \/ DeleteClient \/ PurgeTrash

Spec == Init /\ [][Next]_vars

\* Of devices where automatic synchronisation is on (autoSyncEnabled): it starts
\* a run every fifteen seconds and after every change, the server answers what
\* reaches it, and a connection that keeps being tried lets every kind of
\* exchange through some time.  Where it is off nothing is promised until the
\* user asks for a run.
SyncFairness ==
  \A d \in Devices :
    /\ WF_vars(StartSync(d)) /\ WF_vars(RemoveFailed(d))
    /\ SF_vars(AnswerPull(d)) /\ SF_vars(Reconcile(d))
    /\ SF_vars(BeginDeletion(d)) /\ SF_vars(FinishReread(d))
    /\ SF_vars(AckTrash(d)) /\ SF_vars(AckRemove(d)) /\ SF_vars(AckPush(d))
    /\ SF_vars(\E r \in Awaited(d) : HandlePush(r) \/ HandleRemove(r))

FairSpec == Spec /\ SyncFairness

-----------------------------------------------------------------------------
TypeOK ==
  /\ published \in Seq(Entry)
  /\ purged \in BOOLEAN
  /\ clientGone \in BOOLEAN
  /\ local \in [Devices -> Copy \cup {None}]
  /\ queue \in [Devices -> Command \cup {None}]
  /\ conflict \in [Devices -> Card \cup {None}]
  /\ kept \in [Devices -> SUBSET Bodies]
  /\ told \subseteq Devices
  /\ sync \in [Devices -> Run]
  /\ requests \subseteq Request
  /\ seen \in [Devices -> Nat]
  /\ ops \in 0..MaxOps

(* What a device calls synced is what the server published under the       *)
(* version the device names: also when an edit overtook the                *)
(* acknowledgement, an answer was lost or a conflict card was old          *)
(* (acknowledgeProjectPush, reconcilePulledProjects, resolveConflict).     *)
(* One thing may differ, the link to a client that the server has deleted, *)
(* which the copy has lost ahead of its pull (unlinkDeleted).  The server  *)
(* has then left that version behind, so that work done on such a copy     *)
(* cannot pass for work on what the server holds.                          *)
Verbatim(copy) == published[copy.base].content = copy.content

UnlinkedAhead(copy) ==
  /\ copy.content = Unlinked(published[copy.base].content)
  /\ clientGone
  /\ purged \/ copy.base < Version

SyncedIsPublished ==
  \A d \in Devices :
    (local[d] # None /\ local[d].status = "synced") =>
      /\ local[d].base \in 1..Version
      /\ Verbatim(local[d]) \/ UnlinkedAhead(local[d])

(* No device overwrites or purges what it has not been shown: whatever     *)
(* version a push replaces or a DELETE removes, also one that arrives late *)
(* or after its sender gave up on it, the device had adopted that version, *)
(* had written it, or had it on a conflict card (baseVersion).             *)
BlindWrite ==
  /\ Version' > Version
  /\ published'[Version'].by # None
  /\ Version > seen[published'[Version'].by]

BlindPurge ==
  /\ ~purged /\ purged'
  /\ \E r \in requests \ requests' : Version > seen[r.from]

NoBlindOverwrite == [][~BlindWrite /\ ~BlindPurge]_vars

(* Work is never lost: a body the server has not confirmed stays in the    *)
(* copy, in the deletion queue, in the local history or on the server.     *)
(* Only the user replaces it by newer work; a teammate's purge does not    *)
(* take it, and resolving a conflict keeps what it discards.  A queued     *)
(* deletion gives its body up only when the project is gone everywhere.    *)
DeviceHolds(d) ==
  {b \in Bodies : \/ local[d] # None /\ local[d].content.body = b
                  \/ queue[d] # None /\ queue[d].body = b
                  \/ b \in kept[d]}

ServerHolds ==
  IF purged THEN {} ELSE {published[v].content.body : v \in 1..Version}

Survives(d, body) == body \in DeviceHolds(d)' \cup ServerHolds'

UserReplaces(d) ==
  ops' # ops /\ local'[d] # None /\ local'[d].status = "pending"

KeepsWork(d) ==
  /\ (local[d] # None /\ Unconfirmed(local[d])) =>
       UserReplaces(d) \/ Survives(d, local[d].content.body)
  /\ queue[d] # None =>
       purged' \/ Survives(d, queue[d].body)

WorkIsNeverLost == [][\A d \in Devices : KeepsWork(d)]_vars

(* A deletion the user asked for leaves the queue only when the project is *)
(* purged or when somebody else wrote after the version it names: a failed *)
(* command remains durable (syncAuthSlice.ts).                             *)
Withdrawn(d) ==
  /\ queue[d] # None /\ queue'[d] = None
  /\ ~purged
  /\ \A v \in 1..Version : v > queue[d].base => published[v].by = d

DeletionIsDurable == [][\A d \in Devices : ~Withdrawn(d)]_vars

(* The devices with their server serve versioned documents to each other,  *)
(* just as the store does with its many requests: late, repeated and       *)
(* crossing pushes and deletions do not break the promise of versions.     *)
Docs == INSTANCE VersionedDocs WITH
  Ids      <- {"project"},
  Contents <- [body: Bodies, linked: BOOLEAN],
  docs     <- [i \in {"project"} |->
                 IF purged \/ Version = 0
                 THEN [version |-> 0, content |-> None, trashed |-> FALSE]
                 ELSE [version |-> Version, trashed |-> Row.trashed,
                       content |-> [body |-> Row.body, linked |-> Row.linked]]],
  gone     <- IF purged THEN {"project"} ELSE {}

ServesVersionedDocs == Docs!DocsSpec

(* Once users stop, and with automatic synchronisation on (SyncFairness),  *)
(* every device comes to hold what the server holds, or shows a conflict;  *)
(* no edit stays pending and no deletion stays queued, however many        *)
(* answers are lost on the way.                                            *)
Agrees(d) ==
  /\ queue[d] = None
  /\ \/ local[d] = None /\ (purged \/ Version = 0)
     \/ /\ local[d] # None
        /\ \/ local[d].status = "conflict"
           \/ /\ Version > 0 /\ ~purged
              /\ local[d] = SyncedCopy(Version, Row)

DevicesConverge == <>[](\A d \in Devices : Agrees(d))
=============================================================================
