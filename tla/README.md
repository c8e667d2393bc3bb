# SolarSim Pro: specifications

TLA+ modules for the parts of SolarSim Pro that are hard to test: proposals
("projects"), clients, folders and the equipment catalogue are edited offline on
several devices, kept by a multi-tenant server under optimistic versions, and
reconciled by a client that may lose any answer; accounts, roles and policies
change meanwhile; assistants and external agents change proposals through tools
that wait for the user; proposals are published by a worker. Paths below are
relative to the repository.

## The system

| Component | State | Operations | Interacts with |
|---|---|---|---|
| Project routes and repository (`server/src/modules/projects.ts`, `projectRepository.ts`) | rows of `projects`, `project_tombstones`, `project_version_history` | `POST /api/sync/pull`, `POST /api/sync/push`, `DELETE /api/projects/:id[?permanent]`, `.../restore`, `DELETE /api/trash`, `.../history/:versionId/restore` | client and folder directories (links are checked on push); devices |
| Client directory (`clients.ts`) | `clients`, with tombstones in `deleted_at` | GET, PUT, DELETE with `baseVersion` | DELETE unlinks projects and raises their version |
| Folder directory (`folders.ts`) | `project_folders`, private or public | GET, PUT, DELETE with `baseVersion` | as clients |
| Membership, users, auth (`membership.ts`, `security.ts`, `users.ts`, `auth.ts`, `companies.ts`) | accounts, memberships, roles, invitations, `auth_version` | login, refresh, roster changes, invitations, new organizations | every write revalidates the membership under the organization lock |
| Equipment (`equipment.ts`, `equipmentRepository.ts`) | catalogue rows, tombstones | GET, batch POST, DELETE | same protocol as projects, one version per item |
| Calculation policy (`organization.ts`, `featureSettingsSlice.ts`) | one versioned setting per organization, a copy per device | GET, PATCH with `baseVersion` | the publication is bound to it |
| Synchronisation (`src/store/slices/syncAuthSlice.ts`, `src/store/sync/*`) | `isSyncing`, `projectDeletionQueue`, session epoch | `syncProjectsWithServer`, `triggerAutoSync` | pull, push and DELETE of the server; the project collection |
| Project collection (`projectSlice.ts`) | `projects` with `syncStatus`, `baseVersion`, `isDeleted` | create, edit, status, trash, restore, delete permanently, duplicate, link | marks documents pending, queues deletions |
| Version history (`versionHistorySlice.ts`) | snapshots, undo stacks, `projectConflicts`, `activeConflict` | snapshot, restore, undo/redo, open and resolve a conflict | rewrites the collection |
| Directories on the client (`clientSlice.ts`, `folderSlice.ts`, `equipmentSlice.ts`) | records, pending changes with revisions, deletion queues | edit, delete, resolve, sync with receipts | run inside `syncProjectsWithServer`; the pass over the clients unlinks projects |
| Session (`syncAuthSlice.ts`, `services/syncService.ts`) | token, user, epoch, renewals in flight, refused tokens | sign-in and out, change of organization, `fetchWithSessionRetry` | every request; 12 s timeout |
| Workspaces (`sync/organizationWorkspace.ts`, persistence) | documents set aside per organization | switch, persist, restore | all slices |
| Assistant tools (`features/agentTools`, `agentSlice.ts`) | policy of the device, queue of actions, activity | call, confirm, reject, expire, undo | the collection; the bridge |
| MCP bridge (`electron/mcp`, `mcpBridge.ts`) | calls waiting for the window, the endpoint, `mcp.json` | invoke, respond, timeout, window gone, switch | assistant tools |
| Published proposals (`workers/share-viewer`, `shareProposalService.ts`) | two KV keys per proposal, a register on the device | publish, list, recover, hide | calculation policy |
| Companies, tariffs, notifications | single versioned rows, a log | GET/PUT | - |
| Engine, documents, UI, updater | - | pure computation, rendering, OS | - |

### What is hard

* The server runs each handler in one transaction and serialises the members of
  an organization (`lockOrganization`, `lockCurrentMembership`), so the data
  routes are hard not by interleaving inside a handler but by *sequences* of
  handlers: a push prepared before a deletion, a version restored after one, an
  id that was purged and is pushed again. The roster routes lock accounts too,
  and do interleave.
* The client is single threaded, but a run of synchronisation awaits many
  requests, and between any two of them the user edits, trashes, deletes,
  resolves a conflict, changes organization or closes the program, and
  teammates write.
* A request may be lost, may be applied with its answer lost, or may reach the
  server after the device gave up on it. `baseVersion` is the only defence.
* A permanent deletion is two requests (trash, then DELETE) that survive
  restarts in a queue.
* One token is shared by every request: a renewal, a rejection and a change of
  account race with the answers of what was asked before.
* An agent's action may wait minutes for its confirmation while the account,
  the role, the policy and the proposal change.

### What makes each component correct

* Server: a version names one content for ever; a purged id never returns; what
  a write replaces stays in the history; links to deleted clients and folders
  do not come back; an organization keeps an administrator, and whoever writes
  may write at that moment.
* Client: what it calls synced is what the server published, but for the link to
  a deleted client; it never overwrites a version it has not been shown; it never loses work the server has not
  confirmed; a removal asked for is answered; it converges.
* Session: the token is the signed-in account's; a request speaks for whom it
  was begun; a session ends only when the server refuses it.
* Tools and bridge: a change is made where it was asked for, once, with the
  policy of that moment; an answer goes to the call it answers.
* Publication: a copy carries a policy its organization had ordered; what is
  reported as published is listed.

`PROJECT.json` lists every hazard with its line and the properties aimed at it.

## Modules

```
VersionedDocs        what the server promises: the abstract specification
   ^      ^      ^
   |      |      |   implemented by (INSTANCE ... WITH, checked as a PROPERTY)
   |      |      +-- EquipmentSync
   |      +--------- ProjectSync
   +---------------- ProjectStore
FeaturePolicy  <--- EXTENDS ---  Publication
DirectorySync   Session   Membership   McpBridge   AgentTools
```

Each has an `MC...` module with its instances for TLC; `...Proofs` modules hold
the theorems, for every value of the constants.

The detailed modules meet in `VersionedDocs`. The server's own rules (tenants,
links, history) are in `ProjectStore`; `ProjectSync` and `EquipmentSync` need of
the server only the life of a document, and keep the whole client protocol.
Each is shown to implement the same promise, the one on which a comparison of
`baseVersion` rests.

### VersionedDocs

`docs[i]` is the current version of a document (0: none) and `gone` the purged
ids. A step writes the next version, purges a document of the trash, or leaves
it alone; several documents may move in one step (a client deletion relinks
many rows, emptying the trash purges many).

### ProjectStore

| Variable | In the code |
|---|---|
| `rows[p]` | the row of `projects`; `version = 0` stands for no row |
| `tombstones[p]` | `project_tombstones` (the owning organization) |
| `history[p]` | `project_version_history`: what `checkpoint` stored |
| `clients[o][c]`, `folders[o][f]` | the directory tables; `version = 0`: never published |

One action per handler: `Push`, `PushFork`, `PullPurge`, `Trash`,
`DeletePermanently`, `Restore`, `EmptyTrash`, `RestoreVersion`, `PutClient`,
`DeleteClient`, `PutFolder`, `DeleteFolder`. `PushOutcome` keeps the order of the
push checks: tombstone, tenant, document, folder, client, fork, base. `Save` is
`saveProject` with its checkpoint. A refusal rolls back and is no step.

Abstracted: a document is an opaque body with its two links and trash flag; a
batch of push is the sequence of its items; time is "any part of the trash may
have expired"; members are those whose membership the transaction has just
revalidated. The walk along proposal parents is `doc.valid`.

### ProjectSync

One project id and the devices that work on it. An action is the code between
two awaits.

| Variable | In the code |
|---|---|
| `published`, `purged` | the server's row is the last entry of the log; the earlier entries are what devices may still hold |
| `clientGone` | the client the project may be linked to is deleted |
| `local[d]` | the document in `projects`: status, content (with the link, `clientId`), `baseVersion` |
| `queue[d]` | its command in `projectDeletionQueue` |
| `conflict[d]` | its card in `projectConflicts` |
| `kept[d]` | bodies in the local version history, or in copies with ids of their own |
| `told` | the devices whose list of clients has dropped the deleted one |
| `sync[d]` | where the run stands, the answer it read, and `touched`: whether the document object changed since it was sent (`project !== captured`) |
| `requests` | writes on their way; `awaited` until the device gives up |
| `seen`, `ops` | auxiliary: newest version the device has shown; bound |

| Actions | Code |
|---|---|
| `CreateProject`, `Edit`, `SetProjectStatus`, `MoveToTrash`, `RestoreProject`, `HardDeleteProject` | `projectSlice.ts` |
| `LinkProposal`, `UnlinkDeleted` | `clientSlice.ts`: the user's link, and the pass over the clients |
| `RestoreSnapshot`, `OpenConflict`, `ResolveConflict` | `versionHistorySlice.ts` |
| `StartSync`, `Reconcile`, `BeginDeletion`, `AckTrash`, `AckRemove`, `RemoveFailed`, `FinishReread`, `AckPush`, `GiveUp` | `syncProjectsWithServer` |
| `AnswerPull`, `HandlePush`, `HandleRemove` | the handlers, as `ProjectStore` has them |
| `OtherWrite`, `DeleteClient`, `PurgeTrash` | other writers: unlinking of a folder, history and trash endpoints; `DELETE /api/clients/:id`; expiry |

Choices a reader should know:

* The items of a batch do not depend on each other, so one id is followed; a
  fork under a new id counts as work kept, not as a second document.
* Undo and redo put back an earlier body and keep the base, as `Edit` does.
* `GiveUp` is a timeout, a lost connection, a restart or a change of session:
  each ends the run and leaves what is persisted. A pull that arrives late is
  ignored; a write may be applied late (`MaxLate` per device).
* `OpenConflict` reads the server and answers after an await, so the card may
  show any published version.
* The run synchronises folders and clients before its pull, and equipment and the
  company profile after the pushes. Of these only the pass over the clients writes
  a project: when it learns of a deleted client, `unlinkDeleted` takes the link
  from every copy and leaves `syncStatus` and `baseVersion` as they are
  (`clientSlice.ts:39-44`; the link is content, `projectDifferences.ts:11`).
  `UnlinkDeleted` is that write. It may come at any time, since a change of a
  client starts a pass of its own, and it need not have come before the push,
  since a run goes on when its pass over the clients fails.
* The passes over folders, equipment and the company profile write no project and
  are left out. A folder deleted on the device marks its projects pending without
  their `folderId`, which is an edit like any other.
* Liveness is promised where automatic synchronisation is on (`SyncFairness`).

### DirectorySync

One record of a shared directory on the devices of an organization. `Settings`
lists the circumstances (`setting` is the one a behaviour is in): who signs in on
which device, whether the record is there, and `Kind`, a folder or a client: the two slices share their protocol and
differ in visibility (a folder may be private), in the tombstone (a folder's is
installed, a client's is a conflict to decide) and in the links.

| Variable | In the code |
|---|---|
| `published`, `deleted` | the row with its earlier versions and authors, and its tombstone |
| `user[d]`, `shelf[d]` | who is signed in; what the archive of the workspace keeps of somebody else's private folder |
| `copy[d]`, `change[d]`, `command[d]` | the record, its entry of `folderChanges`/`clientChanges`, its entry of the deletion queue |
| `pass[d]` | where `syncFoldersWithServer`/`syncClientsWithServer` stands, what it listed and captured, `touched`: whether the change is another object by now |
| `requests`, `seen`, `link[d]`, `feedback[d]` | as in `ProjectSync`; a local project that links to a client; the receipt's feedback |

The pass is seven awaits: list, the queued deletions, their removal, the survey
of the list, each PUT, the receipt, the closing update that may start over. The
record followed is one of many, so between two of its awaits any time may pass.

True of the code, and within what the properties allow: the deletion or edit of
a folder that meanwhile became another user's private one stays at its 404; an
edit that happens to equal what an older list shows counts as a recovered
receipt (`OlderList`); a client shown again by the 409 of its own deletion and
edited at once is overwritten by the next 409.

### EquipmentSync

The catalogue of an organization: several items, because a removal, a fork of a
shared model and the item that replaces it are different ids.

| Variable | In the code |
|---|---|
| `rows`, `tombs` | `equipment_catalog`, `equipment_tombstones` |
| `catalog`, `changes`, `queue`, `hidden`, `conflicts` | `equipmentCatalog`, `equipmentChanges` (its revision), `equipmentDeletionQueue`, `deletedEquipmentIds`, `equipmentConflicts` |
| `run`, `late` | the run of `syncEquipmentWithServer` with its request; writes given up on |
| `stored`, `shown`, `used` | auxiliary: contents the server ever held, versions a device was told of, bounds |

`Edit` stands for every tracked write of an item, the supplier offers included;
all members may write; the two statements of the GET are read as one (the
handler answers from one moment but for a deletion between the two, which the
next run repeats). A push whose answer is lost shows its own write as a version
conflict, which the user resolves: safe, and what the code does.

### Session

The account of one device with the server behind it.

| Variable | In the code |
|---|---|
| `members`, `version`, `day` | active memberships, `auth_version`, the clock that ages tokens: accepted for a day, renewable for one more |
| `token`, `user` | `syncSettings.authToken`, `currentUser` |
| `epoch`, `attempt`, `syncing` | `sessionEpoch`, `authenticationAttempt`, `isSyncing` |
| `invalid`, `renewals` | `invalidTokens`, `refreshRequests` of `syncService.ts` |
| `calls[c]`, `logins[l]` | requests with the account's token (a pass, a verification, a change of organization), sign-ins |
| `wish` | auxiliary: the last thing the user asked for |
| `strayed` | auxiliary: the last epoch that began with a sign-in over an open session, or in which automatic synchronisation was switched during a pass |

Left out: the eviction of the fifty-first refused token, the stop by client
version, registration (which ends as a sign-in); another server is the same as
signing out. The profile page offers no sign-in over an open session; the
module allows it all the same, except during a verification: a
`validateSession` begun before such a sign-in could end the new session. While
such a sign-in waits the session goes on, and the user may choose another
organization in it: the answer of the sign-in is installed all the same
(`loginUser` only compares epochs), which `ChangesAsWished` excepts by name.

### Membership

The roster transactions as they interleave: a request authenticates, waits for
the organization's row lock, checks its permission again, locks the account it
is about, reads, and writes when it commits.

| Variable | In the code |
|---|---|
| `home`, `role`, `active`, `version` | `users` |
| `seat`, `seated` | `organization_memberships` |
| `orgs`, `invites` | organizations, `organization_invitations` |
| `requests`, `orgLock`, `userLock` | what each transaction has read and holds |
| `outdated` | auxiliary: invitations older than a loss of access |

The `FOR SHARE` of the data routes is modelled as exclusive, which only removes
the overlap of readers of the roster. Any roster in which every organization has
an administrator may be the first.

### McpBridge

A call of an external agent from its client (`stdioProxy.ts`) through the HTTP
endpoint, the bridge of the main process and the window's document, and back.

| Variable | In the code |
|---|---|
| `calls[c]` | the proxy's call and the handler that awaits it |
| `snapshot`, `waiting` | `RendererBridge.snapshot`, `pending` |
| `toDocument`, `toMain` | the channels `mcp:invoke`, and `mcp:respond` with `mcp:renderer-ready` |
| `window`, `announced`, `allowed`, `running` | the document, its last announcement, the device's policy, the tools it runs |
| `config`, `file`, `server`, `queue`, `task`, `failed` | `McpController`: its configuration, `mcp.json`, the endpoint and the serialised switches |

### AgentTools

What an assistant of the application or an agent may do to proposals: the call
of a tool, with its awaits, becomes a change, a plan that waits, or a refusal.

| Variable | In the code |
|---|---|
| `policy` | `agentPolicy`: per surface and kind of tool deny, ask or allow |
| `session`, `gen`, `scope` | the account, `sessionGeneration`, the workspace in front |
| `projects[s]`, `open[s]` | the proposals of each workspace: the agent's and the user's writes to two sections, as stamps |
| `underway` | calls between two awaits of `executeAgentTool` |
| `pending` | the queue of `agentSlice.ts`, with expiry and eviction |
| `activity[s]` | the activity of a workspace, with what undo needs |

Nine tools stand for the catalogue, at least one of each kind, undo and way of
revalidation (`Tool`). Edits by the user and downloads are the same action. True
of the code: a plan queued by one member survives the expiry of the session and
may be confirmed by another member of the same organization; the undo of a
creation trashes whatever was edited since.

### FeaturePolicy and Publication

`FeaturePolicy` is one versioned setting per organization (`modes[o]` is all its
versions, the last being the row) and the copy of each device (`known`), with
requests that carry the session's generation and a sequence number.
`Publication` extends it: `shareProposal` loads the policy, sends the copy, and
the worker asks the server whether the version it names is still in force,
stores the content, then the register entry (`content`, `index`), either of
which may fail; the device keeps its own register per organization (`links`,
`hidden`, `last`) and reads the worker's page by page (`runs`). KV is taken to
be consistent; there is no retry of a publication in the code, nor in the model.
A link hidden while its publication is being answered may still become the
project's last one. `Older` are copies that have no entry because they are older
than the register.

## Runs

The smaller instances of one module share a run: the MC module chooses a
*scenario* (or, where the module needs it, a *setting*) in its initial state,
with bounds of its own, and never changes it, so that a behaviour lies in one
instance and each property is asked of all of them.

| Run | Instances | Question |
|---|---|---|
| `store` | "directory": 1 organization, 2 members, 1 project of one content, 1 client, 1 folder; "tenants": 2 organizations, 3 members, 2 projects. Versions to 3, directory versions to 2 | do directory deletions, other tenants and project writes keep links, ids, versions and history consistent? |
| `store_folder_link` | as "directory"; a violation | does a restored version revive a deleted folder link? |
| `sync_two_devices` | 2 devices, 2 steps of users and other writers, 1 late request each, from a published project, linked to a client or not | do two devices overwrite, lose or misname each other's work? |
| `sync_one_device` | 1 device, 3 steps of its user and of other writers, from an empty server, under fairness | does the device converge against arbitrary other writers and the deletion of the client? |
| `sync_deletion` | 1 device, 2 user steps; a violation | does a queued deletion survive a lost answer? |
| `directories` | a published folder (with automatic synchronisation on, and off), and a published client, on two devices, 2 steps; a new folder, and a new client, on a device two users share, 4 steps; under fairness | do edits, privacy, links and deletions cross safely, do users of one device keep their work and their privacy, and does everything settle? |
| `equipment` | 2 devices; an own item and a new one, 2 edits, 1 removal, 1 lost request; a shared model and a fork of it, 1 edit, 1 removal, 1 reset; under fairness | do edits, removals, forks and resets cross safely, and does the catalogue converge? |
| `publication` | the policies of 2 organizations on 2 devices; 2 devices that publish while the policy changes; 1 device between 2 organizations; a reading of 3 copies in pages of 1 | does a copy of the policy ever go back, is every publication under a policy that was in force, do links cross organizations, is a reading complete? |
| `bridge` | 2 clients with 2 calls each; 3 switches of the server; both; 1 change of policy, 1 loss of the window; under fairness | do answers go to their calls, does the endpoint end as asked, do calls and switches end? |
| `agents` | 2 members and 1 plan; 1 member and 2 plans; 3 changes undone; undo among changes of session | are actions made where asked, once, as allowed at that moment, and does undo take back only its own? |
| `session` | 2 accounts over open sessions, 3 acts; 1 account of 2 organizations with 2 sign-ins at once; 2 days; under fairness | can one account end up with another's token or answers, is synchronisation ever blocked or doubled? |
| `members` | 2 administrators, 2 and 3 operations; 2 organizations with an account in both and 2 invitations; an account to be made; under fairness | can an organization lose its last administrator, is access local, can an old invitation bring somebody back, do row locks deadlock? |

What the properties say. One that several parts make up is the conjunction of
definitions the module names and states one by one:

* `ServesVersionedDocs`, `RowsAreVersioned`: refinements of `VersionedDocs`.
* `PurgedStaysGone`, `HistoryIsThePast`, `WorkStaysRecoverable`,
  `NoLinkToDeletedClient`, `NoLinkToDeletedFolder`: the store.
* `SyncedIsPublished`: a synced copy is the published content of its base
  (`Verbatim`). One thing may differ: the pass over the clients takes the link to
  a deleted client from synced copies and leaves their base (`docs/CLIENTS.md:45`).
  Such a copy is the content without its link, and the server has left that
  version behind (`UnlinkedAhead`): the deletion raised it in the same
  transaction. So a push from such a copy is compared with a later version and
  becomes a conflict, never a silent success.
* `CleanIsPublished` of `DirectoryInv`: a folder or client without pending work is
  the published content of its base.
* `NoBlindOverwrite`, `NothingBlind`, `NothingReplacedUnseen`: a write or
  deletion only ever replaces a version its sender adopted, wrote, or was shown,
  also when it arrives late.
* `WorkIsNeverLost`, `WorkSurvives`, `PrivateStaysTheirs`, `UnsentWorkStays`:
  unconfirmed work stays on the device or is on the server.
* `DeletionIsDurable`, `RemovalIsAnswered`: a deletion leaves the queue only
  when it was made or its user is shown why not; links wait for it.
* `PrivateStaysTheirs` also: what one user of a device keeps private no other
  user of it gets to see.
* `HiddenIsAbsent` of `EquipmentInv`: two pieces of local state that several
  writers must keep in agreement.
* `DevicesConverge`, `EverythingSettles`, `CatalogueSettles`: after the last
  user step, and where automatic synchronisation is on, every device agrees with
  the server or shows a conflict.
* `SessionInv` (`TokenIsTheUsers`, `SpeaksForItsUser`), `FollowsTheUser`
  (`ChangesAsWished`, `SignInCompletes`, `EndsOnlyWhenRefused`), `SlotIsFreed`
  (`SlotIsHeld`, `OnePass`), `RenewalsResume`: the session. `SlotIsFreed` does
  not hold when automatic synchronisation is switched during a pass, or when
  somebody signs in over an open session: `strayed` marks those sessions, and
  the property is asked of all others.
* `MembershipInv` (`AdministratorStays`, `RemovedStaysOut`), `AccessIsLocal`,
  `ActsWithPermission`, `RequestsEnd`: the roster.
* `BridgeInv` (`AnswerIsOwn`), `EndsAsAsked`, `BridgeSettles` (`CallsEnd`,
  `NothingIsKept`, `OffersWhatIsAllowed`, `SwitchesEnd`): the bridge.
* `AgentInv` (`ChangesWhereAsked`, `PlanAppliedOnce`), `AgentActsAsAllowed`,
  `UndoTakesBackItsOwn`: the tools.
* `PublicationInv` (`KnownWasInForce`, `ListedWereStored`, `ReportedIsListed`),
  `KnownNeverGoesBack`, `PublishedUnderThePolicy`, `ReadingIsComplete`: policy
  and publication.

### Disagreements

Two are shown by runs:

`store_folder_link`: restoring a version keeps the snapshot's `folderId`
(`projects.ts:578-594`; `clientId` is overridden, `folderId` is not), so the link
to a folder deleted in between returns, against `SHARED_RESOURCES.md:9`. Every
later push of that project that still carries the link is then refused with
`invalid_folder`.

`sync_deletion`: the server applies the trash push of a queued deletion, its
answer is lost, and the next run takes the raised version for a foreign write
(`syncAuthSlice.ts:261`): the command is withdrawn and the user sees a conflict
with nobody. The comment at `syncAuthSlice.ts:246` promises that a failed command
remains durable. No work is lost (`WorkIsNeverLost` holds); the deletion is.

The models behave in these other ways too, as the code does; the properties are
stated so that they hold beside them:

* A teammate deletes a client, a pass has listed the tombstone and still works
  on other records, the user edits the client; the closing update of the pass
  drops change and record (`clientSlice.ts:300`; `docs/CLIENTS.md:46`).
* A user makes a public folder private, does not synchronise, and another user
  signs in on the device and does: the archived private version is dropped on
  the way back (`organizationWorkspace.ts:297`; `docs/SHARED_RESOURCES.md:9`).
* `setSyncSettings({autoSyncEnabled})` frees the slot of the synchronisation
  without ending the session (`syncAuthSlice.ts:97`): two passes work at once.
* An announcement sent just before a reload is received after the reload cleared
  the list of tools and fills it again (`ipc.ts:71`; `docs/MCP_LOCAL.md:26`).
* `apply_proposal_draft` overwrites a proposal in conflict
  (`proposalTools.ts:196`; `docs/AGENT_TOOLS.md:38`).
* A reset of the catalogue leaves the unsent removal of a shared model in its
  queue (`equipmentSlice.ts:148`): the next run takes the restored model out
  again (`equipmentSlice.ts:193`).
* A folder that became another member's private one answers 404
  (`folderSlice.ts:348`): a queued deletion or edit is tried again for ever.
* A call of an agent that timed out may still run in the document
  (`rendererBridge.ts:66`); its client is told only that there was no answer.

### Bounds

* `MaxVersion = 3` (store): a version, its replacement, and one made after a
  purge, unlink or restore of either. Every guard compares two versions, so a
  third is enough to tell "older", "current" and "newer" apart.
* `MaxDirVersion = 2`: published, then edited or deleted.
* Two bodies tell "mine" from "another's".
* `MaxOps` (sync): from a published project two steps are the crossing of any two
  of edit, link, trash, deletion and deletion of the client; three steps of one
  device, from nothing, are the creation and two that cross. Synchronisation,
  unlinking by a pass, losses and purges are not counted.
* Steps of `directories` include failures of the network: two for a record on
  two devices, four where users take turns. Three and five, without liveness,
  were checked as well.
* Scenarios of `store`: the directories need one project with one content, since
  a deletion relinks each project by itself and never looks at its content; the tenants need two projects and no
  directory, since a link never leaves its organization.
* `edits`, `removals`, `resets`, `faults` (equipment): an edit on either side of
  a removal and of a lost request; 3 edits and 2 removals were checked without
  liveness and take minutes.
* Session: one day is a renewal, two an expiry beyond it; one edict is one
  password changed or member removed, which is what a token can be refused for;
  two callers are what share a renewal. Four acts of one account, without
  liveness, were checked as well.
* Membership: two requests are what a lock is for; three operations in a row let
  a third act on what two concurrent ones left.
* Bridge: two calls of a client tell a late answer from its own.
* Tools: one call at a time and two entries of the queue and of the activity
  reach eviction; three turns of the session are out, in and out.
* Policy: three versions, as above; two requests of a device can cross.
* Register: three copies and pages of one make a reading cross a publication;
  a change of session during a reading is in the scenario of one device between
  two organizations.
* Symmetry is used where no liveness is asked, and the scenarios where it is
  break it by hand: the first body, user or free request is taken.
* The cfgs say `CHECK_DEADLOCK FALSE` where nothing may be left to do once the
  bounds on users, days and losses are spent (session, membership, bridge,
  tools, publication); the others leave it on.

### Fairness

Runs start by themselves only where the setting `autoSyncEnabled` is on: every
15 s, on focus and on connection (`App.tsx:44-70`), and after every change
(`syncAuthSlice.ts:178-180`). Where it is off, they start when the user asks.

`ProjectSync!FairSpec` speaks of devices where it is on. It assumes that a run
starts (weak), that a device moves on from a refused DELETE, and, strongly, that
each exchange with the server gets through some time if it is tried for ever. A
device may give up any finite number of times at any point. Users, other
writers, the pass over the clients, opening and resolving conflicts, and requests
given up on have no fairness: a conflict may stay open for ever, and a lost
request may never arrive.

`EquipmentSync` assumes the same of its runs, and `DirectorySync` of its passes,
with failures counted by the bounds, so weak fairness of every step suffices.
`DirectorySync` has both settings: a pass starts by itself only in those where
automatic synchronisation is on, and `EverythingSettles` asks for those only; in
the other, edits wait until their user synchronises, and the run checks safety.
`Session` assumes nothing of the start of a run: what was awaited goes on; a
request is answered or times out, and not always times out (strong). `Membership`: a transaction that can proceed again and
again does (strong: PostgreSQL queues the waiters of a row lock). `McpBridge`:
requests, messages, timers and callbacks go on by themselves (weak). The users,
the losses and the policy are under none.

## Proofs

The modules of proofs speak of every value of the constants: any set of
organizations, members, projects, devices, users and bodies, every size of a
page and every bound. `StoreTypeOK` and `TypeOK` are the type invariants of the
store and of the devices, the first conjunct of the inductive invariants.

| Module | Theorem | Property |
|---|---|---|
| `ProjectStoreProofs` | `StoreTypeCorrect` | `StoreTypeOK` |
| | `PurgedProjectsStayGone` | `PurgedStaysGone` |
| | `HistoryHoldsThePast` | `HistoryIsThePast` |
| | `DeletedClientsStayUnlinked` | `NoLinkToDeletedClient` |
| | `StoreServesVersionedDocs` | `ServesVersionedDocs` |
| | `WorkIsRecoverable` | `WorkStaysRecoverable` |
| `ProjectSyncProofs` | `SyncTypeCorrect` | `TypeOK` |
| | `SyncedCopiesArePublished` | `SyncedIsPublished` |
| | `NobodyOverwritesBlindly` | `NoBlindOverwrite` |
| | `WorkSurvives` | `WorkIsNeverLost` |
| | `SyncServesVersionedDocs` | `ServesVersionedDocs` |
| `PublicationProofs` | `PolicyWasInForce` | `KnownWasInForce`, a part of `PublicationInv` |
| | `PolicyNeverGoesBack` | `KnownNeverGoesBack` |
| | `PublicationKeepsPolicy` | `Spec => PolicySpec` |
| | `PublicationCorrect` | `PublicationInv` |
| | `CopiesFollowThePolicy` | `PublishedUnderThePolicy` |
| | `ReadingsMissNothing` | `ReadingIsComplete` |
| `DirectorySyncProofs` | `DirectoryIsPublished` | `DirectoryInv` |
| | `NothingIsBlind` | `NothingBlind` |
| | `WorkIsKept` | `WorkSurvives` |
| | `DeletionsEndRight` | `DeletionIsDurable` |
| | `PrivateIsKept` | `PrivateStaysTheirs` |
| `SessionProofs` | `SessionCorrect` | `SessionInv` |
| | `SlotIsNeverStuck` | `SlotIsFreed` |
| | `SessionFollowsTheUser` | `FollowsTheUser` |
| `MembershipProofs` | `OrganizationsStayGoverned` | `MembershipInv` |
| | `PermissionIsOfTheMoment` | `ActsWithPermission` |
| | `AccessChangesUnderItsLock` | `AccessIsLocal` |
| `EquipmentSyncProofs` | `NothingIsRemovedAndPresent` | `EquipmentInv` |
| | `NobodyReplacesUnseen` | `NothingReplacedUnseen` |
| | `NoRemovalIsDropped` | `RemovalIsAnswered` |
| | `CatalogueIsVersioned` | `RowsAreVersioned` |
| | `UnsentWorkIsKept` | `UnsentWorkStays` |
| `AssistantProofs` | `AnswersReachTheirCalls` | `BridgeInv` |
| | `SwitchesEndAsAsked` | `EndsAsAsked` |
| | `AChangeIsMadeOnceWhereAsked` | `AgentInv` |
| | `AChangeIsAllowedWhenMade` | `AgentActsAsAllowed` |
| | `UndoKeepsLaterWork` | `UndoTakesBackItsOwn` |

### The store

Assumptions: the three named ones of `ProjectStore` (a member has an
organization, `None` is nothing else, bounds are naturals).

Argument: every handler changes the store in one of five ways
(`StoreStepKinds`): it saves one row under the conditions its caller checked, it
purges rows of the trash, it puts a directory record, or it deletes a client or
a folder and relinks. The inductive invariant `StoreInv` conjoins the properties
with two strengthenings. `RowsWellFormed` (a row that exists has an owner, an
absent one holds nothing) is needed because a purge writes the owner into the
tombstone and an unlink writes only rows that exist. `DeletedWasPublished` is
needed because push lets an *unpublished* client id through: without it a
deleted client could be one that push takes for unknown. `HistoryIsThePast` is
inductive only together with the version guard of `Save`; it is what makes the
checkpoint of the current row the only entry of its version.

### The devices

Assumptions: `SyncAssumption` (bounds are naturals) and `NoneAssumption` (null is
not an object).

Argument: the inductive invariant `SyncInv` is the type invariant, `ServerInv` (the
row of a project carries no link to the deleted client: its deletion unlinks it
and a push that would bring the link back is refused) and, for each device alone,
`DeviceInv`:

* `Truthful`: the answers it holds and its conflict card show what the server
  published, and its synced copy the same but for a link it has lost (`Named`).
  With `ServerInv`, a version that carries the link is not the current one once
  the client is deleted, so that the copy that loses it is behind
  (`LinkDroppedFacts`). Without the answers, `SyncedIsPublished` is not
  inductive: the acknowledgement copies the answer into the document.
* `Sighted`: the bases of its copy, its command and its requests, and the
  version of its card, are at most the newest version shown on it. The server
  writes or purges only at the base of the request, which gives
  `NoBlindOverwrite` also for requests the device gave up on.
* `Orderly`: at most one request is awaited, and only in the phases that await
  one; while a deletion is queued there is no copy. An answer thus never comes
  for a request of an earlier run.
* `SentUnchanged`: while the copy is untouched, its content is the content of
  the push in flight and of the answer that it was saved. This is what makes it
  safe for `acknowledgeProjectPush` to replace the document by the confirmed
  one, and with it `WorkIsNeverLost`.

A step of a device leaves the server and the other devices alone (`StepOf`); a
step of the server only adds to its log, and a purge is final (`Grows`). With
the two, `UndisturbedKeeps` reduces every action to the device that takes it.

### Policy and publication

Assumptions: `FeaturePolicyAssumption` and `PublicationAssumption` (bounds are
naturals, a page holds at least one key) and `CopiesAssumption` (null is no copy).

Policy: the inductive invariant `PolicyInv` adds three facts to the types and to
`KnownWasInForce`: what an answer on its way says was in force
(`AnswersWereInForce`), a request's number is its own and at most the device's
last (`Numbered`), and the answer to the last request is no older than what the
device knows (`LastIsNewest`). The last is what the code rests on when it
compares sequence numbers only and never versions: everything the device knows
it was told before it asked, and the server only adds versions (`Grows`).

Publication: `StepIsPolicyStep` shows that every step is a step of the policy or
leaves it alone, so `PolicyInv` carries over (`PublicationKeepsPolicy` is the
refinement). `Inv` adds, for each publication, how far it has come (`PressOK`:
what was authorized was in force and is no older than the press, what was stored
is there, what was reported is listed), for each reading that its page holds
copies of its organization (`RunOK`), and for each copy the publication it goes
back to (`OriginOK`). The stage of that publication is part of `OriginOK`: two
publications could otherwise claim one copy, and a publication past its
authorization is never moved back. `WorkerGrows` (a stored copy is never replaced) and
`Grows` reduce each action to the one publication or reading it moves. That the
cursor of a page is a number needs that a finite set of keys has a largest one,
which is proved from the well-foundedness of the naturals (`LastIsThere`).

`ReadingsMissNothing` has an invariant of its own, `ReadsOK`: a copy a reading has
to find is shown already, is on the page just answered, or lies after its
cursor; and when the worker said that nothing more comes, nothing lies there. It
holds because a page leaves out no key up to its last one (`PageIsDense`, by
the cardinality with which `FirstOf` takes a page) and because what is published,
hidden or expires meanwhile never moves a key.

### The session

Assumptions: `SessionAssumption` (bounds are naturals) and `NoneAssumption` (null
is no user, organization, identity or token).

Argument: `SessionInv` says what the device holds; it rests on what is on its
way. `CallOK`: the token a request was sent with, and the one it was answered
with, are of the account its operation was begun for. `RenewalOK`: a renewal
gives a token of the account it renews. `LoginOK`: an accepted sign-in has its
token. Each step writes the device from one of the three, or clears it, so what
crosses (a renewal shared by two requests, a late rejection, a sign-in over a
verification) never puts one account's token beside another's name.

The other two theorems speak of order in time, and `IInv` adds what the code
relies on without saying it:

* `NumbersOK`, `AwaitedOK`: epochs only grow and no two sign-ins share one; while
  a sign-in is awaited over a closed session, nobody works in its epoch. So the
  pass it starts is alone, which is `SlotOK` and `SlotIsNeverStuck`.
* `WishOK`: a sign-in is awaited exactly when it is what the user asked for last,
  and so is the change of organization of the present session.
* `TokensOK`: what the server signed is no newer than its versions, a refused
  token stays refused, and the token of a session that is being verified has the
  `auth_version` of the one the verification went out with (`CheckOK`). It is why
  a rejection of an *older* token of the session, which `validateSession` takes
  for the session's own, ends it only when the newer token is refused as well.

The attempt corrected the model twice. `ChangesAsWished` had no place for the
sign-in over an open session in which another organization was chosen meanwhile;
TLC's scenarios have the two apart (a sign-in over an open session only where
there is one organization).
And the server's answer was a CASE with overlapping arms, of which TLC takes the
first and the logic any; it is now a disjunction (`Answer`).

### The organizations

Assumption: `MembershipAssumption` (`None` is no object, the bound is a natural).

Argument: `Inv` is `Tables` (with `AccountOK`: nobody belongs to what does not
exist, an account that is off has no seat elsewhere; and `InviteOK`: an
invitation from before a loss of access is revoked), `LocksOK` and, for each
request, `RequestOK`: `AllowedOK` and `ReadOK` say that what it checked and read
*still stands*, `HoldsLocks` why. The three theorems follow at the commit. The work
is in showing that no other request disturbs a reader under its locks: a
transaction of the organization `o` about the account `t` changes seats of `o`
and of `t` only (`Local`), and reaches another organization only through an
account that belongs to `o` alone, in which case there is nothing to disturb
(`LocalKeeps`, `OthersKeep`). That is why two locks, of the organization and of
the account, are enough although an account has seats in several organizations.

### The bridge

Assumption: `McpAssumption` (`None` is not a tool, bounds are naturals).

Argument: `CallsOK` says that a call that is asked is waited for, and that one
that ended with an answer ended with its own: an answer is taken only for a number
in `waiting`, and a client's numbers grow. With `ChannelsOK` (what the channels
carry) it gives `BridgeInv` whatever is lost, reloaded or late. `SwitchOK` is the argument for the switches: what was asked
last is the last in the queue or, when the queue is empty, the configuration
(`LastAsked`); `mcp.json` is written in the step that changes the configuration
(`Configured`); the endpoint follows the configuration when no task is under way
(`Follows`). With an empty queue and no task, the three are `EndsAsAsked`.

### The tools

Assumptions: `AgentAssumption` (null is no user or proposal, no organization is
called "local", the queue and the activity have room for one entry, the other
bounds are naturals), `OfferAssumption` (the tools called and the surfaces are
of those the application has). `McpBridge` and `AgentTools` are the two sides of
the window and share no variable; `AssistantProofs` extends both.

Argument: `ToolsInv` says where the plan of a call can be. While it is prepared
it is nowhere else (`UnderwayOK`); once queued, it waits once, was asked in the
workspace on display, and while it can still be confirmed it was not applied
(`WaitingOK`); what was applied is in the activity once, in the workspace it was
asked in (`AppliedOK`). The first because numbers of plans only grow; the second
because `Finish` compares the owner before it queues, and a change of workspace
empties the queue (`EnterKeeps`); the third because a confirmation ends the
action in the step that applies it (`ConfirmKeeps`). `SettleKeeps` shows it of a
plan that is settled, whoever settles it.

`AChangeIsAllowedWhenMade` follows at the one step that adds to the activity,
`Apply`: its callers check the role and the policy in the same step
(`SettledAsAllowed`, `ConfirmIsAllowed`), and the tools that bypass mode never
spares are all guarded (`SortsOfTools`). For `UndoKeepsLaterWork` one has to tell
an undo from a change that only pushes the entries on: as no plan is in the
activity twice, no entry can come to lie where one that resembles it was
(`ApplyUndoesNothing`). What is left is the comparison of the section with what the
agent wrote (`Unchanged`), and `after` being the number of the plan.

### The catalogue

Assumption: `EquipmentAssumption` (in each setting the references and uploaded
items are disjoint sets of ids, the bounds are naturals).

Argument: `Inv` is `BoundsOK`, `ServerOK`, `Shapes`, `DeviceOK` of every device
and `RequestOK` of every late request. Its heart is `Told`: every base version
other than 0 that a device holds, in its catalogue, its queue of removals, its
conflicts, its batch or a request it gave up on, is one it was shown. The server
compares the base, so what it replaces was shown (`NobodyReplacesUnseen`).
`AnswerOK` and `ResultOK` say that an answer still tells the truth when it is
read late: tombstones only grow, and what it shows was stored. So a removal
released because an answer says so is on the server (`NoRemovalIsDropped`).
`RowOK` (an id with neither row nor tombstone was never stored) gives the
refinement, `CatalogueIsVersioned`. `Untouched` and `DeviceStep` reduce each
action to the one device it moves.

`UnsentWorkIsKept` needs to know what the loop over the removals works on, since
`recoverDeletion` writes the removed item over whatever is there. `WorkOK` says it:
what the loop has still to do, or does, is queued (`RunWork`), and a queued
removal is of an item that is not there, the only one of its id (`QueueWork`).
Both hold but for a shared model, which a reset brings back and the member may
remove again; of a shared model no answer shows a version of the organization
(`NotOwn`), so none is recovered. A pull that finds an item deleted elsewhere
takes it only when it is not the organization's own, which is content the
server stored (`ItemOK`); a receipt takes the saved item only for what was sent
(`SentIsHeld`).

### Folders and clients

Assumptions: `DirectoryAssumption` (each circumstance of `Settings` is one, and
the bound on late requests is a natural), `NoneAssumption` (null is no object).

Argument: `DirectoryIInv` speaks of each device alone (`DeviceInv`).
`Truthful`: what a device was told, by a list, by an answer or in a conflict, is
what the server published, and was shown to a user who may see it. `Sighted`:
every base it holds or has sent was shown on it, so what a request replaces was
(`NothingIsBlind`). `InHand`: while the loop works on a change, nobody but its
user touches the entry. `Sent`: a PUT under way carries the copy if it was not
edited since, and once it is saved nothing the device sent before can be written
after it, because the server compares the base; so a receipt ends a change only
when the server has its very content (`WorkIsKept`). `OpenClient`: the devices
hide no client, so the server refuses them none, and a 404 never releases the
deletion of one (`DeletionsEndRight`). A step of a device leaves the server and
the other devices alone (`LocalStep`); one of the server adds to its log and
answers one device (`ServerStep`, `AskerStep`).

The attempt to prove them showed that three properties, as TLC had checked them,
did not hold in larger instances; scripted behaviours in TLC confirmed each:

* A conflict that the pass notes for a folder deleted while its PUT was under way
  has no owner (`{...s.folderChanges[id], serverFolder}`, folderSlice.ts:407).
  Another user of the device, whose folder of that id comes back from the
  archive, may answer it and is shown the private record of the first:
  `PrivateStaysTheirs` names the case (`AnswersOwnerless`).
* What is set aside for a user is dropped when the server still shows the folder
  to the other (`ShownToOther`), by a 409 as well as by a list.
* A folder deleted again while the pass drops its earlier deletion, of a record
  never published, loses the second deletion (`Withdrawn`).

### What stays with TLC

Liveness under fairness is outside the prover: `DevicesConverge`,
`EverythingSettles`, `CatalogueSettles`, `BridgeSettles`, `RenewalsResume`,
`RequestsEnd`.
Every other property of a passing run has a theorem.
`NoLinkToDeletedFolder` and the `DeletionIsDurable` of projects do not hold.
## Not modelled

* The walk along proposal parents, commercial reports, capacity and attribution.
* Legacy servers that acknowledge without a document (`pendingCanonicalAck`) and
  queues saved without their document.
* Readers (`LECTOR`) on the devices, and documents waiting for their folder.
* Attachments of the equipment, filters of its list, the supplier offers' own
  rules.
* Pages of the worker, validation of its fields, hydration of old caches.
* Catalogue, client and template tools of the assistants; prompts and cards. Of
  the tools that are followed: the check that the right view is in front
  (`assistant/tools.ts:225-231`), the switch of the assistant, the branch of
  `apply_proposal_draft` that creates a proposal (`createNew`), and an undo whose
  verification fails after the write (`agentTools/registry.ts:158-162`).
* The 60 s timeout of the MCP proxy and its answer when the feature is not
  available.
* What a workspace sets aside of other slices than folders, clients and the
  agent's; tariffs, company profile, notifications, import and export.
* Formulas of the engine, documents, rendering, the updater.

