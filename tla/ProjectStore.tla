---------------------------- MODULE ProjectStore ----------------------------
(***************************************************************************)
(* The PostgreSQL side of synchronisation: the project rows, their         *)
(* tombstones and version history, and the client and folder directories   *)
(* the rows link to.  Every handler of server/src/modules/projects.ts runs *)
(* in one transaction under the organization lock, so each is one action.  *)
(* A rejected request rolls back: it changes nothing and is no action, but *)
(* PushOutcome names the answer it gets.                                   *)
(*                                                                         *)
(* The editable content of a document is an opaque body.  A batch of push  *)
(* is the sequence of its items: the items are independent of each other   *)
(* once the lineage check (doc.valid) is given.                            *)
(***************************************************************************)
EXTENDS Integers, FiniteSets

CONSTANTS
  Orgs,           \* organizations (tenants)
  Members,        \* active memberships with a role that may write
  OrgOf,          \* the organization of each membership
  Projects,       \* project ids, global to the server
  Bodies,         \* editable contents
  Clients,        \* client directory ids
  Folders,        \* folder ids
  None,           \* JSON null / a missing row
  MaxVersion,     \* bound: highest project version reached
  MaxDirVersion   \* bound: highest client or folder version reached

ASSUME OrgAssumption == OrgOf \in [Members -> Orgs]
ASSUME NoneAssumption ==
  None \notin Orgs \cup Members \cup Bodies \cup Clients \cup Folders
ASSUME BoundAssumption == MaxVersion \in Nat /\ MaxDirVersion \in Nat

VARIABLES
  rows,        \* projects: version 0 is "no row"
  tombstones,  \* project_tombstones: the organization of a purged id, or None
  history,     \* project_version_history, per project
  clients,     \* clients[o][c]: version 0 is "never published"
  folders      \* project_folders[o][f], likewise

storeVars == <<rows, tombstones, history, clients, folders>>

Orgish    == Orgs \cup {None}
Clientish == Clients \cup {None}
Folderish == Folders \cup {None}

Row == [org: Orgish, version: Nat, body: Bodies \cup {None},
        client: Clientish, folder: Folderish, trashed: BOOLEAN]
Snapshot == [version: Nat, body: Bodies \cup {None},
             client: Clientish, folder: Folderish, trashed: BOOLEAN]
ClientRow == [version: Nat, deleted: BOOLEAN]
FolderRow == [version: Nat, deleted: BOOLEAN, private: BOOLEAN,
              owner: Members \cup {None}]

Absent == [org |-> None, version |-> 0, body |-> None,
           client |-> None, folder |-> None, trashed |-> FALSE]

Exists(p)     == rows[p].version > 0
Tombstoned(p) == tombstones[p] # None
TrashOf(o)    == {p \in Projects : rows[p].org = o /\ rows[p].trashed}

StoreInit ==
  /\ rows = [p \in Projects |-> Absent]
  /\ tombstones = [p \in Projects |-> None]
  /\ history = [p \in Projects |-> {}]
  /\ clients = [o \in Orgs |-> [c \in Clients |->
                  [version |-> 0, deleted |-> FALSE]]]
  /\ folders = [o \in Orgs |-> [f \in Folders |->
                  [version |-> 0, deleted |-> FALSE, private |-> FALSE,
                   owner |-> None]]]

-----------------------------------------------------------------------------
(* saveProject, checkpoint and hardDelete: the three ways a row changes.   *)

SnapshotOf(row) ==
  [version |-> row.version, body |-> row.body, client |-> row.client,
   folder |-> row.folder, trashed |-> row.trashed]

\* Faulty: the update forgets the checkpoint of the row it replaces.
NoCheckpoint(p) == history[p]
\* Faulty: the checkpoint carries the version the update is about to write.
LateCheckpoint(p) ==
  history[p] \cup {[SnapshotOf(rows[p]) EXCEPT !.version = @ + 1]}

Checkpoint(p) == history[p] \cup {SnapshotOf(rows[p])}

NextVersion(p) == rows[p].version + 1

Save(p, org, body, client, folder, trashed) ==
  /\ rows[p].version < MaxVersion
  /\ rows' = [rows EXCEPT ![p] =
       [org |-> org, version |-> NextVersion(p), body |-> body,
        client |-> client, folder |-> folder, trashed |-> trashed]]
  /\ history' = [history EXCEPT ![p] = IF Exists(p) THEN Checkpoint(p) ELSE @]
  /\ UNCHANGED <<tombstones, clients, folders>>

\* Faulty: the rows go without leaving a tombstone.
ForgetfulTombstones(S) == tombstones

\* ON CONFLICT(id) only refreshes the date of a tombstone that is there.
TombstonesAfter(S) ==
  [p \in Projects |-> IF p \in S /\ ~Tombstoned(p) THEN rows[p].org
                                                   ELSE tombstones[p]]

HardDelete(S) ==
  /\ rows' = [p \in Projects |-> IF p \in S THEN Absent ELSE rows[p]]
  /\ tombstones' = TombstonesAfter(S)
  /\ history' = [p \in Projects |-> IF p \in S THEN {} ELSE history[p]]
  /\ UNCHANGED <<clients, folders>>

-----------------------------------------------------------------------------
(* POST /api/sync/push.                                                    *)

\* Ids no organization has published stay linkable; a known id must be live
\* in this organization.
ClientLinkable(o, c) ==
  IF clients[o][c].version > 0 THEN ~clients[o][c].deleted
  ELSE \A other \in Orgs : clients[other][c].version = 0

FolderLinkable(m, p, doc) ==
  LET o == OrgOf[m]
      folder == folders[o][doc.folder]
      unchanged == Exists(p) /\ rows[p].folder = doc.folder /\ ~doc.fork
  IN IF folder.version > 0
     THEN /\ ~folder.deleted
          /\ ~folder.private \/ folder.owner = m \/ unchanged
     ELSE \A other \in Orgs : folders[other][doc.folder].version = 0

BaseMatches(p, doc) == ~Exists(p) \/ doc.base = rows[p].version

\* Faulty: a purged id is not looked up.
NeverTombstoned(p) == FALSE

IdPurged(p) == Tombstoned(p)

ClientAccepted(o, doc) == doc.client = None \/ ClientLinkable(o, doc.client)

TenantAccepted(m, p, doc) ==
  /\ doc.org \in {None, OrgOf[m]}
  /\ Exists(p) => rows[p].org = OrgOf[m]

PushOutcome(m, p, doc) ==
  CASE IdPurged(p) -> "deleted"
    [] OTHER ->
  CASE ~TenantAccepted(m, p, doc) -> "organization_mismatch"
    [] OTHER ->
  CASE ~doc.valid -> "invalid_document"
    [] OTHER ->
  CASE doc.folder # None /\ ~FolderLinkable(m, p, doc) -> "invalid_folder"
    [] OTHER ->
  CASE ~ClientAccepted(OrgOf[m], doc) -> "invalid_client"
    [] OTHER ->
  CASE Exists(p) /\ doc.fork -> "forked"
    [] OTHER ->
  CASE Exists(p) /\ doc.base < 1 -> "base_version_required"
    [] OTHER ->
  CASE ~BaseMatches(p, doc) -> "version_conflict"
    [] OTHER -> IF Exists(p) THEN "updated" ELSE "created"

Push(m, p, doc) ==
  /\ PushOutcome(m, p, doc) \in {"created", "updated"}
  /\ Save(p, OrgOf[m], doc.body, doc.client, doc.folder, doc.trashed)

\* forceNewVersion: the document becomes a new proposal under a random id.
PushFork(m, p, fresh, doc) ==
  /\ PushOutcome(m, p, doc) = "forked"
  /\ ~Exists(fresh) /\ ~Tombstoned(fresh)
  /\ Save(fresh, OrgOf[m], doc.body, doc.client, doc.folder, doc.trashed)

-----------------------------------------------------------------------------
(* POST /api/sync/pull first purges what has been in the trash for thirty  *)
(* days: time is not modelled, any part of the trash may have expired.     *)

PullPurge(o, expired) ==
  /\ expired \subseteq TrashOf(o)
  /\ HardDelete(expired)

(* DELETE /api/projects/:id, with and without permanent=true.              *)

Addressed(m, p, base) ==
  /\ Exists(p)
  /\ rows[p].org = OrgOf[m]
  /\ base = rows[p].version

Trash(m, p, base) ==
  /\ Addressed(m, p, base)
  /\ ~rows[p].trashed
  /\ Save(p, OrgOf[m], rows[p].body, rows[p].client, rows[p].folder, TRUE)

Purgeable(p) == rows[p].trashed

DeletePermanently(m, p, base) ==
  /\ Addressed(m, p, base)
  /\ Purgeable(p)
  /\ HardDelete({p})

Restore(m, p, base) ==
  /\ Addressed(m, p, base)
  /\ rows[p].trashed
  /\ Save(p, OrgOf[m], rows[p].body, rows[p].client, rows[p].folder, FALSE)

EmptyTrash(m) == HardDelete(TrashOf(OrgOf[m]))

\* Faulty: the snapshot brings its client link back.
SnapshotClient(p, snapshot) == snapshot.client

RestoredClient(p, snapshot) == rows[p].client

\* The folder is the one of the snapshot; the client link and the trash flag
\* are those of the row.
RestoreVersion(m, p, base, snapshot) ==
  /\ Addressed(m, p, base)
  /\ snapshot \in history[p]
  /\ Save(p, OrgOf[m], snapshot.body, RestoredClient(p, snapshot),
          snapshot.folder, rows[p].trashed)

-----------------------------------------------------------------------------
(* The directories: PUT and DELETE of clients.ts and folders.ts.           *)

PutClient(m, c, base) ==
  LET o == OrgOf[m] IN
  /\ ~clients[o][c].deleted
  /\ base = clients[o][c].version
  /\ clients[o][c].version < MaxDirVersion
  /\ clients' = [clients EXCEPT ![o][c].version = @ + 1]
  /\ UNCHANGED <<rows, tombstones, history, folders>>

LinkedToClient(o, c) ==
  {p \in Projects : rows[p].org = o /\ rows[p].client = c}

LinkedToFolder(o, f) ==
  {p \in Projects : rows[p].org = o /\ rows[p].folder = f}

Relinked(p, client, folder) ==
  [org |-> rows[p].org, version |-> rows[p].version + 1,
   body |-> rows[p].body, client |-> client, folder |-> folder,
   trashed |-> rows[p].trashed]

\* The UPDATE that unlinks raises the versions and takes no checkpoint.
DeleteClient(m, c, base) ==
  LET o == OrgOf[m] IN
  /\ clients[o][c].version > 0 /\ ~clients[o][c].deleted
  /\ base = clients[o][c].version
  /\ clients[o][c].version < MaxDirVersion
  /\ \A p \in LinkedToClient(o, c) : rows[p].version < MaxVersion
  /\ clients' = [clients EXCEPT ![o][c] =
       [version |-> @.version + 1, deleted |-> TRUE]]
  /\ rows' = [p \in Projects |->
       IF p \in LinkedToClient(o, c)
       THEN Relinked(p, None, rows[p].folder)
       ELSE rows[p]]
  /\ UNCHANGED <<tombstones, history, folders>>

\* A private folder is the business of its owner; only the owner hides it.
PutFolder(m, f, base, private) ==
  LET o == OrgOf[m]
      folder == folders[o][f]
  IN
  /\ folder.version > 0 /\ (folder.private \/ private) => folder.owner = m
  /\ ~folder.deleted
  /\ base = folder.version
  /\ folder.version < MaxDirVersion
  /\ folders' = [folders EXCEPT ![o][f] =
       [version |-> folder.version + 1, deleted |-> FALSE,
        private |-> private,
        owner |-> IF folder.version = 0 THEN m ELSE folder.owner]]
  /\ UNCHANGED <<rows, tombstones, history, clients>>

DeleteFolder(m, f, base) ==
  LET o == OrgOf[m]
      folder == folders[o][f]
  IN
  /\ folder.version > 0 /\ ~folder.deleted
  /\ folder.private => folder.owner = m
  /\ base = folder.version
  /\ folder.version < MaxDirVersion
  /\ \A p \in LinkedToFolder(o, f) : rows[p].version < MaxVersion
  /\ folders' = [folders EXCEPT ![o][f] =
       [version |-> folder.version + 1, deleted |-> TRUE,
        private |-> folder.private, owner |-> folder.owner]]
  /\ rows' = [p \in Projects |->
       IF p \in LinkedToFolder(o, f)
       THEN Relinked(p, rows[p].client, None)
       ELSE rows[p]]
  /\ UNCHANGED <<tombstones, history, clients>>

-----------------------------------------------------------------------------
Versions == 0..MaxVersion

\* The documents that can get past the first checks: another organization's
\* name on the document or a body that fails validation is only ever refused.
Requests(m) ==
  [org: {OrgOf[m]}, base: Versions, body: Bodies, client: Clientish,
   folder: Folderish, trashed: BOOLEAN, fork: BOOLEAN, valid: {TRUE}]

StoreNext ==
  \/ \E m \in Members, p \in Projects : \E doc \in Requests(m) :
       \/ Push(m, p, doc)
       \/ \E fresh \in Projects : PushFork(m, p, fresh, doc)
  \/ \E o \in Orgs : \E expired \in SUBSET TrashOf(o) : PullPurge(o, expired)
  \/ \E m \in Members, p \in Projects, base \in Versions :
       \/ Trash(m, p, base)
       \/ DeletePermanently(m, p, base)
       \/ Restore(m, p, base)
       \/ \E snapshot \in history[p] : RestoreVersion(m, p, base, snapshot)
  \/ \E m \in Members : EmptyTrash(m)
  \/ \E m \in Members, base \in 0..MaxDirVersion :
       \/ \E c \in Clients : PutClient(m, c, base) \/ DeleteClient(m, c, base)
       \/ \E f \in Folders :
            \/ \E private \in BOOLEAN : PutFolder(m, f, base, private)
            \/ DeleteFolder(m, f, base)

StoreSpec == StoreInit /\ [][StoreNext]_storeVars

-----------------------------------------------------------------------------
(* Types of the store's variables.                                         *)
StoreTypeOK ==
  /\ rows \in [Projects -> Row]
  /\ tombstones \in [Projects -> Orgish]
  /\ history \in [Projects -> SUBSET Snapshot]
  /\ clients \in [Orgs -> [Clients -> ClientRow]]
  /\ folders \in [Orgs -> [Folders -> FolderRow]]

(* A purged id has no row and keeps no history: no interleaving of pushes, *)
(* forks and purges of several members leaves both a tombstone and a live  *)
(* document (projects.ts, the tombstone check before any other).           *)
PurgedStaysGone ==
  \A p \in Projects : Tombstoned(p) => ~Exists(p) /\ history[p] = {}

(* The history of a project holds only versions before the current one and *)
(* never two documents under one version, although unlinking a client or a *)
(* folder raises versions without a checkpoint (saveProject, checkpoint).  *)
HistoryIsThePast ==
  \A p \in Projects : \A h \in history[p] :
    /\ h.version < rows[p].version
    /\ \A g \in history[p] : g.version = h.version => g = h

(* No project, live or in the trash, links to a client its organization    *)
(* has deleted: not after a push that was prepared before the deletion,    *)
(* nor after restoring an old version (clients.ts DELETE, CLIENTS.md).     *)
NoLinkToDeletedClient ==
  \A p \in Projects :
    (Exists(p) /\ rows[p].client # None) =>
      ~clients[rows[p].org][rows[p].client].deleted

(* The same promise for folders: DELETE /api/folders/:id unlinks projects  *)
(* and keeps a tombstone (SHARED_RESOURCES.md).                            *)
NoLinkToDeletedFolder ==
  \A p \in Projects :
    (Exists(p) /\ rows[p].folder # None) =>
      ~folders[rows[p].org][rows[p].folder].deleted

(* The store serves versioned documents, whose content is the body with    *)
(* its two links: a row changes only by moving to the next version, also   *)
(* when a directory deletion unlinks it, a project goes only from the      *)
(* trash, and an id that went does not come back to count again from 1.    *)
(* It is what makes the client's comparison of baseVersion sound.          *)
Docs == INSTANCE VersionedDocs WITH
  Ids      <- Projects,
  Contents <- [body: Bodies \cup {None}, client: Clientish,
               folder: Folderish],
  docs     <- [p \in Projects |->
                 [version |-> rows[p].version, trashed |-> rows[p].trashed,
                  content |-> [body |-> rows[p].body, client |-> rows[p].client,
                               folder |-> rows[p].folder]]],
  gone     <- {p \in Projects : Tombstoned(p)}

ServesVersionedDocs == Docs!DocsSpec

(* No accepted work is lost while its project exists: a step that replaces *)
(* the body leaves the replaced one in the history under its version, and  *)
(* history entries are never dropped.                                     *)
RecoverableStep(p) ==
  (Exists(p) /\ rows'[p].version > 0) =>
    /\ history[p] \subseteq history'[p]
    /\ rows'[p].body # rows[p].body => SnapshotOf(rows[p]) \in history'[p]

WorkStaysRecoverable == [][\A p \in Projects : RecoverableStep(p)]_storeVars
=============================================================================
