------------------------ MODULE ProjectStoreProofs ------------------------
(***************************************************************************)
(* Proofs, for any number of organizations, members, projects, clients and *)
(* folders, of the safety properties TLC checks on ProjectStore.           *)
(*                                                                         *)
(* Every handler changes the rows in one of five ways (StoreStepKinds): it *)
(* saves one row, purges trashed rows, or edits the client or folder       *)
(* directory.  The invariant is proved for those five kinds.               *)
(***************************************************************************)
EXTENDS ProjectStore, TLAPS

\* A row that exists belongs to somebody, and an absent one holds nothing.
RowsWellFormed ==
  \A p \in Projects :
    IF Exists(p) THEN rows[p].org \in Orgs ELSE rows[p] = Absent

\* Only a published client is ever deleted.
DeletedWasPublished ==
  \A o \in Orgs, c \in Clients :
    clients[o][c].deleted => clients[o][c].version > 0

StoreInv ==
  /\ StoreTypeOK
  /\ RowsWellFormed
  /\ PurgedStaysGone
  /\ HistoryIsThePast
  /\ DeletedWasPublished
  /\ NoLinkToDeletedClient

\* What every caller of saveProject has established before it saves.
GuardedSave(p, org, body, client, folder, trashed) ==
  /\ ~Tombstoned(p)
  /\ Exists(p) => org = rows[p].org
  /\ client # None => \/ Exists(p) /\ client = rows[p].client
                      \/ ~clients[org][client].deleted
  /\ Save(p, org, body, client, folder, trashed)

SaveStep ==
  \E p \in Projects, org \in Orgs, body \in Bodies \cup {None},
     client \in Clientish, folder \in Folderish, trashed \in BOOLEAN :
    GuardedSave(p, org, body, client, folder, trashed)

PurgeStep ==
  \E S \in SUBSET Projects :
    /\ \A p \in S : Exists(p) /\ rows[p].trashed
    /\ HardDelete(S)

PutStep ==
  \/ \E m \in Members, base \in 0..MaxDirVersion, c \in Clients :
       PutClient(m, c, base)
  \/ \E m \in Members, base \in 0..MaxDirVersion, f \in Folders,
        private \in BOOLEAN : PutFolder(m, f, base, private)

DeleteClientStep ==
  \E m \in Members, base \in 0..MaxDirVersion, c \in Clients :
    DeleteClient(m, c, base)

DeleteFolderStep ==
  \E m \in Members, base \in 0..MaxDirVersion, f \in Folders :
    DeleteFolder(m, f, base)

-----------------------------------------------------------------------------
(* A push that is accepted has found no tombstone, its own tenant's row    *)
(* and a client that may be linked (projects.ts 139-309).                  *)
LEMMA PushOutcomeGuards ==
  ASSUME StoreInv, NEW m \in Members, NEW p \in Projects,
         NEW doc \in Requests(m),
         PushOutcome(m, p, doc) \in {"created", "updated", "forked"}
  PROVE  /\ ~Tombstoned(p)
         /\ Exists(p) => rows[p].org = OrgOf[m]
         /\ doc.client # None => ~clients[OrgOf[m]][doc.client].deleted
<1>1. ~IdPurged(p) /\ TenantAccepted(m, p, doc)
      /\ ClientAccepted(OrgOf[m], doc)
  BY DEF PushOutcome
<1>2. ASSUME doc.client # None
      PROVE  ~clients[OrgOf[m]][doc.client].deleted
  <2>1. OrgOf[m] \in Orgs
    BY OrgAssumption
  <2>2. doc.client \in Clients
    BY <1>2 DEF Requests, Clientish
  <2>3. ClientLinkable(OrgOf[m], doc.client)
    BY <1>1, <1>2 DEF ClientAccepted
  <2>4. clients[OrgOf[m]][doc.client] \in ClientRow
    BY <2>1, <2>2 DEF StoreInv, StoreTypeOK
  <2> QED
    BY <2>1, <2>2, <2>3, <2>4
    DEF ClientLinkable, ClientRow, StoreInv, DeletedWasPublished
<1> QED
  BY <1>1, <1>2 DEF IdPurged, TenantAccepted

LEMMA PushStepKind ==
  ASSUME StoreInv, NEW m \in Members, NEW p \in Projects,
         NEW doc \in Requests(m),
         Push(m, p, doc) \/ \E fresh \in Projects : PushFork(m, p, fresh, doc)
  PROVE  SaveStep
<1> USE PushOutcomeGuards
<1>0. /\ OrgOf[m] \in Orgs
      /\ doc.body \in Bodies
      /\ doc.client \in Clientish
      /\ doc.folder \in Folderish
      /\ doc.trashed \in BOOLEAN
  BY OrgAssumption DEF Requests
<1>1. CASE Push(m, p, doc)
  <2>1. GuardedSave(p, OrgOf[m], doc.body, doc.client, doc.folder,
                    doc.trashed)
    BY <1>1 DEF Push, GuardedSave
  <2> QED
    BY <1>0, <2>1 DEF SaveStep
<1>2. CASE \E fresh \in Projects : PushFork(m, p, fresh, doc)
  <2>1. PICK fresh \in Projects : PushFork(m, p, fresh, doc)
    BY <1>2
  <2>2. GuardedSave(fresh, OrgOf[m], doc.body, doc.client, doc.folder,
                    doc.trashed)
    BY <2>1 DEF PushFork, GuardedSave
  <2> QED
    BY <1>0, <2>2 DEF SaveStep
<1> QED
  BY <1>1, <1>2

(* Trash, restore and history restore save the addressed row again with    *)
(* its own client link.                                                    *)
LEMMA AddressedStepKind ==
  ASSUME StoreInv, NEW m \in Members, NEW p \in Projects, NEW base \in Versions,
         \/ Trash(m, p, base)
         \/ Restore(m, p, base)
         \/ \E snapshot \in history[p] : RestoreVersion(m, p, base, snapshot)
  PROVE  SaveStep
<1>0. Exists(p) /\ rows[p].org = OrgOf[m]
  BY DEF Trash, Restore, RestoreVersion, Addressed
<1>1. /\ OrgOf[m] \in Orgs
      /\ rows[p] \in Row
      /\ ~Tombstoned(p)
  BY <1>0, OrgAssumption DEF StoreInv, StoreTypeOK, PurgedStaysGone
<1>2. ASSUME NEW body \in Bodies \cup {None}, NEW folder \in Folderish,
             NEW trashed \in BOOLEAN,
             Save(p, OrgOf[m], body, rows[p].client, folder, trashed)
      PROVE  SaveStep
  <2>1. rows[p].client \in Clientish
    BY <1>1 DEF Row
  <2>2. GuardedSave(p, OrgOf[m], body, rows[p].client, folder, trashed)
    BY <1>0, <1>1, <1>2 DEF GuardedSave
  <2> QED
    BY <1>1, <2>1, <2>2 DEF SaveStep
<1>3. CASE Trash(m, p, base)
  BY <1>1, <1>2, <1>3 DEF Trash, Row
<1>4. CASE Restore(m, p, base)
  BY <1>1, <1>2, <1>4 DEF Restore, Row
<1>5. ASSUME NEW snapshot \in history[p], RestoreVersion(m, p, base, snapshot)
      PROVE  SaveStep
  <2>1. snapshot \in Snapshot
    BY DEF StoreInv, StoreTypeOK
  <2> QED
    BY <1>1, <1>2, <1>5, <2>1 DEF RestoreVersion, RestoredClient, Row, Snapshot
<1> QED
  BY <1>3, <1>4, <1>5

(* Whatever purges, purges trash only.                                     *)
LEMMA PurgeStepKind ==
  ASSUME StoreInv,
         \/ \E o \in Orgs : \E expired \in SUBSET TrashOf(o) :
              PullPurge(o, expired)
         \/ \E m \in Members : EmptyTrash(m)
         \/ \E m \in Members, p \in Projects, base \in Versions :
              DeletePermanently(m, p, base)
  PROVE  PurgeStep
<1>1. ASSUME NEW S \in SUBSET Projects, \A p \in S : rows[p].trashed,
             HardDelete(S)
      PROVE  PurgeStep
  <2>1. \A p \in S : Exists(p)
    BY <1>1 DEF StoreInv, RowsWellFormed, Absent
  <2> QED
    BY <1>1, <2>1 DEF PurgeStep
<1>2. \A o : TrashOf(o) \subseteq Projects
             /\ \A p \in TrashOf(o) : rows[p].trashed
  BY DEF TrashOf
<1>3. ASSUME NEW o \in Orgs, NEW expired \in SUBSET TrashOf(o),
             PullPurge(o, expired)
      PROVE  PurgeStep
  BY <1>1, <1>2, <1>3 DEF PullPurge
<1>4. ASSUME NEW m \in Members, EmptyTrash(m)
      PROVE  PurgeStep
  BY <1>1, <1>2, <1>4 DEF EmptyTrash
<1>5. ASSUME NEW m \in Members, NEW p \in Projects, NEW base \in Versions,
             DeletePermanently(m, p, base)
      PROVE  PurgeStep
  BY <1>1, <1>5 DEF DeletePermanently, Purgeable
<1> QED
  BY <1>3, <1>4, <1>5

LEMMA StoreStepKinds ==
  ASSUME StoreInv, StoreNext
  PROVE  SaveStep \/ PurgeStep \/ PutStep \/ DeleteClientStep
           \/ DeleteFolderStep
BY PushStepKind, AddressedStepKind, PurgeStepKind
DEF StoreNext, PutStep, DeleteClientStep, DeleteFolderStep

-----------------------------------------------------------------------------
LEMMA SavePreserves ==
  ASSUME StoreInv, SaveStep
  PROVE  StoreInv'
<1>1. PICK p \in Projects, org \in Orgs, body \in Bodies \cup {None},
           client \in Clientish, folder \in Folderish, trashed \in BOOLEAN :
        GuardedSave(p, org, body, client, folder, trashed)
  BY DEF SaveStep
<1> DEFINE saved == [org |-> org, version |-> rows[p].version + 1,
                     body |-> body, client |-> client, folder |-> folder,
                     trashed |-> trashed]
           past  == IF Exists(p) THEN Checkpoint(p) ELSE history[p]
<1>2. /\ rows' = [rows EXCEPT ![p] = saved]
      /\ history' = [history EXCEPT ![p] = past]
      /\ UNCHANGED <<tombstones, clients, folders>>
      /\ ~Tombstoned(p)
  BY <1>1 DEF GuardedSave, Save, NextVersion
<1>3. /\ rows \in [Projects -> Row]
      /\ history \in [Projects -> SUBSET Snapshot]
      /\ rows[p] \in Row
      /\ rows[p].version \in Nat
      /\ saved \in Row
  BY DEF StoreInv, StoreTypeOK, Row, Orgish
<1>4. SnapshotOf(rows[p]) \in Snapshot
  BY <1>3 DEF SnapshotOf, Snapshot, Row
<1>5. past \subseteq history[p] \cup {SnapshotOf(rows[p])}
      /\ (\A h \in past : h \in history[p] \/ Exists(p))
  BY DEF Checkpoint
<1>6. past \in SUBSET Snapshot
  BY <1>3, <1>4, <1>5
<1>7. /\ rows'[p] = saved
      /\ history'[p] = past
      /\ \A q \in Projects \ {p} : rows'[q] = rows[q] /\ history'[q] = history[q]
  BY <1>2, <1>3
<1> HIDE DEF past
<1>8. StoreTypeOK'
  BY <1>2, <1>3, <1>6 DEF StoreInv, StoreTypeOK
<1>9. RowsWellFormed'
  <2>1. saved.version > 0 /\ saved.org \in Orgs
    BY <1>3
  <2> HIDE DEF saved
  <2> QED
    BY <1>7, <2>1 DEF StoreInv, RowsWellFormed, Exists
<1>10. PurgedStaysGone'
  <2> HIDE DEF saved
  <2> QED
    BY <1>2, <1>7 DEF StoreInv, PurgedStaysGone, Tombstoned, Exists
<1>11. HistoryIsThePast'
  <2>1. \A h \in history[p] :
          /\ h.version < rows[p].version
          /\ \A g \in history[p] : g.version = h.version => g = h
    BY DEF StoreInv, HistoryIsThePast
  <2>2. SnapshotOf(rows[p]).version = rows[p].version
    BY DEF SnapshotOf
  <2>3. \A h \in history[p] : h.version \in Nat
    BY <1>3 DEF Snapshot
  <2>4. saved.version = rows[p].version + 1
    OBVIOUS
  <2>5. \A h \in past : h.version < saved.version
    BY <1>3, <1>5, <2>1, <2>2, <2>3, <2>4
  <2>6. \A h, g \in past : g.version = h.version => g = h
    BY <1>3, <1>5, <2>1, <2>2, <2>3
  <2> HIDE DEF saved
  <2> QED
    BY <1>7, <2>5, <2>6 DEF StoreInv, HistoryIsThePast
<1>12. DeletedWasPublished'
  BY <1>2 DEF StoreInv, DeletedWasPublished
<1>13. NoLinkToDeletedClient'
  <2>1. client # None => ~clients[org][client].deleted
    BY <1>1 DEF GuardedSave, StoreInv, NoLinkToDeletedClient
  <2>2. saved.client = client /\ saved.org = org
    OBVIOUS
  <2> HIDE DEF saved
  <2> QED
    BY <1>2, <1>7, <2>1, <2>2 DEF StoreInv, NoLinkToDeletedClient, Exists
<1> QED
  BY <1>8, <1>9, <1>10, <1>11, <1>12, <1>13 DEF StoreInv

LEMMA PurgePreserves ==
  ASSUME StoreInv, PurgeStep
  PROVE  StoreInv'
<1>1. PICK S \in SUBSET Projects :
        (\A p \in S : Exists(p) /\ rows[p].trashed) /\ HardDelete(S)
  BY DEF PurgeStep
<1>2. Absent \in Row /\ ~(Absent.version > 0)
  BY DEF Absent, Row, Orgish, Clientish, Folderish
<1>3. \A p \in S : ~Tombstoned(p) /\ rows[p].org \in Orgs
  BY <1>1 DEF StoreInv, PurgedStaysGone, RowsWellFormed
<1>4. StoreTypeOK'
  BY <1>1, <1>2, <1>3
  DEF StoreInv, StoreTypeOK, HardDelete, TombstonesAfter, Orgish
<1>5. \A p \in Projects :
        /\ rows'[p] = IF p \in S THEN Absent ELSE rows[p]
        /\ history'[p] = IF p \in S THEN {} ELSE history[p]
        /\ p \notin S => tombstones'[p] = tombstones[p]
  BY <1>1 DEF HardDelete, TombstonesAfter
<1>6. RowsWellFormed'
  BY <1>2, <1>5 DEF StoreInv, RowsWellFormed, Exists
<1>7. PurgedStaysGone'
  BY <1>2, <1>5 DEF StoreInv, PurgedStaysGone, Exists, Tombstoned
<1>8. HistoryIsThePast'
  BY <1>5 DEF StoreInv, HistoryIsThePast
<1>9. DeletedWasPublished' /\ NoLinkToDeletedClient'
  BY <1>1, <1>2, <1>5
  DEF StoreInv, DeletedWasPublished, NoLinkToDeletedClient, Exists, HardDelete
<1> QED
  BY <1>4, <1>6, <1>7, <1>8, <1>9 DEF StoreInv

LEMMA PutPreserves ==
  ASSUME StoreInv, PutStep
  PROVE  StoreInv'
<1>1. UNCHANGED <<rows, tombstones, history>>
  BY DEF PutStep, PutClient, PutFolder
<1>2. CASE \E m \in Members, base \in 0..MaxDirVersion, c \in Clients :
             PutClient(m, c, base)
  <2>1. PICK m \in Members, base \in 0..MaxDirVersion, c \in Clients :
          PutClient(m, c, base)
    BY <1>2
  <2>2. /\ clients \in [Orgs -> [Clients -> ClientRow]]
        /\ OrgOf[m] \in Orgs
        /\ clients[OrgOf[m]] \in [Clients -> ClientRow]
        /\ clients[OrgOf[m]][c] \in ClientRow
    BY OrgAssumption DEF StoreInv, StoreTypeOK
  <2>3. clients' = [clients EXCEPT ![OrgOf[m]] =
                      [clients[OrgOf[m]] EXCEPT ![c] =
                        [clients[OrgOf[m]][c] EXCEPT !.version = @ + 1]]]
        /\ folders' = folders
    BY <2>1 DEF PutClient
  <2>4. [clients[OrgOf[m]][c] EXCEPT !.version = @ + 1] \in ClientRow
    BY <2>2 DEF ClientRow
  <2>5. clients' \in [Orgs -> [Clients -> ClientRow]]
    BY <2>2, <2>3, <2>4
  <2>6. \A o \in Orgs, d \in Clients :
          /\ clients'[o][d].deleted = clients[o][d].deleted
          /\ clients'[o][d].version >= clients[o][d].version
    BY <2>2, <2>3 DEF ClientRow
  <2>7. StoreTypeOK'
    BY <1>1, <2>3, <2>5 DEF StoreInv, StoreTypeOK
  <2>8. DeletedWasPublished'
    BY <2>2, <2>5, <2>6 DEF StoreInv, DeletedWasPublished, ClientRow
  <2>9. NoLinkToDeletedClient'
    BY <1>1, <2>6
    DEF StoreInv, StoreTypeOK, NoLinkToDeletedClient, RowsWellFormed, Row,
        Exists, Clientish
  <2> QED
    BY <1>1, <2>7, <2>8, <2>9
    DEF StoreInv, RowsWellFormed, PurgedStaysGone, HistoryIsThePast, Exists,
        Tombstoned
<1>3. CASE \E m \in Members, base \in 0..MaxDirVersion, f \in Folders,
              private \in BOOLEAN : PutFolder(m, f, base, private)
  <2>1. PICK m \in Members, base \in 0..MaxDirVersion, f \in Folders,
             private \in BOOLEAN : PutFolder(m, f, base, private)
    BY <1>3
  <2> DEFINE edited == [version |-> folders[OrgOf[m]][f].version + 1,
                        deleted |-> FALSE, private |-> private,
                        owner |-> IF folders[OrgOf[m]][f].version = 0 THEN m
                                  ELSE folders[OrgOf[m]][f].owner]
  <2>2. /\ folders \in [Orgs -> [Folders -> FolderRow]]
        /\ folders[OrgOf[m]][f] \in FolderRow
    BY OrgAssumption DEF StoreInv, StoreTypeOK
  <2>3. edited \in FolderRow
    BY <2>2 DEF FolderRow
  <2>4. folders' = [folders EXCEPT ![OrgOf[m]][f] = edited]
        /\ clients' = clients
    BY <2>1 DEF PutFolder
  <2> HIDE DEF edited
  <2>5. folders' \in [Orgs -> [Folders -> FolderRow]]
    BY <2>2, <2>3, <2>4
  <2> QED
    BY <1>1, <2>4, <2>5
    DEF StoreInv, StoreTypeOK, RowsWellFormed, PurgedStaysGone,
        HistoryIsThePast, NoLinkToDeletedClient, DeletedWasPublished, Exists,
        Tombstoned
<1> QED
  BY <1>2, <1>3 DEF PutStep

(* Unlinking: the rows of S lose a link and move to the next version.      *)
LEMMA UnlinkKeepsRows ==
  ASSUME StoreInv, NEW S \in SUBSET Projects,
         NEW unlinked \in [S -> Row],
         \A p \in S : /\ Exists(p)
                      /\ unlinked[p].version = rows[p].version + 1
                      /\ unlinked[p].org = rows[p].org,
         rows' = [p \in Projects |-> IF p \in S THEN unlinked[p] ELSE rows[p]],
         UNCHANGED <<tombstones, history>>
  PROVE  /\ rows' \in [Projects -> Row]
         /\ RowsWellFormed'
         /\ PurgedStaysGone'
         /\ HistoryIsThePast'
<1>1. /\ rows \in [Projects -> Row]
      /\ \A p \in Projects : rows[p].version \in Nat
      /\ \A p \in Projects : \A h \in history[p] : h.version \in Nat
  BY DEF StoreInv, StoreTypeOK, Row, Snapshot
<1>2. rows' \in [Projects -> Row]
  BY <1>1
<1>3. \A p \in Projects : rows'[p] = IF p \in S THEN unlinked[p] ELSE rows[p]
  OBVIOUS
<1>4. RowsWellFormed'
  BY <1>1, <1>3 DEF StoreInv, RowsWellFormed, Exists
<1>5. PurgedStaysGone'
  BY <1>3 DEF StoreInv, PurgedStaysGone, Exists, Tombstoned
<1>6. HistoryIsThePast'
  BY <1>1, <1>3 DEF StoreInv, HistoryIsThePast
<1> QED
  BY <1>2, <1>4, <1>5, <1>6

LEMMA DeleteClientPreserves ==
  ASSUME StoreInv, DeleteClientStep
  PROVE  StoreInv'
<1>1. PICK m \in Members, base \in 0..MaxDirVersion, c \in Clients :
        DeleteClient(m, c, base)
  BY DEF DeleteClientStep
<1> DEFINE o == OrgOf[m]
           S == LinkedToClient(o, c)
           unlinked == [p \in S |-> Relinked(p, None, rows[p].folder)]
           gone == [version |-> clients[o][c].version + 1, deleted |-> TRUE]
<1>2. /\ o \in Orgs
      /\ clients \in [Orgs -> [Clients -> ClientRow]]
      /\ clients[o] \in [Clients -> ClientRow]
      /\ clients[o][c] \in ClientRow
      /\ rows \in [Projects -> Row]
      /\ S \in SUBSET Projects
      /\ None \notin Orgs
  BY OrgAssumption, NoneAssumption DEF StoreInv, StoreTypeOK, LinkedToClient
<1>3. \A p \in S : Exists(p) /\ rows[p].org = o /\ rows[p].client = c
  BY <1>2 DEF StoreInv, RowsWellFormed, LinkedToClient, Absent
<1>4. \A p \in S : /\ unlinked[p] \in Row
                   /\ unlinked[p].version = rows[p].version + 1
                   /\ unlinked[p].org = rows[p].org
                   /\ unlinked[p].client = None
  BY <1>2 DEF Row, Relinked, Clientish, Folderish
<1>5. unlinked \in [S -> Row]
  BY <1>4
<1>6. /\ rows' = [p \in Projects |-> IF p \in S THEN unlinked[p] ELSE rows[p]]
      /\ clients' = [clients EXCEPT ![o] = [clients[o] EXCEPT ![c] = gone]]
      /\ UNCHANGED <<tombstones, history, folders>>
  BY <1>1 DEF DeleteClient
<1>7. gone \in ClientRow /\ gone.deleted /\ gone.version > 0
  BY <1>2 DEF ClientRow
<1> HIDE DEF S, unlinked, gone
<1>8. /\ clients' \in [Orgs -> [Clients -> ClientRow]]
      /\ clients'[o][c] = gone
      /\ \A x \in Orgs, d \in Clients :
           (x # o \/ d # c) => clients'[x][d] = clients[x][d]
  BY <1>2, <1>6, <1>7
<1>9. /\ rows' \in [Projects -> Row]
      /\ RowsWellFormed' /\ PurgedStaysGone' /\ HistoryIsThePast'
  BY <1>2, <1>3, <1>4, <1>5, <1>6, UnlinkKeepsRows
<1>10. StoreTypeOK'
  BY <1>6, <1>8, <1>9 DEF StoreInv, StoreTypeOK
<1>11. DeletedWasPublished'
  BY <1>7, <1>8 DEF StoreInv, DeletedWasPublished
<1>12. NoLinkToDeletedClient'
  <2> SUFFICES ASSUME NEW p \in Projects, Exists(p)', rows'[p].client # None
               PROVE  ~clients'[rows'[p].org][rows'[p].client].deleted
    BY DEF NoLinkToDeletedClient
  <2>1. p \notin S /\ rows'[p] = rows[p]
    BY <1>4, <1>6
  <2>2. Exists(p) /\ rows[p].org \in Orgs /\ rows[p].client \in Clients
    BY <2>1, <1>2 DEF Exists, StoreInv, RowsWellFormed, Row, Clientish
  <2>3. rows[p].org # o \/ rows[p].client # c
    BY <2>1 DEF S, LinkedToClient
  <2> QED
    BY <1>8, <2>1, <2>2, <2>3 DEF StoreInv, NoLinkToDeletedClient
<1> QED
  BY <1>9, <1>10, <1>11, <1>12 DEF StoreInv

LEMMA DeleteFolderPreserves ==
  ASSUME StoreInv, DeleteFolderStep
  PROVE  StoreInv'
<1>1. PICK m \in Members, base \in 0..MaxDirVersion, f \in Folders :
        DeleteFolder(m, f, base)
  BY DEF DeleteFolderStep
<1> DEFINE o == OrgOf[m]
           S == LinkedToFolder(o, f)
           unlinked == [p \in S |-> Relinked(p, rows[p].client, None)]
<1>2. /\ o \in Orgs
      /\ folders \in [Orgs -> [Folders -> FolderRow]]
      /\ folders[o][f] \in FolderRow
      /\ rows \in [Projects -> Row]
      /\ S \in SUBSET Projects
      /\ None \notin Orgs
  BY OrgAssumption, NoneAssumption DEF StoreInv, StoreTypeOK, LinkedToFolder
<1>3. \A p \in S : Exists(p)
  BY <1>2 DEF StoreInv, RowsWellFormed, LinkedToFolder, Absent
<1>4. \A p \in S : /\ unlinked[p] \in Row
                   /\ unlinked[p].version = rows[p].version + 1
                   /\ unlinked[p].org = rows[p].org
                   /\ unlinked[p].client = rows[p].client
  BY <1>2 DEF Row, Relinked, Clientish, Folderish
<1>5. unlinked \in [S -> Row]
  BY <1>4
<1>6. /\ rows' = [p \in Projects |-> IF p \in S THEN unlinked[p] ELSE rows[p]]
      /\ UNCHANGED <<tombstones, history, clients>>
  BY <1>1 DEF DeleteFolder
<1>7. folders' \in [Orgs -> [Folders -> FolderRow]]
  <2> DEFINE gone == [version |-> folders[o][f].version + 1, deleted |-> TRUE,
                      private |-> folders[o][f].private,
                      owner |-> folders[o][f].owner]
  <2>1. folders' = [folders EXCEPT ![o] = [folders[o] EXCEPT ![f] = gone]]
    BY <1>1 DEF DeleteFolder
  <2>2. gone \in FolderRow
    BY <1>2 DEF FolderRow
  <2> HIDE DEF gone
  <2> QED
    BY <1>2, <2>1, <2>2
<1> HIDE DEF S, unlinked
<1>8. /\ rows' \in [Projects -> Row]
      /\ RowsWellFormed' /\ PurgedStaysGone' /\ HistoryIsThePast'
  BY <1>2, <1>3, <1>4, <1>5, <1>6, UnlinkKeepsRows
<1>9. StoreTypeOK'
  BY <1>6, <1>7, <1>8 DEF StoreInv, StoreTypeOK
<1>10. DeletedWasPublished' /\ NoLinkToDeletedClient'
  BY <1>3, <1>4, <1>6
  DEF StoreInv, DeletedWasPublished, NoLinkToDeletedClient, Exists
<1> QED
  BY <1>8, <1>9, <1>10 DEF StoreInv

-----------------------------------------------------------------------------
LEMMA InitEstablishes == StoreInit => StoreInv
<1> SUFFICES ASSUME StoreInit PROVE StoreInv
  OBVIOUS
<1>1. StoreTypeOK
  BY DEF StoreInit, StoreTypeOK, Absent, Row, ClientRow, FolderRow, Orgish,
         Clientish, Folderish
<1>2. RowsWellFormed /\ PurgedStaysGone /\ HistoryIsThePast
  BY DEF StoreInit, RowsWellFormed, PurgedStaysGone, HistoryIsThePast, Exists,
         Tombstoned, Absent
<1>3. DeletedWasPublished /\ NoLinkToDeletedClient
  BY DEF StoreInit, DeletedWasPublished, NoLinkToDeletedClient, Exists, Absent
<1> QED
  BY <1>1, <1>2, <1>3 DEF StoreInv

LEMMA StepPreserves == StoreInv /\ [StoreNext]_storeVars => StoreInv'
<1> SUFFICES ASSUME StoreInv, [StoreNext]_storeVars PROVE StoreInv'
  OBVIOUS
<1>1. CASE StoreNext
  BY <1>1, StoreStepKinds, SavePreserves, PurgePreserves, PutPreserves,
     DeleteClientPreserves, DeleteFolderPreserves
<1>2. CASE UNCHANGED storeVars
  BY <1>2
  DEF storeVars, StoreInv, StoreTypeOK, RowsWellFormed, PurgedStaysGone,
      HistoryIsThePast, DeletedWasPublished, NoLinkToDeletedClient, Exists,
      Tombstoned
<1> QED
  BY <1>1, <1>2

(* The inductive invariant holds in every reachable state.                 *)
THEOREM StoreInvariant == StoreSpec => []StoreInv
BY InitEstablishes, StepPreserves, PTL DEF StoreSpec

(* Every variable of the store keeps its type, for any set of tenants,     *)
(* members, projects and directory entries.                                *)
THEOREM StoreTypeCorrect == StoreSpec => []StoreTypeOK
<1>1. StoreInv => StoreTypeOK
  BY DEF StoreInv
<1> QED
  BY <1>1, StoreInvariant, PTL

(* A purged project has neither a row nor history: no push, fork or purge  *)
(* of any member brings it back (the tombstone check of projects.ts).      *)
THEOREM PurgedProjectsStayGone == StoreSpec => []PurgedStaysGone
<1>1. StoreInv => PurgedStaysGone
  BY DEF StoreInv
<1> QED
  BY <1>1, StoreInvariant, PTL

(* The history holds distinct, strictly older versions although unlinking  *)
(* skips version numbers (checkpoint and saveProject).                     *)
THEOREM HistoryHoldsThePast == StoreSpec => []HistoryIsThePast
<1>1. StoreInv => HistoryIsThePast
  BY DEF StoreInv
<1> QED
  BY <1>1, StoreInvariant, PTL

(* No project links to a deleted client of its organization (the client    *)
(* check of push, DELETE /api/clients/:id and the history restore).        *)
THEOREM DeletedClientsStayUnlinked == StoreSpec => []NoLinkToDeletedClient
<1>1. StoreInv => NoLinkToDeletedClient
  BY DEF StoreInv
<1> QED
  BY <1>1, StoreInvariant, PTL

-----------------------------------------------------------------------------
(* What a step of the store may do to one project: a write, a purge from   *)
(* the trash, or nothing.                                                  *)
DocStep(p) ==
  \/ /\ ~Tombstoned(p) /\ tombstones'[p] = tombstones[p]
     /\ rows'[p].version = rows[p].version + 1
  \/ /\ Exists(p) /\ rows[p].trashed
     /\ rows'[p] = Absent /\ tombstones'[p] # None
  \/ rows'[p] = rows[p] /\ tombstones'[p] = tombstones[p]

LEMMA StepTouchesOneWay ==
  ASSUME StoreInv, StoreNext, NEW p \in Projects
  PROVE  DocStep(p) /\ RecoverableStep(p)
<1>1. /\ rows \in [Projects -> Row]
      /\ history \in [Projects -> SUBSET Snapshot]
      /\ rows[p].version \in Nat
      /\ Exists(p) => rows[p].org \in Orgs
      /\ None \notin Orgs
      /\ Tombstoned(p) => ~Exists(p)
  BY NoneAssumption
  DEF StoreInv, StoreTypeOK, Row, RowsWellFormed, PurgedStaysGone
<1>2. CASE SaveStep
  <2>1. PICK q \in Projects, org \in Orgs, body \in Bodies \cup {None},
             client \in Clientish, folder \in Folderish, trashed \in BOOLEAN :
          GuardedSave(q, org, body, client, folder, trashed)
    BY <1>2 DEF SaveStep
  <2>2. /\ tombstones' = tombstones
        /\ ~Tombstoned(q)
        /\ p # q => rows'[p] = rows[p] /\ history'[p] = history[p]
        /\ p = q => /\ rows'[p].version = rows[p].version + 1
                    /\ Exists(p) => history'[p] = Checkpoint(p)
    BY <1>1, <2>1 DEF GuardedSave, Save, NextVersion
  <2>3. CASE p = q
    BY <1>1, <2>2, <2>3 DEF DocStep, RecoverableStep, Checkpoint
  <2>4. CASE p # q
    BY <2>2, <2>4 DEF DocStep, RecoverableStep
  <2> QED
    BY <2>3, <2>4
<1>3. CASE PurgeStep
  <2>1. PICK S \in SUBSET Projects :
          (\A q \in S : Exists(q) /\ rows[q].trashed) /\ HardDelete(S)
    BY <1>3 DEF PurgeStep
  <2>2. /\ rows'[p] = IF p \in S THEN Absent ELSE rows[p]
        /\ tombstones'[p] = IF p \in S /\ ~Tombstoned(p) THEN rows[p].org
                                                         ELSE tombstones[p]
        /\ history'[p] = IF p \in S THEN {} ELSE history[p]
    BY <2>1 DEF HardDelete, TombstonesAfter
  <2>3. ~(Absent.version > 0)
    BY DEF Absent
  <2>4. CASE p \in S
    BY <1>1, <2>1, <2>2, <2>3, <2>4 DEF DocStep, RecoverableStep
  <2>5. CASE p \notin S
    BY <2>2, <2>5 DEF DocStep, RecoverableStep
  <2> QED
    BY <2>4, <2>5
<1>4. CASE PutStep
  <2>1. UNCHANGED <<rows, tombstones, history>>
    BY <1>4 DEF PutStep, PutClient, PutFolder
  <2> QED
    BY <2>1 DEF DocStep, RecoverableStep
<1>5. ASSUME UNCHANGED <<tombstones, history>>,
             \/ rows'[p] = rows[p]
             \/ /\ Exists(p)
                /\ \E client, folder : rows'[p] = Relinked(p, client, folder)
      PROVE  DocStep(p) /\ RecoverableStep(p)
  <2>1. \A client, folder :
          /\ Relinked(p, client, folder).version = rows[p].version + 1
          /\ Relinked(p, client, folder).body = rows[p].body
    BY DEF Relinked
  <2>2. \/ rows'[p] = rows[p]
        \/ /\ Exists(p)
           /\ rows'[p].version = rows[p].version + 1
           /\ rows'[p].body = rows[p].body
    BY <1>5, <2>1
  <2>3. DocStep(p)
    BY <1>1, <1>5, <2>2 DEF DocStep
  <2>4. RecoverableStep(p)
    BY <1>5, <2>2 DEF RecoverableStep
  <2> QED
    BY <2>3, <2>4
<1>6. ASSUME NEW S \in SUBSET Projects, rows \in [Projects -> Row], p \in S,
             \E org \in Orgs : rows[p].org = org
      PROVE  Exists(p)
  BY <1>1, <1>6, NoneAssumption DEF StoreInv, RowsWellFormed, Absent
<1>7. CASE DeleteClientStep
  <2>1. PICK m \in Members, base \in 0..MaxDirVersion, c \in Clients :
          DeleteClient(m, c, base)
    BY <1>7 DEF DeleteClientStep
  <2>2. p \in LinkedToClient(OrgOf[m], c) => Exists(p)
    BY <1>1, <1>6, OrgAssumption DEF LinkedToClient
  <2> QED
    BY <1>5, <2>1, <2>2 DEF DeleteClient
<1>8. CASE DeleteFolderStep
  <2>1. PICK m \in Members, base \in 0..MaxDirVersion, f \in Folders :
          DeleteFolder(m, f, base)
    BY <1>8 DEF DeleteFolderStep
  <2>2. p \in LinkedToFolder(OrgOf[m], f) => Exists(p)
    BY <1>1, <1>6, OrgAssumption DEF LinkedToFolder
  <2> QED
    BY <1>5, <2>1, <2>2 DEF DeleteFolder
<1> QED
  BY <1>2, <1>3, <1>4, <1>7, <1>8, StoreStepKinds

\* The same step seen through the refinement mapping.
LEMMA StepKeepsDocs ==
  ASSUME StoreInv, StoreInv', StoreNext
  PROVE  Docs!DocsNext
<1>1. \A p \in Projects : Tombstoned(p) => Tombstoned(p)'
  BY StepTouchesOneWay DEF DocStep, Tombstoned
<1>2. ASSUME NEW p \in Projects
      PROVE  Docs!Written(p) \/ Docs!Purged(p) \/ Docs!Kept(p)
  <2>1. /\ rows[p] \in Row /\ rows'[p] \in Row
        /\ Tombstoned(p) => ~Exists(p)
    BY DEF StoreInv, StoreTypeOK, PurgedStaysGone
  <2>2. CASE /\ ~Tombstoned(p) /\ tombstones'[p] = tombstones[p]
             /\ rows'[p].version = rows[p].version + 1
    <3>1. rows'[p].version > 0
      BY <2>1, <2>2 DEF Row
    <3>2. Docs!Written(p)
      BY <2>1, <2>2, <3>1 DEF Docs!Written, Docs!Published, Row, Tombstoned
    <3> QED
      BY <3>2
  <2>3. CASE /\ Exists(p) /\ rows[p].trashed
             /\ rows'[p] = Absent /\ tombstones'[p] # None
    BY <2>3 DEF Docs!Purged, Exists, Absent, Tombstoned
  <2>4. CASE rows'[p] = rows[p] /\ tombstones'[p] = tombstones[p]
    BY <2>4 DEF Docs!Kept, Tombstoned
  <2> QED
    BY <2>2, <2>3, <2>4, StepTouchesOneWay DEF DocStep
<1> QED
  BY <1>1, <1>2 DEF Docs!DocsNext

(* The store implements the versioned documents its devices rely on, for   *)
(* any number of tenants, members and projects: the version a device holds *)
(* names one document for ever, which makes comparing it sound.            *)
THEOREM StoreServesVersionedDocs == StoreSpec => ServesVersionedDocs
<1>1. StoreInit => Docs!DocsInit
  BY DEF StoreInit, Docs!DocsInit, Absent, Tombstoned
<1>2. StoreInv /\ StoreInv' /\ [StoreNext]_storeVars
      => [Docs!DocsNext]_(Docs!docsVars)
  <2> SUFFICES ASSUME StoreInv, StoreInv', [StoreNext]_storeVars
               PROVE  [Docs!DocsNext]_(Docs!docsVars)
    OBVIOUS
  <2>1. CASE StoreNext
    BY <2>1, StepKeepsDocs
  <2>2. CASE UNCHANGED storeVars
    BY <2>2 DEF storeVars, Docs!docsVars, Tombstoned
  <2> QED
    BY <2>1, <2>2
<1> QED
  BY <1>1, <1>2, StoreInvariant, PTL
  DEF StoreSpec, ServesVersionedDocs, Docs!DocsSpec

(* No accepted body is lost while its project exists: the checkpoint comes *)
(* before every replacement (saveProject).                                 *)
THEOREM WorkIsRecoverable == StoreSpec => WorkStaysRecoverable
<1>1. StoreInv /\ [StoreNext]_storeVars
      => [\A p \in Projects : RecoverableStep(p)]_storeVars
  BY StepTouchesOneWay
<1> QED
  BY <1>1, StoreInvariant, PTL DEF StoreSpec, WorkStaysRecoverable
=============================================================================
