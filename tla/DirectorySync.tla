--------------------------- MODULE DirectorySync ---------------------------
(***************************************************************************)
(* One record of a shared directory, a folder or a client, as the devices  *)
(* of an organization work on it: folderSlice.ts and clientSlice.ts with   *)
(* their awaits, PUT and DELETE of folders.ts and clients.ts, and the      *)
(* change of user on a device (organizationWorkspace.ts).                  *)
(*                                                                         *)
(* A device is single threaded: an action is what it does between two      *)
(* awaits.  The records of a pass do not depend on each other, so the life *)
(* of one id is followed, and what the pass does for the other records is  *)
(* the time that goes by between two of its steps.  Every user may write.  *)
(***************************************************************************)
EXTENDS Integers, Sequences, FiniteSets

CONSTANTS
  Devices,
  Users,
  Bodies,     \* editable contents, visibility aside
  None,
  Settings,   \* the circumstances a behaviour may be in, see Setting
  MaxLate     \* bound: requests given up on that may still arrive, per device

\* kind: "folder" or "client"; auto: settings.autoSyncEnabled; started: whether
\* the record is published and downloaded at the start; signsIn: the users of
\* each device, nobody if it stays out; linkers: devices that link a local
\* project to the record; steps: bound on the steps of the users and the
\* failures of the network.
Setting == [kind: {"folder", "client"}, auto: BOOLEAN, started: BOOLEAN,
            signsIn: [Devices -> SUBSET Users], linkers: SUBSET Devices, steps: Nat]

ASSUME DirectoryAssumption ==
  /\ \A i \in DOMAIN Settings : Settings[i] \in Setting
  /\ MaxLate \in Nat

VARIABLES
  setting,    \* which of Settings this behaviour is in
  published,  \* the server: versions 1, 2, ... of the row with their authors;
              \* the row is the last of them
  deleted,    \* the server: the row is a tombstone
  user,       \* per device: who is signed in
  copy,       \* its record of the workspace, or None
  change,     \* its entry of folderChanges or clientChanges, or None
  command,    \* its entry of the deletion queue, or None
  shelf,      \* what the archive of the workspace holds of another user
  link,       \* whether a local project links to the record
  feedback,   \* folderSyncFeedback or clientSyncFeedback is set
  pass,       \* the pass of sync...WithServer
  requests,   \* PUT and DELETE requests the server has not handled
  seen,       \* auxiliary: the newest version the device has shown
  ops         \* auxiliary: steps counted against the bound

vars == <<published, deleted, user, copy, change, command, shelf, link,
          feedback, pass, requests, seen, ops>>
server == <<published, deleted>>
held   == <<copy, change, command>>

Kind     == Settings[setting].kind
AutoSync == Settings[setting].auto
Started  == Settings[setting].started
SignsIn  == Settings[setting].signsIn
Linkers  == Settings[setting].linkers
MaxOps   == Settings[setting].steps

Content == [body: Bodies, private: BOOLEAN]
Copy    == [content: Content, base: Nat, creator: Users]
Card    == [version: Nat, content: Content]
Change  == [owner: Users \cup {None}, base: Nat, server: Card \cup {None},
            gone: BOOLEAN]
Command == [owner: Users, base: Nat]
Listing == [record: Card \cup {None}, gone: BOOLEAN]
Outcome == [status: {"saved", "conflict", "done", "absent", "refused"},
            card: Card \cup {None}]
Phases  == {"idle", "listing", "deleting", "removing", "surveying", "updating",
            "putting", "closing"}
Pass    == [phase: Phases, listed: Listing \cup {None},
            command: Command \cup {None}, change: Change \cup {None},
            touched: BOOLEAN, reply: Outcome \cup {None}, again: BOOLEAN,
            failed: BOOLEAN]
Request == [from: Devices, user: Users, kind: {"put", "delete"}, base: Nat,
            content: Content \cup {None}, awaited: BOOLEAN]
Entry   == [content: Content, by: Users, from: Devices]

\* null is not an object.
ASSUME NoneAssumption ==
  None \notin Users \cup Content \cup Copy \cup Card \cup Change \cup Command
                \cup Listing \cup Outcome

Version == Len(published)
Row     == published[Version]
Creator == published[1].by
RowCard == [version |-> Version, content |-> Row.content]

Visible(u) == Row.content.private => Creator = u

Downloaded(card) ==
  [content |-> card.content, base |-> card.version, creator |-> Creator]

Later(v, w) == IF w > v THEN w ELSE v

NoPass ==
  [phase |-> "idle", listed |-> None, command |-> None, change |-> None,
   touched |-> FALSE, reply |-> None, again |-> FALSE, failed |-> FALSE]

Listing0 == [NoPass EXCEPT !.phase = "listing"]

Online == {d \in Devices : user[d] # None}

Init ==
  /\ setting \in DOMAIN Settings
  /\ deleted = FALSE
  /\ user \in [Devices -> Users \cup {None}]
  /\ \A d \in Devices : IF SignsIn[d] = {} THEN user[d] = None ELSE user[d] \in SignsIn[d]
  /\ change = [d \in Devices |-> None]
  /\ command = [d \in Devices |-> None]
  /\ shelf = [d \in Devices |-> None]
  /\ link = [d \in Devices |-> FALSE]
  /\ feedback = [d \in Devices |-> FALSE]
  /\ pass = [d \in Devices |-> NoPass]
  /\ requests = {}
  /\ ops = 0
  /\ \/ /\ ~Started
        /\ published = <<>>
        /\ seen = [d \in Devices |-> 0]
        /\ \/ copy = [d \in Devices |-> None]
           \* A definition of a time before folders had versions.
           \/ /\ Kind = "folder"
              /\ \E d \in Online, body \in Bodies :
                   copy = [[e \in Devices |-> None] EXCEPT ![d] =
                     [content |-> [body |-> body, private |-> FALSE],
                      base |-> 0, creator |-> user[d]]]
     \/ \E d \in Online, body \in Bodies :
          LET content == [body |-> body, private |-> FALSE] IN
          /\ Started
          /\ published = <<[content |-> content, by |-> user[d], from |-> d]>>
          /\ copy = [e \in Devices |-> IF e \notin Online THEN None ELSE
               [content |-> content, base |-> 1, creator |-> user[d]]]
          /\ seen = [e \in Devices |-> IF e \in Online THEN 1 ELSE 0]

-----------------------------------------------------------------------------
(* The user of a device.  Every edit makes a new revision of the change;   *)
(* the pass remembers the revision it took, which is how it tells.         *)

Spend == ops < MaxOps /\ ops' = ops + 1

Own(d, owner) == owner \in {None, user[d]}

\* sync() at the end of an operation: a pass starts, or the one that runs
\* will start another.
Triggered(p) ==
  IF p.phase = "idle" THEN Listing0 ELSE [p EXCEPT !.again = TRUE]

Revised(d) ==
  LET p == [pass[d] EXCEPT !.touched = @ \/ pass[d].phase \in {"updating", "putting"}]
  IN  pass' = [pass EXCEPT ![d] = IF AutoSync THEN Triggered(p) ELSE p]

Dirty(d, base) ==
  [owner |-> user[d], base |-> base, server |-> None, gone |-> FALSE]

Unused ==
  /\ published = <<>> /\ requests = {}
  /\ \A d \in Devices : copy[d] = None /\ command[d] = None /\ shelf[d] = None

CreateRecord(d, content) ==
  /\ Unused /\ d \in Online
  /\ Spend
  /\ copy' = [copy EXCEPT ![d] =
       [content |-> content, base |-> 0, creator |-> user[d]]]
  /\ change' = [change EXCEPT ![d] = Dirty(d, 0)]
  /\ Revised(d)
  /\ UNCHANGED <<server, user, command, shelf, link, feedback, requests, seen>>

\* A private folder belongs to its creator, and only the creator hides one.
MayManage(d, private) ==
  copy[d].content.private \/ private => copy[d].creator = user[d]

\* The base of the pending change stays: the server arbitrates.
BaseOf(d) == IF change[d] # None THEN change[d].base ELSE copy[d].base

UpdateRecord(d, content) ==
  /\ copy[d] # None /\ MayManage(d, content.private)
  /\ Spend
  /\ copy' = [copy EXCEPT ![d].content = content]
  /\ change' = [change EXCEPT ![d] = Dirty(d, BaseOf(d))]
  /\ Revised(d)
  /\ UNCHANGED <<server, user, command, shelf, link, feedback, requests, seen>>

\* Deleting a folder unlinks its projects at once.  The links of a published
\* client wait for the server.
LinkAfterDelete(d) ==
  IF Kind = "folder" \/ copy[d].base = 0 THEN FALSE ELSE link[d]

DeleteRecord(d) ==
  /\ copy[d] # None /\ MayManage(d, FALSE)
  /\ Spend
  /\ command' = [command EXCEPT ![d] =
       [owner |-> user[d], base |-> copy[d].base]]
  /\ copy' = [copy EXCEPT ![d] = None]
  /\ change' = [change EXCEPT ![d] = None]
  /\ link' = [link EXCEPT ![d] = LinkAfterDelete(d)]
  /\ Revised(d)
  /\ UNCHANGED <<server, user, shelf, feedback, requests, seen>>

\* moveProjectToFolder and linkProposalToClient.
LinkProject(d) ==
  /\ d \in Linkers /\ copy[d] # None /\ ~link[d]
  /\ Spend
  /\ link' = [link EXCEPT ![d] = TRUE]
  /\ UNCHANGED <<server, user, held, shelf, feedback, pass, requests, seen>>

\* resolveFolderConflict and resolveClientConflict.
AcceptServer(d) ==
  /\ change[d] # None /\ change[d].server # None /\ Own(d, change[d].owner)
  /\ Spend
  /\ change' = [change EXCEPT ![d] = None]
  /\ copy' = [copy EXCEPT ![d] =
       IF Kind = "folder" /\ @ = None THEN None
       ELSE Downloaded(change[d].server)]
  /\ feedback' = [feedback EXCEPT ![d] = FALSE]
  /\ pass' = [pass EXCEPT ![d].touched = TRUE]
  /\ UNCHANGED <<server, user, command, shelf, link, requests, seen>>

KeepLocal(d) ==
  /\ change[d] # None /\ change[d].server # None /\ Own(d, change[d].owner)
  /\ Spend
  /\ change' = [change EXCEPT ![d] =
       [owner |-> @.owner, base |-> @.server.version, server |-> None,
        gone |-> FALSE]]
  /\ feedback' = [feedback EXCEPT ![d] = FALSE]
  /\ Revised(d)
  /\ UNCHANGED <<server, user, copy, command, shelf, link, requests, seen>>

\* A deletion conflict: the copy is dropped, or goes on under a new id.
LeaveDeleted(d, keep) ==
  /\ change[d] # None /\ change[d].gone /\ Own(d, change[d].owner)
  /\ Spend
  /\ change' = [change EXCEPT ![d] = None]
  /\ copy' = [copy EXCEPT ![d] = None]
  /\ feedback' = [feedback EXCEPT ![d] = FALSE]
  /\ IF keep THEN Revised(d) ELSE pass' = [pass EXCEPT ![d].touched = TRUE]
  /\ UNCHANGED <<server, user, command, shelf, link, requests, seen>>

\* changeWorkspace within one organization: the private folders of others
\* are set aside, and those of the next user come back.
ShelvedFor(d, folder, u) ==
  folder # None /\ folder.content.private /\ folder.creator # u

\* Faulty: what another user set aside is forgotten.
CapturedCopy(d) == copy[d]

Captured(d) ==
  IF copy[d] = None /\ ShelvedFor(d, shelf[d], user[d])
  THEN shelf[d] ELSE copy[d]

\* Every await of a pass that began before the change ends it.
Late(d) == {r \in requests : r.from = d /\ ~r.awaited}

Awaited(d) == {r \in requests : r.from = d /\ r.awaited}

MayAbandon(d) == Awaited(d) # {} => Cardinality(Late(d)) < MaxLate

Abandoned(d) ==
  {[r EXCEPT !.awaited = @ /\ r.from # d] : r \in requests}

SwitchUser(d, u) ==
  /\ u \in SignsIn[d] \ {user[d]}
  /\ Spend /\ MayAbandon(d)
  /\ user' = [user EXCEPT ![d] = u]
  /\ shelf' = [shelf EXCEPT ![d] = Captured(d)]
  /\ copy' = [copy EXCEPT ![d] =
       IF ShelvedFor(d, Captured(d), u) THEN None ELSE Captured(d)]
  /\ feedback' = [feedback EXCEPT ![d] = FALSE]
  /\ pass' = [pass EXCEPT ![d] = NoPass]
  /\ requests' = Abandoned(d)
  /\ UNCHANGED <<server, change, command, link, seen>>

-----------------------------------------------------------------------------
(* The pass: syncFoldersWithServer and syncClientsWithServer.              *)

\* A call while a pass runs asks it to run once more.
Trigger(d) ==
  /\ d \in Online
  /\ pass' = [pass EXCEPT ![d] = Triggered(@)]
  /\ UNCHANGED <<server, user, held, shelf, link, feedback, requests, seen, ops>>

\* GET lists the records the user may see and the ids of the tombstones.
AnswerList(d) ==
  /\ pass[d].phase = "listing" /\ pass[d].listed = None
  /\ pass' = [pass EXCEPT ![d].listed =
       IF Version = 0 \/ ~Visible(user[d])
       THEN [record |-> None, gone |-> FALSE]
       ELSE [record |-> IF deleted THEN None ELSE RowCard, gone |-> deleted]]
  /\ UNCHANGED <<server, user, held, shelf, link, feedback, requests, seen, ops>>

\* A folder nobody published gets a change, and the loop over the queued
\* deletions begins.
Unpublished(d) ==
  /\ Kind = "folder" /\ copy[d] # None /\ change[d] = None
  /\ copy[d].base = 0
  /\ pass[d].listed.record = None /\ ~pass[d].listed.gone

ReceiveList(d) ==
  /\ pass[d].phase = "listing" /\ pass[d].listed # None
  /\ change' = IF Unpublished(d)
                THEN [change EXCEPT ![d] = Dirty(d, 0)] ELSE change
  /\ pass' = [pass EXCEPT ![d].phase = "deleting", ![d].command = command[d]]
  /\ UNCHANGED <<server, user, copy, command, shelf, link, feedback, requests,
                 seen, ops>>

\* The command is foreign, or done already.
SkipCommand(d) ==
  LET p == pass[d]
      mine == p.command # None /\ p.command.owner = user[d]
      done == p.listed.gone \/ (p.listed.record = None /\ p.command.base = 0)
  IN
  /\ p.phase = "deleting"
  /\ mine => done
  /\ command' = IF mine THEN [command EXCEPT ![d] = None] ELSE command
  /\ pass' = [pass EXCEPT ![d].phase = "surveying"]
  /\ UNCHANGED <<server, user, copy, change, shelf, link, feedback, requests,
                 seen, ops>>

SendDelete(d) ==
  LET p == pass[d] IN
  /\ p.phase = "deleting"
  /\ p.command # None /\ p.command.owner = user[d]
  /\ ~p.listed.gone /\ (p.listed.record # None \/ p.command.base > 0)
  /\ requests' = requests \cup
       {[from |-> d, user |-> user[d], kind |-> "delete",
         base |-> p.command.base, content |-> None, awaited |-> TRUE]}
  /\ pass' = [pass EXCEPT ![d].phase = "removing"]
  /\ UNCHANGED <<server, user, held, shelf, link, feedback, seen, ops>>

\* Faulty: a deletion that failed is not tried again.
ReleasedAnyway(status) == status # "conflict"

\* A 404 releases the command of a client; a folder's stays.
Released(status) ==
  status = "done" \/ (Kind = "client" /\ status = "absent")

\* A refused deletion returns the record of the server for review.
Returned(d, card) ==
  [owner |-> IF Kind = "client" /\ change[d] # None
             THEN change[d].owner ELSE user[d],
   base |-> IF Kind = "client" /\ change[d] # None
            THEN change[d].base ELSE pass[d].command.base,
   server |-> card,
   gone |-> Kind = "client" /\ change[d] # None /\ change[d].gone]

AckDelete(d) ==
  LET p == pass[d] IN
  /\ p.phase = "removing" /\ p.reply # None
  /\ \/ /\ Released(p.reply.status)
        /\ command' = [command EXCEPT ![d] = None]
        /\ pass' = [pass EXCEPT ![d].phase = "surveying", ![d].reply = None,
             ![d].listed = [record |-> None, gone |-> TRUE]]
        /\ UNCHANGED <<copy, change, seen>>
     \/ /\ p.reply.status = "conflict"
        /\ copy' = [copy EXCEPT ![d] = Downloaded(p.reply.card)]
        /\ change' = [change EXCEPT ![d] = Returned(d, p.reply.card)]
        /\ command' = [command EXCEPT ![d] = None]
        /\ seen' = [seen EXCEPT ![d] = Later(@, p.reply.card.version)]
        /\ pass' = [pass EXCEPT ![d].phase = "surveying", ![d].reply = None,
             ![d].failed = TRUE]
     \/ /\ ~Released(p.reply.status) /\ p.reply.status # "conflict"
        /\ pass' = [pass EXCEPT ![d].phase = "surveying", ![d].reply = None,
             ![d].failed = TRUE]
        /\ UNCHANGED <<held, seen>>
  /\ UNCHANGED <<server, user, shelf, link, feedback, requests, ops>>

\* Object.entries(changes): the loop over the changes works on this copy.
Survey(d) ==
  /\ pass[d].phase = "surveying"
  /\ pass' = [pass EXCEPT ![d].phase = "updating", ![d].change = change[d],
       ![d].touched = FALSE]
  /\ UNCHANGED <<server, user, held, shelf, link, feedback, requests, seen, ops>>

\* What the loop decides about a change, in the order of its tests.
Decision(d) ==
  LET taken  == pass[d].change
      gone   == pass[d].listed.gone
      record == pass[d].listed.record
  IN
  CASE taken = None \/ copy[d] = None -> "skip"
    [] OTHER ->
  CASE ~Own(d, taken.owner) ->
         IF Kind = "client" /\ gone /\ ~taken.gone THEN "protect" ELSE "skip"
    [] OTHER ->
  CASE gone -> IF Kind = "client" THEN "lost" ELSE "skip"
    [] OTHER ->
  CASE taken.server # None \/ taken.gone -> "review"
    [] OTHER ->
  CASE record # None /\ record.content = copy[d].content -> "identical"
    [] OTHER ->
  IF record # None /\ taken.base = 0 THEN "diverged" ELSE "put"

\* {...changes[id], ...}: the entry may have gone meanwhile.
Present(d) ==
  IF change[d] # None THEN change[d]
  ELSE [owner |-> IF Kind = "client" THEN user[d] ELSE None, base |-> 0,
        server |-> None, gone |-> FALSE]

Deletion(d) ==
  [owner |-> IF change[d] = None THEN None ELSE change[d].owner,
   base |-> Present(d).base, server |-> None, gone |-> TRUE]

Conflicting(d, card) ==
  [owner |-> Present(d).owner, base |-> Present(d).base, server |-> card,
   gone |-> Present(d).gone]

\* Faulty: whatever the change is now, the receipt clears it.
AnyRevision(d) == change[d] # None

\* Faulty: the revision is compared with one made since.
NoRevision(d) == FALSE

Acknowledged(d) == change[d] # None /\ ~pass[d].touched

\* Faulty: the version is taken over without the content.
ReceiptOfVersion(d, card) ==
  /\ change' = [change EXCEPT ![d] = None]
  /\ copy' = [copy EXCEPT ![d] = IF @ = None THEN None ELSE [@ EXCEPT !.base = card.version]]
  /\ command' = [command EXCEPT ![d] =
       IF @ = None THEN None ELSE [@ EXCEPT !.base = card.version]]
  /\ seen' = [seen EXCEPT ![d] = Later(@, card.version)]

\* installReceipt: a newer revision stays, and takes the version as its base.
InstallReceipt(d, card) ==
  /\ change' = [change EXCEPT ![d] =
       IF @ = None \/ Acknowledged(d) THEN None
       ELSE [@ EXCEPT !.base = card.version]]
  /\ copy' = [copy EXCEPT ![d] =
       IF @ = None THEN None
       ELSE IF Acknowledged(d) THEN Downloaded(card)
       ELSE [@ EXCEPT !.base = card.version]]
  /\ command' = [command EXCEPT ![d] =
       IF @ = None THEN None ELSE [@ EXCEPT !.base = card.version]]
  /\ seen' = [seen EXCEPT ![d] = Later(@, card.version)]

SkipChange(d) ==
  /\ pass[d].phase = "updating" /\ Decision(d) \in {"skip", "review"}
  /\ pass' = [pass EXCEPT ![d].phase = "closing",
       ![d].failed = @ \/ Decision(d) = "review"]
  /\ UNCHANGED <<server, user, held, shelf, link, feedback, requests, seen, ops>>

MarkDeleted(d) ==
  /\ pass[d].phase = "updating" /\ Decision(d) \in {"protect", "lost"}
  /\ change' = [change EXCEPT ![d] = Deletion(d)]
  /\ pass' = [pass EXCEPT ![d].phase = "closing",
       ![d].failed = @ \/ Decision(d) = "lost"]
  /\ UNCHANGED <<server, user, copy, command, shelf, link, feedback, requests,
                 seen, ops>>

RecoverReceipt(d) ==
  /\ pass[d].phase = "updating" /\ Decision(d) = "identical"
  /\ InstallReceipt(d, pass[d].listed.record)
  /\ pass' = [pass EXCEPT ![d].phase = "closing"]
  /\ UNCHANGED <<server, user, shelf, link, feedback, requests, ops>>

KeepDiverged(d) ==
  /\ pass[d].phase = "updating" /\ Decision(d) = "diverged"
  /\ change' = [change EXCEPT ![d] = Conflicting(d, pass[d].listed.record)]
  /\ seen' = [seen EXCEPT ![d] = Later(@, pass[d].listed.record.version)]
  /\ pass' = [pass EXCEPT ![d].phase = "closing", ![d].failed = TRUE]
  /\ UNCHANGED <<server, user, copy, command, shelf, link, feedback, requests,
                 ops>>

SendPut(d) ==
  /\ pass[d].phase = "updating" /\ Decision(d) = "put"
  /\ requests' = requests \cup
       {[from |-> d, user |-> user[d], kind |-> "put",
         base |-> pass[d].change.base, content |-> copy[d].content,
         awaited |-> TRUE]}
  /\ pass' = [pass EXCEPT ![d].phase = "putting"]
  /\ UNCHANGED <<server, user, held, shelf, link, feedback, seen, ops>>

AckPut(d) ==
  LET p == pass[d] IN
  /\ p.phase = "putting" /\ p.reply # None
  /\ \/ /\ p.reply.status = "saved"
        /\ InstallReceipt(d, p.reply.card)
        /\ pass' = [pass EXCEPT ![d].phase = "closing", ![d].reply = None,
             ![d].listed.record = p.reply.card]
     \/ /\ p.reply.status = "conflict"
        /\ change' = [change EXCEPT ![d] = Conflicting(d, p.reply.card)]
        /\ seen' = [seen EXCEPT ![d] = Later(@, p.reply.card.version)]
        /\ pass' = [pass EXCEPT ![d].phase = "closing", ![d].reply = None,
             ![d].failed = TRUE]
        /\ UNCHANGED <<copy, command>>
     \/ /\ p.reply.status \notin {"saved", "conflict"}
        /\ pass' = [pass EXCEPT ![d].phase = "closing", ![d].reply = None,
             ![d].failed = TRUE]
        /\ UNCHANGED <<held, seen>>
  /\ UNCHANGED <<server, user, shelf, link, feedback, requests, ops>>

\* The last update of a pass: what is still pending, and for the rest what
\* the server has; a change of a tombstone goes, but for a client's
\* deletion conflict.
RemainingChange(d) ==
  IF /\ pass[d].listed.gone
     /\ Kind = "client" => ~(change[d] # None /\ change[d].gone /\ copy[d] # None)
  THEN None ELSE change[d]

Pending(d) == copy[d] # None /\ RemainingChange(d) # None

Offered(d) ==
  /\ pass[d].listed.record # None /\ command[d] = None
  /\ Kind = "client" => RemainingChange(d) = None

NeedsReview(d) ==
  LET left == RemainingChange(d) IN
  /\ left # None
  /\ IF Kind = "folder" THEN left.server # None
     ELSE (left.server # None \/ left.gone) /\ Own(d, left.owner)

Close(d) ==
  LET p == pass[d]
      waits == p.failed \/ NeedsReview(d)
  IN
  /\ p.phase = "closing"
  /\ change' = [change EXCEPT ![d] = RemainingChange(d)]
  /\ copy' = [copy EXCEPT ![d] =
       IF Pending(d) THEN @
       ELSE IF Offered(d) THEN Downloaded(p.listed.record) ELSE None]
  /\ seen' = [seen EXCEPT ![d] =
       IF ~Pending(d) /\ Offered(d) THEN Later(@, p.listed.record.version)
       ELSE @]
  /\ link' = [link EXCEPT ![d] = @ /\ ~(Kind = "client" /\ p.listed.gone)]
  /\ feedback' = [feedback EXCEPT ![d] = waits]
  /\ pass' = [pass EXCEPT ![d] = IF p.again /\ ~waits THEN Listing0 ELSE NoPass]
  /\ UNCHANGED <<server, user, command, shelf, requests, ops>>

\* A request throws: the pass ends, and a request may still arrive later.
PassFails(d) ==
  /\ pass[d].phase \in {"listing", "removing", "putting"}
  /\ Spend /\ MayAbandon(d)
  /\ feedback' = [feedback EXCEPT ![d] = TRUE]
  /\ pass' = [pass EXCEPT ![d] = NoPass]
  /\ requests' = Abandoned(d)
  /\ UNCHANGED <<server, user, held, shelf, link, seen>>

\* The program is closed and opened again: the records, the changes and the
\* queue are stored, the pass is not.
Reload(d) ==
  /\ pass[d].phase # "idle"
  /\ Spend /\ MayAbandon(d)
  /\ feedback' = [feedback EXCEPT ![d] = FALSE]
  /\ pass' = [pass EXCEPT ![d] = NoPass]
  /\ requests' = Abandoned(d)
  /\ UNCHANGED <<server, user, held, shelf, link, seen>>

-----------------------------------------------------------------------------
(* The server: each request is one transaction on the row.                 *)

Reply(r, status, card) ==
  /\ requests' = requests \ {r}
  /\ pass' = IF r.awaited
             THEN [pass EXCEPT ![r.from].reply =
                     [status |-> status, card |-> card]]
             ELSE pass
  /\ UNCHANGED <<user, held, shelf, link, feedback, seen, ops>>

\* 404 for the private folder of another, 403 for hiding another's folder.
Forbidden(r) ==
  /\ Version > 0
  /\ Row.content.private \/ (r.kind = "put" /\ r.content.private)
  /\ Creator # r.user

\* Faulty: PUT does not compare its base.
AnyBase(r) == ~deleted

Expected(r) == ~deleted /\ r.base = Version

HandlePut(r) ==
  /\ r \in requests /\ r.kind = "put"
  /\ \/ /\ ~Forbidden(r) /\ Expected(r)
        /\ published' = Append(published,
             [content |-> r.content, by |-> r.user, from |-> r.from])
        /\ Reply(r, "saved", [version |-> Version + 1, content |-> r.content])
        /\ UNCHANGED deleted
     \/ /\ ~Forbidden(r) /\ ~Expected(r)
        /\ IF deleted \/ Version = 0
           THEN Reply(r, "refused", None) ELSE Reply(r, "conflict", RowCard)
        /\ UNCHANGED server
     \/ /\ Forbidden(r)
        /\ Reply(r, "absent", None)
        /\ UNCHANGED server

\* A tombstone is a version of its own.  The answer to a stale deletion shows
\* the row; that of a client only if it is alive.
HandleDelete(r) ==
  /\ r \in requests /\ r.kind = "delete"
  /\ \/ /\ Version = 0 \/ Forbidden(r)
        /\ Reply(r, "absent", None)
        /\ UNCHANGED server
     \/ /\ Version > 0 /\ ~Forbidden(r) /\ r.base # Version
        /\ IF Kind = "client" /\ deleted
           THEN Reply(r, "refused", None) ELSE Reply(r, "conflict", RowCard)
        /\ UNCHANGED server
     \/ /\ Version > 0 /\ ~Forbidden(r) /\ r.base = Version
        /\ published' = IF deleted THEN published
             ELSE Append(published,
                    [content |-> Row.content, by |-> r.user, from |-> r.from])
        /\ deleted' = TRUE
        /\ Reply(r, "done", None)

-----------------------------------------------------------------------------
UserStep(d) ==
  \/ \E content \in Content :
       /\ content.private => Kind = "folder"
       /\ CreateRecord(d, content) \/ UpdateRecord(d, content)
  \/ DeleteRecord(d) \/ LinkProject(d)
  \/ AcceptServer(d) \/ KeepLocal(d)
  \/ \E keep \in BOOLEAN : LeaveDeleted(d, keep)

PassStep(d) ==
  \/ AnswerList(d) \/ ReceiveList(d)
  \/ SkipCommand(d) \/ SendDelete(d) \/ AckDelete(d)
  \/ Survey(d) \/ SkipChange(d) \/ MarkDeleted(d) \/ RecoverReceipt(d)
  \/ KeepDiverged(d) \/ SendPut(d) \/ AckPut(d)
  \/ Close(d)

Next ==
  /\ UNCHANGED setting
  /\ \/ \E d \in Devices :
          UserStep(d) \/ Trigger(d) \/ PassStep(d) \/ PassFails(d) \/ Reload(d)
     \/ \E d \in Devices, u \in Users : SwitchUser(d, u)
     \/ \E r \in requests : HandlePut(r) \/ HandleDelete(r)

Spec == Init /\ [][Next]_<<setting, vars>>

\* Where automatic synchronisation is on, the program starts a run every fifteen
\* seconds and when it gets the focus; where it is off, only the user does
\* (Trigger), and no fairness says that they will.  A pass that has begun goes
\* on in both cases, the server answers, and a connection that keeps being tried
\* lets every kind of exchange through some time.
DirectoryFairness ==
  \A d \in Devices :
    /\ WF_vars(AutoSync /\ pass[d].phase = "idle" /\ Trigger(d))
    /\ WF_vars(PassStep(d))
    /\ WF_vars(\E r \in Awaited(d) : HandlePut(r) \/ HandleDelete(r))

FairSpec == Spec /\ DirectoryFairness

-----------------------------------------------------------------------------
DirectoryTypeOK ==
  /\ published \in Seq(Entry)
  /\ deleted \in BOOLEAN
  /\ setting \in DOMAIN Settings
  /\ user \in [Devices -> Users \cup {None}]
  /\ copy \in [Devices -> Copy \cup {None}]
  /\ change \in [Devices -> Change \cup {None}]
  /\ command \in [Devices -> Command \cup {None}]
  /\ shelf \in [Devices -> Copy \cup {None}]
  /\ link \in [Devices -> BOOLEAN]
  /\ feedback \in [Devices -> BOOLEAN]
  /\ pass \in [Devices -> Pass]
  /\ requests \subseteq Request
  /\ seen \in [Devices -> Nat]
  /\ ops \in 0..MaxOps

(* A record without a pending change is, to the letter, what the server    *)
(* published under the version the device holds: also when an edit         *)
(* overtook a receipt, a receipt was lost, a refused deletion brought the  *)
(* record back, or another user signed in meanwhile (installReceipt).  Not *)
(* so for what the archive brings back after another user of the device    *)
(* deleted the folder.                                                     *)
CleanIsPublished ==
  \A d \in Devices :
    (copy[d] \notin {None, shelf[d]} /\ change[d] = None /\ copy[d].base > 0) =>
      /\ copy[d].base <= Version
      /\ published[copy[d].base].content = copy[d].content

(* No device overwrites or deletes a version it has not been shown: the    *)
(* version that a PUT replaces or a DELETE ends, also one that arrives     *)
(* late, the device had displayed or had written itself.                   *)
Blind ==
  /\ Version > 0 /\ Version' > Version
  /\ published[Version].from # published'[Version'].from
  /\ Version > seen[published'[Version'].from]

NothingBlind == [][~Blind]_vars

(* The state has the code's shape, and what a device takes for             *)
(* synchronised is what the server published.                              *)
DirectoryInv == DirectoryTypeOK /\ CleanIsPublished

(* Unsynced work is never lost: only its user replaces, deletes or gives   *)
(* up a pending edit; otherwise it stays, in the archive when another user *)
(* signs in, until its very content is the server's under a version no     *)
(* older than its base and the device's last, or the record is deleted on  *)
(* the server.  Not so for a client whose deletion is still queued while a *)
(* conflict has shown it again: the 409 of that deletion puts the server's *)
(* record in place of what was edited since.  Nor when the pass compares   *)
(* with a list older than the base or than a write of this device: an edit *)
(* that happens to equal it counts as a recovered receipt.                 *)
Settled(d, content) ==
  \E v \in 1..Version' :
    /\ v >= change[d].base /\ published'[v].content = content
    /\ \A w \in v + 1..Version' : published'[w].from # d

OlderList(d) ==
  /\ pass[d].phase = "updating" /\ pass[d].listed.record # None
  /\ LET listed == pass[d].listed.record.version IN
       \/ listed < change[d].base
       \/ \E w \in listed + 1..Version : published[w].from = d

KeepsWork(d) ==
  (change[d] # None /\ copy[d] # None /\ command[d] = None) =>
    \/ UserStep(d)
    \/ /\ change'[d] # None
       /\ \E folder \in {copy'[d], shelf'[d]} :
            folder # None /\ folder.content = copy[d].content
    \/ Settled(d, copy[d].content)
    \/ deleted \/ OlderList(d)

WorkSurvives == [][\A d \in Devices : KeepsWork(d)]_vars

(* What one user keeps private is not shown to the next user of the        *)
(* device, whatever pass was running when the users changed, and although  *)
(* the folder stays in the archive of the workspace (SHARED_RESOURCES.md). *)
(* Not so for a conflict without an owner, that of a folder which was      *)
(* deleted while its update was under way: any user of the device answers. *)
Exposed(d) ==
  copy[d] # None /\ copy[d].content.private /\ copy[d].creator # user[d]

AnswersOwnerless(d) == change[d] # None /\ change[d].owner = None /\ AcceptServer(d)

\* The change is another user's, whose private folder is set aside.
ShelvedWork(d) ==
  /\ change[d] # None /\ copy[d] = None
  /\ ShelvedFor(d, shelf[d], user[d]) /\ change[d].owner = shelf[d].creator

KeepsShelved(d) ==
  ShelvedWork(d) =>
    \/ ShelvedWork(d)' /\ shelf'[d] = shelf[d]
    \/ copy'[d] = shelf[d]
    \/ Settled(d, shelf[d].content)
    \/ deleted

ShownToOther(d) ==
  \/ pass[d].listed # None /\ pass[d].listed.record # None
  \/ pass[d].reply # None /\ pass[d].reply.card # None

(* What is set aside while another user is signed in survives as well,     *)
(* also when users change several times and passes run in between, unless  *)
(* the server still shows the folder to that other user: what its author   *)
(* made private on the device is then dropped with the archive.            *)
PrivateStaysTheirs ==
  [][\A d \in Devices :
       /\ ~Exposed(d) => ~Exposed(d)' \/ AnswersOwnerless(d)
       /\ ShownToOther(d) \/ KeepsShelved(d)]_vars

(* The links of a published client go only once the server has confirmed   *)
(* the deletion; a refused deletion costs no link (CLIENTS.md).            *)
LinkWaits(d) ==
  (Kind = "client" /\ link[d] /\ ~link'[d]) => deleted \/ copy[d].base = 0

(* A deletion the user asked for leaves the queue only when the record is  *)
(* deleted, was never published, or somebody else wrote after the version  *)
(* it names and the user gets to see that; nor do the client's links go    *)
(* before the deletion is confirmed (LinkWaits).  Not so for a folder that *)
(* is deleted once more while the pass drops the earlier deletion.         *)
Withdrawn(d) ==
  /\ command[d] # None /\ command'[d] = None
  /\ ~deleted /\ command[d].base > 0
  /\ Kind = "folder" => pass[d].command = command[d]
  /\ change'[d] = None \/ change'[d].server = None

DeletionIsDurable == [][\A d \in Devices : ~Withdrawn(d) /\ LinkWaits(d)]_vars

(* Where automatic synchronisation is on, and once the users stop, every   *)
(* change and every deletion of the signed-in user comes to its end:       *)
(* published, confirmed or shown as a conflict (triggerAutoSync, App.tsx). *)
(* Where it is off they wait until the user asks for a run.  Not so for a  *)
(* folder that is another's by what the server knows, and became private   *)
(* there or on the device: its 404 or 403 leaves the command and the       *)
(* change where they are.                                                  *)
Waiting(d) ==
  /\ Version > 0 => Visible(user[d])
  /\ \/ /\ change[d] # None /\ copy[d] # None /\ Own(d, change[d].owner)
        /\ change[d].server = None /\ ~change[d].gone
        /\ Version > 0 /\ copy[d].content.private => Creator = user[d]
     \/ command[d] # None /\ command[d].owner = user[d]

EverythingSettles == <>[](AutoSync => \A d \in Devices : ~Waiting(d))
=============================================================================
