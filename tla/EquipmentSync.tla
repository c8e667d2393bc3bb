--------------------------- MODULE EquipmentSync ---------------------------
(***************************************************************************)
(* The equipment catalogue of an organization as its devices work on it:   *)
(* equipmentSlice.ts with its awaits, and GET, batch POST and DELETE of    *)
(* the server's equipment.ts, started in any one of Settings.              *)
(*                                                                         *)
(* A device is single threaded: an action is what it does between two      *)
(* awaits.  The loop over the captured deletions is the exception: each    *)
(* round is an action, and nothing else of the device moves until the loop *)
(* awaits or ends.  Every device is signed in by a writer of the           *)
(* organization; References are the ids of the shared models, which are in *)
(* the catalogue every device starts with.                                 *)
(***************************************************************************)
EXTENDS Integers, FiniteSets

CONSTANTS
  Devices,
  Ids,
  Settings      \* a sequence of the starts to check, each with its bounds:
                \*   references: DEFAULT_EQUIPMENT_CATALOG, REFERENCE_EQUIPMENT_IDS
                \*   uploaded: own items of the organization, downloaded
                \*   edits, removals, resets: what the members do, at most
                \*   faults: requests the devices give up on

ASSUME EquipmentAssumption ==
  \A s \in {Settings[n] : n \in DOMAIN Settings} :
    /\ s.references \subseteq Ids /\ s.uploaded \subseteq Ids \ s.references
    /\ {s.edits, s.removals, s.resets, s.faults} \subseteq Nat

VARIABLES
  setting,   \* which of Settings this behaviour is in
  rows,      \* equipment_catalog: who owns each id, its version and content
  tombs,     \* equipment_tombstones of the organization
  catalog,   \* per device and id, the item of equipmentCatalog
  changes,   \* the revision of its entry in equipmentChanges, 0: none
  queue,     \* equipmentDeletionQueue
  hidden,    \* deletedEquipmentIds
  conflicts, \* equipmentConflicts
  run,       \* the run of syncEquipmentWithServer and its request
  late,      \* requests given up on that may still arrive
  stored,    \* auxiliary: contents the server ever held, per id
  shown,     \* auxiliary: versions each device was told of, per id
  used       \* auxiliary: steps counted against the bounds

vars == <<rows, tombs, catalog, changes, queue, hidden, conflicts, run, late,
          stored, shown, used>>
server == <<rows, tombs, stored>>
local  == <<catalog, changes, queue, hidden, conflicts>>

References == Settings[setting].references
Uploaded == Settings[setting].uploaded
MaxEdits == Settings[setting].edits
MaxRemovals == Settings[setting].removals
MaxResets == Settings[setting].resets
MaxFaults == Settings[setting].faults

Texts == 0..MaxEdits
Owners == {"own", "shared", "none"}  \* "none": an item without organizationId
Item == [owner: Owners, base: Nat, text: Texts]
Row  == [owner: {"own", "shared"}, base: Nat \ {0}, text: Texts]
NoItem == [owner |-> "absent", base |-> 0, text |-> 0]
Command == [id: Ids, base: Nat, item: Item]
NoConflict == [reason |-> "no", item |-> NoItem]
Conflict == [reason: {"deleted", "mismatch", "version"}, item: Row \cup {NoItem}]
NotSent == [base |-> 0, text |-> 0, revision |-> 0]
Answer == [kind: {"none", "failed", "pull", "done", "refused", "results"},
           items: [Ids -> Row \cup {NoItem}], deleted: SUBSET Ids,
           results: [Ids -> {"no", "ok", "deleted", "mismatch", "version"}]]
NoAnswer == [kind |-> "none", items |-> [i \in Ids |-> NoItem],
             deleted |-> {}, results |-> [i \in Ids |-> "no"]]
NoCommand == [id |-> "none", base |-> 0, item |-> NoItem]
NothingSent == [i \in Ids |-> NotSent]
Idle == [stage |-> "idle", answer |-> NoAnswer, pulled |-> NoAnswer,
         todo |-> {}, command |-> NoCommand, sent |-> NothingSent]

Here(d, i) == catalog[d][i] # NoItem
Pending(d, i) == changes[d][i] # 0
Queued(d) == {c.id : c \in queue[d]}

\* What the server reads for the organization.
Visible(i) == IF i \in tombs THEN NoItem ELSE rows[i]

Init ==
  /\ setting \in DOMAIN Settings
  /\ rows = [i \in Ids |->
       IF i \in References THEN [owner |-> "shared", base |-> 1, text |-> 0]
       ELSE IF i \in Uploaded THEN [owner |-> "own", base |-> 1, text |-> 0]
       ELSE NoItem]
  /\ tombs = {}
  /\ catalog = [d \in Devices |-> [i \in Ids |->
       IF i \in References THEN [owner |-> "none", base |-> 0, text |-> 0]
       ELSE rows[i]]]
  /\ changes = [d \in Devices |-> [i \in Ids |-> 0]]
  /\ queue = [d \in Devices |-> {}]
  /\ hidden = [d \in Devices |-> {}]
  /\ conflicts = [d \in Devices |-> [i \in Ids |-> NoConflict]]
  /\ run = [d \in Devices |-> Idle]
  /\ late = {}
  /\ stored = {<<i, 0>> : i \in References \cup Uploaded}
  /\ shown = [d \in Devices |-> {<<i, 1>> : i \in Uploaded}]
  /\ used = [edits |-> 0, removals |-> 0, resets |-> 0, faults |-> 0]

----------------------------------------------------------------------------
(* What the member does on a device, between two steps of a run. *)

Free(d) == run[d].stage # "loop"

\* crypto.randomUUID(): a revision the run in progress did not capture.
NewRevision(d, i) ==
  CHOOSE r \in 1..3 : r \notin {changes[d][i], run[d].sent[i].revision}

\* The set of the slice: an item that differs from the one before is the
\* organization's own and pending, on the version it was read at.  A shared
\* item stays as it was.
Tracked(d, i, text) ==
  [owner |-> "own", base |-> catalog[d][i].base, text |-> text]

\* updateEquipmentItem, the operations on offers, and the undo of a tool.
Edit(d, i) ==
  /\ Free(d) /\ Here(d, i) /\ catalog[d][i].owner # "shared"
  /\ used.edits < MaxEdits
  /\ used' = [used EXCEPT !.edits = @ + 1]
  /\ catalog' = [catalog EXCEPT ![d][i] = Tracked(d, i, used.edits + 1)]
  /\ changes' = [changes EXCEPT ![d][i] = NewRevision(d, i)]
  /\ UNCHANGED <<server, queue, hidden, conflicts, run, late, shown>>

Unused(i) ==
  /\ i \notin References /\ rows[i] = NoItem /\ i \notin tombs
  /\ \A d \in Devices :
       /\ ~Here(d, i) /\ ~Pending(d, i) /\ i \notin Queued(d) \cup hidden[d]
       /\ run[d].sent[i] = NotSent
  /\ \A r \in late : r.sent[i] = NotSent

\* addEquipmentItem and addEquipmentBatch with an item of its own name.
Add(d, i) ==
  /\ Free(d) /\ Unused(i) /\ used.edits < MaxEdits
  /\ used' = [used EXCEPT !.edits = @ + 1]
  /\ catalog' = [catalog EXCEPT ![d][i] = Tracked(d, i, used.edits + 1)]
  /\ changes' = [changes EXCEPT ![d][i] = NewRevision(d, i)]
  /\ UNCHANGED <<server, queue, hidden, conflicts, run, late, shown>>

Deletion(d, i) == [id |-> i, base |-> catalog[d][i].base, item |-> catalog[d][i]]

Remove(d, i) ==
  /\ Free(d) /\ Here(d, i) /\ used.removals < MaxRemovals
  /\ used' = [used EXCEPT !.removals = @ + 1]
  /\ catalog' = [catalog EXCEPT ![d][i] = NoItem]
  /\ changes' = [changes EXCEPT ![d][i] = 0]
  /\ queue' = [queue EXCEPT ![d] = @ \cup {Deletion(d, i)}]
  /\ hidden' = [hidden EXCEPT ![d] = @ \cup {i}]
  /\ UNCHANGED <<server, conflicts, run, late, shown>>

\* resetEquipmentCatalogToDefaults: an item that is not a reference is
\* removed, a reference that is missing or was edited is written anew.
Reset(d) ==
  LET gone == {i \in Ids \ References : Here(d, i)}
      anew == {i \in References : catalog[d][i].owner \in {"absent", "own"}}
  IN
  /\ Free(d) /\ used.resets < MaxResets
  /\ used' = [used EXCEPT !.resets = @ + 1]
  /\ catalog' = [catalog EXCEPT ![d] = [i \in Ids |->
       IF i \in gone THEN NoItem
       ELSE IF i \in anew THEN Tracked(d, i, 0) ELSE @[i]]]
  /\ changes' = [changes EXCEPT ![d] = [i \in Ids |->
       IF i \in gone THEN 0
       ELSE IF i \in anew THEN NewRevision(d, i) ELSE @[i]]]
  /\ queue' = [queue EXCEPT ![d] = @ \cup {Deletion(d, i) : i \in gone}]
  /\ hidden' = [hidden EXCEPT ![d] = {}]
  /\ UNCHANGED <<server, conflicts, run, late, shown>>

\* resolveEquipmentConflict
Resolves(d, i) == Free(d) /\ conflicts[d][i] # NoConflict /\ Here(d, i)
Resolved(d, i) == [conflicts EXCEPT ![d][i] = NoConflict]

AcceptServer(d, i) ==
  /\ Resolves(d, i) /\ conflicts[d][i].item # NoItem
  /\ catalog' = [catalog EXCEPT ![d][i] = conflicts[d][i].item]
  /\ changes' = [changes EXCEPT ![d][i] = 0]
  /\ conflicts' = Resolved(d, i)
  /\ UNCHANGED <<server, queue, hidden, run, late, shown, used>>

KeepLocal(d, i) ==
  /\ Resolves(d, i) /\ conflicts[d][i].item.owner = "own"
  /\ catalog' = [catalog EXCEPT ![d][i].base = conflicts[d][i].item.base]
  /\ changes' = [changes EXCEPT ![d][i] = NewRevision(d, i)]
  /\ conflicts' = Resolved(d, i)
  /\ UNCHANGED <<server, queue, hidden, run, late, shown, used>>

Fork(d, i, j) ==
  /\ Resolves(d, i) /\ Unused(j)
  /\ catalog' = [catalog EXCEPT
       ![d][i] = conflicts[d][i].item,
       ![d][j] = [owner |-> "own", base |-> 0, text |-> catalog[d][i].text]]
  /\ changes' = [changes EXCEPT ![d][i] = 0, ![d][j] = NewRevision(d, j)]
  /\ conflicts' = Resolved(d, i)
  /\ UNCHANGED <<server, queue, hidden, run, late, shown, used>>

----------------------------------------------------------------------------
(* The server.  A transaction holds an advisory lock per id to its end. *)

Serving(d, stage) == run[d].stage = stage /\ run[d].answer.kind = "none"
Answered(d, a) == run' = [run EXCEPT ![d].answer = a]

\* GET /api/equipment
ServePull(d) ==
  /\ Serving(d, "pulling") \/ Serving(d, "checking")
  /\ Answered(d, [NoAnswer EXCEPT !.kind = "pull", !.deleted = tombs,
                                  !.items = [i \in Ids |-> Visible(i)]])
  /\ UNCHANGED <<server, local, late, shown, used>>

\* Faulty: the tombstones are not looked up.
OutcomeOfRow(i, base) ==
  IF rows[i].owner = "shared" THEN "mismatch"
  ELSE IF rows[i] # NoItem /\ base # rows[i].base THEN "version"
  ELSE "ok"

\* The outcome of one item of a batch.
Outcome(i, base) ==
  IF i \in tombs THEN "deleted"
  ELSE IF rows[i].owner = "shared" THEN "mismatch"
  ELSE IF rows[i] # NoItem /\ base # rows[i].base THEN "version"
  ELSE "ok"

Batch(sent) == {i \in Ids : sent[i] # NotSent}
Saved(sent) == {i \in Batch(sent) : Outcome(i, sent[i].base) = "ok"}

SaveBatch(sent) ==
  /\ rows' = [i \in Ids |-> IF i \in Saved(sent)
       THEN [owner |-> "own", base |-> rows[i].base + 1, text |-> sent[i].text]
       ELSE rows[i]]
  /\ stored' = stored \cup {<<i, sent[i].text>> : i \in Saved(sent)}
  /\ tombs' = tombs

\* POST /api/equipment/batch; a conflict of version shows the current row.
ServePush(d) ==
  LET sent == run[d].sent
      results == [i \in Ids |-> IF i \in Batch(sent)
                    THEN Outcome(i, sent[i].base) ELSE "no"]
  IN
  /\ Serving(d, "pushing")
  /\ SaveBatch(sent)
  /\ Answered(d, [NoAnswer EXCEPT !.kind = "results", !.results = results,
       !.items = [i \in Ids |->
         IF results[i] \in {"ok", "version"} THEN rows'[i] ELSE NoItem]])
  /\ UNCHANGED <<local, late, shown, used>>

\* Faulty: the row is deleted whatever its version.
MayDeleteAny(i, base) == rows[i].owner = "own" => base \in Nat

MayDelete(i, base) == rows[i].owner = "own" => base = rows[i].base

\* Faulty: an own item goes without a tombstone.
BuryShared(i) ==
  /\ rows' = [rows EXCEPT ![i] = IF @.owner = "own" THEN NoItem ELSE @]
  /\ tombs' = IF rows[i].owner = "own" THEN tombs ELSE tombs \cup {i}
  /\ stored' = stored

\* A shared model, or an id that never came, only gets a tombstone.
Bury(i) ==
  /\ rows' = [rows EXCEPT ![i] = IF @.owner = "own" THEN NoItem ELSE @]
  /\ tombs' = tombs \cup {i}
  /\ stored' = stored

\* DELETE /api/equipment/:id
ServeDelete(d) ==
  LET c == run[d].command IN
  /\ Serving(d, "deleting")
  /\ IF MayDelete(c.id, c.base)
     THEN Bury(c.id) /\ Answered(d, [NoAnswer EXCEPT !.kind = "done"])
     ELSE UNCHANGED server /\ Answered(d, [NoAnswer EXCEPT !.kind = "refused"])
  /\ UNCHANGED <<local, late, shown, used>>

\* A request its device gave up on arrives after all.
ArriveLate(r) ==
  /\ late' = late \ {r}
  /\ IF r.command = NoCommand THEN SaveBatch(r.sent)
     ELSE IF MayDelete(r.command.id, r.command.base) THEN Bury(r.command.id)
     ELSE UNCHANGED server
  /\ UNCHANGED <<local, run, shown, used>>

----------------------------------------------------------------------------
(* syncEquipmentWithServer *)

Goes(d, stage) == run' = [run EXCEPT ![d].stage = stage, ![d].answer = NoAnswer]

Sync(d) ==
  /\ run[d].stage = "idle"
  /\ Goes(d, "pulling")
  /\ UNCHANGED <<server, local, late, shown, used>>

\* The items the device has, by what the answer of the server holds of them.
\* A deletion wins, but not over unsent work, which stays as a conflict.
ApplyPull(d) ==
  LET a == run[d].answer
      deleted == hidden[d] \cup a.deleted \cup Queued(d)
      orphans == {i \in deleted \ Queued(d) :
                    Pending(d, i) /\ catalog[d][i].owner = "own"}
      merged == {i \in Ids \ deleted : a.items[i] # NoItem /\ ~Pending(d, i)}
      noticed == [i \in Ids |-> IF i \in orphans
                    THEN [reason |-> "deleted", item |-> NoItem]
                    ELSE conflicts[d][i]]
      kept == {i \in Ids : Here(d, i) /\ (i \in deleted => i \in orphans)}
  IN
  /\ run[d].stage = "pulling" /\ a.kind = "pull"
  /\ catalog' = [catalog EXCEPT ![d] = [i \in Ids |->
       IF i \in merged THEN a.items[i]
       ELSE IF i \in kept THEN @[i] ELSE NoItem]]
  /\ conflicts' = [conflicts EXCEPT ![d] = noticed]
  /\ hidden' = [hidden EXCEPT ![d] = {i \in deleted :
       ~(i \in kept /\ Pending(d, i) /\ noticed[i].reason = "deleted")}]
  /\ shown' = [shown EXCEPT ![d] = @ \cup {<<i, a.items[i].base>> : i \in merged}]
  /\ run' = [run EXCEPT ![d].stage = "loop", ![d].answer = NoAnswer,
                        ![d].pulled = a, ![d].todo = queue[d]]
  /\ UNCHANGED <<server, changes, queue, late, used>>

\* releaseDeletion
Released(d, i) == {c \in queue[d] : c.id # i}

\* Faulty: the item comes back and stays on the list of the removed.
RecoverHidden(d, c, item) ==
  /\ queue' = [queue EXCEPT ![d] = Released(d, c.id)]
  /\ hidden' = hidden
  /\ catalog' = [catalog EXCEPT ![d][c.id] = c.item]
  /\ changes' = [changes EXCEPT ![d][c.id] = NewRevision(d, c.id)]
  /\ conflicts' = [conflicts EXCEPT ![d][c.id] = [reason |-> "version", item |-> item]]
  /\ shown' = [shown EXCEPT ![d] = @ \cup {<<c.id, item.base>>}]

\* recoverDeletion: the removed item comes back pending, with a conflict.
Recover(d, c, item) ==
  /\ queue' = [queue EXCEPT ![d] = Released(d, c.id)]
  /\ hidden' = [hidden EXCEPT ![d] = @ \ {c.id}]
  /\ catalog' = [catalog EXCEPT ![d][c.id] = c.item]
  /\ changes' = [changes EXCEPT ![d][c.id] = NewRevision(d, c.id)]
  /\ conflicts' = [conflicts EXCEPT ![d][c.id] = [reason |-> "version", item |-> item]]
  /\ shown' = [shown EXCEPT ![d] = @ \cup {<<c.id, item.base>>}]

\* Faulty: the first version after the command's passes for its own.
ChangedLater(item, c) == item.owner = "own" /\ item.base > c.base + 1

Changed(item, c) == item.owner = "own" /\ item.base # c.base

Looping(d, c) == run[d].stage = "loop" /\ c \in run[d].todo
Done(d, c) == run' = [run EXCEPT ![d].todo = @ \ {c}]

\* The answer of the pull already holds the deletion.
AlreadyDeleted(d, c) ==
  /\ Looping(d, c) /\ c.id \in run[d].pulled.deleted
  /\ Done(d, c)
  /\ queue' = [queue EXCEPT ![d] = Released(d, c.id)]
  /\ UNCHANGED <<server, catalog, changes, hidden, conflicts, late, shown, used>>

\* The item was changed since the member removed it.
DeletionConflicts(d, c) ==
  /\ Looping(d, c) /\ c.id \notin run[d].pulled.deleted
  /\ Changed(run[d].pulled.items[c.id], c)
  /\ Done(d, c)
  /\ Recover(d, c, run[d].pulled.items[c.id])
  /\ UNCHANGED <<server, late, used>>

SendDeletion(d, c) ==
  /\ Looping(d, c) /\ c.id \notin run[d].pulled.deleted
  /\ ~Changed(run[d].pulled.items[c.id], c)
  /\ run' = [run EXCEPT ![d].stage = "deleting", ![d].command = c, ![d].todo = @ \ {c}]
  /\ UNCHANGED <<server, local, late, shown, used>>

BackToLoop(d) == run' = [run EXCEPT ![d].stage = "loop", ![d].answer = NoAnswer,
                                    ![d].command = NoCommand]

ReceiveDeletion(d) ==
  /\ run[d].stage = "deleting"
  /\ \/ /\ run[d].answer.kind = "done"
        /\ BackToLoop(d)
        /\ queue' = [queue EXCEPT ![d] = Released(d, run[d].command.id)]
     \/ /\ run[d].answer.kind \in {"refused", "failed"}
        /\ Goes(d, "checking")
        /\ queue' = queue
  /\ UNCHANGED <<server, catalog, changes, hidden, conflicts, late, shown, used>>

\* The second pull tells a deletion done from one refused and one not sent.
ReceiveCheck(d) ==
  LET c == run[d].command
      a == run[d].answer
  IN
  /\ run[d].stage = "checking" /\ a.kind \in {"pull", "failed"}
  /\ BackToLoop(d)
  /\ \/ /\ c.id \in a.deleted
        /\ queue' = [queue EXCEPT ![d] = Released(d, c.id)]
        /\ UNCHANGED <<catalog, changes, hidden, conflicts, shown>>
     \/ /\ c.id \notin a.deleted /\ Changed(a.items[c.id], c)
        /\ Recover(d, c, a.items[c.id])
     \/ /\ c.id \notin a.deleted /\ ~Changed(a.items[c.id], c)
        /\ UNCHANGED <<local, shown>>
  /\ UNCHANGED <<server, late, used>>

Sent(d, i) ==
  IF Pending(d, i) /\ catalog[d][i].owner = "own" /\ conflicts[d][i] = NoConflict
  THEN [base |-> catalog[d][i].base, text |-> catalog[d][i].text,
        revision |-> changes[d][i]]
  ELSE NotSent

\* The end of the loop: what is pending and not in conflict goes in one batch.
Push(d) ==
  LET sent == [i \in Ids |-> Sent(d, i)] IN
  /\ run[d].stage = "loop" /\ run[d].todo = {}
  /\ run' = [run EXCEPT ![d] = IF sent = NothingSent THEN Idle
       ELSE [Idle EXCEPT !.stage = "pushing", !.sent = sent]]
  /\ UNCHANGED <<server, local, late, shown, used>>

\* Faulty: whatever is still pending when the receipt comes is what it answers.
NewerUnlessPending(d, i) == ~Pending(d, i)

\* The item was written again while its batch was under way.
Newer(d, i) == changes[d][i] # run[d].sent[i].revision

\* The queued removal of an item.
Removal(d, i) == CHOOSE c \in queue[d] : c.id = i

\* What the answer says of each item that was sent.  A removal asked for
\* meanwhile goes on from the saved version, unless the batch found a conflict.
ReceivePush(d) ==
  LET a == run[d].answer
      refused == {i \in Ids : a.results[i] \in {"deleted", "mismatch", "version"}}
      saved == {i \in Ids : a.results[i] = "ok"}
      recovered == {i \in refused \cap Queued(d) : a.results[i] # "deleted"}
      newer == {i \in saved : Newer(d, i)}
      answered == {i \in Ids : Here(d, i)} \ recovered
      Carried(c) == IF c.id \in saved
        THEN [c EXCEPT !.base = a.items[c.id].base, !.item.base = a.items[c.id].base]
        ELSE c
  IN
  /\ run[d].stage = "pushing" /\ a.kind = "results"
  /\ catalog' = [catalog EXCEPT ![d] = [i \in Ids |->
       IF i \in recovered THEN Removal(d, i).item
       ELSE IF i \in answered \cap newer THEN [@[i] EXCEPT !.base = a.items[i].base]
       ELSE IF i \in answered \cap saved THEN a.items[i] ELSE @[i]]]
  /\ changes' = [changes EXCEPT ![d] = [i \in Ids |->
       IF i \in recovered THEN NewRevision(d, i)
       ELSE IF i \in answered \cap (saved \ newer) THEN 0 ELSE @[i]]]
  /\ conflicts' = [conflicts EXCEPT ![d] = [i \in Ids |->
       IF i \in recovered THEN [reason |-> "version", item |-> a.items[i]]
       ELSE IF i \in answered \cap refused
            THEN [reason |-> a.results[i], item |-> a.items[i]]
       ELSE IF i \in answered \cap (saved \ newer) THEN NoConflict ELSE @[i]]]
  /\ queue' = [queue EXCEPT ![d] = {Carried(c) : c \in {c \in @ : c.id \notin refused}}]
  /\ hidden' = [hidden EXCEPT ![d] = @ \ recovered]
  /\ shown' = [shown EXCEPT ![d] = @ \cup
       {<<i, a.items[i].base>> : i \in {i \in Ids : a.items[i] # NoItem}}]
  /\ run' = [run EXCEPT ![d] = Idle]
  /\ UNCHANGED <<server, late, used>>

\* The device gives up on a request, by its time limit, a lost answer, or
\* because the session goes on under another generation.  A write the server
\* has not handled may be lost or arrive later.
Request(d) == [device |-> d, command |-> run[d].command, sent |-> run[d].sent]
Unserved(d) == Serving(d, "pushing") \/ Serving(d, "deleting")

GiveUp(d) ==
  /\ run[d].stage \notin {"idle", "loop"} /\ run[d].answer.kind # "failed"
  /\ used.faults < MaxFaults
  /\ used' = [used EXCEPT !.faults = @ + 1]
  /\ \/ late' = late
     \/ Unserved(d) /\ late' = late \cup {Request(d)}
  /\ \/ run' = [run EXCEPT ![d] = Idle]
     \/ /\ run[d].stage \in {"deleting", "checking"}
        /\ Answered(d, [NoAnswer EXCEPT !.kind = "failed"])
  /\ UNCHANGED <<server, local, shown>>

----------------------------------------------------------------------------
Act(d) ==
  \/ \E i \in Ids : Edit(d, i) \/ Add(d, i) \/ Remove(d, i)
  \/ Reset(d)
  \/ \E i \in Ids : AcceptServer(d, i) \/ KeepLocal(d, i) \/ (\E j \in Ids : Fork(d, i, j))

Step(d) ==
  \/ Sync(d) \/ ApplyPull(d) \/ Push(d) \/ ReceivePush(d)
  \/ ReceiveDeletion(d) \/ ReceiveCheck(d)
  \/ \E c \in run[d].todo :
       AlreadyDeleted(d, c) \/ DeletionConflicts(d, c) \/ SendDeletion(d, c)

Serve(d) == ServePull(d) \/ ServePush(d) \/ ServeDelete(d)

Next ==
  /\ UNCHANGED setting
  /\ \/ \E d \in Devices : Act(d) \/ Step(d) \/ Serve(d) \/ GiveUp(d)
     \/ \E r \in late : ArriveLate(r)

Spec == Init /\ [][Next]_<<setting, vars>>

\* Where automatic synchronisation is on (autoSyncEnabled), which is what this
\* assumes of the devices, a run is started again by every write and by the
\* clock of App.tsx; the server answers, and nobody has to resolve a conflict or
\* to do more work.
FairSpec ==
  /\ Spec
  /\ \A d \in Devices : WF_vars(Step(d)) /\ WF_vars(Serve(d))

----------------------------------------------------------------------------
EquipmentTypeOK ==
  /\ rows \in [Ids -> Row \cup {NoItem}] /\ tombs \subseteq Ids
  /\ catalog \in [Devices -> [Ids -> Item \cup {NoItem}]]
  /\ changes \in [Devices -> [Ids -> 0..3]]
  /\ \A d \in Devices : queue[d] \subseteq Command /\ hidden[d] \subseteq Ids
  /\ conflicts \in [Devices -> [Ids -> Conflict \cup {NoConflict}]]
  /\ \A d \in Devices : run[d].answer \in Answer

\* What the member was told is gone is not in the catalogue: deletedEquipmentIds
\* and equipmentCatalog, which the pull, the receipts, the recoveries and the
\* members all write, never disagree.
HiddenIsAbsent == \A d \in Devices : \A i \in hidden[d] : ~Here(d, i)

\* The state has the code's shape, and no item is both removed and present.
EquipmentInv == EquipmentTypeOK /\ HiddenIsAbsent

\* A step of synchronisation never takes unsent work out of the catalogue: the
\* content stays there, or the server has stored it (ApplyPull, ReceivePush).
\* A shared model the member removed, and then put back by a reset before the
\* removal was sent, is not covered: it is taken out again (syncEquipmentWithServer).
UnsentWorkStays ==
  [][\A d \in Devices, i \in Ids :
       (Pending(d, i) /\ Here(d, i) /\ i \notin Queued(d) /\ run'[d] # run[d]) =>
         \/ catalog'[d][i].text = catalog[d][i].text /\ catalog'[d][i] # NoItem
         \/ <<i, catalog[d][i].text>> \in stored]_vars

\* A removal leaves the queue only when the server holds it, or by bringing the
\* item back with a conflict: it is never dropped unanswered.
RemovalIsAnswered ==
  [][\A d \in Devices : \A i \in {c.id : c \in queue[d]} \ {c.id : c \in queue'[d]} :
       \/ i \in tombs
       \/ catalog'[d][i] # NoItem /\ conflicts'[d][i] # NoConflict]_vars

\* A write or a deletion on the server replaces only a version that its device
\* was told of: as the item it edited, in a receipt, or in a conflict.
NothingReplacedUnseen ==
  [][\A i \in Ids : (rows'[i] # rows[i] /\ rows[i] # NoItem) =>
       \E d \in Devices :
         /\ run'[d] # run[d] \/ \E r \in late \ late' : r.device = d
         /\ <<i, rows[i].base>> \in shown[d]]_vars

\* The rows as the organization sees them are versioned documents: one version
\* after the other, and an id that was deleted never comes back.
Docs == INSTANCE VersionedDocs WITH
  Contents <- Nat,
  docs <- [i \in Ids |-> [version |-> Visible(i).base, content |-> Visible(i).text,
                          trashed |-> Visible(i) # NoItem]],
  gone <- {i \in tombs : \E t \in Texts : <<i, t>> \in stored}
RowsAreVersioned == Docs!DocsSpec

\* Once the members stop, every device sends what it can, automatic
\* synchronisation being on (FairSpec): no removal is left queued, what is still
\* pending has a conflict to resolve, and everything else is what the server
\* holds.
Settled(d) ==
  /\ queue[d] = {}
  /\ \A i \in Ids :
       IF Pending(d, i) /\ Here(d, i) THEN conflicts[d][i] # NoConflict
       ELSE catalog[d][i] = Visible(i)
CatalogueSettles == <>[](\A d \in Devices : Settled(d))
=============================================================================
