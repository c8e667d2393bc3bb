------------------------- MODULE EquipmentSyncProofs -------------------------
(***************************************************************************)
(* What holds of the catalogue for any devices, items, settings and        *)
(* bounds.                                                                 *)
(***************************************************************************)
EXTENDS EquipmentSync, TLAPS

-----------------------------------------------------------------------------
(* The inductive invariant, of the values the devices and the server hold.  *)

(* A version a device may write over was shown to it; 0 is no version, and   *)
(* nothing is written over a shared model.                                   *)
Told(d, i, base) == base = 0 \/ i \in References \/ <<i, base>> \in shown[d]

(* An item of a device; what is not the organization's own is as stored.     *)
ItemOK(d, i, x) ==
  /\ Told(d, i, x.base)
  /\ x.owner # "own" => <<i, x.text>> \in stored

CommandOK(d, c) == c.item # NoItem /\ ItemOK(d, c.id, c.item) /\ Told(d, c.id, c.base)

(* An item as the server showed it.                                          *)
SeenOK(i, x) == x # NoItem => x \in Row /\ <<i, x.text>> \in stored

ConflictOK(d, i, k) == k # NoConflict => SeenOK(i, k.item) /\ Told(d, i, k.item.base)

Sending == [base: Nat, text: Texts, revision: 0..3]
SentOK(d, i, s) == s # NotSent => s.revision # 0 /\ Told(d, i, s.base)

AnswerOK(a) == a.deleted \subseteq tombs /\ \A i \in Ids : SeenOK(i, a.items[i])

(* What a batch was answered of one item.                                    *)
ResultOK(i, result, x, s) ==
  /\ result = "deleted" => i \in tombs
  /\ result \in {"ok", "version"} => x # NoItem
  /\ result = "ok" => s # NotSent /\ x.text = s.text

Stage == {"idle", "pulling", "loop", "deleting", "checking", "pushing"}
Run == [stage: Stage, answer: Answer, pulled: Answer, todo: SUBSET Command,
        command: Command \cup {NoCommand}, sent: [Ids -> Sending]]

RunOK(d, q) ==
  /\ AnswerOK(q.answer) /\ AnswerOK(q.pulled)
  /\ \A c \in q.todo : CommandOK(d, c)
  /\ IF q.stage \in {"deleting", "checking"} THEN CommandOK(d, q.command)
     ELSE q.command = NoCommand
  /\ \A i \in Ids : SentOK(d, i, q.sent[i])
  /\ q.stage # "pushing" => q.sent = NothingSent
  /\ q.stage = "loop" => q.answer = NoAnswer
  /\ q.answer.kind = "done" => q.command.id \in tombs
  /\ q.answer.kind = "results" =>
       \A i \in Ids : ResultOK(i, q.answer.results[i], q.answer.items[i], q.sent[i])

RequestSet == [device: Devices, command: Command \cup {NoCommand}, sent: [Ids -> Sending]]
RequestOK(r) ==
  /\ r.command # NoCommand => CommandOK(r.device, r.command)
  /\ \A i \in Ids : SentOK(r.device, i, r.sent[i])

(* While an item is as it was sent, it holds what was sent.                  *)
SentIsHeld(d) ==
  \A i \in Ids : run[d].sent[i] # NotSent /\ changes[d][i] = run[d].sent[i].revision
                 => catalog[d][i].text = run[d].sent[i].text

CatalogOK(d)   == \A i \in Ids, x \in Item : catalog[d][i] = x => ItemOK(d, i, x)
QueueOK(d)     == \A c \in queue[d] : CommandOK(d, c)
ConflictsOK(d) == \A i \in Ids, k \in Conflict : conflicts[d][i] = k => ConflictOK(d, i, k)
RunsOK(d)      == \A q \in Run : run[d] = q => RunOK(d, q)
HiddenOK(d)    == \A i \in hidden[d] : ~Here(d, i)

DeviceOK(d) ==
  /\ CatalogOK(d) /\ QueueOK(d) /\ ConflictsOK(d) /\ RunsOK(d)
  /\ SentIsHeld(d) /\ HiddenOK(d)

Shapes ==
  /\ catalog \in [Devices -> [Ids -> Item \cup {NoItem}]]
  /\ changes \in [Devices -> [Ids -> 0..3]]
  /\ queue \in [Devices -> SUBSET Command] /\ hidden \in [Devices -> SUBSET Ids]
  /\ conflicts \in [Devices -> [Ids -> Conflict \cup {NoConflict}]]
  /\ run \in [Devices -> Run] /\ late \subseteq RequestSet
  /\ shown \in [Devices -> SUBSET (Ids \X Nat)]

(* The shared models are the organization's references, for ever; what is    *)
(* there is stored, and what was there has a tombstone.                      *)
RowOK(i) ==
  /\ rows[i].owner = "shared" <=> i \in References
  /\ rows[i] # NoItem => <<i, rows[i].text>> \in stored
  /\ rows[i] = NoItem /\ i \notin tombs => \A t \in Texts : <<i, t>> \notin stored
  /\ i \in References => <<i, 0>> \in stored

ServerOK ==
  /\ rows \in [Ids -> Row \cup {NoItem}] /\ tombs \subseteq Ids
  /\ \A i \in Ids : RowOK(i)

BoundsOK ==
  /\ setting \in DOMAIN Settings /\ References \subseteq Ids
  /\ MaxEdits \in Nat
  /\ used \in [edits: Nat, removals: Nat, resets: Nat, faults: Nat]
  /\ used.edits <= MaxEdits

Inv ==
  /\ BoundsOK /\ ServerOK /\ Shapes
  /\ \A d \in Devices : DeviceOK(d)
  /\ \A r \in late : RequestOK(r)

-----------------------------------------------------------------------------
(* What only grows. *)

LEMMA SameTypes ==
  ASSUME setting' = setting
  PROVE  /\ References' = References /\ MaxEdits' = MaxEdits /\ Texts' = Texts
         /\ Item' = Item /\ Row' = Row /\ Command' = Command /\ Conflict' = Conflict
         /\ Answer' = Answer /\ Sending' = Sending /\ Run' = Run
         /\ RequestSet' = RequestSet
<1>1. References' = References /\ MaxEdits' = MaxEdits /\ Texts' = Texts
  BY DEF References, MaxEdits, Texts
<1>2. Item' = Item /\ Row' = Row /\ Sending' = Sending
  BY <1>1 DEF Item, Row, Sending
<1>3. Command' = Command /\ Conflict' = Conflict /\ Answer' = Answer
  BY <1>2 DEF Command, Conflict, Answer
<1>4. Run' = Run /\ RequestSet' = RequestSet
  BY <1>2, <1>3 DEF Run, RequestSet
<1>. QED BY <1>1, <1>2, <1>3, <1>4

Grown(d) ==
  /\ setting' = setting /\ stored \subseteq stored' /\ tombs \subseteq tombs'
  /\ shown[d] \subseteq shown'[d]

LEMMA ToldStays ==
  ASSUME NEW d \in Devices, Grown(d), NEW i, NEW b, Told(d, i, b)
  PROVE  Told(d, i, b)'
BY SameTypes DEF Grown, Told

LEMMA ItemStays ==
  ASSUME NEW d \in Devices, Grown(d), NEW i, NEW x, ItemOK(d, i, x)
  PROVE  ItemOK(d, i, x)'
<1>1. Told(d, i, x.base)'
  BY ToldStays DEF ItemOK
<1>. QED BY <1>1 DEF ItemOK, Grown

LEMMA CommandStays ==
  ASSUME NEW d \in Devices, Grown(d), NEW c, CommandOK(d, c)
  PROVE  CommandOK(d, c)'
<1>1. ItemOK(d, c.id, c.item)' /\ Told(d, c.id, c.base)'
  BY ItemStays, ToldStays DEF CommandOK
<1>. QED BY <1>1 DEF CommandOK

LEMMA SeenStays ==
  ASSUME setting' = setting, stored \subseteq stored', NEW i, NEW x, SeenOK(i, x)
  PROVE  SeenOK(i, x)'
BY SameTypes DEF SeenOK

LEMMA ConflictStays ==
  ASSUME NEW d \in Devices, Grown(d), NEW i, NEW k, ConflictOK(d, i, k)
  PROVE  ConflictOK(d, i, k)'
<1>1. CASE k = NoConflict
  BY <1>1 DEF ConflictOK
<1>2. CASE k # NoConflict
  <2>1. SeenOK(i, k.item)' /\ Told(d, i, k.item.base)'
    BY <1>2, SeenStays, ToldStays DEF ConflictOK, Grown
  <2>. QED BY <2>1 DEF ConflictOK
<1>. QED BY <1>1, <1>2

LEMMA AnswerStays ==
  ASSUME setting' = setting, stored \subseteq stored', tombs \subseteq tombs',
         NEW a, AnswerOK(a)
  PROVE  AnswerOK(a)'
<1>1. \A i \in Ids : SeenOK(i, a.items[i])'
  BY SeenStays DEF AnswerOK
<1>. QED BY <1>1 DEF AnswerOK

LEMMA SentStays ==
  ASSUME NEW d \in Devices, Grown(d), NEW i, NEW s, SentOK(d, i, s)
  PROVE  SentOK(d, i, s)'
<1>1. CASE s = NotSent
  BY <1>1 DEF SentOK
<1>2. CASE s # NotSent
  <2>1. Told(d, i, s.base)'
    BY <1>2, ToldStays DEF SentOK
  <2>. QED BY <2>1, <1>2 DEF SentOK
<1>. QED BY <1>1, <1>2

LEMMA RunStays ==
  ASSUME NEW d \in Devices, Grown(d), NEW q, RunOK(d, q)
  PROVE  RunOK(d, q)'
<1>1. AnswerOK(q.answer)' /\ AnswerOK(q.pulled)'
  BY AnswerStays DEF RunOK, Grown
<1>2. \A c \in q.todo : CommandOK(d, c)'
  BY CommandStays DEF RunOK
<1>3. \A i \in Ids : SentOK(d, i, q.sent[i])'
  BY SentStays DEF RunOK
<1>4. CASE q.stage \in {"deleting", "checking"}
  <2>1. CommandOK(d, q.command)'
    BY <1>4, CommandStays DEF RunOK
  <2>. QED BY <1>1, <1>2, <1>3, <1>4, <2>1 DEF RunOK, Grown, ResultOK
<1>5. CASE q.stage \notin {"deleting", "checking"}
  BY <1>1, <1>2, <1>3, <1>5 DEF RunOK, Grown, ResultOK
<1>. QED BY <1>4, <1>5

LEMMA RequestStays ==
  ASSUME NEW r, r.device \in Devices, Grown(r.device), RequestOK(r)
  PROVE  RequestOK(r)'
<1>1. \A i \in Ids : SentOK(r.device, i, r.sent[i])'
  BY SentStays DEF RequestOK
<1>2. CASE r.command = NoCommand
  BY <1>1, <1>2 DEF RequestOK
<1>3. CASE r.command # NoCommand
  <2>1. CommandOK(r.device, r.command)'
    BY <1>3, CommandStays DEF RequestOK
  <2>. QED BY <1>1, <2>1 DEF RequestOK
<1>. QED BY <1>2, <1>3

(* What a step leaves alone of a device stays well. *)
LEMMA Untouched ==
  ASSUME NEW d \in Devices, Grown(d), DeviceOK(d)
  PROVE  /\ catalog'[d] = catalog[d] => CatalogOK(d)'
         /\ queue'[d] \subseteq queue[d] => QueueOK(d)'
         /\ conflicts'[d] = conflicts[d] => ConflictsOK(d)'
         /\ run'[d] = run[d] => RunsOK(d)'
         /\ hidden'[d] = hidden[d] /\ catalog'[d] = catalog[d] => HiddenOK(d)'
         /\ run'[d] = run[d] /\ catalog'[d] = catalog[d] /\ changes'[d] = changes[d]
              => SentIsHeld(d)'
<1>1. catalog'[d] = catalog[d] => CatalogOK(d)'
  BY ItemStays, SameTypes DEF DeviceOK, CatalogOK, Grown
<1>2. queue'[d] \subseteq queue[d] => QueueOK(d)'
  BY CommandStays DEF DeviceOK, QueueOK
<1>3. conflicts'[d] = conflicts[d] => ConflictsOK(d)'
  BY ConflictStays, SameTypes DEF DeviceOK, ConflictsOK, Grown
<1>4. run'[d] = run[d] => RunsOK(d)'
  BY RunStays, SameTypes DEF DeviceOK, RunsOK, Grown
<1>5. hidden'[d] = hidden[d] /\ catalog'[d] = catalog[d] => HiddenOK(d)'
  BY DEF DeviceOK, HiddenOK, Here
<1>6. run'[d] = run[d] /\ catalog'[d] = catalog[d] /\ changes'[d] = changes[d]
        => SentIsHeld(d)'
  BY DEF DeviceOK, SentIsHeld
<1>. QED BY <1>1, <1>2, <1>3, <1>4, <1>5, <1>6

Same(d) ==
  /\ catalog'[d] = catalog[d] /\ changes'[d] = changes[d] /\ queue'[d] = queue[d]
  /\ hidden'[d] = hidden[d] /\ conflicts'[d] = conflicts[d] /\ run'[d] = run[d]
  /\ shown'[d] = shown[d]

Alone(d) == \A e \in Devices \ {d} : Same(e)

(* The counters move within the bounds. *)
Counted ==
  /\ used' \in [edits: Nat, removals: Nat, resets: Nat, faults: Nat]
  /\ used'.edits <= MaxEdits

LEMMA ServerStays ==
  ASSUME Inv, setting' = setting, UNCHANGED server
  PROVE  ServerOK' /\ stored \subseteq stored' /\ tombs \subseteq tombs'
BY SameTypes DEF Inv, ServerOK, RowOK, server

(* A step that moves nothing of the other devices. *)
LEMMA DeviceStep ==
  ASSUME Inv, setting' = setting, NEW d \in Devices, Alone(d), Counted, Shapes',
         ServerOK', stored \subseteq stored', tombs \subseteq tombs',
         shown[d] \subseteq shown'[d], DeviceOK(d)',
         \A r \in late' \ late : RequestOK(r)'
  PROVE  Inv'
<1>1. \A e \in Devices : Grown(e)
  BY DEF Grown, Alone, Same
<1>2. \A e \in Devices : DeviceOK(e)'
  <2>. SUFFICES ASSUME NEW e \in Devices \ {d} PROVE DeviceOK(e)'
    OBVIOUS
  <2>. QED BY <1>1, Untouched DEF Inv, Alone, Same, DeviceOK
<1>3. \A r \in late' : RequestOK(r)'
  BY <1>1, RequestStays DEF Inv, Shapes, RequestSet
<1>4. BoundsOK'
  BY SameTypes DEF Inv, BoundsOK, Counted
<1>. QED BY <1>2, <1>3, <1>4 DEF Inv

(* A step of the run of a device that leaves its collections alone.          *)
LEMMA RunMoves ==
  ASSUME Inv, setting' = setting, UNCHANGED <<local, shown>>, NEW d \in Devices, Counted,
         ServerOK', stored \subseteq stored', tombs \subseteq tombs',
         NEW q \in Run, run' = [run EXCEPT ![d] = q], RunOK(d, q)',
         \A i \in Ids : q.sent[i] # NotSent /\ changes[d][i] = q.sent[i].revision
                        => catalog[d][i].text = q.sent[i].text,
         late' \subseteq RequestSet, \A r \in late' \ late : RequestOK(r)'
  PROVE  Inv'
<1>1. Grown(d) /\ DeviceOK(d) /\ shown[d] \subseteq shown'[d]
  BY DEF Inv, Grown
<1>2. run'[d] = q
  BY DEF Inv, Shapes
<1>3. RunsOK(d)' /\ SentIsHeld(d)'
  BY <1>2 DEF RunsOK, SentIsHeld, local
<1>4. DeviceOK(d)'
  BY <1>1, <1>3, Untouched DEF DeviceOK, local
<1>5. Shapes' /\ Alone(d)
  BY SameTypes DEF Inv, Shapes, Alone, Same, local
<1>. QED BY <1>1, <1>4, <1>5, DeviceStep

-----------------------------------------------------------------------------
(* The start. *)

LEMMA StartOfTheBounds == Init => BoundsOK
<1> SUFFICES ASSUME Init PROVE BoundsOK
  OBVIOUS
<1>1. Settings[setting] \in {Settings[n] : n \in DOMAIN Settings} /\ setting \in DOMAIN Settings
  BY DEF Init
<1>2. References \subseteq Ids /\ MaxEdits \in Nat
  BY <1>1, EquipmentAssumption DEF References, MaxEdits
<1>. QED BY <1>1, <1>2 DEF Init, BoundsOK

LEMMA NothingIsSent ==
  ASSUME BoundsOK
  PROVE  /\ NoAnswer \in Answer /\ AnswerOK(NoAnswer)
         /\ NothingSent \in [Ids -> Sending]
         /\ \A d : \A i \in Ids : SentOK(d, i, NothingSent[i])
<1>1. NoAnswer \in Answer /\ AnswerOK(NoAnswer)
  BY DEF NoAnswer, Answer, AnswerOK, SeenOK
<1>2. NotSent \in Sending
  BY DEF NotSent, Sending, Texts, BoundsOK
<1>. QED BY <1>1, <1>2 DEF NothingSent, SentOK

LEMMA IdleIsARun ==
  ASSUME BoundsOK
  PROVE  Idle \in Run /\ \A d : RunOK(d, Idle)
<1>1. Idle \in Run
  BY NothingIsSent DEF Idle, Run, Stage
<1>2. ASSUME NEW d PROVE RunOK(d, Idle)
  BY NothingIsSent DEF Idle, RunOK, NoAnswer
<1>. QED BY <1>1, <1>2

LEMMA Initially == Init => Inv
<1> SUFFICES ASSUME Init PROVE Inv
  OBVIOUS
<1>1. BoundsOK
  BY StartOfTheBounds
<1>2. Uploaded \subseteq Ids \ References
  <2>1. Settings[setting] \in {Settings[n] : n \in DOMAIN Settings}
    BY <1>1 DEF BoundsOK
  <2>. QED BY <2>1, EquipmentAssumption DEF References, Uploaded
<1>3. 0 \in Texts /\ 0 \in Nat /\ 1 \in Nat \ {0}
  BY <1>1 DEF BoundsOK, Texts
<1>4. ASSUME NEW i \in Ids
      PROVE  rows[i] \in Row \cup {NoItem} /\ RowOK(i)
  BY <1>2, <1>3, <1>4 DEF Init, Row, NoItem, RowOK
<1>5. ServerOK
  <2>1. rows = [i \in Ids |-> rows[i]]
    BY DEF Init
  <2>. QED BY <2>1, <1>4 DEF ServerOK, Init
<1>6. ASSUME NEW d \in Devices, NEW i \in Ids
      PROVE  catalog[d][i] \in Item \cup {NoItem} /\ (Here(d, i) => ItemOK(d, i, catalog[d][i]))
  BY <1>2, <1>3, <1>6 DEF Init, Item, Owners, NoItem, ItemOK, Told, Here
<1>7. Shapes
  <2>1. catalog \in [Devices -> [Ids -> Item \cup {NoItem}]]
    BY <1>6 DEF Init
  <2>2. run \in [Devices -> Run]
    BY <1>1, IdleIsARun DEF Init
  <2>3. shown \in [Devices -> SUBSET (Ids \X Nat)]
    BY <1>2, <1>3 DEF Init
  <2>. QED BY <2>1, <2>2, <2>3 DEF Init, Shapes
<1>8. ASSUME NEW d \in Devices PROVE DeviceOK(d)
  <2>1. CatalogOK(d)
    BY <1>6 DEF CatalogOK, Here, NoItem, Item, Owners
  <2>2. RunsOK(d)
    BY <1>1, IdleIsARun DEF RunsOK, Init
  <2>3. SentIsHeld(d)
    BY DEF Init, SentIsHeld, Idle, NothingSent
  <2>4. ConflictsOK(d)
    BY DEF Init, ConflictsOK, ConflictOK
  <2>. QED BY <2>1, <2>2, <2>3, <2>4 DEF Init, DeviceOK, QueueOK, HiddenOK
<1>. QED BY <1>1, <1>5, <1>7, <1>8 DEF Inv, Init

LEMMA NewRevisionIsNew ==
  ASSUME NEW d, NEW i
  PROVE  /\ NewRevision(d, i) \in 1..3
         /\ NewRevision(d, i) # changes[d][i]
         /\ NewRevision(d, i) # run[d].sent[i].revision
<1>1. \E r \in 1..3 : r \notin {changes[d][i], run[d].sent[i].revision}
  <2>1. 1 \in 1..3 /\ 2 \in 1..3 /\ 3 \in 1..3 /\ 1 # 2 /\ 2 # 3 /\ 1 # 3
    OBVIOUS
  <2>. QED BY <2>1
<1>. QED BY <1>1 DEF NewRevision
-----------------------------------------------------------------------------
(* What the member does. *)

(* The member writes on a device what its items, removals and conflicts may  *)
(* be; nothing but a new revision makes an item pending.                     *)
LEMMA MemberStep ==
  ASSUME Inv, setting' = setting, UNCHANGED <<server, run, late, shown>>, Counted,
         NEW d \in Devices, Alone(d), Shapes',
         \A j \in Ids, x \in Item : catalog'[d][j] = x => ItemOK(d, j, x),
         \A c \in queue'[d] : CommandOK(d, c),
         \A j \in Ids : conflicts'[d][j] \in {conflicts[d][j], NoConflict},
         \A j \in hidden'[d] : catalog'[d][j] = NoItem,
         \A j \in Ids : \/ changes'[d][j] \in {0, NewRevision(d, j)}
                        \/ changes'[d][j] = changes[d][j] /\ catalog'[d][j] = catalog[d][j]
  PROVE  Inv'
<1>1. Grown(d) /\ DeviceOK(d) /\ RunOK(d, run[d])
  BY DEF Inv, Grown, server, DeviceOK, RunsOK, Shapes
<1>2. RunsOK(d)'
  BY <1>1, Untouched
<1>3. SentIsHeld(d)'
  <2>. SUFFICES ASSUME NEW j \in Ids, run[d].sent[j] # NotSent,
                       changes'[d][j] = run[d].sent[j].revision
                PROVE  catalog'[d][j].text = run[d].sent[j].text
    BY DEF SentIsHeld
  <2>1. changes'[d][j] # 0 /\ changes'[d][j] # NewRevision(d, j)
    BY <1>1, NewRevisionIsNew DEF RunOK, SentOK
  <2>. QED BY <1>1, <2>1 DEF DeviceOK, SentIsHeld
<1>4. CatalogOK(d)'
  BY <1>1, ItemStays, SameTypes DEF CatalogOK
<1>5. QueueOK(d)'
  BY <1>1, CommandStays DEF QueueOK
<1>6. ConflictsOK(d)'
  <2>. SUFFICES ASSUME NEW j \in Ids, NEW k \in Conflict, conflicts'[d][j] = k
                PROVE  ConflictOK(d, j, k)'
    BY SameTypes DEF ConflictsOK
  <2>1. ConflictOK(d, j, k)
    BY <1>1 DEF DeviceOK, ConflictsOK, ConflictOK
  <2>. QED BY <1>1, <2>1, ConflictStays
<1>7. HiddenOK(d)'
  BY DEF HiddenOK, Here
<1>8. DeviceOK(d)'
  BY <1>2, <1>3, <1>4, <1>5, <1>6, <1>7 DEF DeviceOK
<1>9. ServerOK' /\ stored \subseteq stored' /\ tombs \subseteq tombs'
  BY ServerStays
<1>10. shown[d] \subseteq shown'[d] /\ late' \subseteq late
  OBVIOUS
<1>. QED BY <1>8, <1>9, <1>10, DeviceStep

(* What the facts about a device say of the item in hand. *)
LEMMA InHand ==
  ASSUME Inv, NEW d \in Devices, NEW i \in Ids, Here(d, i)
  PROVE  catalog[d][i] \in Item /\ ItemOK(d, i, catalog[d][i]) /\ i \notin hidden[d]
<1>1. catalog[d][i] \in Item
  BY DEF Inv, Shapes, Here
<1>. QED BY <1>1 DEF Inv, DeviceOK, CatalogOK, HiddenOK

(* One item is written and is pending. *)
LEMMA OneWritten ==
  ASSUME Inv, setting' = setting, UNCHANGED <<server, queue, hidden, run, late, shown>>, Counted,
         NEW d \in Devices, NEW i \in Ids, i \notin hidden[d],
         NEW x \in Item, ItemOK(d, i, x),
         catalog' = [catalog EXCEPT ![d][i] = x],
         changes' = [changes EXCEPT ![d][i] = NewRevision(d, i)],
         conflicts' = conflicts \/ conflicts' = Resolved(d, i)
  PROVE  Inv'
<1>1. \A j \in Ids : catalog'[d][j] = IF j = i THEN x ELSE catalog[d][j]
  BY DEF Inv, Shapes
<1>2. Shapes' /\ Alone(d) /\ \A j \in Ids : conflicts'[d][j] \in {conflicts[d][j], NoConflict}
  <2>1. catalog' \in [Devices -> [Ids -> Item \cup {NoItem}]]
    BY DEF Inv, Shapes
  <2>2. changes' \in [Devices -> [Ids -> 0..3]]
    BY NewRevisionIsNew DEF Inv, Shapes
  <2>3. PICK k \in {conflicts[d][i], NoConflict} : conflicts' = [conflicts EXCEPT ![d][i] = k]
    BY DEF Inv, Shapes, Resolved
  <2>4. conflicts' \in [Devices -> [Ids -> Conflict \cup {NoConflict}]]
    BY <2>3 DEF Inv, Shapes
  <2>5. Shapes'
    BY <2>1, <2>2, <2>4, SameTypes DEF Inv, Shapes
  <2>. QED BY <2>3, <2>5 DEF Alone, Same, Inv, Shapes
<1>3. \A j \in Ids, y \in Item : catalog'[d][j] = y => ItemOK(d, j, y)
  BY <1>1 DEF Inv, DeviceOK, CatalogOK
<1>4. \A c \in queue'[d] : CommandOK(d, c)
  BY DEF Inv, DeviceOK, QueueOK
<1>5. \A j \in hidden'[d] : catalog'[d][j] = NoItem
  BY <1>1 DEF Inv, DeviceOK, HiddenOK, Here, Shapes
<1>6. \A j \in Ids : \/ changes'[d][j] \in {0, NewRevision(d, j)}
                     \/ changes'[d][j] = changes[d][j] /\ catalog'[d][j] = catalog[d][j]
  BY <1>1 DEF Inv, Shapes
<1>. QED BY <1>2, <1>3, <1>4, <1>5, <1>6, MemberStep

(* What Tracked makes is an item, and was read where the old one was. *)
LEMMA TrackedIsAnItem ==
  ASSUME Inv, NEW d \in Devices, NEW i \in Ids, NEW t \in Texts
  PROVE  /\ Tracked(d, i, t) \in Item /\ Tracked(d, i, t).owner = "own"
         /\ Tracked(d, i, t).base = catalog[d][i].base
         /\ Told(d, i, catalog[d][i].base)
<1>1. CASE Here(d, i)
  BY <1>1, InHand DEF Tracked, Item, Owners, ItemOK
<1>2. CASE ~Here(d, i)
  BY <1>2 DEF Here, Tracked, NoItem, Item, Owners, Told
<1>. QED BY <1>1, <1>2

LEMMA EditKeeps ==
  ASSUME Inv, setting' = setting, NEW d \in Devices, NEW i \in Ids, Edit(d, i) \/ Add(d, i)
  PROVE  Inv'
<1>1. used.edits + 1 \in Texts /\ Counted
  BY DEF Edit, Add, Inv, BoundsOK, Texts, Counted
<1>2. PICK x \in Item : x = Tracked(d, i, used.edits + 1)
  BY <1>1, TrackedIsAnItem
<1>3. i \notin hidden[d]
  BY InHand DEF Edit, Add, Unused
<1>4. ItemOK(d, i, x)
  BY <1>1, <1>2, TrackedIsAnItem DEF ItemOK
<1>. QED BY <1>1, <1>2, <1>3, <1>4, OneWritten DEF Edit, Add

LEMMA ConflictInHand ==
  ASSUME Inv, NEW d \in Devices, NEW i \in Ids, conflicts[d][i] # NoConflict
  PROVE  LET x == conflicts[d][i].item IN
         /\ x \in Row \cup {NoItem} /\ SeenOK(i, x) /\ Told(d, i, x.base)
<1>1. conflicts[d][i] \in Conflict
  BY DEF Inv, Shapes
<1>2. ConflictOK(d, i, conflicts[d][i])
  BY <1>1 DEF Inv, DeviceOK, ConflictsOK
<1>. QED BY <1>1, <1>2 DEF ConflictOK, Conflict

LEMMA KeepLocalKeeps ==
  ASSUME Inv, setting' = setting, NEW d \in Devices, NEW i \in Ids, KeepLocal(d, i)
  PROVE  Inv'
<1>1. PICK y \in Item : y = catalog[d][i] /\ i \notin hidden[d]
  BY InHand DEF KeepLocal, Resolves
<1>2. PICK k \in Row : k = conflicts[d][i].item /\ Told(d, i, k.base)
  BY ConflictInHand DEF KeepLocal, Resolves, NoItem
<1>3. PICK x \in Item : x = [y EXCEPT !.base = k.base]
  BY DEF Item, Row
<1>4. ItemOK(d, i, x)
  <2>1. ItemOK(d, i, y)
    BY <1>1, InHand DEF KeepLocal, Resolves
  <2>2. x.base = k.base /\ x.owner = y.owner /\ x.text = y.text
    BY <1>3 DEF Item
  <2>. QED BY <1>2, <2>1, <2>2 DEF ItemOK
<1>5. Counted
  BY DEF KeepLocal, Inv, BoundsOK, Counted
<1>6. catalog' = [catalog EXCEPT ![d][i] = x]
  BY <1>1, <1>2, <1>3 DEF KeepLocal
<1>. QED BY <1>1, <1>4, <1>5, <1>6, OneWritten DEF KeepLocal, Resolved

LEMMA AcceptServerKeeps ==
  ASSUME Inv, setting' = setting, NEW d \in Devices, NEW i \in Ids, AcceptServer(d, i)
  PROVE  Inv'
<1>1. i \notin hidden[d]
  BY InHand DEF AcceptServer, Resolves
<1>2. PICK x \in Item : x = conflicts[d][i].item /\ ItemOK(d, i, x)
  <2>1. conflicts[d][i].item \in Row /\ conflicts[d][i].item \in Item
    BY ConflictInHand DEF AcceptServer, Resolves, Row, Item, Owners
  <2>. QED BY <2>1, ConflictInHand DEF AcceptServer, Resolves, SeenOK, ItemOK
<1>3. \A j \in Ids : /\ catalog'[d][j] = IF j = i THEN x ELSE catalog[d][j]
                     /\ changes'[d][j] = IF j = i THEN 0 ELSE changes[d][j]
                     /\ conflicts'[d][j] \in {conflicts[d][j], NoConflict}
  BY <1>2 DEF AcceptServer, Resolved, Inv, Shapes
<1>4. Shapes' /\ Alone(d)
  <2>1. catalog' \in [Devices -> [Ids -> Item \cup {NoItem}]]
    BY <1>2 DEF AcceptServer, Inv, Shapes
  <2>2. changes' \in [Devices -> [Ids -> 0..3]]
    BY DEF AcceptServer, Inv, Shapes
  <2>3. conflicts' \in [Devices -> [Ids -> Conflict \cup {NoConflict}]]
    BY DEF AcceptServer, Resolved, Inv, Shapes
  <2>4. Shapes'
    BY <2>1, <2>2, <2>3, SameTypes DEF AcceptServer, Inv, Shapes
  <2>. QED BY <2>4 DEF AcceptServer, Resolved, Alone, Same, Inv, Shapes
<1>5. \A j \in Ids, y \in Item : catalog'[d][j] = y => ItemOK(d, j, y)
  BY <1>2, <1>3 DEF Inv, DeviceOK, CatalogOK
<1>6. \A c \in queue'[d] : CommandOK(d, c)
  BY DEF AcceptServer, Inv, DeviceOK, QueueOK
<1>7. \A j \in hidden'[d] : catalog'[d][j] = NoItem
  BY <1>1, <1>3 DEF AcceptServer, Inv, DeviceOK, HiddenOK, Here, Shapes
<1>8. Counted /\ UNCHANGED <<server, run, late, shown>>
  BY DEF AcceptServer, Inv, BoundsOK, Counted
<1>. QED BY <1>3, <1>4, <1>5, <1>6, <1>7, <1>8, MemberStep

LEMMA ForkKeeps ==
  ASSUME Inv, setting' = setting, NEW d \in Devices, NEW i \in Ids, NEW h \in Ids, Fork(d, i, h)
  PROVE  Inv'
<1>1. i \notin hidden[d] /\ h \notin hidden[d] /\ i # h
  BY InHand DEF Fork, Resolves, Unused
<1>2. catalog[d][i] \in Item
  BY InHand DEF Fork, Resolves
<1>3. PICK x \in Item \cup {NoItem} : x = conflicts[d][i].item /\ (x \in Item => ItemOK(d, i, x))
  <2>1. /\ conflicts[d][i].item \in Row \cup {NoItem}
        /\ conflicts[d][i].item \in Item \cup {NoItem}
        /\ conflicts[d][i].item \in Item => conflicts[d][i].item # NoItem
    BY ConflictInHand DEF Fork, Resolves, Row, Item, Owners, NoItem
  <2>. QED BY <2>1, ConflictInHand DEF Fork, Resolves, SeenOK, ItemOK
<1>4. PICK z \in Item : z = [owner |-> "own", base |-> 0, text |-> catalog[d][i].text]
                       /\ ItemOK(d, h, z)
  <2>1. [owner |-> "own", base |-> 0, text |-> catalog[d][i].text] \in Item
    BY <1>2 DEF Item, Owners
  <2>2. ItemOK(d, h, [owner |-> "own", base |-> 0, text |-> catalog[d][i].text])
    BY DEF ItemOK, Told
  <2>. QED BY <2>1, <2>2
<1>5. \A j \in Ids : /\ catalog'[d][j] = IF j = h THEN z ELSE IF j = i THEN x ELSE catalog[d][j]
                     /\ changes'[d][j] = IF j = h THEN NewRevision(d, j)
                                         ELSE IF j = i THEN 0 ELSE changes[d][j]
                     /\ conflicts'[d][j] \in {conflicts[d][j], NoConflict}
  BY <1>3, <1>4 DEF Fork, Resolved, Inv, Shapes
<1>6. Shapes' /\ Alone(d)
  <2>1. catalog' \in [Devices -> [Ids -> Item \cup {NoItem}]]
    BY <1>3, <1>4 DEF Fork, Inv, Shapes
  <2>2. changes' \in [Devices -> [Ids -> 0..3]]
    BY NewRevisionIsNew DEF Fork, Inv, Shapes
  <2>3. conflicts' \in [Devices -> [Ids -> Conflict \cup {NoConflict}]]
    BY DEF Fork, Resolved, Inv, Shapes
  <2>4. Shapes'
    BY <2>1, <2>2, <2>3, SameTypes DEF Fork, Inv, Shapes
  <2>. QED BY <2>4 DEF Fork, Resolved, Alone, Same, Inv, Shapes
<1>7. \A j \in Ids, y \in Item : catalog'[d][j] = y => ItemOK(d, j, y)
  BY <1>3, <1>4, <1>5 DEF Inv, DeviceOK, CatalogOK
<1>8. \A c \in queue'[d] : CommandOK(d, c)
  BY DEF Fork, Inv, DeviceOK, QueueOK
<1>9. \A j \in hidden'[d] : catalog'[d][j] = NoItem
  BY <1>1, <1>5 DEF Fork, Inv, DeviceOK, HiddenOK, Here, Shapes
<1>10. Counted /\ UNCHANGED <<server, run, late, shown>>
  BY DEF Fork, Inv, BoundsOK, Counted
<1>. QED BY <1>5, <1>6, <1>7, <1>8, <1>9, <1>10, MemberStep

(* What a removal keeps of its item. *)
LEMMA DeletionIsOK ==
  ASSUME Inv, NEW d \in Devices, NEW i \in Ids, Here(d, i)
  PROVE  Deletion(d, i) \in Command /\ CommandOK(d, Deletion(d, i))
<1>1. PICK x \in Item : x = catalog[d][i] /\ ItemOK(d, i, x) /\ x # NoItem
  BY InHand DEF Here
<1>. QED BY <1>1 DEF Deletion, Command, CommandOK, ItemOK, Item

LEMMA RemoveKeeps ==
  ASSUME Inv, setting' = setting, NEW d \in Devices, NEW i \in Ids, Remove(d, i)
  PROVE  Inv'
<1>1. PICK c \in Command : c = Deletion(d, i) /\ CommandOK(d, c)
  BY DeletionIsOK DEF Remove
<1>2. \A j \in Ids : /\ catalog'[d][j] = IF j = i THEN NoItem ELSE catalog[d][j]
                     /\ changes'[d][j] = IF j = i THEN 0 ELSE changes[d][j]
                     /\ conflicts'[d][j] = conflicts[d][j]
  BY DEF Remove, Inv, Shapes
<1>3. queue'[d] = queue[d] \cup {c} /\ hidden'[d] = hidden[d] \cup {i}
  BY <1>1 DEF Remove, Inv, Shapes
<1>4. Shapes' /\ Alone(d)
  <2>1. catalog' \in [Devices -> [Ids -> Item \cup {NoItem}]]
    BY DEF Remove, Inv, Shapes
  <2>2. changes' \in [Devices -> [Ids -> 0..3]]
    BY DEF Remove, Inv, Shapes
  <2>3. queue' \in [Devices -> SUBSET Command] /\ hidden' \in [Devices -> SUBSET Ids]
    BY <1>1 DEF Remove, Inv, Shapes
  <2>4. Shapes'
    BY <2>1, <2>2, <2>3, SameTypes DEF Remove, Inv, Shapes
  <2>. QED BY <2>4 DEF Remove, Alone, Same, Inv, Shapes
<1>5. \A j \in Ids, y \in Item : catalog'[d][j] = y => ItemOK(d, j, y)
  BY <1>2 DEF Inv, DeviceOK, CatalogOK, Item, NoItem, Owners
<1>6. \A k \in queue'[d] : CommandOK(d, k)
  BY <1>1, <1>3 DEF Inv, DeviceOK, QueueOK
<1>7. \A j \in hidden'[d] : catalog'[d][j] = NoItem
  BY <1>2, <1>3 DEF Inv, DeviceOK, HiddenOK, Here, Shapes
<1>8. Counted /\ UNCHANGED <<server, run, late, shown>>
  BY DEF Remove, Inv, BoundsOK, Counted
<1>. QED BY <1>2, <1>4, <1>5, <1>6, <1>7, <1>8, MemberStep

LEMMA ResetKeeps ==
  ASSUME Inv, setting' = setting, NEW d \in Devices, Reset(d)
  PROVE  Inv'
<1>. DEFINE gone == {i \in Ids \ References : Here(d, i)}
            anew == {i \in References : catalog[d][i].owner \in {"absent", "own"}}
<1>1. 0 \in Texts /\ References \subseteq Ids
  BY DEF Inv, BoundsOK, Texts
<1>2. \A j \in Ids : Tracked(d, j, 0) \in Item /\ ItemOK(d, j, Tracked(d, j, 0))
  BY <1>1, TrackedIsAnItem DEF ItemOK
<1>3. \A j \in Ids :
        /\ catalog'[d][j] = IF j \in gone THEN NoItem
                            ELSE IF j \in anew THEN Tracked(d, j, 0) ELSE catalog[d][j]
        /\ changes'[d][j] = IF j \in gone THEN 0
                            ELSE IF j \in anew THEN NewRevision(d, j) ELSE changes[d][j]
        /\ conflicts'[d][j] = conflicts[d][j]
  BY DEF Reset, Inv, Shapes
<1>4. queue'[d] = queue[d] \cup {Deletion(d, i) : i \in gone} /\ hidden'[d] = {}
  BY DEF Reset, Inv, Shapes
<1>5. \A i \in gone : Deletion(d, i) \in Command /\ CommandOK(d, Deletion(d, i))
  BY DeletionIsOK
<1>6. Shapes' /\ Alone(d)
  <2>1. \A j \in Ids : catalog'[d][j] \in Item \cup {NoItem} /\ changes'[d][j] \in 0..3
    BY <1>2, <1>3, NewRevisionIsNew DEF Inv, Shapes
  <2>2. catalog' \in [Devices -> [Ids -> Item \cup {NoItem}]]
    BY <2>1 DEF Reset, Inv, Shapes
  <2>3. changes' \in [Devices -> [Ids -> 0..3]]
    BY <2>1 DEF Reset, Inv, Shapes
  <2>4. queue' \in [Devices -> SUBSET Command] /\ hidden' \in [Devices -> SUBSET Ids]
    BY <1>4, <1>5 DEF Reset, Inv, Shapes
  <2>5. Shapes'
    BY <2>2, <2>3, <2>4, SameTypes DEF Reset, Inv, Shapes
  <2>. QED BY <2>5 DEF Reset, Alone, Same, Inv, Shapes
<1>7. \A j \in Ids, y \in Item : catalog'[d][j] = y => ItemOK(d, j, y)
  BY <1>2, <1>3 DEF Inv, DeviceOK, CatalogOK, Item, NoItem, Owners
<1>8. \A k \in queue'[d] : CommandOK(d, k)
  BY <1>4, <1>5 DEF Inv, DeviceOK, QueueOK
<1>9. Counted /\ UNCHANGED <<server, run, late, shown>>
  BY DEF Reset, Inv, BoundsOK, Counted
<1>. QED BY <1>3, <1>4, <1>6, <1>7, <1>8, <1>9, MemberStep

-----------------------------------------------------------------------------
(* The server. *)

LEMMA BatchIsSaved ==
  ASSUME Inv, setting' = setting, NEW sent \in [Ids -> Sending], SaveBatch(sent)
  PROVE  ServerOK' /\ stored \subseteq stored' /\ tombs \subseteq tombs'
<1>1. \A i \in Ids : rows[i] \in Row \cup {NoItem} /\ RowOK(i)
  BY DEF Inv, ServerOK
<1>2. \A i \in Saved(sent) :
        /\ i \in Ids /\ i \notin tombs /\ rows[i].owner # "shared"
        /\ rows'[i] = [owner |-> "own", base |-> rows[i].base + 1, text |-> sent[i].text]
        /\ rows'[i] \in Row /\ rows'[i].owner = "own" /\ rows'[i].text = sent[i].text
        /\ <<i, rows'[i].text>> \in stored'
  BY <1>1 DEF SaveBatch, Saved, Batch, Outcome, Sending, Row, NoItem
<1>3. \A i \in Ids \ Saved(sent) : rows'[i] = rows[i]
  BY DEF SaveBatch
<1>4. \A i \in Ids \ Saved(sent) : \A t : <<i, t>> \in stored' => <<i, t>> \in stored
  BY DEF SaveBatch
<1>5. stored \subseteq stored' /\ tombs' = tombs
  BY DEF SaveBatch
<1>6. ASSUME NEW i \in Ids PROVE RowOK(i)'
  <2>1. CASE i \in Saved(sent)
    <3>1. i \notin References /\ i \notin References'
      BY <1>1, <1>2, <2>1, SameTypes DEF RowOK
    <3>2. rows'[i].owner # "shared" /\ rows'[i] # NoItem
      <4>1. NoItem.owner = "absent"
        BY DEF NoItem
      <4>2. rows'[i].owner = "own"
        BY <1>2, <2>1
      <4>. QED BY <4>1, <4>2
    <3>. QED BY <1>2, <2>1, <3>1, <3>2 DEF RowOK
  <2>2. CASE i \notin Saved(sent)
    BY <1>1, <1>3, <1>4, <1>5, <2>2, SameTypes DEF RowOK
  <2>. QED BY <2>1, <2>2
<1>7. rows' \in [Ids -> Row \cup {NoItem}]
  <2>1. \A i \in Ids : rows'[i] \in Row \cup {NoItem}
    BY <1>1, <1>2, <1>3
  <2>. QED BY <2>1 DEF SaveBatch
<1>. QED BY <1>5, <1>6, <1>7, SameTypes DEF ServerOK, Inv

LEMMA ItemIsBuried ==
  ASSUME Inv, setting' = setting, NEW i \in Ids, Bury(i)
  PROVE  ServerOK' /\ stored \subseteq stored' /\ tombs \subseteq tombs' /\ i \in tombs'
<1>1. \A j \in Ids : rows[j] \in Row \cup {NoItem} /\ RowOK(j)
  BY DEF Inv, ServerOK
<1>2. \A j \in Ids : rows'[j] = IF j = i /\ rows[i].owner = "own" THEN NoItem ELSE rows[j]
  BY DEF Bury, Inv, ServerOK
<1>3. stored' = stored /\ tombs' = tombs \cup {i}
  BY DEF Bury
<1>4. \A j \in Ids : RowOK(j)'
  <2>. SUFFICES ASSUME NEW j \in Ids PROVE RowOK(j)'
    OBVIOUS
  <2>1. CASE j = i /\ rows[i].owner = "own"
    <3>1. rows'[j] = NoItem /\ rows'[j].owner = "absent" /\ j \in tombs'
      BY <1>2, <1>3, <2>1 DEF NoItem
    <3>2. j \notin References /\ j \notin References'
      BY <1>1, <2>1, SameTypes DEF RowOK
    <3>. QED BY <3>1, <3>2 DEF RowOK
  <2>2. CASE ~(j = i /\ rows[i].owner = "own")
    <3>1. rows'[j] = rows[j]
      BY <1>2, <2>2
    <3>. QED BY <1>1, <1>3, <3>1, SameTypes DEF RowOK
  <2>. QED BY <2>1, <2>2
<1>5. rows' \in [Ids -> Row \cup {NoItem}]
  BY <1>1, <1>2 DEF Bury, Inv, ServerOK
<1>. QED BY <1>3, <1>4, <1>5, SameTypes DEF ServerOK, Inv

LEMMA CountedStays ==
  ASSUME Inv, used' = used
  PROVE  Counted
BY DEF Inv, BoundsOK, Counted

(* What the run of a device holds. *)
LEMMA RunInHand ==
  ASSUME Inv, NEW d \in Devices
  PROVE  run[d] \in Run /\ RunOK(d, run[d]) /\ SentIsHeld(d)
<1>1. run[d] \in Run
  BY DEF Inv, Shapes
<1>. QED BY <1>1 DEF Inv, DeviceOK, RunsOK

(* The server answers. *)
LEMMA AnswerArrives ==
  ASSUME Inv, setting' = setting, UNCHANGED <<local, late, shown, used>>, NEW d \in Devices,
         ServerOK', stored \subseteq stored', tombs \subseteq tombs',
         run[d].stage # "loop", NEW a \in Answer, Answered(d, a), AnswerOK(a)',
         a.kind = "done" => run[d].command.id \in tombs',
         a.kind = "results" =>
           \A i \in Ids, s \in Sending :
             run[d].sent[i] = s => ResultOK(i, a.results[i], a.items[i], s)'
  PROVE  Inv'
<1>1. PICK q0 \in Run : q0 = run[d] /\ RunOK(d, q0) /\ RunOK(d, q0)'
  BY RunInHand, RunStays DEF Grown
<1>2. PICK q \in Run : q = [q0 EXCEPT !.answer = a]
  BY DEF Run
<1>3. run' = [run EXCEPT ![d] = q]
  BY <1>1, <1>2 DEF Answered
<1>4. RunOK(d, q)'
  <2>1. /\ q.answer = a /\ q.pulled = q0.pulled /\ q.todo = q0.todo /\ q.stage = q0.stage
        /\ q.command = q0.command /\ q.sent = q0.sent
    BY <1>2 DEF Run
  <2>2. a.kind = "done" => q.command.id \in tombs'
    BY <1>1, <2>1
  <2>3. a.kind = "results" =>
          \A i \in Ids : ResultOK(i, a.results[i], a.items[i], q.sent[i])'
    <3>1. \A i \in Ids : q.sent[i] \in Sending /\ run[d].sent[i] = q.sent[i]
      BY <1>1, <2>1 DEF Run
    <3>. QED BY <3>1
  <2>. QED BY <1>1, <2>1, <2>2, <2>3 DEF RunOK
<1>5. \A i \in Ids : q.sent[i] # NotSent /\ changes[d][i] = q.sent[i].revision
                    => catalog[d][i].text = q.sent[i].text
  BY <1>1, <1>2, RunInHand DEF SentIsHeld, Run
<1>6. Counted /\ late' \subseteq RequestSet /\ late' = late
  BY CountedStays DEF Inv, Shapes
<1>. QED BY <1>3, <1>4, <1>5, <1>6, RunMoves

LEMMA ServePullKeeps ==
  ASSUME Inv, setting' = setting, NEW d \in Devices, ServePull(d)
  PROVE  Inv'
<1>1. PICK a : /\ a = [NoAnswer EXCEPT !.kind = "pull", !.deleted = tombs,
                                       !.items = [i \in Ids |-> Visible(i)]]
  OBVIOUS
<1>2. a \in Answer /\ a.kind = "pull" /\ a.deleted = tombs /\ \A i \in Ids : a.items[i] = Visible(i)
  BY <1>1 DEF NoAnswer, Answer, Visible, Inv, ServerOK
<1>3. ServerOK' /\ stored \subseteq stored' /\ tombs \subseteq tombs'
  BY ServerStays DEF ServePull
<1>4. \A i \in Ids : SeenOK(i, a.items[i])
  BY <1>2 DEF SeenOK, Visible, Inv, ServerOK, RowOK
<1>5. AnswerOK(a)'
  BY <1>2, <1>3, <1>4, AnswerStays DEF AnswerOK
<1>. QED BY <1>1, <1>2, <1>3, <1>5, AnswerArrives DEF ServePull, Serving

LEMMA ServeDeleteKeeps ==
  ASSUME Inv, setting' = setting, NEW d \in Devices, ServeDelete(d)
  PROVE  Inv'
<1>1. CommandOK(d, run[d].command) /\ run[d].command \in Command
  BY RunInHand DEF ServeDelete, Serving, RunOK, Run, CommandOK, NoCommand
<1>2. run[d].command.id \in Ids
  BY <1>1 DEF Command
<1>3. \A k \in {"done", "refused"} :
        /\ [NoAnswer EXCEPT !.kind = k] \in Answer /\ [NoAnswer EXCEPT !.kind = k].kind = k
        /\ \A i \in Ids : [NoAnswer EXCEPT !.kind = k].items[i] = NoItem
        /\ [NoAnswer EXCEPT !.kind = k].deleted = {}
  BY DEF NoAnswer, Answer
<1>4. CASE MayDelete(run[d].command.id, run[d].command.base)
  <2>1. PICK a \in Answer : a = [NoAnswer EXCEPT !.kind = "done"] /\ AnswerOK(a) /\ a.kind = "done"
    BY <1>3 DEF AnswerOK, SeenOK
  <2>2. /\ ServerOK' /\ stored \subseteq stored' /\ tombs \subseteq tombs'
        /\ run[d].command.id \in tombs'
    BY <1>2, <1>4, ItemIsBuried DEF ServeDelete
  <2>3. AnswerOK(a)'
    BY <2>1, <2>2, AnswerStays
  <2>. QED BY <1>4, <2>1, <2>2, <2>3, AnswerArrives DEF ServeDelete, Serving
<1>5. CASE ~MayDelete(run[d].command.id, run[d].command.base)
  <2>1. PICK a \in Answer : a = [NoAnswer EXCEPT !.kind = "refused"] /\ AnswerOK(a) /\ a.kind = "refused"
    BY <1>3 DEF AnswerOK, SeenOK
  <2>2. ServerOK' /\ stored \subseteq stored' /\ tombs \subseteq tombs'
    BY <1>5, ServerStays DEF ServeDelete
  <2>3. AnswerOK(a)'
    BY <2>1, <2>2, AnswerStays
  <2>. QED BY <1>5, <2>1, <2>2, <2>3, AnswerArrives DEF ServeDelete, Serving
<1>. QED BY <1>4, <1>5

LEMMA ServePushKeeps ==
  ASSUME Inv, setting' = setting, NEW d \in Devices, ServePush(d)
  PROVE  Inv'
<1>1. PICK sent \in [Ids -> Sending] : sent = run[d].sent
  BY RunInHand DEF Run
<1>2. PICK results \in [Ids -> {"no", "ok", "deleted", "mismatch", "version"}] :
        results = [i \in Ids |-> IF i \in Batch(sent) THEN Outcome(i, sent[i].base) ELSE "no"]
  BY DEF Outcome
<1>3. SaveBatch(sent) /\ ServerOK' /\ stored \subseteq stored' /\ tombs \subseteq tombs'
  BY <1>1, BatchIsSaved DEF ServePush
<1>4. PICK items \in [Ids -> Row \cup {NoItem}] :
        items = [i \in Ids |-> IF results[i] \in {"ok", "version"} THEN rows'[i] ELSE NoItem]
  BY <1>3, SameTypes DEF ServerOK
<1>5. PICK a \in Answer : a = [NoAnswer EXCEPT !.kind = "results", !.results = results,
                                               !.items = items]
  BY DEF NoAnswer, Answer
<1>6. Answered(d, a)
  BY <1>1, <1>2, <1>4, <1>5 DEF ServePush
<1>7. a.kind = "results" /\ a.results = results /\ a.items = items /\ a.deleted = {}
  BY <1>5 DEF NoAnswer
<1>8. AnswerOK(a)'
  <2>1. ASSUME NEW i \in Ids PROVE SeenOK(i, a.items[i])'
    <3>1. CASE items[i] = NoItem
      BY <1>7, <3>1 DEF SeenOK
    <3>2. CASE items[i] # NoItem
      <4>1. items[i] = rows'[i] /\ rows'[i] # NoItem
        BY <1>4, <3>2
      <4>2. rows'[i] \in Row' /\ <<i, rows'[i].text>> \in stored'
        BY <1>3, <4>1 DEF ServerOK, RowOK
      <4>. QED BY <1>7, <4>1, <4>2 DEF SeenOK
    <3>. QED BY <3>1, <3>2
  <2>. QED BY <1>7, <2>1 DEF AnswerOK
<1>9. ASSUME NEW i \in Ids PROVE ResultOK(i, results[i], items[i], sent[i])'
  <2>1. results[i] = "deleted" => i \in tombs'
    BY <1>2, <1>3 DEF Outcome
  <2>2. results[i] = "ok" => i \in Saved(sent) /\ sent[i] # NotSent
    BY <1>2 DEF Saved, Batch
  <2>3. results[i] = "ok" => items[i].text = sent[i].text /\ items[i].owner = "own"
    BY <1>3, <1>4, <2>2 DEF SaveBatch
  <2>4. results[i] = "version" => rows[i] # NoItem /\ rows'[i] = rows[i]
    BY <1>2, <1>3 DEF Outcome, SaveBatch, Saved
  <2>5. results[i] \in {"ok", "version"} => items[i] # NoItem
    BY <1>4, <2>3, <2>4 DEF NoItem
  <2>. QED BY <2>1, <2>2, <2>3, <2>5 DEF ResultOK
<1>10. UNCHANGED <<local, late, shown, used>> /\ run[d].stage # "loop"
  BY DEF ServePush, Serving
<1>. QED BY <1>1, <1>3, <1>6, <1>7, <1>8, <1>9, <1>10, AnswerArrives

LEMMA ArriveLateKeeps ==
  ASSUME Inv, setting' = setting, NEW r \in late, ArriveLate(r)
  PROVE  Inv'
<1>1. r \in RequestSet /\ RequestOK(r)
  BY DEF Inv, Shapes
<1>2. ServerOK' /\ stored \subseteq stored' /\ tombs \subseteq tombs'
  <2>1. CASE r.command = NoCommand
    BY <1>1, <2>1, BatchIsSaved DEF ArriveLate, RequestSet
  <2>2. CASE r.command # NoCommand /\ MayDelete(r.command.id, r.command.base)
    BY <1>1, <2>2, ItemIsBuried DEF ArriveLate, RequestSet, Command
  <2>3. CASE r.command # NoCommand /\ ~MayDelete(r.command.id, r.command.base)
    BY <2>3, ServerStays DEF ArriveLate
  <2>. QED BY <2>1, <2>2, <2>3
<1>3. r.device \in Devices
  BY <1>1 DEF RequestSet
<1>4. \A e \in Devices : Grown(e) /\ Same(e) /\ DeviceOK(e)
  BY <1>2 DEF ArriveLate, Grown, Same, local, Inv
<1>5. DeviceOK(r.device)' /\ Alone(r.device)
  BY <1>3, <1>4, Untouched DEF DeviceOK, Same, Alone
<1>6. Shapes' /\ Counted /\ late' \subseteq late
  BY SameTypes, CountedStays DEF ArriveLate, Inv, Shapes, local
<1>7. shown[r.device] \subseteq shown'[r.device]
  BY DEF ArriveLate
<1>. QED BY <1>2, <1>3, <1>5, <1>6, <1>7, DeviceStep

-----------------------------------------------------------------------------
(* The run of synchronisation. *)

(* A step of the run that has nothing in flight. *)
LEMMA RunGoesOn ==
  ASSUME Inv, setting' = setting, UNCHANGED <<server, local, late, shown, used>>,
         NEW d \in Devices, NEW q \in Run, RunOK(d, q), run' = [run EXCEPT ![d] = q],
         \A i \in Ids : q.sent[i] # NotSent /\ changes[d][i] = q.sent[i].revision
                        => catalog[d][i].text = q.sent[i].text
  PROVE  Inv'
<1>1. ServerOK' /\ stored \subseteq stored' /\ tombs \subseteq tombs'
  BY ServerStays
<1>2. RunOK(d, q)'
  BY <1>1, RunStays DEF Grown
<1>3. Counted /\ late' \subseteq RequestSet /\ late' = late
  BY CountedStays DEF Inv, Shapes
<1>. QED BY <1>1, <1>2, <1>3, RunMoves

LEMMA SyncKeeps ==
  ASSUME Inv, setting' = setting, NEW d \in Devices, Sync(d)
  PROVE  Inv'
<1>1. PICK q0 \in Run : q0 = run[d] /\ RunOK(d, q0) /\ q0.stage = "idle"
  BY RunInHand DEF Sync
<1>2. BoundsOK
  BY DEF Inv
<1>3. PICK q \in Run : q = [q0 EXCEPT !.stage = "pulling", !.answer = NoAnswer]
  BY <1>2, NothingIsSent DEF Run, Stage
<1>4. /\ q.stage = "pulling" /\ q.answer = NoAnswer /\ q.pulled = q0.pulled
      /\ q.todo = q0.todo /\ q.command = q0.command /\ q.sent = q0.sent
  BY <1>3 DEF Run
<1>5. RunOK(d, q)
  BY <1>1, <1>2, <1>4, NothingIsSent DEF RunOK, NoAnswer
<1>6. run' = [run EXCEPT ![d] = q]
  BY <1>1, <1>3 DEF Sync, Goes
<1>7. \A i \in Ids : q.sent[i] = NotSent
  BY <1>1, <1>4 DEF RunOK, NothingSent
<1>. QED BY <1>5, <1>6, <1>7, RunGoesOn DEF Sync

LEMMA SendDeletionKeeps ==
  ASSUME Inv, setting' = setting, NEW d \in Devices, NEW c \in run[d].todo, SendDeletion(d, c)
  PROVE  Inv'
<1>1. PICK q0 \in Run : q0 = run[d] /\ RunOK(d, q0) /\ q0.stage = "loop" /\ c \in q0.todo
  BY RunInHand DEF SendDeletion, Looping
<1>2. c \in Command
  BY <1>1 DEF Run
<1>3. PICK q \in Run : q = [q0 EXCEPT !.stage = "deleting", !.command = c, !.todo = @ \ {c}]
  BY <1>2 DEF Run, Stage
<1>4. /\ q.stage = "deleting" /\ q.answer = q0.answer /\ q.pulled = q0.pulled
      /\ q.todo \subseteq q0.todo /\ q.command = c /\ q.sent = q0.sent
  BY <1>3 DEF Run
<1>5. RunOK(d, q)
  BY <1>1, <1>4 DEF RunOK, NoAnswer
<1>6. run' = [run EXCEPT ![d] = q]
  BY <1>1, <1>3 DEF SendDeletion
<1>7. \A i \in Ids : q.sent[i] = NotSent
  BY <1>1, <1>4 DEF RunOK, NothingSent
<1>. QED BY <1>5, <1>6, <1>7, RunGoesOn DEF SendDeletion

LEMMA PushKeeps ==
  ASSUME Inv, setting' = setting, NEW d \in Devices, Push(d)
  PROVE  Inv'
<1>1. PICK sent \in [Ids -> Sending] :
        sent = [i \in Ids |-> Sent(d, i)] /\ \A i \in Ids : SentOK(d, i, sent[i])
  <2>1. ASSUME NEW i \in Ids PROVE Sent(d, i) \in Sending /\ SentOK(d, i, Sent(d, i))
    <3>1. CASE Sent(d, i) = NotSent
      BY <3>1, NothingIsSent DEF Inv, NothingSent, SentOK
    <3>2. CASE Sent(d, i) # NotSent
      <4>1. Pending(d, i) /\ catalog[d][i].owner = "own"
            /\ Sent(d, i) = [base |-> catalog[d][i].base, text |-> catalog[d][i].text,
                              revision |-> changes[d][i]]
        BY <3>2 DEF Sent
      <4>2. catalog[d][i] \in Item /\ Told(d, i, catalog[d][i].base) /\ changes[d][i] \in 0..3
        <5>1. Here(d, i)
          BY <4>1 DEF Here, NoItem
        <5>2. changes[d][i] \in 0..3
          BY DEF Inv, Shapes
        <5>. QED BY <5>1, <5>2, InHand DEF ItemOK
      <4>. QED BY <4>1, <4>2 DEF Pending, Sending, SentOK, Item
    <3>. QED BY <3>1, <3>2
  <2>2. [i \in Ids |-> Sent(d, i)] \in [Ids -> Sending]
    BY <2>1
  <2>3. \A i \in Ids : SentOK(d, i, [j \in Ids |-> Sent(d, j)][i])
    BY <2>1
  <2>. QED BY <2>2, <2>3
<1>2. \A i \in Ids : sent[i] # NotSent => catalog[d][i].text = sent[i].text
  BY <1>1 DEF Sent
<1>3. BoundsOK /\ Idle \in Run /\ RunOK(d, Idle)
  BY IdleIsARun DEF Inv
<1>4. PICK p \in Run : p = [Idle EXCEPT !.stage = "pushing", !.sent = sent]
  BY <1>3 DEF Run, Stage
<1>5. /\ p.stage = "pushing" /\ p.answer = NoAnswer /\ p.pulled = NoAnswer /\ p.todo = {}
      /\ p.command = NoCommand /\ p.sent = sent
  BY <1>4 DEF Idle
<1>6. RunOK(d, p)
  BY <1>1, <1>3, <1>5, NothingIsSent DEF RunOK, NoAnswer
<1>7. PICK q \in Run : run' = [run EXCEPT ![d] = q] /\ (q = Idle \/ q = p)
  BY <1>1, <1>3, <1>4 DEF Push
<1>8. \A i \in Ids : q.sent[i] # NotSent => catalog[d][i].text = q.sent[i].text
  <2>1. \A i \in Ids : Idle.sent[i] = NotSent
    BY DEF Idle, NothingSent
  <2>. QED BY <1>2, <1>5, <1>7, <2>1
<1>9. UNCHANGED <<server, local, late, shown, used>>
  BY DEF Push
<1>. QED BY <1>3, <1>6, <1>7, <1>8, <1>9, RunGoesOn

(* What a device gave up on may still arrive. *)
LEMMA GiveUpKeeps ==
  ASSUME Inv, setting' = setting, NEW d \in Devices, GiveUp(d)
  PROVE  Inv'
<1>1. PICK q0 \in Run : q0 = run[d] /\ RunOK(d, q0)
  BY RunInHand
<1>2. BoundsOK /\ Idle \in Run /\ RunOK(d, Idle)
  BY IdleIsARun DEF Inv
<1>3. ServerOK' /\ stored \subseteq stored' /\ tombs \subseteq tombs'
  BY ServerStays DEF GiveUp
<1>4. Counted
  BY DEF GiveUp, Inv, BoundsOK, Counted
<1>5. PICK a \in Answer : a = [NoAnswer EXCEPT !.kind = "failed"] /\ AnswerOK(a) /\ a.kind = "failed"
  <2>1. [NoAnswer EXCEPT !.kind = "failed"] \in Answer
    BY <1>2, NothingIsSent DEF Answer
  <2>. QED BY <2>1 DEF NoAnswer, AnswerOK, SeenOK
<1>6. PICK p \in Run : p = [q0 EXCEPT !.answer = a]
  BY DEF Run
<1>7. /\ p.stage = q0.stage /\ p.answer = a /\ p.pulled = q0.pulled /\ p.todo = q0.todo
      /\ p.command = q0.command /\ p.sent = q0.sent
  BY <1>6 DEF Run
<1>8. q0.stage \in {"deleting", "checking"} => RunOK(d, p)
  BY <1>1, <1>5, <1>7 DEF RunOK
<1>9. PICK q \in Run : run' = [run EXCEPT ![d] = q] /\ RunOK(d, q) /\ q.sent = NothingSent
  <2>1. CASE run' = [run EXCEPT ![d] = Idle]
    BY <1>2, <2>1 DEF Idle
  <2>2. CASE run[d].stage \in {"deleting", "checking"} /\ Answered(d, [NoAnswer EXCEPT !.kind = "failed"])
    <3>1. RunOK(d, p) /\ p.sent = NothingSent
      BY <1>1, <1>7, <1>8, <2>2 DEF RunOK
    <3>2. run' = [run EXCEPT ![d] = p]
      BY <1>1, <1>5, <1>6, <2>2 DEF Answered
    <3>. QED BY <3>1, <3>2
  <2>. QED BY <2>1, <2>2 DEF GiveUp
<1>10. RunOK(d, q)'
  BY <1>3, <1>9, RunStays DEF Grown, GiveUp
<1>11. PICK r \in RequestSet : r = Request(d) /\ RequestOK(r)
  <2>1. Request(d) \in RequestSet
    BY <1>1 DEF Request, RequestSet, Run
  <2>2. q0.command # NoCommand => CommandOK(d, q0.command)
    BY <1>1 DEF RunOK
  <2>3. \A i \in Ids : SentOK(d, i, q0.sent[i])
    BY <1>1 DEF RunOK
  <2>. QED BY <1>1, <2>1, <2>2, <2>3 DEF Request, RequestOK
<1>12. r.device = d
  BY <1>11 DEF Request
<1>13. RequestOK(r)'
  BY <1>3, <1>11, <1>12, RequestStays DEF Grown, GiveUp
<1>14. late' \subseteq late \cup {r}
  BY <1>11 DEF GiveUp
<1>15. late' \subseteq RequestSet /\ \A s \in late' \ late : RequestOK(s)'
  BY <1>11, <1>13, <1>14 DEF Inv, Shapes
<1>16. \A i \in Ids : q.sent[i] = NotSent
  BY <1>9 DEF NothingSent
<1>. QED BY <1>3, <1>4, <1>9, <1>10, <1>15, <1>16, RunMoves DEF GiveUp

(* A device takes in what it was told; nothing is in flight any more.        *)
LEMMA Receives ==
  ASSUME Inv, setting' = setting, UNCHANGED <<server, late, used>>,
         NEW d \in Devices, Alone(d), Shapes', shown[d] \subseteq shown'[d],
         NEW q \in Run, run'[d] = q, q.sent = NothingSent, RunOK(d, q),
         \A j \in Ids, x \in Item : catalog'[d][j] = x => ItemOK(d, j, x)',
         \A c \in queue'[d] : CommandOK(d, c)',
         \A j \in Ids, k \in Conflict : conflicts'[d][j] = k => ConflictOK(d, j, k)',
         \A j \in hidden'[d] : catalog'[d][j] = NoItem
  PROVE  Inv'
<1>1. ServerOK' /\ stored \subseteq stored' /\ tombs \subseteq tombs'
  BY ServerStays
<1>2. RunOK(d, q)'
  BY <1>1, RunStays DEF Grown
<1>3. RunsOK(d)'
  BY <1>2 DEF RunsOK
<1>4. SentIsHeld(d)'
  BY DEF SentIsHeld, NothingSent
<1>5. CatalogOK(d)' /\ ConflictsOK(d)'
  BY SameTypes DEF CatalogOK, ConflictsOK
<1>6. QueueOK(d)' /\ HiddenOK(d)'
  BY DEF QueueOK, HiddenOK, Here
<1>7. DeviceOK(d)'
  BY <1>3, <1>4, <1>5, <1>6 DEF DeviceOK
<1>8. Counted /\ \A r \in late' \ late : RequestOK(r)'
  BY CountedStays
<1>. QED BY <1>1, <1>7, <1>8, DeviceStep

(* A removal is settled, or left for the next run.                           *)
LEMMA QueueShrinks ==
  ASSUME Inv, setting' = setting,
         UNCHANGED <<server, catalog, changes, hidden, conflicts, late, shown, used>>,
         NEW d \in Devices, NEW q \in Run, run' = [run EXCEPT ![d] = q],
         q.sent = NothingSent, RunOK(d, q),
         \/ queue' = queue
         \/ \E i : queue' = [queue EXCEPT ![d] = Released(d, i)]
  PROVE  Inv'
<1>1. Grown(d) /\ DeviceOK(d)
  BY DEF Grown, server, Inv
<1>2. queue' \in [Devices -> SUBSET Command] /\ queue'[d] \subseteq queue[d]
      /\ \A e \in Devices \ {d} : queue'[e] = queue[e]
  BY DEF Inv, Shapes, Released
<1>3. Shapes' /\ Alone(d) /\ run'[d] = q
  BY <1>2, SameTypes DEF Inv, Shapes, Alone, Same
<1>4. \A j \in Ids, x \in Item : catalog'[d][j] = x => ItemOK(d, j, x)'
  BY <1>1, ItemStays DEF DeviceOK, CatalogOK
<1>5. \A c \in queue'[d] : CommandOK(d, c)'
  BY <1>1, <1>2, CommandStays DEF DeviceOK, QueueOK
<1>6. \A j \in Ids, k \in Conflict : conflicts'[d][j] = k => ConflictOK(d, j, k)'
  BY <1>1, ConflictStays DEF DeviceOK, ConflictsOK
<1>7. \A j \in hidden'[d] : catalog'[d][j] = NoItem
  BY <1>1 DEF DeviceOK, HiddenOK, Here
<1>. QED BY <1>3, <1>4, <1>5, <1>6, <1>7, Receives

(* A removed item comes back with the item of the server to compare.         *)
LEMMA Recovers ==
  ASSUME Inv, setting' = setting, UNCHANGED <<server, late, used>>,
         NEW d \in Devices, NEW q \in Run, run' = [run EXCEPT ![d] = q],
         q.sent = NothingSent, RunOK(d, q),
         NEW c \in Command, CommandOK(d, c),
         NEW item \in Row, SeenOK(c.id, item), Recover(d, c, item)
  PROVE  Inv'
<1>. DEFINE conflict == [reason |-> "version", item |-> item]
<1>1. c.id \in Ids /\ c.item \in Item /\ item.base \in Nat /\ conflict \in Conflict
  BY DEF Command, Row, Conflict
<1>2. shown'[d] = shown[d] \cup {<<c.id, item.base>>}
  BY DEF Recover, Inv, Shapes
<1>3. Grown(d) /\ DeviceOK(d)
  BY <1>2 DEF Grown, server, Inv
<1>4. \A j \in Ids :
        /\ catalog'[d][j] = IF j = c.id THEN c.item ELSE catalog[d][j]
        /\ conflicts'[d][j] = IF j = c.id THEN conflict ELSE conflicts[d][j]
  BY <1>1 DEF Recover, Inv, Shapes
<1>5. queue'[d] \subseteq queue[d] /\ hidden'[d] = hidden[d] \ {c.id}
  BY DEF Recover, Released, Inv, Shapes
<1>6. Shapes' /\ Alone(d) /\ run'[d] = q
  <2>1. catalog' \in [Devices -> [Ids -> Item \cup {NoItem}]]
    BY <1>1 DEF Recover, Inv, Shapes
  <2>2. changes' \in [Devices -> [Ids -> 0..3]]
    BY <1>1, NewRevisionIsNew DEF Recover, Inv, Shapes
  <2>3. conflicts' \in [Devices -> [Ids -> Conflict \cup {NoConflict}]]
    BY <1>1 DEF Recover, Inv, Shapes
  <2>4. queue' \in [Devices -> SUBSET Command] /\ hidden' \in [Devices -> SUBSET Ids]
    BY DEF Recover, Released, Inv, Shapes
  <2>5. shown' \in [Devices -> SUBSET (Ids \X Nat)]
    BY <1>1 DEF Recover, Inv, Shapes
  <2>6. run' \in [Devices -> Run] /\ late' \subseteq RequestSet
    BY DEF Inv, Shapes
  <2>7. Shapes'
    BY <2>1, <2>2, <2>3, <2>4, <2>5, <2>6, SameTypes DEF Shapes
  <2>. QED BY <2>7 DEF Recover, Alone, Same, Inv, Shapes
<1>7. \A j \in Ids, x \in Item : catalog'[d][j] = x => ItemOK(d, j, x)'
  BY <1>3, <1>4, ItemStays DEF DeviceOK, CatalogOK, CommandOK
<1>8. \A k \in queue'[d] : CommandOK(d, k)'
  BY <1>3, <1>5, CommandStays DEF DeviceOK, QueueOK
<1>9. ConflictOK(d, c.id, conflict)'
  <2>1. SeenOK(c.id, item)'
    BY <1>3, SeenStays DEF Grown
  <2>2. Told(d, c.id, item.base)'
    BY <1>2 DEF Told
  <2>. QED BY <2>1, <2>2 DEF ConflictOK
<1>10. \A j \in Ids, k \in Conflict : conflicts'[d][j] = k => ConflictOK(d, j, k)'
  BY <1>3, <1>4, <1>9, ConflictStays DEF DeviceOK, ConflictsOK
<1>11. \A j \in hidden'[d] : catalog'[d][j] = NoItem
  BY <1>3, <1>4, <1>5 DEF DeviceOK, HiddenOK, Here, Inv, Shapes
<1>12. shown[d] \subseteq shown'[d]
  BY <1>2
<1>. QED BY <1>6, <1>7, <1>8, <1>10, <1>11, <1>12, Receives

(* The rounds of the loop over the removals. *)
LEMMA NextRound ==
  ASSUME Inv, NEW d \in Devices, NEW c, Looping(d, c)
  PROVE  /\ c \in Command /\ CommandOK(d, c) /\ AnswerOK(run[d].pulled)
         /\ run[d].pulled \in Answer
         /\ \E q \in Run : /\ q = [run[d] EXCEPT !.todo = @ \ {c}]
                           /\ q.sent = NothingSent /\ RunOK(d, q)
<1>1. PICK q0 \in Run : q0 = run[d] /\ RunOK(d, q0) /\ q0.stage = "loop" /\ c \in q0.todo
  BY RunInHand DEF Looping
<1>2. c \in Command /\ CommandOK(d, c)
  BY <1>1 DEF Run, RunOK
<1>3. PICK q \in Run : q = [q0 EXCEPT !.todo = @ \ {c}]
  BY <1>1 DEF Run
<1>4. /\ q.stage = q0.stage /\ q.answer = q0.answer /\ q.pulled = q0.pulled
      /\ q.todo \subseteq q0.todo /\ q.command = q0.command /\ q.sent = q0.sent
  BY <1>3 DEF Run
<1>5. RunOK(d, q) /\ q.sent = NothingSent
  BY <1>1, <1>4 DEF RunOK
<1>6. AnswerOK(q0.pulled) /\ q0.pulled \in Answer
  BY <1>1 DEF RunOK, Run
<1>. QED BY <1>1, <1>2, <1>3, <1>5, <1>6

LEMMA LoopKeeps ==
  ASSUME Inv, setting' = setting, NEW d \in Devices, NEW c,
         AlreadyDeleted(d, c) \/ DeletionConflicts(d, c)
  PROVE  Inv'
<1>1. PICK q \in Run : q = [run[d] EXCEPT !.todo = @ \ {c}] /\ q.sent = NothingSent /\ RunOK(d, q)
  BY NextRound DEF AlreadyDeleted, DeletionConflicts
<1>2. run' = [run EXCEPT ![d] = q]
  BY <1>1 DEF AlreadyDeleted, DeletionConflicts, Done
<1>3. CASE AlreadyDeleted(d, c)
  BY <1>1, <1>2, <1>3, QueueShrinks DEF AlreadyDeleted
<1>4. CASE DeletionConflicts(d, c)
  <2>1. c \in Command /\ CommandOK(d, c) /\ AnswerOK(run[d].pulled) /\ run[d].pulled \in Answer
    BY <1>4, NextRound DEF DeletionConflicts
  <2>2. c.id \in Ids
    BY <2>1 DEF Command
  <2>3. PICK item \in Row : item = run[d].pulled.items[c.id] /\ SeenOK(c.id, item)
    BY <1>4, <2>1, <2>2 DEF DeletionConflicts, Changed, Answer, AnswerOK, NoItem
  <2>. QED BY <1>1, <1>2, <1>4, <2>1, <2>3, Recovers DEF DeletionConflicts
<1>. QED BY <1>3, <1>4

(* The answer about a removal has come, or will not come. *)
LEMMA BackIsOK ==
  ASSUME Inv, NEW d \in Devices, run[d].stage \in {"deleting", "checking"}
  PROVE  /\ run[d].command \in Command /\ CommandOK(d, run[d].command)
         /\ AnswerOK(run[d].answer) /\ run[d].answer \in Answer
         /\ \E q \in Run : /\ q = [run[d] EXCEPT !.stage = "loop", !.answer = NoAnswer,
                                                 !.command = NoCommand]
                           /\ q.sent = NothingSent /\ RunOK(d, q)
         /\ \E q \in Run : /\ q = [run[d] EXCEPT !.stage = "checking", !.answer = NoAnswer]
                           /\ q.sent = NothingSent /\ RunOK(d, q)
<1>1. PICK q0 \in Run : q0 = run[d] /\ RunOK(d, q0) /\ q0.stage \in {"deleting", "checking"}
  BY RunInHand
<1>2. NoAnswer \in Answer /\ AnswerOK(NoAnswer) /\ NoAnswer.kind = "none"
  BY NothingIsSent DEF NoAnswer, Inv
<1>3. q0.command \in Command /\ CommandOK(d, q0.command)
  BY <1>1 DEF RunOK, Run, CommandOK, NoCommand
<1>4. AnswerOK(q0.answer) /\ q0.answer \in Answer /\ q0.sent = NothingSent
  BY <1>1 DEF RunOK, Run
<1>5. PICK q \in Run : q = [q0 EXCEPT !.stage = "loop", !.answer = NoAnswer, !.command = NoCommand]
  BY <1>2 DEF Run, Stage
<1>6. /\ q.stage = "loop" /\ q.answer = NoAnswer /\ q.pulled = q0.pulled
      /\ q.todo = q0.todo /\ q.command = NoCommand /\ q.sent = q0.sent
  BY <1>5 DEF Run
<1>7. RunOK(d, q) /\ q.sent = NothingSent
  BY <1>1, <1>2, <1>4, <1>6 DEF RunOK
<1>8. PICK p \in Run : p = [q0 EXCEPT !.stage = "checking", !.answer = NoAnswer]
  BY <1>2 DEF Run, Stage
<1>9. /\ p.stage = "checking" /\ p.answer = NoAnswer /\ p.pulled = q0.pulled
      /\ p.todo = q0.todo /\ p.command = q0.command /\ p.sent = q0.sent
  BY <1>8 DEF Run
<1>10. RunOK(d, p) /\ p.sent = NothingSent
  BY <1>1, <1>2, <1>3, <1>4, <1>9 DEF RunOK
<1>. QED BY <1>1, <1>3, <1>4, <1>5, <1>7, <1>8, <1>10

LEMMA ReceiveDeletionKeeps ==
  ASSUME Inv, setting' = setting, NEW d \in Devices, ReceiveDeletion(d)
  PROVE  Inv'
<1>1. run[d].stage \in {"deleting", "checking"}
  BY DEF ReceiveDeletion
<1>2. PICK q \in Run : /\ run' = [run EXCEPT ![d] = q]
                       /\ q.sent = NothingSent /\ RunOK(d, q)
  <2>1. PICK q1 \in Run : /\ q1 = [run[d] EXCEPT !.stage = "loop", !.answer = NoAnswer,
                                                 !.command = NoCommand]
                         /\ q1.sent = NothingSent /\ RunOK(d, q1)
    BY <1>1, BackIsOK
  <2>2. PICK q2 \in Run : /\ q2 = [run[d] EXCEPT !.stage = "checking", !.answer = NoAnswer]
                         /\ q2.sent = NothingSent /\ RunOK(d, q2)
    BY <1>1, BackIsOK
  <2>3. run' = [run EXCEPT ![d] = q1] \/ run' = [run EXCEPT ![d] = q2]
    BY <2>1, <2>2 DEF ReceiveDeletion, BackToLoop, Goes
  <2>. QED BY <2>1, <2>2, <2>3
<1>. QED BY <1>2, QueueShrinks DEF ReceiveDeletion

LEMMA ReceiveCheckKeeps ==
  ASSUME Inv, setting' = setting, NEW d \in Devices, ReceiveCheck(d)
  PROVE  Inv'
<1>1. run[d].stage \in {"deleting", "checking"}
  BY DEF ReceiveCheck
<1>2. PICK q \in Run : /\ run' = [run EXCEPT ![d] = q]
                       /\ q.sent = NothingSent /\ RunOK(d, q)
  <2>1. PICK q1 \in Run : /\ q1 = [run[d] EXCEPT !.stage = "loop", !.answer = NoAnswer,
                                                 !.command = NoCommand]
                         /\ q1.sent = NothingSent /\ RunOK(d, q1)
    BY <1>1, BackIsOK
  <2>2. run' = [run EXCEPT ![d] = q1]
    BY <2>1 DEF ReceiveCheck, BackToLoop
  <2>. QED BY <2>1, <2>2
<1>3. PICK c \in Command : c = run[d].command /\ CommandOK(d, c)
  BY <1>1, BackIsOK
<1>4. CASE Recover(d, c, run[d].answer.items[c.id]) /\ Changed(run[d].answer.items[c.id], c)
  <2>1. c.id \in Ids
    BY DEF Command
  <2>2. PICK item \in Row : item = run[d].answer.items[c.id] /\ SeenOK(c.id, item)
    <3>1. PICK a \in Answer : a = run[d].answer /\ AnswerOK(a)
      BY <1>1, BackIsOK
    <3>2. a.items[c.id] \in Row \cup {NoItem} /\ SeenOK(c.id, a.items[c.id])
      BY <2>1, <3>1 DEF Answer, AnswerOK
    <3>. QED BY <1>4, <3>1, <3>2 DEF Changed, NoItem
  <2>. QED BY <1>2, <1>3, <1>4, <2>2, Recovers DEF ReceiveCheck
<1>5. CASE ~(Recover(d, c, run[d].answer.items[c.id]) /\ Changed(run[d].answer.items[c.id], c))
  <2>1. UNCHANGED <<server, catalog, changes, hidden, conflicts, late, shown, used>>
    BY <1>3, <1>5 DEF ReceiveCheck, local
  <2>2. queue' = queue \/ queue' = [queue EXCEPT ![d] = Released(d, c.id)]
    BY <1>3, <1>5 DEF ReceiveCheck, local
  <2>. QED BY <1>2, <2>1, <2>2, QueueShrinks
<1>. QED BY <1>4, <1>5

(* The pull: a deletion wins but over unsent work, what is pending stays.     *)
LEMMA ApplyPullKeeps ==
  ASSUME Inv, setting' = setting, NEW d \in Devices, ApplyPull(d)
  PROVE  Inv'
<1>1. PICK q0 \in Run : q0 = run[d] /\ RunOK(d, q0) /\ q0.stage = "pulling"
  BY RunInHand DEF ApplyPull
<1>2. PICK a \in Answer : a = run[d].answer /\ AnswerOK(a)
  BY <1>1 DEF Run, RunOK
<1>. DEFINE deleted == hidden[d] \cup a.deleted \cup Queued(d)
            orphans == {i \in deleted \ Queued(d) :
                          Pending(d, i) /\ catalog[d][i].owner = "own"}
            merged == {i \in Ids \ deleted : a.items[i] # NoItem /\ ~Pending(d, i)}
            notice == [reason |-> "deleted", item |-> NoItem]
            noticed == [i \in Ids |-> IF i \in orphans THEN notice ELSE conflicts[d][i]]
            kept == {i \in Ids : Here(d, i) /\ (i \in deleted => i \in orphans)}
<1>3. deleted \subseteq Ids /\ queue[d] \subseteq Command
  BY DEF Inv, Shapes, Queued, Command, Answer
<1>4. \A i \in Ids : SeenOK(i, a.items[i]) /\ a.items[i] \in Row \cup {NoItem}
  BY <1>2 DEF AnswerOK, Answer
<1>5. notice \in Conflict /\ NoItem.base = 0
  BY DEF Conflict, NoItem
<1>6. \A j \in Ids :
        catalog'[d][j] = IF j \in merged THEN a.items[j]
                         ELSE IF j \in kept THEN catalog[d][j] ELSE NoItem
  BY <1>2 DEF ApplyPull, Inv, Shapes
<1>7. \A j \in Ids : conflicts'[d][j] = IF j \in orphans THEN notice ELSE conflicts[d][j]
  BY <1>2 DEF ApplyPull, Inv, Shapes
<1>8. hidden'[d] = {i \in deleted : ~(i \in kept /\ Pending(d, i) /\ noticed[i].reason = "deleted")}
  BY <1>2 DEF ApplyPull, Inv, Shapes
<1>9. shown'[d] = shown[d] \cup {<<i, a.items[i].base>> : i \in merged}
  BY <1>2 DEF ApplyPull, Inv, Shapes
<1>10. PICK q \in Run : q = [q0 EXCEPT !.stage = "loop", !.answer = NoAnswer,
                                       !.pulled = a, !.todo = queue[d]]
  BY <1>3, NothingIsSent DEF Run, Stage, Inv
<1>11. run' = [run EXCEPT ![d] = q] /\ UNCHANGED <<server, changes, queue, late, used>>
  BY <1>1, <1>2, <1>10 DEF ApplyPull
<1>12. Grown(d) /\ DeviceOK(d) /\ shown[d] \subseteq shown'[d]
  BY <1>9, <1>11 DEF Grown, server, Inv
<1>13. RunOK(d, q) /\ q.sent = NothingSent
  <2>1. /\ q.stage = "loop" /\ q.answer = NoAnswer /\ q.pulled = a
        /\ q.todo = queue[d] /\ q.command = q0.command /\ q.sent = q0.sent
    BY <1>10 DEF Run
  <2>2. NoAnswer \in Answer /\ AnswerOK(NoAnswer) /\ NoAnswer.kind = "none"
    BY NothingIsSent DEF NoAnswer, Inv
  <2>. QED BY <1>1, <1>2, <1>12, <2>1, <2>2 DEF RunOK, DeviceOK, QueueOK
<1>14. Shapes' /\ Alone(d) /\ run'[d] = q
  <2>1. catalog' \in [Devices -> [Ids -> Item \cup {NoItem}]]
    <3>1. \A j \in Ids : catalog'[d][j] \in Item \cup {NoItem}
      BY <1>4, <1>6 DEF Inv, Shapes, Row, Item, Owners
    <3>. QED BY <3>1 DEF ApplyPull, Inv, Shapes
  <2>2. conflicts' \in [Devices -> [Ids -> Conflict \cup {NoConflict}]]
    <3>1. \A j \in Ids : conflicts'[d][j] \in Conflict \cup {NoConflict}
      BY <1>5, <1>7 DEF Inv, Shapes
    <3>. QED BY <3>1 DEF ApplyPull, Inv, Shapes
  <2>3. hidden' \in [Devices -> SUBSET Ids]
    BY <1>3, <1>8 DEF ApplyPull, Inv, Shapes
  <2>4. shown' \in [Devices -> SUBSET (Ids \X Nat)]
    <3>1. \A i \in merged : <<i, a.items[i].base>> \in Ids \X Nat
      BY <1>4 DEF Row
    <3>2. shown'[d] \in SUBSET (Ids \X Nat)
      BY <1>9, <3>1 DEF Inv, Shapes
    <3>. QED BY <3>2 DEF ApplyPull, Inv, Shapes
  <2>5. run' \in [Devices -> Run] /\ late' \subseteq RequestSet /\ run'[d] = q
    BY <1>11 DEF Inv, Shapes
  <2>6. Shapes'
    BY <1>11, <2>1, <2>2, <2>3, <2>4, <2>5, SameTypes DEF Inv, Shapes
  <2>7. \A e \in Devices \ {d} : catalog'[e] = catalog[e] /\ conflicts'[e] = conflicts[e]
    BY DEF ApplyPull, Inv, Shapes
  <2>8. \A e \in Devices \ {d} : hidden'[e] = hidden[e] /\ shown'[e] = shown[e]
    BY DEF ApplyPull, Inv, Shapes
  <2>9. \A e \in Devices \ {d} : run'[e] = run[e]
    BY <1>11 DEF Inv, Shapes
  <2>. QED BY <1>11, <2>5, <2>6, <2>7, <2>8, <2>9 DEF Alone, Same
<1>15. \A j \in Ids, x \in Item : catalog'[d][j] = x => ItemOK(d, j, x)'
  <2>. SUFFICES ASSUME NEW j \in Ids, NEW x \in Item, catalog'[d][j] = x
                PROVE  ItemOK(d, j, x)'
    OBVIOUS
  <2>1. x # NoItem
    BY DEF Item, Owners, NoItem
  <2>2. CASE j \in merged
    <3>1. x = a.items[j] /\ SeenOK(j, x)
      BY <1>4, <1>6, <2>2
    <3>2. <<j, x.text>> \in stored' /\ <<j, x.base>> \in shown'[d]
      BY <1>9, <1>12, <2>1, <2>2, <3>1 DEF SeenOK, Grown
    <3>. QED BY <3>2 DEF ItemOK, Told
  <2>3. CASE j \notin merged
    BY <1>6, <1>12, <2>1, <2>3, ItemStays DEF DeviceOK, CatalogOK
  <2>. QED BY <2>2, <2>3
<1>16. \A c \in queue'[d] : CommandOK(d, c)'
  BY <1>11, <1>12, CommandStays DEF DeviceOK, QueueOK
<1>17. \A j \in Ids, k \in Conflict : conflicts'[d][j] = k => ConflictOK(d, j, k)'
  <2>1. \A j \in Ids : ConflictOK(d, j, notice)
    BY <1>5 DEF ConflictOK, SeenOK, Told
  <2>. QED BY <1>7, <1>12, <2>1, ConflictStays DEF DeviceOK, ConflictsOK
<1>18. \A j \in hidden'[d] : catalog'[d][j] = NoItem
  <2>. SUFFICES ASSUME NEW j \in hidden'[d] PROVE catalog'[d][j] = NoItem
    OBVIOUS
  <2>1. j \in Ids /\ j \in deleted /\ j \notin merged
    BY <1>3, <1>8
  <2>2. CASE j \in kept
    <3>1. j \in orphans /\ noticed[j].reason = "deleted" /\ Pending(d, j)
      BY <2>1, <2>2
    <3>. QED BY <1>8, <2>2, <3>1
  <2>3. CASE j \notin kept
    BY <1>6, <2>1, <2>3
  <2>. QED BY <2>2, <2>3
<1>. QED BY <1>11, <1>12, <1>13, <1>14, <1>15, <1>16, <1>17, <1>18, Receives

(* The receipt of a batch: what was saved is the server's, unless it was      *)
(* edited again; a removal goes on from the saved version or comes back.      *)
LEMMA ReceivePushKeeps ==
  ASSUME Inv, setting' = setting, NEW d \in Devices, ReceivePush(d)
  PROVE  Inv'
<1>1. PICK q0 \in Run : q0 = run[d] /\ RunOK(d, q0)
  BY RunInHand
<1>2. PICK a \in Answer : a = run[d].answer /\ AnswerOK(a) /\ a.kind = "results"
  BY <1>1 DEF Run, RunOK, ReceivePush
<1>. DEFINE refused == {i \in Ids : a.results[i] \in {"deleted", "mismatch", "version"}}
            saved == {i \in Ids : a.results[i] = "ok"}
            recovered == {i \in refused \cap Queued(d) : a.results[i] # "deleted"}
            newer == {i \in saved : Newer(d, i)}
            answered == {i \in Ids : Here(d, i)} \ recovered
            Carried(c) == IF c.id \in saved
              THEN [c EXCEPT !.base = a.items[c.id].base, !.item.base = a.items[c.id].base]
              ELSE c
            Put(i) == [catalog[d][i] EXCEPT !.base = a.items[i].base]
            recovery(i) == [reason |-> "version", item |-> a.items[i]]
            refusal(i) == [reason |-> a.results[i], item |-> a.items[i]]
<1>3. \A i \in Ids : /\ SeenOK(i, a.items[i]) /\ a.items[i] \in Row \cup {NoItem}
                     /\ a.items[i].base \in Nat
  BY <1>2 DEF AnswerOK, Answer, Row, NoItem
<1>4. \A i \in saved : a.items[i] \in Row /\ a.items[i] \in Item /\ a.items[i] # NoItem
  <2>1. \A i \in saved : a.items[i] # NoItem
    BY <1>1, <1>2 DEF RunOK, ResultOK
  <2>. QED BY <1>3, <2>1 DEF Row, Item, Owners
<1>5. \A i \in recovered : /\ Removal(d, i) \in queue[d] /\ Removal(d, i).id = i
                           /\ Removal(d, i).item \in Item /\ CommandOK(d, Removal(d, i))
  <2>1. \A i \in recovered : \E c \in queue[d] : c.id = i
    BY DEF Queued
  <2>2. \A i \in recovered : Removal(d, i) \in queue[d] /\ Removal(d, i).id = i
    BY <2>1 DEF Removal
  <2>. QED BY <2>2 DEF Inv, Shapes, DeviceOK, QueueOK, Command
<1>6. \A j \in Ids :
        catalog'[d][j] = IF j \in recovered THEN Removal(d, j).item
                         ELSE IF j \in answered \cap newer THEN Put(j)
                         ELSE IF j \in answered \cap saved THEN a.items[j] ELSE catalog[d][j]
  BY <1>2 DEF ReceivePush, Inv, Shapes
<1>7. \A j \in Ids :
        conflicts'[d][j] = IF j \in recovered THEN recovery(j)
                           ELSE IF j \in answered \cap refused THEN refusal(j)
                           ELSE IF j \in answered \cap (saved \ newer) THEN NoConflict
                           ELSE conflicts[d][j]
  BY <1>2 DEF ReceivePush, Inv, Shapes
<1>8. \A j \in Ids : changes'[d][j] \in {NewRevision(d, j), 0, changes[d][j]}
  BY <1>2 DEF ReceivePush, Inv, Shapes
<1>9. queue'[d] = {Carried(c) : c \in {c \in queue[d] : c.id \notin refused}}
  BY <1>2 DEF ReceivePush, Inv, Shapes
<1>10. hidden'[d] = hidden[d] \ recovered
  BY <1>2 DEF ReceivePush, Inv, Shapes
<1>11. shown'[d] = shown[d] \cup {<<i, a.items[i].base>> : i \in {i \in Ids : a.items[i] # NoItem}}
  BY <1>2 DEF ReceivePush, Inv, Shapes
<1>12. UNCHANGED <<server, late, used>> /\ run' = [run EXCEPT ![d] = Idle]
  BY DEF ReceivePush
<1>13. Grown(d) /\ DeviceOK(d) /\ shown[d] \subseteq shown'[d] /\ stored' = stored
  BY <1>11, <1>12 DEF Grown, server, Inv
<1>14. \A i \in Ids : Told(d, i, a.items[i].base)'
  <2>1. \A i \in Ids : a.items[i] = NoItem => a.items[i].base = 0
    BY DEF NoItem
  <2>. QED BY <1>11, <2>1 DEF Told
<1>15. \A j \in answered \cap newer : /\ Put(j) \in Item /\ ItemOK(d, j, catalog[d][j])
                                      /\ Put(j).base = a.items[j].base
                                      /\ Put(j).owner = catalog[d][j].owner
                                      /\ Put(j).text = catalog[d][j].text
  <2>. SUFFICES ASSUME NEW j \in answered \cap newer
                PROVE  /\ Put(j) \in Item /\ ItemOK(d, j, catalog[d][j])
                       /\ Put(j).base = a.items[j].base
                       /\ Put(j).owner = catalog[d][j].owner
                       /\ Put(j).text = catalog[d][j].text
    OBVIOUS
  <2>1. catalog[d][j] \in Item /\ ItemOK(d, j, catalog[d][j]) /\ a.items[j].base \in Nat
    BY <1>3, InHand
  <2>. QED BY <2>1 DEF Item
<1>16. \A j \in Ids : recovery(j) \in Conflict /\ (j \in refused => refusal(j) \in Conflict)
  BY <1>3 DEF Conflict
<1>17. \A c \in queue[d] :
         /\ Carried(c) \in Command /\ Carried(c).id = c.id /\ Carried(c).item # NoItem
         /\ \/ Carried(c) = c
            \/ /\ Carried(c).base = a.items[c.id].base
               /\ Carried(c).item.base = a.items[c.id].base
               /\ Carried(c).item.owner = c.item.owner /\ Carried(c).item.text = c.item.text
  <2>. SUFFICES ASSUME NEW c \in queue[d]
                PROVE  /\ Carried(c) \in Command /\ Carried(c).id = c.id
                       /\ Carried(c).item # NoItem
                       /\ \/ Carried(c) = c
                          \/ /\ Carried(c).base = a.items[c.id].base
                             /\ Carried(c).item.base = a.items[c.id].base
                             /\ Carried(c).item.owner = c.item.owner
                             /\ Carried(c).item.text = c.item.text
    OBVIOUS
  <2>1. c \in Command /\ c.item \in Item /\ c.id \in Ids /\ c.item # NoItem
    BY <1>13 DEF Inv, Shapes, Command, DeviceOK, QueueOK, CommandOK, NoItem, Item, Owners
  <2>2. CASE c.id \in saved
    <3>1. a.items[c.id].base \in Nat
      BY <1>3, <2>1
    <3>2. PICK b \in Nat : b = a.items[c.id].base
      BY <3>1
    <3>3. PICK x \in Item : /\ x = [c.item EXCEPT !.base = b] /\ x.base = b
                            /\ x.owner = c.item.owner /\ x.text = c.item.text
      <4>1. PICK y \in Item : y = c.item
        BY <2>1
      <4>2. [y EXCEPT !.base = b] \in Item
        BY DEF Item
      <4>3. PICK x \in Item : x = [y EXCEPT !.base = b]
        BY <4>2
      <4>4. x.base = b /\ x.owner = y.owner /\ x.text = y.text
        BY <4>3 DEF Item
      <4>. QED BY <4>1, <4>3, <4>4
    <3>4. Carried(c) = [id |-> c.id, base |-> b, item |-> x]
      BY <2>1, <2>2, <3>2, <3>3 DEF Command
    <3>5. x # NoItem
      BY DEF Item, Owners, NoItem
    <3>. QED BY <2>1, <3>2, <3>3, <3>4, <3>5 DEF Command
  <2>3. CASE c.id \notin saved
    BY <2>1, <2>3
  <2>. QED BY <2>2, <2>3
<1>18. /\ newer \subseteq saved /\ saved \subseteq Ids /\ recovered \subseteq refused
      /\ refused \subseteq Ids /\ answered \subseteq Ids
      /\ \A i \in Ids : recovery(i).item = a.items[i] /\ refusal(i).item = a.items[i]
      /\ \A j \in answered : catalog[d][j] # NoItem
  BY DEF Here
<1>. HIDE DEF refused, saved, recovered, newer, answered, Carried, Put, recovery, refusal
<1>19. Idle \in Run /\ RunOK(d, Idle) /\ Idle.sent = NothingSent /\ run'[d] = Idle
  BY <1>12, IdleIsARun DEF Idle, Inv, Shapes
<1>20. Shapes' /\ Alone(d)
  <2>1. catalog' \in [Devices -> [Ids -> Item \cup {NoItem}]]
    <3>1. \A j \in Ids : catalog'[d][j] \in Item \cup {NoItem}
      <4>. SUFFICES ASSUME NEW j \in Ids PROVE catalog'[d][j] \in Item \cup {NoItem}
        OBVIOUS
      <4>1. catalog[d][j] \in Item \cup {NoItem}
        BY DEF Inv, Shapes
      <4>. QED BY <1>4, <1>5, <1>6, <1>15, <1>18, <4>1
    <3>. QED BY <3>1 DEF ReceivePush, Inv, Shapes
  <2>2. changes' \in [Devices -> [Ids -> 0..3]]
    <3>1. \A j \in Ids : changes'[d][j] \in 0..3
      BY <1>8, NewRevisionIsNew DEF Inv, Shapes
    <3>. QED BY <3>1 DEF ReceivePush, Inv, Shapes
  <2>3. conflicts' \in [Devices -> [Ids -> Conflict \cup {NoConflict}]]
    <3>1. \A j \in Ids : conflicts'[d][j] \in Conflict \cup {NoConflict}
      BY <1>7, <1>16, <1>18 DEF Inv, Shapes
    <3>. QED BY <3>1 DEF ReceivePush, Inv, Shapes
  <2>4. queue' \in [Devices -> SUBSET Command]
    <3>1. queue'[d] \subseteq Command
      BY <1>9, <1>17
    <3>. QED BY <3>1 DEF ReceivePush, Inv, Shapes
  <2>5. hidden' \in [Devices -> SUBSET Ids]
    BY <1>10 DEF ReceivePush, Inv, Shapes
  <2>6. shown' \in [Devices -> SUBSET (Ids \X Nat)]
    <3>1. shown'[d] \in SUBSET (Ids \X Nat)
      BY <1>3, <1>11 DEF Inv, Shapes
    <3>. QED BY <3>1 DEF ReceivePush, Inv, Shapes
  <2>7. run' \in [Devices -> Run] /\ late' \subseteq RequestSet
    BY <1>12, <1>19 DEF Inv, Shapes
  <2>8. Shapes'
    BY <2>1, <2>2, <2>3, <2>4, <2>5, <2>6, <2>7, SameTypes DEF Shapes
  <2>9. \A e \in Devices \ {d} : catalog'[e] = catalog[e] /\ changes'[e] = changes[e]
    BY DEF ReceivePush, Inv, Shapes
  <2>10. \A e \in Devices \ {d} : conflicts'[e] = conflicts[e] /\ queue'[e] = queue[e]
    BY DEF ReceivePush, Inv, Shapes
  <2>11. \A e \in Devices \ {d} : hidden'[e] = hidden[e] /\ shown'[e] = shown[e]
    BY DEF ReceivePush, Inv, Shapes
  <2>12. \A e \in Devices \ {d} : run'[e] = run[e]
    BY <1>12 DEF Inv, Shapes
  <2>. QED BY <2>8, <2>9, <2>10, <2>11, <2>12 DEF Alone, Same
<1>21. \A j \in Ids, x \in Item : catalog'[d][j] = x => ItemOK(d, j, x)'
  <2>. SUFFICES ASSUME NEW j \in Ids, NEW x \in Item, catalog'[d][j] = x
                PROVE  ItemOK(d, j, x)'
    OBVIOUS
  <2>1. CASE j \in recovered
    BY <1>5, <1>6, <1>13, <2>1, ItemStays DEF CommandOK
  <2>2. CASE j \notin recovered /\ j \in answered \cap newer
    <3>1. x.base = a.items[j].base /\ (x.owner # "own" => <<j, x.text>> \in stored')
      BY <1>6, <1>13, <1>15, <2>2 DEF ItemOK
    <3>. QED BY <1>14, <3>1 DEF ItemOK, Told
  <2>3. CASE j \notin recovered /\ j \notin newer /\ j \in answered \cap saved
    <3>1. x = a.items[j] /\ <<j, x.text>> \in stored'
      BY <1>3, <1>4, <1>6, <1>13, <2>3 DEF SeenOK
    <3>. QED BY <1>14, <3>1 DEF ItemOK, Told
  <2>4. CASE j \notin recovered /\ j \notin answered \cap saved
    BY <1>6, <1>13, <1>18, <2>4, ItemStays DEF DeviceOK, CatalogOK
  <2>. QED BY <2>1, <2>2, <2>3, <2>4
<1>22. \A c \in queue'[d] : CommandOK(d, c)'
  <2>. SUFFICES ASSUME NEW k \in queue'[d] PROVE CommandOK(d, k)'
    OBVIOUS
  <2>1. PICK c \in queue[d] : k = Carried(c) /\ c.id \in Ids /\ CommandOK(d, c)
    BY <1>9, <1>13 DEF DeviceOK, QueueOK, Inv, Shapes, Command
  <2>2. CASE k = c
    BY <1>13, <2>1, <2>2, CommandStays
  <2>3. CASE k # c
    <3>1. /\ k.id = c.id /\ k.base = a.items[c.id].base /\ k.item.base = a.items[c.id].base
          /\ k.item.owner = c.item.owner /\ k.item.text = c.item.text /\ k.item # NoItem
      BY <1>17, <2>1, <2>3
    <3>2. Told(d, k.id, k.base)' /\ Told(d, k.id, k.item.base)'
      BY <1>14, <2>1, <3>1 DEF Told
    <3>3. k.item.owner # "own" => <<k.id, k.item.text>> \in stored'
      BY <1>13, <2>1, <3>1 DEF CommandOK, ItemOK
    <3>. QED BY <3>1, <3>2, <3>3 DEF CommandOK, ItemOK
  <2>. QED BY <2>2, <2>3
<1>23. \A j \in Ids, k \in Conflict : conflicts'[d][j] = k => ConflictOK(d, j, k)'
  <2>. SUFFICES ASSUME NEW j \in Ids, NEW k \in Conflict, conflicts'[d][j] = k
                PROVE  ConflictOK(d, j, k)'
    OBVIOUS
  <2>1. CASE k.item = a.items[j]
    <3>1. SeenOK(j, k.item)' /\ k.item.base = a.items[j].base
      BY <1>3, <1>13, <2>1, SeenStays DEF Grown
    <3>. QED BY <1>14, <3>1 DEF ConflictOK, Told
  <2>2. CASE k = NoConflict
    BY <2>2 DEF ConflictOK
  <2>3. CASE k = conflicts[d][j]
    BY <1>13, <2>3, ConflictStays DEF DeviceOK, ConflictsOK
  <2>. QED BY <1>7, <1>18, <2>1, <2>2, <2>3
<1>24. \A j \in hidden'[d] : catalog'[d][j] = NoItem
  BY <1>6, <1>18, <1>10, <1>13 DEF DeviceOK, HiddenOK, Here, Inv, Shapes
<1>. QED BY <1>12, <1>13, <1>19, <1>20, <1>21, <1>22, <1>23, <1>24, Receives

-----------------------------------------------------------------------------
LEMMA StepKeeps ==
  ASSUME Inv, [Next]_<<setting, vars>>
  PROVE  Inv'
<1>1. CASE UNCHANGED <<setting, vars>>
  <2>1. setting' = setting /\ UNCHANGED vars
    BY <1>1
  <2>2. \A e \in Devices : Grown(e) /\ Same(e) /\ DeviceOK(e)
    BY <2>1 DEF Grown, Same, Inv, vars
  <2>3. \A e \in Devices : DeviceOK(e)'
    BY <2>2, Untouched DEF DeviceOK, Same
  <2>4. \A r \in late' : RequestOK(r)'
    BY <2>1, <2>2, RequestStays DEF Inv, Shapes, RequestSet, vars
  <2>5. Shapes' /\ BoundsOK' /\ ServerOK'
    <3>1. UNCHANGED server
      BY <2>1 DEF vars, server
    <3>2. Shapes'
      BY <2>1, SameTypes DEF Inv, Shapes, vars
    <3>3. BoundsOK'
      BY <2>1, SameTypes DEF Inv, BoundsOK, vars
    <3>. QED BY <2>1, <3>1, <3>2, <3>3, ServerStays
  <2>. QED BY <2>3, <2>4, <2>5 DEF Inv
<1>2. CASE Next
  <2>. USE <1>2
  <2>1. setting' = setting
    BY DEF Next
  <2>2. ASSUME NEW d \in Devices, Act(d) PROVE Inv'
    BY <2>1, <2>2, EditKeeps, RemoveKeeps, ResetKeeps, AcceptServerKeeps, KeepLocalKeeps,
       ForkKeeps DEF Act
  <2>3. ASSUME NEW d \in Devices, Step(d) PROVE Inv'
    BY <2>1, <2>3, SyncKeeps, ApplyPullKeeps, PushKeeps, ReceivePushKeeps,
       ReceiveDeletionKeeps, ReceiveCheckKeeps, LoopKeeps, SendDeletionKeeps DEF Step
  <2>4. ASSUME NEW d \in Devices, Serve(d) \/ GiveUp(d) PROVE Inv'
    BY <2>1, <2>4, ServePullKeeps, ServePushKeeps, ServeDeleteKeeps, GiveUpKeeps DEF Serve
  <2>5. ASSUME NEW r \in late, ArriveLate(r) PROVE Inv'
    BY <2>1, <2>5, ArriveLateKeeps
  <2>. QED BY <2>2, <2>3, <2>4, <2>5 DEF Next
<1>. QED BY <1>1, <1>2

LEMMA InvHolds == Spec => []Inv
<1>1. Inv /\ [Next]_<<setting, vars>> => Inv'
  BY StepKeeps
<1>. QED BY Initially, <1>1, PTL DEF Spec

(* The catalogue, its changes, removals and conflicts have the code's shape, *)
(* and no item is both removed and present on a device, whatever was lost,   *)
(* late or done between two awaits of syncEquipmentWithServer.               *)
THEOREM NothingIsRemovedAndPresent == Spec => []EquipmentInv
<1>1. Inv => EquipmentInv
  <2>. SUFFICES ASSUME Inv PROVE EquipmentInv
    OBVIOUS
  <2>1. EquipmentTypeOK
    BY DEF Inv, Shapes, ServerOK, EquipmentTypeOK, Run
  <2>2. HiddenIsAbsent
    BY DEF Inv, DeviceOK, HiddenOK, HiddenIsAbsent
  <2>. QED BY <2>1, <2>2 DEF EquipmentInv
<1>. QED BY InvHolds, <1>1, PTL

(* What a step may do on the server. *)
LEMMA ServerMoves ==
  ASSUME Inv, [Next]_<<setting, vars>>
  PROVE  /\ setting' = setting
         /\ \/ UNCHANGED server
            \/ \E d \in Devices : SaveBatch(run[d].sent) /\ run'[d] # run[d]
            \/ \E d \in Devices : /\ Bury(run[d].command.id) /\ run'[d] # run[d]
                                  /\ CommandOK(d, run[d].command) /\ run[d].command \in Command
                                  /\ MayDelete(run[d].command.id, run[d].command.base)
            \/ \E r \in late \ late' : r.command = NoCommand /\ SaveBatch(r.sent)
            \/ \E r \in late \ late' : /\ r.command # NoCommand /\ Bury(r.command.id)
                                       /\ MayDelete(r.command.id, r.command.base)
<1>1. CASE UNCHANGED <<setting, vars>>
  BY <1>1 DEF vars, server
<1>2. CASE Next
  <2>. USE <1>2
  <2>1. setting' = setting
    BY DEF Next
  <2>2. ASSUME NEW d \in Devices, Act(d) PROVE UNCHANGED server
    BY <2>2 DEF Act, Edit, Add, Remove, Reset, AcceptServer, KeepLocal, Fork
  <2>3. ASSUME NEW d \in Devices, Step(d) \/ GiveUp(d) \/ ServePull(d) PROVE UNCHANGED server
    BY <2>3 DEF Step, Sync, ApplyPull, Push, ReceivePush, ReceiveDeletion, ReceiveCheck,
       AlreadyDeleted, DeletionConflicts, SendDeletion, GiveUp, ServePull
  <2>4. ASSUME NEW d \in Devices, ServePush(d)
        PROVE  SaveBatch(run[d].sent) /\ run'[d] # run[d]
    <3>1. run'[d].answer.kind = "results"
      BY <2>4 DEF ServePush, Answered, NoAnswer, Inv, Shapes, Run
    <3>. QED BY <2>4, <3>1 DEF ServePush, Serving
  <2>5. ASSUME NEW d \in Devices, ServeDelete(d)
        PROVE  \/ UNCHANGED server
               \/ /\ Bury(run[d].command.id) /\ run'[d] # run[d]
                  /\ CommandOK(d, run[d].command) /\ run[d].command \in Command
                  /\ MayDelete(run[d].command.id, run[d].command.base)
    <3>1. run'[d].answer.kind \in {"done", "refused"}
      BY <2>5 DEF ServeDelete, Answered, NoAnswer, Inv, Shapes, Run
    <3>2. run'[d] # run[d]
      BY <2>5, <3>1 DEF ServeDelete, Serving
    <3>3. run[d].stage = "deleting" /\ CommandOK(d, run[d].command)
      BY <2>5, RunInHand DEF ServeDelete, Serving, RunOK
    <3>4. run[d].command \in Command
      BY <3>3, RunInHand DEF Run, CommandOK, NoCommand
    <3>. QED BY <2>5, <3>2, <3>3, <3>4 DEF ServeDelete
  <2>6. ASSUME NEW r \in late, ArriveLate(r)
        PROVE  \/ UNCHANGED server
               \/ r \notin late' /\ r.command = NoCommand /\ SaveBatch(r.sent)
               \/ /\ r \notin late' /\ r.command # NoCommand /\ Bury(r.command.id)
                  /\ MayDelete(r.command.id, r.command.base)
    BY <2>6 DEF ArriveLate
  <2>. QED BY <2>1, <2>2, <2>3, <2>4, <2>5, <2>6 DEF Next, Serve
<1>. QED BY <1>1, <1>2

LEMMA SavedWasShown ==
  ASSUME Inv, NEW d \in Devices, NEW sent, \A j \in Ids : SentOK(d, j, sent[j]),
         SaveBatch(sent), NEW i \in Ids, rows'[i] # rows[i], rows[i] # NoItem
  PROVE  <<i, rows[i].base>> \in shown[d]
<1>1. i \in Saved(sent)
  BY DEF SaveBatch
<1>2. sent[i] # NotSent /\ rows[i].owner # "shared" /\ sent[i].base = rows[i].base
  BY <1>1 DEF Saved, Batch, Outcome
<1>3. Told(d, i, rows[i].base) /\ i \notin References /\ rows[i].base # 0
  BY <1>2 DEF SentOK, Inv, ServerOK, RowOK, Row
<1>. QED BY <1>3 DEF Told

LEMMA BuriedWasShown ==
  ASSUME Inv, NEW d \in Devices, NEW c, CommandOK(d, c), Bury(c.id), MayDelete(c.id, c.base),
         NEW i \in Ids, rows'[i] # rows[i], rows[i] # NoItem
  PROVE  <<i, rows[i].base>> \in shown[d]
<1>1. i = c.id /\ rows[i].owner = "own"
  BY DEF Bury, Inv, ServerOK
<1>2. Told(d, i, rows[i].base) /\ i \notin References /\ rows[i].base # 0
  BY <1>1 DEF CommandOK, MayDelete, Inv, ServerOK, RowOK, Row
<1>. QED BY <1>2 DEF Told

(* No item of the organization is written over, or deleted, by a device that *)
(* was not told of that very version: POST batch and DELETE compare it, and  *)
(* nothing the device holds has a version it was not shown.                  *)
THEOREM NobodyReplacesUnseen == Spec => NothingReplacedUnseen
<1>1. ASSUME Inv, [Next]_<<setting, vars>>, NEW i \in Ids, rows'[i] # rows[i], rows[i] # NoItem
      PROVE  \E d \in Devices : /\ run'[d] # run[d] \/ \E r \in late \ late' : r.device = d
                                /\ <<i, rows[i].base>> \in shown[d]
  <2>1. ~UNCHANGED server
    BY <1>1 DEF server
  <2>2. CASE \E d \in Devices : SaveBatch(run[d].sent) /\ run'[d] # run[d]
    <3>1. PICK d \in Devices : SaveBatch(run[d].sent) /\ run'[d] # run[d]
      BY <2>2
    <3>2. \A j \in Ids : SentOK(d, j, run[d].sent[j])
      BY <1>1, RunInHand DEF RunOK
    <3>. QED BY <1>1, <3>1, <3>2, SavedWasShown
  <2>3. CASE \E d \in Devices : /\ Bury(run[d].command.id) /\ run'[d] # run[d]
                                /\ CommandOK(d, run[d].command)
                                /\ MayDelete(run[d].command.id, run[d].command.base)
    BY <1>1, <2>3, BuriedWasShown
  <2>4. CASE \E r \in late \ late' : r.command = NoCommand /\ SaveBatch(r.sent)
    <3>1. PICK r \in late \ late' : r.command = NoCommand /\ SaveBatch(r.sent)
      BY <2>4
    <3>2. r.device \in Devices /\ \A j \in Ids : SentOK(r.device, j, r.sent[j])
      BY <1>1 DEF Inv, Shapes, RequestSet, RequestOK
    <3>. QED BY <1>1, <3>1, <3>2, SavedWasShown
  <2>5. CASE \E r \in late \ late' : /\ r.command # NoCommand /\ Bury(r.command.id)
                                     /\ MayDelete(r.command.id, r.command.base)
    <3>1. PICK r \in late \ late' : /\ r.command # NoCommand /\ Bury(r.command.id)
                                    /\ MayDelete(r.command.id, r.command.base)
      BY <2>5
    <3>2. r.device \in Devices /\ CommandOK(r.device, r.command)
      BY <1>1, <3>1 DEF Inv, Shapes, RequestSet, RequestOK
    <3>. QED BY <1>1, <3>1, <3>2, BuriedWasShown
  <2>. QED BY <1>1, <2>1, <2>2, <2>3, <2>4, <2>5, ServerMoves
<1>2. Inv /\ [Next]_<<setting, vars>>
        => [\A i \in Ids : (rows'[i] # rows[i] /\ rows[i] # NoItem) =>
              \E d \in Devices : /\ run'[d] # run[d] \/ \E r \in late \ late' : r.device = d
                                 /\ <<i, rows[i].base>> \in shown[d]]_vars
  BY <1>1
<1>. QED BY InvHolds, <1>2, PTL DEF Spec, NothingReplacedUnseen

(* What the second half of a step does to the queue of a device.             *)
Answers(d, i) ==
  \/ i \in tombs
  \/ catalog'[d][i] # NoItem /\ conflicts'[d][i] # NoConflict

LEMMA RecoveryAnswers ==
  ASSUME Inv, NEW d \in Devices, NEW c \in Command, CommandOK(d, c), NEW item, Recover(d, c, item)
  PROVE  /\ \A k \in queue[d] : k.id # c.id => k \in queue'[d]
         /\ Answers(d, c.id)
<1>1. c.id \in Ids /\ c.item # NoItem
  BY DEF Command, CommandOK
<1>2. queue'[d] = Released(d, c.id)
  BY DEF Recover, Inv, Shapes
<1>3. catalog'[d][c.id] = c.item
  BY <1>1 DEF Recover, Inv, Shapes
<1>4. conflicts'[d][c.id] = [reason |-> "version", item |-> item]
  BY <1>1 DEF Recover, Inv, Shapes
<1>5. conflicts'[d][c.id] # NoConflict
  <2>1. NoConflict.reason = "no"
    BY DEF NoConflict
  <2>. QED BY <1>4, <2>1
<1>. QED BY <1>1, <1>2, <1>3, <1>5 DEF Released, Answers

LEMMA ReleasedIsGone ==
  ASSUME Inv, NEW d \in Devices, NEW i, queue' = [queue EXCEPT ![d] = Released(d, i)],
         NEW c \in queue[d], c \notin queue'[d]
  PROVE  c.id = i
BY DEF Released, Inv, Shapes

LEMMA ReceiptAnswers ==
  ASSUME Inv, NEW d \in Devices, ReceivePush(d), NEW i \in Queued(d),
         ~\E c \in queue'[d] : c.id = i
  PROVE  Answers(d, i)
<1>1. PICK q0 \in Run : q0 = run[d] /\ RunOK(d, q0)
  BY RunInHand
<1>2. PICK a \in Answer : a = run[d].answer /\ AnswerOK(a) /\ a.kind = "results"
  BY <1>1 DEF Run, RunOK, ReceivePush
<1>. DEFINE refused == {j \in Ids : a.results[j] \in {"deleted", "mismatch", "version"}}
            saved == {j \in Ids : a.results[j] = "ok"}
            Carried(c) == IF c.id \in saved
              THEN [c EXCEPT !.base = a.items[c.id].base, !.item.base = a.items[c.id].base]
              ELSE c
            recovered == {j \in refused \cap Queued(d) : a.results[j] # "deleted"}
<1>3. PICK c \in queue[d] : c.id = i /\ c \in Command /\ i \in Ids
  BY DEF Queued, Inv, Shapes, Command
<1>4. queue'[d] = {Carried(k) : k \in {k \in queue[d] : k.id \notin refused}}
  BY <1>2 DEF ReceivePush, Inv, Shapes
<1>5. i \in refused
  <2>1. Carried(c).id = i
    BY <1>3 DEF Command
  <2>2. i \notin refused => Carried(c) \in queue'[d]
    BY <1>3, <1>4
  <2>. QED BY <2>1, <2>2
<1>6. CASE a.results[i] = "deleted"
  <2>1. q0.answer = a
    BY <1>1, <1>2
  <2>2. ResultOK(i, a.results[i], a.items[i], q0.sent[i])
    BY <1>1, <1>2, <1>3, <2>1 DEF RunOK
  <2>. QED BY <1>6, <2>2 DEF ResultOK, Answers
<1>7. CASE a.results[i] # "deleted"
  <2>1. i \in recovered
    BY <1>5, <1>7
  <2>2. catalog'[d][i] = Removal(d, i).item
    BY <1>2, <1>3, <2>1 DEF ReceivePush, Inv, Shapes
  <2>3. conflicts'[d][i] = [reason |-> "version", item |-> a.items[i]]
    BY <1>2, <1>3, <2>1 DEF ReceivePush, Inv, Shapes
  <2>4. Removal(d, i) \in queue[d]
    BY <1>3 DEF Removal
  <2>5. Removal(d, i).item # NoItem
    BY <2>4 DEF Inv, DeviceOK, QueueOK, CommandOK
  <2>6. NoConflict.reason = "no"
    BY DEF NoConflict
  <2>. QED BY <2>2, <2>3, <2>5, <2>6 DEF Answers
<1>. QED BY <1>6, <1>7

(* A removal leaves the queue of a device only when the server holds it, or   *)
(* by bringing the item back with a conflict to resolve: no loss, late        *)
(* answer or removal during a batch drops it (releaseDeletion).              *)
THEOREM NoRemovalIsDropped == Spec => RemovalIsAnswered
<1>1. ASSUME Inv, Next, NEW d \in Devices,
             NEW i \in {c.id : c \in queue[d]} \ {c.id : c \in queue'[d]}
      PROVE  Answers(d, i)
  <2>. PICK c \in queue[d] : c.id = i /\ c \notin queue'[d] /\ c \in Command
    BY <1>1 DEF Inv, Shapes
  <2>. USE <1>1 DEF Inv
  <2>1. i \in Queued(d) /\ ~\E k \in queue'[d] : k.id = i
    BY DEF Queued
  <2>2. ASSUME NEW e \in Devices, Act(e) PROVE queue[d] \subseteq queue'[d]
    <3>1. CASE queue' = queue
      BY <3>1
    <3>2. ASSUME NEW j \in Ids, Remove(e, j) PROVE queue[d] \subseteq queue'[d]
      BY <3>2 DEF Remove, Shapes
    <3>3. CASE Reset(e)
      <4>1. PICK more : queue' = [queue EXCEPT ![e] = @ \cup more]
        BY <3>3 DEF Reset
      <4>. QED BY <4>1 DEF Shapes
    <3>. QED BY <2>2, <3>1, <3>2, <3>3 DEF Act, Edit, Add, AcceptServer, KeepLocal, Fork
  <2>3. ASSUME NEW e \in Devices, Serve(e) \/ GiveUp(e) PROVE queue[d] \subseteq queue'[d]
    BY <2>3 DEF Serve, ServePull, ServePush, ServeDelete, GiveUp, local
  <2>4. ASSUME NEW e \in Devices, Sync(e) \/ ApplyPull(e) \/ Push(e) PROVE queue[d] \subseteq queue'[d]
    BY <2>4 DEF Sync, ApplyPull, Push, local
  <2>5. ASSUME NEW e \in Devices, ReceivePush(e) PROVE Answers(d, i)
    <3>1. e = d
      BY <2>5 DEF ReceivePush, Shapes
    <3>. QED BY <2>1, <2>5, <3>1, ReceiptAnswers
  <2>6. ASSUME NEW e \in Devices, NEW k, AlreadyDeleted(e, k) PROVE Answers(d, i)
    <3>1. e = d
      BY <2>6 DEF AlreadyDeleted, Shapes
    <3>2. i = k.id
      BY <2>6, <3>1, ReleasedIsGone DEF AlreadyDeleted
    <3>3. Looping(d, k) /\ k.id \in run[d].pulled.deleted
      BY <2>6, <3>1 DEF AlreadyDeleted
    <3>4. AnswerOK(run[d].pulled)
      BY <3>3, NextRound
    <3>5. k.id \in tombs
      BY <3>3, <3>4 DEF AnswerOK
    <3>. QED BY <3>2, <3>5 DEF Answers
  <2>7. ASSUME NEW e \in Devices, NEW k, DeletionConflicts(e, k) PROVE Answers(d, i)
    <3>1. e = d
      BY <2>7 DEF DeletionConflicts, Recover, Shapes
    <3>2. k \in Command /\ CommandOK(d, k)
      BY <2>7, <3>1, NextRound DEF DeletionConflicts
    <3>. QED BY <2>7, <3>1, <3>2, RecoveryAnswers DEF DeletionConflicts
  <2>8. ASSUME NEW e \in Devices, NEW k, SendDeletion(e, k) PROVE queue[d] \subseteq queue'[d]
    BY <2>8 DEF SendDeletion, local
  <2>9. ASSUME NEW e \in Devices, ReceiveDeletion(e) PROVE Answers(d, i)
    <3>1. queue' = [queue EXCEPT ![e] = Released(e, run[e].command.id)]
          /\ run[e].answer.kind = "done"
      BY <2>9 DEF ReceiveDeletion
    <3>2. e = d
      BY <3>1 DEF Shapes
    <3>3. i = run[d].command.id
      BY <3>1, <3>2, ReleasedIsGone
    <3>4. RunOK(d, run[d])
      BY RunInHand
    <3>5. run[d].command.id \in tombs
      BY <3>1, <3>2, <3>4 DEF RunOK
    <3>. QED BY <3>3, <3>5 DEF Answers
  <2>10. ASSUME NEW e \in Devices, ReceiveCheck(e) PROVE Answers(d, i)
    <3>1. PICK k \in Command : k = run[e].command /\ CommandOK(e, k) /\ AnswerOK(run[e].answer)
      BY <2>10, BackIsOK DEF ReceiveCheck
    <3>2. CASE k.id \in run[e].answer.deleted /\ queue' = [queue EXCEPT ![e] = Released(e, k.id)]
      <4>1. e = d
        BY <3>2 DEF Shapes
      <4>2. k.id \in tombs
        BY <3>1, <3>2 DEF AnswerOK
      <4>3. i = k.id
        BY <3>2, <4>1, ReleasedIsGone
      <4>. QED BY <4>2, <4>3 DEF Answers
    <3>3. CASE Recover(e, k, run[e].answer.items[k.id])
      <4>1. e = d
        BY <3>3 DEF Recover, Shapes
      <4>. QED BY <3>1, <3>3, <4>1, RecoveryAnswers
    <3>. QED BY <2>10, <3>1, <3>2, <3>3 DEF ReceiveCheck, local
  <2>11. ASSUME NEW r \in late, ArriveLate(r) PROVE queue[d] \subseteq queue'[d]
    BY <2>11 DEF ArriveLate, local
  <2>. QED BY <2>2, <2>3, <2>4, <2>5, <2>6, <2>7, <2>8, <2>9, <2>10, <2>11 DEF Next, Step
<1>2. ASSUME Inv, [Next]_<<setting, vars>>
      PROVE  [\A d \in Devices : \A i \in {c.id : c \in queue[d]} \ {c.id : c \in queue'[d]} :
                \/ i \in tombs
                \/ catalog'[d][i] # NoItem /\ conflicts'[d][i] # NoConflict]_vars
  BY <1>1, <1>2 DEF Answers
<1>. QED BY InvHolds, <1>2, PTL DEF Spec, RemovalIsAnswered

(* An item of a batch that is saved is the next version of it; the others     *)
(* stay.                                                                     *)
LEMMA SavedIsWritten ==
  ASSUME Inv, setting' = setting, NEW sent \in [Ids -> Sending], SaveBatch(sent)
  PROVE  Docs!DocsNext
<1>1. tombs' = tombs /\ stored \subseteq stored' /\ Texts' = Texts
  BY SameTypes DEF SaveBatch
<1>2. ASSUME NEW i \in Saved(sent) PROVE Docs!Written(i)
  <2>1. i \in Ids /\ i \notin tombs
    BY DEF Saved, Batch, Outcome
  <2>2. rows[i].base \in Nat /\ sent[i].text \in Nat
    BY <2>1 DEF Inv, ServerOK, Row, NoItem, Sending, Texts
  <2>3. Visible(i) = rows[i]
    BY <2>1 DEF Visible
  <2>4. Visible(i)' = [owner |-> "own", base |-> rows[i].base + 1, text |-> sent[i].text]
    BY <1>1, <2>1 DEF Visible, SaveBatch
  <2>5. Visible(i)' # NoItem
    BY <2>4 DEF NoItem
  <2>. QED BY <1>1, <2>1, <2>2, <2>3, <2>4, <2>5 DEF Docs!Written, Docs!Published
<1>3. ASSUME NEW i \in Ids \ Saved(sent) PROVE Docs!Kept(i)
  <2>1. Visible(i)' = Visible(i)
    BY <1>1 DEF Visible, SaveBatch
  <2>2. \A t : <<i, t>> \in stored' <=> <<i, t>> \in stored
    BY DEF SaveBatch
  <2>. QED BY <1>1, <2>1, <2>2 DEF Docs!Kept
<1>4. \A i \in Ids : Docs!Written(i) \/ Docs!Kept(i)
  BY <1>2, <1>3
<1>. QED BY <1>1, <1>4 DEF Docs!DocsNext

(* The first deletion of an item that is there takes it for good; any other   *)
(* deletion changes nothing of what the organization sees.                   *)
LEMMA BuriedIsPurged ==
  ASSUME Inv, setting' = setting, NEW j \in Ids, Bury(j)
  PROVE  Docs!DocsNext
<1>1. tombs' = tombs \cup {j} /\ stored' = stored /\ Texts' = Texts
  BY SameTypes DEF Bury
<1>2. ASSUME NEW i \in Ids, i # j \/ i \in tombs PROVE Docs!Kept(i)
  <2>1. i # j => rows'[i] = rows[i]
    BY DEF Bury, Inv, ServerOK
  <2>2. Visible(i)' = Visible(i)
    BY <1>1, <1>2, <2>1 DEF Visible
  <2>. QED BY <1>1, <1>2, <2>2 DEF Docs!Kept
<1>3. CASE j \notin tombs /\ rows[j] # NoItem
  <2>1. rows[j] \in Row /\ <<j, rows[j].text>> \in stored
    BY <1>3 DEF Inv, ServerOK, RowOK
  <2>2. rows[j].base \in Nat /\ rows[j].base > 0 /\ rows[j].text \in Texts
    BY <2>1 DEF Row
  <2>3. Visible(j) = rows[j] /\ Visible(j)' = NoItem
    BY <1>1, <1>3 DEF Visible
  <2>4. NoItem.base = 0
    BY DEF NoItem
  <2>5. j \in {i \in tombs' : \E t \in Texts' : <<i, t>> \in stored'}
    BY <1>1, <2>1, <2>2
  <2>6. Docs!Purged(j)
    BY <1>3, <2>2, <2>3, <2>4, <2>5 DEF Docs!Purged
  <2>. QED BY <1>1, <1>2, <2>6 DEF Docs!DocsNext
<1>4. CASE j \notin tombs /\ rows[j] = NoItem
  <2>1. \A t \in Texts : <<j, t>> \notin stored
    BY <1>4 DEF Inv, ServerOK, RowOK
  <2>2. Visible(j) = NoItem /\ Visible(j)' = NoItem
    BY <1>1, <1>4 DEF Visible
  <2>3. Docs!Kept(j)
    BY <1>1, <2>1, <2>2 DEF Docs!Kept
  <2>. QED BY <1>1, <1>2, <2>3 DEF Docs!DocsNext
<1>5. CASE j \in tombs
  BY <1>1, <1>2, <1>5 DEF Docs!DocsNext
<1>. QED BY <1>3, <1>4, <1>5

(* The items as the organization sees them are versioned documents: one       *)
(* version after the other, and what was deleted never comes back. The       *)
(* comparison of base versions on the devices rests on nothing else.         *)
THEOREM CatalogueIsVersioned == Spec => RowsAreVersioned
<1>. DEFINE Doc(i) == [version |-> Visible(i).base, content |-> Visible(i).text,
                       trashed |-> Visible(i) # NoItem]
            docs == [i \in Ids |-> Doc(i)]
            gone == {i \in tombs : \E t \in Texts : <<i, t>> \in stored}
<1>1. Init => Docs!DocsInit
  <2>. SUFFICES ASSUME Init PROVE Docs!DocsInit
    OBVIOUS
  <2>1. \A i \in Ids : rows[i] \in Row \cup {NoItem}
    BY Initially DEF Inv, ServerOK
  <2>2. ASSUME NEW i \in Ids PROVE docs[i].version = 0 \/ docs[i] \in Docs!Published
    <3>1. Visible(i) = rows[i]
      BY DEF Init, Visible
    <3>2. CASE rows[i] = NoItem
      BY <3>1, <3>2 DEF NoItem
    <3>3. CASE rows[i] \in Row
      <4>1. rows[i].base \in Nat \ {0} /\ rows[i].text \in Nat
        BY <3>3, Initially DEF Row, Texts, Inv, BoundsOK
      <4>. QED BY <3>1, <4>1 DEF Docs!Published
    <3>. QED BY <2>1, <3>2, <3>3
  <2>3. gone = {}
    BY DEF Init
  <2>. QED BY <2>2, <2>3 DEF Docs!DocsInit
<1>2. ASSUME Inv, [Next]_<<setting, vars>>
      PROVE  [Docs!DocsNext]_(Docs!docsVars)
  <2>1. CASE UNCHANGED server
    <3>1. setting' = setting
      BY <1>2, ServerMoves
    <3>2. \A i \in Ids : Visible(i)' = Visible(i)
      BY <2>1 DEF Visible, server
    <3>3. docs' = docs
      BY <3>2
    <3>4. gone' = gone
      BY <2>1, <3>1, SameTypes DEF server
    <3>. QED BY <3>3, <3>4 DEF Docs!docsVars
  <2>2. ASSUME NEW sent \in [Ids -> Sending], SaveBatch(sent), setting' = setting
        PROVE  Docs!DocsNext
    BY <1>2, <2>2, SavedIsWritten
  <2>3. ASSUME NEW i \in Ids, Bury(i), setting' = setting PROVE Docs!DocsNext
    BY <1>2, <2>3, BuriedIsPurged
  <2>4. \A d \in Devices : run[d].sent \in [Ids -> Sending]
    BY <1>2, RunInHand DEF Run
  <2>5. \A r \in late : r.sent \in [Ids -> Sending]
    BY <1>2 DEF Inv, Shapes, RequestSet
  <2>6. \A r \in late : r.command # NoCommand => r.command.id \in Ids
    BY <1>2 DEF Inv, Shapes, RequestSet, Command
  <2>7. \A d \in Devices : run[d].command \in Command => run[d].command.id \in Ids
    BY DEF Command
  <2>. QED BY <1>2, <2>1, <2>2, <2>3, <2>4, <2>5, <2>6, <2>7, ServerMoves
<1>. QED BY InvHolds, <1>1, <1>2, PTL DEF Spec, RowsAreVersioned, Docs!DocsSpec
-----------------------------------------------------------------------------
(* Unsent work.  A removal that is queued is of an item that is not there,    *)
(* and the only one of its id, except of a shared model: a reset brings that  *)
(* back and it may be removed again.                                          *)
QueueWork(d) ==
  \A c \in queue[d] : c.id \notin References =>
    ~Here(d, c.id) /\ \A k \in queue[d] : k.id = c.id => k = c

(* What the loop still has to do, or does, is queued.                         *)
Working(q, c) == c \in q.todo \/ (c = q.command /\ q.stage \in {"deleting", "checking"})
RunWork(d) ==
  /\ \A c \in Command : Working(run[d], c) /\ c.id \notin References => c \in queue[d]
  /\ run[d].stage \in {"deleting", "checking"} => run[d].command \notin run[d].todo
  /\ run[d].stage \in {"idle", "pulling", "pushing"} => run[d].todo = {}

(* A shared model is nobody's own in what a device was answered.              *)
NotOwn(a) == \A i \in References : a.items[i].owner # "own"

WorkAt(d) ==
  /\ QueueWork(d) /\ RunWork(d)
  /\ NotOwn(run[d].answer) /\ NotOwn(run[d].pulled)

WorkOK == \A d \in Devices : WorkAt(d)

LEMMA WorkElsewhere ==
  ASSUME setting' = setting, NEW d \in Devices, WorkAt(d), Same(d)
  PROVE  WorkAt(d)'
<1>1. References' = References /\ Command' = Command
  BY SameTypes
<1>. QED BY <1>1 DEF WorkAt, QueueWork, RunWork, NotOwn, Same, Here, Working

LEMMA ReferencesAreIds ==
  ASSUME Inv PROVE References \subseteq Ids /\ NotOwn(NoAnswer)
BY DEF Inv, BoundsOK, NotOwn, NoAnswer, NoItem

(* A member of the device removes what is there, and adds what is not queued. *)
LEMMA MemberWork ==
  ASSUME Inv, setting' = setting, NEW d \in Devices, WorkAt(d), run' = run,
         queue[d] \subseteq queue'[d],
         \A c \in queue[d] : c.id \notin References /\ ~Here(d, c.id) => ~Here(d, c.id)',
         \A c \in queue'[d] \ queue[d] :
           c = Deletion(d, c.id) /\ Here(d, c.id) /\ (c.id \notin References => ~Here(d, c.id)')
  PROVE  WorkAt(d)'
<1>1. References' = References /\ Command' = Command
  BY SameTypes
<1>2. RunWork(d)' /\ NotOwn(run[d].answer)' /\ NotOwn(run[d].pulled)'
  BY <1>1 DEF WorkAt, RunWork, NotOwn, Working
<1>3. ASSUME NEW c \in queue'[d], c.id \notin References PROVE ~Here(d, c.id)'
  BY <1>3 DEF WorkAt, QueueWork
<1>4. ASSUME NEW c \in queue'[d], NEW k \in queue'[d], c.id \notin References, k.id = c.id
      PROVE  k = c
  <2>1. CASE c \in queue[d] /\ k \in queue[d]
    BY <1>4, <2>1 DEF WorkAt, QueueWork
  <2>2. CASE c \notin queue[d] /\ k \notin queue[d]
    BY <1>4, <2>2
  <2>3. CASE (c \in queue[d]) # (k \in queue[d])
    BY <1>4, <2>3 DEF WorkAt, QueueWork
  <2>. QED BY <2>1, <2>2, <2>3
<1>5. QueueWork(d)'
  BY <1>1, <1>3, <1>4 DEF QueueWork
<1>. QED BY <1>2, <1>5 DEF WorkAt

LEMMA ActWork ==
  ASSUME Inv, setting' = setting, NEW d \in Devices, WorkAt(d), Act(d)
  PROVE  WorkAt(d)'
<1>. /\ catalog \in [Devices -> [Ids -> Item \cup {NoItem}]]
     /\ queue \in [Devices -> SUBSET Command]
  BY DEF Inv, Shapes
<1>1. \A c \in queue[d] : c.id \in Queued(d) /\ c.id \in Ids
  BY DEF Queued, Command
<1>2. ASSUME run' = run, queue' = queue,
             \A i \in Queued(d) \cap Ids : ~Here(d, i) => ~Here(d, i)'
      PROVE  WorkAt(d)'
  BY <1>1, <1>2, MemberWork
<1>3. ASSUME NEW i \in Ids, Edit(d, i) \/ Add(d, i) \/ AcceptServer(d, i) \/ KeepLocal(d, i)
      PROVE  WorkAt(d)'
  <2>1. run' = run /\ queue' = queue
    BY <1>3 DEF Edit, Add, AcceptServer, KeepLocal, local
  <2>2. \A j \in Ids : j # i => catalog'[d][j] = catalog[d][j]
    BY <1>3 DEF Edit, Add, AcceptServer, KeepLocal
  <2>3. Here(d, i) \/ i \notin Queued(d)
    BY <1>3 DEF Edit, Add, AcceptServer, KeepLocal, Resolves, Unused
  <2>. QED BY <1>2, <2>1, <2>2, <2>3 DEF Here
<1>4. ASSUME NEW i \in Ids, NEW j \in Ids, Fork(d, i, j) PROVE WorkAt(d)'
  <2>1. run' = run /\ queue' = queue
    BY <1>4 DEF Fork
  <2>2. \A k \in Ids : k \notin {i, j} => catalog'[d][k] = catalog[d][k]
    BY <1>4 DEF Fork
  <2>3. Here(d, i) /\ j \notin Queued(d)
    BY <1>4 DEF Fork, Resolves, Unused
  <2>. QED BY <1>2, <2>1, <2>2, <2>3 DEF Here
<1>5. ASSUME NEW i \in Ids, Remove(d, i) PROVE WorkAt(d)'
  <2>1. run' = run /\ queue'[d] = queue[d] \cup {Deletion(d, i)} /\ Here(d, i)
    BY <1>5 DEF Remove
  <2>2. \A k \in Ids : catalog'[d][k] = IF k = i THEN NoItem ELSE catalog[d][k]
    BY <1>5 DEF Remove
  <2>3. Deletion(d, i).id = i
    BY DEF Deletion
  <2>. QED BY <1>1, <2>1, <2>2, <2>3, MemberWork DEF Here
<1>6. ASSUME Reset(d) PROVE WorkAt(d)'
  <2>1. PICK gone \in SUBSET Ids : gone = {i \in Ids \ References : Here(d, i)}
    OBVIOUS
  <2>2. run' = run /\ queue'[d] = queue[d] \cup {Deletion(d, i) : i \in gone}
    BY <1>6, <2>1 DEF Reset
  <2>3. \A k \in Ids \ References : catalog'[d][k] = IF k \in gone THEN NoItem ELSE catalog[d][k]
    BY <1>6, <2>1 DEF Reset
  <2>4. \A i \in gone : Deletion(d, i).id = i
    BY DEF Deletion
  <2>. QED BY <1>1, <2>1, <2>2, <2>3, <2>4, MemberWork DEF Here
<1>. QED BY <1>3, <1>4, <1>5, <1>6 DEF Act

(* A run that keeps, of what it has to do, only what is queued.               *)
LEMMA RunKeepsWork ==
  ASSUME Inv, setting' = setting, NEW d \in Devices, WorkAt(d), QueueWork(d)',
         NEW q, run'[d] = q,
         \A c \in Command : Working(q, c) /\ c.id \notin References => c \in queue'[d],
         q.stage \in {"deleting", "checking"} => q.command \notin q.todo,
         q.stage \in {"idle", "pulling", "pushing"} => q.todo = {},
         q.answer \in {run[d].answer, NoAnswer} \/ NotOwn(q.answer),
         q.pulled \in {run[d].pulled, run[d].answer, NoAnswer}
  PROVE  WorkAt(d)'
<1>1. References' = References /\ Command' = Command
  BY SameTypes
<1>2. RunWork(d)'
  BY <1>1 DEF RunWork, Working
<1>3. NotOwn(q.answer) /\ NotOwn(q.pulled)
  BY ReferencesAreIds DEF WorkAt
<1>. QED BY <1>1, <1>2, <1>3 DEF WorkAt, NotOwn

LEMMA SameQueueWork ==
  ASSUME setting' = setting, NEW d, QueueWork(d), queue'[d] = queue[d], catalog'[d] = catalog[d]
  PROVE  QueueWork(d)'
BY SameTypes DEF QueueWork, Here

LEMMA ServeWork ==
  ASSUME Inv, Inv', setting' = setting, NEW d \in Devices, WorkAt(d), Serve(d)
  PROVE  WorkAt(d)'
<1>1. UNCHANGED local /\ QueueWork(d)'
  BY SameQueueWork DEF Serve, ServePull, ServePush, ServeDelete, local, WorkAt
<1>2. \A i \in References : /\ i \in Ids
                            /\ rows[i].owner # "own" /\ rows'[i].owner # "own"
  BY ReferencesAreIds, SameTypes DEF Inv, ServerOK, RowOK
<1>3. ASSUME NEW a, Answered(d, a), NotOwn(a) PROVE WorkAt(d)'
  <2>1. PICK q : q = [run[d] EXCEPT !.answer = a]
    OBVIOUS
  <2>2. /\ q.stage = run[d].stage /\ q.command = run[d].command /\ q.todo = run[d].todo
        /\ q.pulled = run[d].pulled /\ q.answer = a
    BY <2>1, RunInHand DEF Run
  <2>3. run'[d] = q
    BY <1>3, <2>1 DEF Answered, Inv, Shapes
  <2>. QED BY <1>1, <1>3, <2>2, <2>3, RunKeepsWork DEF WorkAt, RunWork, Working, local
<1>4. CASE ServePull(d)
  <2>1. PICK a : /\ a = [NoAnswer EXCEPT !.kind = "pull", !.deleted = tombs,
                                         !.items = [i \in Ids |-> Visible(i)]]
                 /\ Answered(d, a)
    BY <1>4 DEF ServePull
  <2>2. \A i \in Ids : a.items[i] = Visible(i)
    BY <2>1 DEF NoAnswer
  <2>3. NotOwn(a)
    BY <1>2, <2>2 DEF NotOwn, Visible, NoItem
  <2>. QED BY <1>3, <2>1, <2>3
<1>5. CASE ServePush(d)
  <2>1. PICK a, results : /\ a = [NoAnswer EXCEPT !.kind = "results", !.results = results,
                            !.items = [i \in Ids |->
                              IF results[i] \in {"ok", "version"} THEN rows'[i] ELSE NoItem]]
                          /\ Answered(d, a)
    BY <1>5 DEF ServePush
  <2>2. \A i \in Ids : a.items[i] \in {rows'[i], NoItem}
    BY <2>1 DEF NoAnswer
  <2>3. NotOwn(a)
    BY <1>2, <2>2 DEF NotOwn, NoItem
  <2>. QED BY <1>3, <2>1, <2>3
<1>6. CASE ServeDelete(d)
  <2>1. PICK kind : Answered(d, [NoAnswer EXCEPT !.kind = kind])
    BY <1>6 DEF ServeDelete
  <2>2. PICK a : a = [NoAnswer EXCEPT !.kind = kind]
    OBVIOUS
  <2>3. NotOwn(a)
    BY <2>2, ReferencesAreIds DEF NotOwn, NoAnswer
  <2>. QED BY <1>3, <2>1, <2>2, <2>3
<1>. QED BY <1>4, <1>5, <1>6 DEF Serve

(* What is over: the run has nothing to do.                                   *)
LEMMA IdleWork ==
  ASSUME Inv, setting' = setting, NEW d \in Devices, WorkAt(d), QueueWork(d)',
         NEW q, run'[d] = q, q.todo = {}, q.stage \in {"idle", "pulling", "pushing"},
         q.answer = NoAnswer, q.pulled \in {run[d].pulled, NoAnswer}
  PROVE  WorkAt(d)'
BY RunKeepsWork DEF Working

LEMMA OtherStepsWork ==
  ASSUME Inv, setting' = setting, NEW d \in Devices, WorkAt(d), Sync(d) \/ Push(d) \/ GiveUp(d)
  PROVE  WorkAt(d)'
<1>. run \in [Devices -> Run] /\ run[d] \in Run
  BY RunInHand DEF Inv, Shapes
<1>1. UNCHANGED local /\ QueueWork(d)'
  BY SameQueueWork DEF Sync, Push, GiveUp, local, WorkAt
<1>2. CASE Sync(d)
  <2>1. PICK q : q = [run[d] EXCEPT !.stage = "pulling", !.answer = NoAnswer]
    OBVIOUS
  <2>2. run'[d] = q
    BY <1>2, <2>1 DEF Sync, Goes
  <2>3. q.todo = run[d].todo /\ q.stage = "pulling" /\ q.answer = NoAnswer /\ q.pulled = run[d].pulled
    BY <2>1 DEF Run
  <2>4. q.todo = {}
    BY <1>2, <2>3 DEF Sync, WorkAt, RunWork
  <2>. QED BY <1>1, <2>2, <2>3, <2>4, IdleWork
<1>3. ASSUME NEW q, run'[d] = q, q = Idle \/ \E sent : q = [Idle EXCEPT !.stage = "pushing", !.sent = sent]
      PROVE  WorkAt(d)'
  <2>1. /\ q.todo = {} /\ q.stage \in {"idle", "pushing"}
        /\ q.answer = NoAnswer /\ q.pulled = NoAnswer
    <3>1. CASE q = Idle
      BY <3>1 DEF Idle
    <3>2. ASSUME NEW sent, q = [Idle EXCEPT !.stage = "pushing", !.sent = sent] 
          PROVE  /\ q.todo = {} /\ q.stage \in {"idle", "pushing"}
                 /\ q.answer = NoAnswer /\ q.pulled = NoAnswer
      BY <3>2 DEF Idle
    <3>. QED BY <1>3, <3>1, <3>2
  <2>. QED BY <1>1, <1>3, <2>1, IdleWork
<1>4. CASE Push(d)
  <2>1. PICK sent : run' = [run EXCEPT ![d] = IF sent = NothingSent THEN Idle
                              ELSE [Idle EXCEPT !.stage = "pushing", !.sent = sent]]
    BY <1>4 DEF Push
  <2>2. PICK q : /\ q = run'[d]
                 /\ q = Idle \/ q = [Idle EXCEPT !.stage = "pushing", !.sent = sent]
    BY <2>1
  <2>. QED BY <1>3, <2>2
<1>5. CASE GiveUp(d)
  <2>1. CASE run' = [run EXCEPT ![d] = Idle]
    BY <1>3, <2>1
  <2>2. CASE Answered(d, [NoAnswer EXCEPT !.kind = "failed"])
    <3>1. PICK a : a = [NoAnswer EXCEPT !.kind = "failed"]
      OBVIOUS
    <3>2. NotOwn(a)
      BY <3>1, ReferencesAreIds DEF NotOwn, NoAnswer
    <3>3. PICK q : q = [run[d] EXCEPT !.answer = a]
      OBVIOUS
    <3>4. run'[d] = q
      BY <2>2, <3>1, <3>3 DEF Answered
    <3>5. /\ q.stage = run[d].stage /\ q.command = run[d].command /\ q.todo = run[d].todo
          /\ q.pulled = run[d].pulled /\ q.answer = a
      BY <3>3 DEF Run
    <3>. QED BY <1>1, <3>2, <3>4, <3>5, RunKeepsWork DEF WorkAt, RunWork, Working, local
  <2>. QED BY <1>5, <2>1, <2>2 DEF GiveUp
<1>. QED BY <1>2, <1>4, <1>5

LEMMA FewerQueuedWork ==
  ASSUME setting' = setting, NEW d, QueueWork(d), queue'[d] \subseteq queue[d],
         \A c \in queue'[d] : ~Here(d, c.id) => ~Here(d, c.id)'
  PROVE  QueueWork(d)'
BY SameTypes DEF QueueWork

(* A removal leaves the queue: it is not worked on any more, and, as the only *)
(* one of its id, no other one that is worked on goes with it.                *)
LEMMA LoopKeepsWork ==
  ASSUME Inv, setting' = setting, NEW d \in Devices, WorkAt(d),
         NEW c \in Command, Working(run[d], c), NEW q, run'[d] = q,
         \A k \in Command : Working(q, k) => Working(run[d], k),
         \/ queue'[d] = queue[d] /\ catalog'[d] = catalog[d]
         \/ /\ queue'[d] = Released(d, c.id) /\ ~Working(q, c)
            /\ \A i \in Ids \ {c.id} : catalog'[d][i] = catalog[d][i],
         q.stage \in {"loop", "deleting", "checking"},
         q.stage \in {"deleting", "checking"} => q.command \notin q.todo,
         q.answer \in {run[d].answer, NoAnswer}, q.pulled = run[d].pulled
  PROVE  WorkAt(d)'
<1>. queue[d] \subseteq Command /\ QueueWork(d) /\ RunWork(d)
  BY DEF Inv, Shapes, WorkAt
<1>1. QueueWork(d)'
  <2>1. queue'[d] \subseteq queue[d]
    BY DEF Released
  <2>2. ASSUME NEW k \in queue'[d], ~Here(d, k.id) PROVE ~Here(d, k.id)'
    <3>1. k.id \in Ids
      BY <2>1 DEF Command
    <3>. QED BY <2>2, <3>1 DEF Here, Released
  <2>. QED BY <2>1, <2>2, FewerQueuedWork
<1>2. ASSUME NEW k \in Command, Working(q, k), k.id \notin References PROVE k \in queue'[d]
  <2>1. k \in queue[d]
    BY <1>2 DEF RunWork
  <2>2. CASE k.id = c.id
    <3>1. c \in queue[d]
      BY <1>2, <2>2 DEF RunWork
    <3>. QED BY <1>2, <2>1, <2>2, <3>1 DEF QueueWork
  <2>3. CASE k.id # c.id
    BY <2>1, <2>3 DEF Released
  <2>. QED BY <2>2, <2>3
<1>. QED BY <1>1, <1>2, RunKeepsWork

LEMMA RecoverWrites ==
  ASSUME Inv, NEW d \in Devices, NEW c \in Command, NEW item, Recover(d, c, item)
  PROVE  /\ queue'[d] = Released(d, c.id)
         /\ \A i \in Ids \ {c.id} : catalog'[d][i] = catalog[d][i]
BY DEF Recover, Inv, Shapes

LEMMA RoundWork ==
  ASSUME Inv, setting' = setting, NEW d \in Devices, WorkAt(d), NEW c,
         AlreadyDeleted(d, c) \/ DeletionConflicts(d, c) \/ SendDeletion(d, c)
  PROVE  WorkAt(d)'
<1>1. Looping(d, c)
  BY DEF AlreadyDeleted, DeletionConflicts, SendDeletion
<1>2. c \in Command /\ run[d] \in Run /\ run[d].stage = "loop" /\ c \in run[d].todo
  BY <1>1, NextRound, RunInHand DEF Looping
<1>3. Working(run[d], c)
  BY <1>2 DEF Working
<1>4. CASE Done(d, c)
  <2>1. PICK q : q = [run[d] EXCEPT !.todo = @ \ {c}]
    OBVIOUS
  <2>2. run'[d] = q
    BY <1>4, <2>1 DEF Done, Inv, Shapes
  <2>3. /\ q.stage = run[d].stage /\ q.answer = run[d].answer /\ q.pulled = run[d].pulled
        /\ q.todo = run[d].todo \ {c} /\ q.command = run[d].command
    BY <1>2, <2>1 DEF Run
  <2>4. /\ ~Working(q, c) /\ \A k \in Command : Working(q, k) => Working(run[d], k)
    BY <1>2, <2>3 DEF Working
  <2>5. CASE AlreadyDeleted(d, c)
    <3>1. queue'[d] = Released(d, c.id) /\ catalog' = catalog
      BY <2>5 DEF AlreadyDeleted, Inv, Shapes
    <3>. QED BY <1>2, <1>3, <2>2, <2>3, <2>4, <3>1, LoopKeepsWork
  <2>6. CASE DeletionConflicts(d, c)
    <3>1. /\ queue'[d] = Released(d, c.id)
          /\ \A i \in Ids \ {c.id} : catalog'[d][i] = catalog[d][i]
      BY <1>2, <2>6, RecoverWrites DEF DeletionConflicts
    <3>. QED BY <1>2, <1>3, <2>2, <2>3, <2>4, <3>1, LoopKeepsWork
  <2>7. CASE SendDeletion(d, c)
    <3>1. run'[d].stage = "deleting"
      BY <1>2, <2>7 DEF SendDeletion, Inv, Shapes, Run
    <3>. QED BY <1>2, <2>2, <2>3, <3>1
  <2>. QED BY <2>5, <2>6, <2>7
<1>5. CASE SendDeletion(d, c)
  <2>1. PICK q : q = [run[d] EXCEPT !.stage = "deleting", !.command = c, !.todo = @ \ {c}]
    OBVIOUS
  <2>2. run'[d] = q /\ UNCHANGED local
    BY <1>5, <2>1 DEF SendDeletion, Inv, Shapes
  <2>3. /\ q.stage = "deleting" /\ q.answer = run[d].answer /\ q.pulled = run[d].pulled
        /\ q.todo = run[d].todo \ {c} /\ q.command = c
    BY <1>2, <2>1 DEF Run
  <2>4. \A k \in Command : Working(q, k) => Working(run[d], k)
    BY <1>2, <2>3 DEF Working
  <2>. QED BY <1>2, <1>3, <2>2, <2>3, <2>4, LoopKeepsWork DEF local
<1>. QED BY <1>4, <1>5 DEF AlreadyDeleted, DeletionConflicts

LEMMA AnsweredWork ==
  ASSUME Inv, setting' = setting, NEW d \in Devices, WorkAt(d), ReceiveDeletion(d) \/ ReceiveCheck(d)
  PROVE  WorkAt(d)'
<1>1. run[d].stage \in {"deleting", "checking"} /\ run[d] \in Run
  BY RunInHand DEF ReceiveDeletion, ReceiveCheck
<1>2. PICK c \in Command : c = run[d].command /\ Working(run[d], c) /\ c \notin run[d].todo
  BY <1>1, BackIsOK DEF Working, WorkAt, RunWork
<1>3. CASE BackToLoop(d)
  <2>1. PICK q : q = [run[d] EXCEPT !.stage = "loop", !.answer = NoAnswer, !.command = NoCommand]
    OBVIOUS
  <2>2. run'[d] = q
    BY <1>3, <2>1 DEF BackToLoop, Inv, Shapes
  <2>3. /\ q.stage = "loop" /\ q.answer = NoAnswer /\ q.pulled = run[d].pulled
        /\ q.todo = run[d].todo
    BY <1>1, <2>1 DEF Run
  <2>4. /\ ~Working(q, c) /\ \A k \in Command : Working(q, k) => Working(run[d], k)
    BY <1>2, <2>3 DEF Working
  <2>5. \/ queue'[d] = queue[d] /\ catalog'[d] = catalog[d]
        \/ /\ queue'[d] = Released(d, c.id)
           /\ \A i \in Ids \ {c.id} : catalog'[d][i] = catalog[d][i]
    <3>1. CASE queue' = [queue EXCEPT ![d] = Released(d, c.id)] /\ catalog' = catalog
      BY <3>1 DEF Inv, Shapes
    <3>2. CASE queue' = queue /\ catalog' = catalog
      BY <3>2
    <3>3. ASSUME NEW item, Recover(d, c, item)
          PROVE  /\ queue'[d] = Released(d, c.id)
                 /\ \A i \in Ids \ {c.id} : catalog'[d][i] = catalog[d][i]
      BY <3>3, RecoverWrites
    <3>. QED BY <1>2, <3>1, <3>2, <3>3 DEF ReceiveDeletion, ReceiveCheck, local
  <2>. QED BY <1>2, <2>2, <2>3, <2>4, <2>5, LoopKeepsWork
<1>4. CASE Goes(d, "checking") /\ ReceiveDeletion(d)
  <2>1. PICK q : q = [run[d] EXCEPT !.stage = "checking", !.answer = NoAnswer]
    OBVIOUS
  <2>2. run'[d] = q /\ catalog' = catalog
    BY <1>4, <2>1 DEF Goes, Inv, Shapes, ReceiveDeletion
  <2>3. /\ q.stage = "checking" /\ q.answer = NoAnswer /\ q.pulled = run[d].pulled
        /\ q.todo = run[d].todo /\ q.command = run[d].command
    BY <1>1, <2>1 DEF Run
  <2>4. \A k \in Command : Working(q, k) => Working(run[d], k)
    BY <1>1, <2>3 DEF Working
  <2>5. queue' = queue
    <3>1. q.stage # "loop"
      BY <2>3
    <3>2. BackToLoop(d) => run'[d].stage = "loop"
      BY <1>1 DEF BackToLoop, Inv, Shapes, Run
    <3>. QED BY <1>4, <2>2, <3>1, <3>2 DEF ReceiveDeletion
  <2>. QED BY <1>2, <2>2, <2>3, <2>4, <2>5, LoopKeepsWork
<1>. QED BY <1>3, <1>4 DEF ReceiveDeletion, ReceiveCheck

LEMMA ApplyPullWork ==
  ASSUME Inv, setting' = setting, NEW d \in Devices, WorkAt(d), ApplyPull(d)
  PROVE  WorkAt(d)'
<1>. QueueWork(d) /\ queue' = queue /\ run[d] \in Run /\ queue[d] \subseteq Command
  BY RunInHand DEF ApplyPull, WorkAt, Inv, Shapes
<1>1. PICK q : q = [run[d] EXCEPT !.stage = "loop", !.answer = NoAnswer,
                                  !.pulled = run[d].answer, !.todo = queue[d]]
  OBVIOUS
<1>2. run'[d] = q
  BY <1>1 DEF ApplyPull, Inv, Shapes
<1>3. /\ q.stage = "loop" /\ q.answer = NoAnswer /\ q.pulled = run[d].answer
      /\ q.todo = queue[d]
  BY <1>1 DEF Run
<1>4. QueueWork(d)'
  <2>1. ASSUME NEW c \in queue[d], ~Here(d, c.id) PROVE ~Here(d, c.id)'
    <3>1. c.id \in Ids /\ c.id \in Queued(d)
      BY DEF Command, Queued
    <3>2. catalog'[d][c.id] = NoItem
      BY <2>1, <3>1 DEF ApplyPull, Inv, Shapes, Here
    <3>. QED BY <3>2 DEF Here
  <2>. QED BY <2>1, FewerQueuedWork
<1>. QED BY <1>2, <1>3, <1>4, RunKeepsWork DEF Working

LEMMA ReceivePushWork ==
  ASSUME Inv, setting' = setting, NEW d \in Devices, WorkAt(d), ReceivePush(d)
  PROVE  WorkAt(d)'
<1>1. PICK a : a = run[d].answer
  OBVIOUS
<1>. DEFINE refused == {i \in Ids : a.results[i] \in {"deleted", "mismatch", "version"}}
            saved == {i \in Ids : a.results[i] = "ok"}
            Carried(c) == IF c.id \in saved
              THEN [c EXCEPT !.base = a.items[c.id].base, !.item.base = a.items[c.id].base]
              ELSE c
<1>2. queue'[d] = {Carried(c) : c \in {c \in queue[d] : c.id \notin refused}}
  BY <1>1 DEF ReceivePush, Inv, Shapes
<1>3. \A c \in queue[d] : c.id \in Ids /\ Carried(c).id = c.id
  BY DEF Inv, Shapes, Command
<1>4. \A i \in Ids \ refused : ~Here(d, i) => ~Here(d, i)'
  BY <1>1 DEF ReceivePush, Inv, Shapes, Here
<1>. HIDE DEF Carried, refused
<1>5. QueueWork(d)'
  <2>1. References' = References
    BY SameTypes
  <2>2. ASSUME NEW k \in queue'[d], k.id \notin References PROVE ~Here(d, k.id)'
    <3>1. PICK c \in queue[d] : k.id = c.id /\ c.id \in Ids \ refused
      BY <1>2, <1>3
    <3>. QED BY <1>4, <2>2, <3>1 DEF WorkAt, QueueWork
  <2>3. ASSUME NEW k \in queue'[d], NEW h \in queue'[d], k.id \notin References, h.id = k.id
        PROVE  h = k
    <3>1. PICK c \in queue[d] : k = Carried(c) /\ k.id = c.id
      BY <1>2, <1>3
    <3>2. PICK b \in queue[d] : h = Carried(b) /\ h.id = b.id
      BY <1>2, <1>3
    <3>3. b = c
      BY <2>3, <3>1, <3>2 DEF WorkAt, QueueWork
    <3>. QED BY <3>1, <3>2, <3>3
  <2>. QED BY <2>1, <2>2, <2>3 DEF QueueWork
<1>6. run'[d] = Idle
  BY DEF ReceivePush, Inv, Shapes
<1>. QED BY <1>5, <1>6, IdleWork DEF Idle

(* An action of a device moves nothing of another one.                        *)
LEMMA OneMoves ==
  ASSUME Inv, NEW d \in Devices, Act(d) \/ Step(d) \/ Serve(d) \/ GiveUp(d)
  PROVE  Alone(d)
<1>. USE DEF Inv, Shapes, Alone, Same
<1>1. CASE Act(d)
  <2>1. ASSUME NEW i \in Ids, Edit(d, i) \/ Add(d, i) \/ Remove(d, i) PROVE Alone(d)
    BY <2>1 DEF Edit, Add, Remove
  <2>2. CASE Reset(d)
    <3>1. PICK items, revisions, more :
            /\ catalog' = [catalog EXCEPT ![d] = items] /\ changes' = [changes EXCEPT ![d] = revisions]
            /\ queue' = [queue EXCEPT ![d] = more] /\ hidden' = [hidden EXCEPT ![d] = {}]
            /\ UNCHANGED <<conflicts, run, shown>>
      BY <2>2 DEF Reset
    <3>. QED BY <3>1
  <2>3. ASSUME NEW i \in Ids, AcceptServer(d, i) \/ KeepLocal(d, i) PROVE Alone(d)
    BY <2>3 DEF AcceptServer, KeepLocal, Resolved
  <2>4. ASSUME NEW i \in Ids, NEW j \in Ids, Fork(d, i, j) PROVE Alone(d)
    BY <2>4 DEF Fork, Resolved
  <2>. QED BY <1>1, <2>1, <2>2, <2>3, <2>4 DEF Act
<1>2. CASE Sync(d) \/ Push(d) \/ GiveUp(d) \/ Serve(d)
  BY <1>2 DEF Sync, Goes, Push, GiveUp, Serve, ServePull, ServePush, ServeDelete, Answered, local
<1>3. CASE ApplyPull(d)
  BY <1>3 DEF ApplyPull
<1>4. CASE ReceivePush(d)
  BY <1>4 DEF ReceivePush
<1>5. CASE ReceiveDeletion(d) \/ ReceiveCheck(d)
  BY <1>5 DEF ReceiveDeletion, ReceiveCheck, BackToLoop, Goes, Recover, local
<1>6. ASSUME NEW c, AlreadyDeleted(d, c) \/ DeletionConflicts(d, c) \/ SendDeletion(d, c)
      PROVE  Alone(d)
  BY <1>6 DEF AlreadyDeleted, DeletionConflicts, SendDeletion, Done, Recover, local
<1>. QED BY <1>1, <1>2, <1>3, <1>4, <1>5, <1>6 DEF Step

LEMMA WorkPreserved ==
  ASSUME Inv, Inv', WorkOK, [Next]_<<setting, vars>>
  PROVE  WorkOK'
<1>1. CASE UNCHANGED <<setting, vars>> \/ (setting' = setting /\ \E r \in late : ArriveLate(r))
  <2>1. setting' = setting /\ \A d \in Devices : Same(d)
    BY <1>1 DEF vars, Same, ArriveLate, local
  <2>. QED BY <2>1, WorkElsewhere DEF WorkOK
<1>2. ASSUME setting' = setting, NEW d \in Devices, Act(d) \/ Step(d) \/ Serve(d) \/ GiveUp(d)
      PROVE  WorkOK'
  <2>1. \A e \in Devices \ {d} : WorkAt(e)'
    BY <1>2, OneMoves, WorkElsewhere DEF WorkOK, Alone
  <2>2. WorkAt(d)
    BY DEF WorkOK
  <2>3. WorkAt(d)'
    BY <1>2, <2>2, ActWork, ServeWork, OtherStepsWork, RoundWork, AnsweredWork, ApplyPullWork,
       ReceivePushWork DEF Step
  <2>. QED BY <2>1, <2>3 DEF WorkOK
<1>. QED BY <1>1, <1>2 DEF Next

LEMMA NoWorkYet == Init => WorkOK
<1> SUFFICES ASSUME Init, NEW d \in Devices PROVE WorkAt(d)
  BY DEF WorkOK
<1>1. run[d] = Idle /\ queue[d] = {} /\ NotOwn(NoAnswer)
  BY Initially, ReferencesAreIds DEF Init
<1>. QED BY <1>1 DEF WorkAt, QueueWork, RunWork, Working, Idle

(* Work of the organization that the server does not hold yet stays where it  *)
(* is, or is already stored.                                                 *)
Stays(d, i) ==
  \/ catalog'[d][i].text = catalog[d][i].text /\ catalog'[d][i] # NoItem
  \/ <<i, catalog[d][i].text>> \in stored

LEMMA RecoverKeepsOthers ==
  ASSUME Inv, NEW d \in Devices, WorkAt(d), NEW c \in Command, Working(run[d], c),
         NEW a \in {run[d].answer, run[d].pulled},
         Changed(a.items[c.id], c), Recover(d, c, a.items[c.id]),
         NEW i \in Ids, Here(d, i), i \notin Queued(d)
  PROVE  Stays(d, i)
<1>1. c.id \notin References
  BY DEF WorkAt, NotOwn, Changed
<1>2. c.id # i
  BY <1>1 DEF WorkAt, RunWork, Queued
<1>3. catalog'[d][i] = catalog[d][i]
  BY <1>2, RecoverWrites
<1>. QED BY <1>3 DEF Stays, Here

(* A pull takes away what was deleted elsewhere only when it is not the       *)
(* organization's unsent work, and replaces nothing that is pending.          *)
LEMMA PullKeepsWork ==
  ASSUME Inv, NEW d \in Devices, ApplyPull(d),
         NEW i \in Ids, Pending(d, i), Here(d, i), i \notin Queued(d)
  PROVE  Stays(d, i)
<1>1. PICK x \in Item : x = catalog[d][i] /\ ItemOK(d, i, x) /\ i \notin hidden[d]
  BY InHand
<1>2. CASE x.owner = "own" \/ i \notin run[d].answer.deleted
  <2>1. catalog'[d][i] = catalog[d][i]
    BY <1>1, <1>2 DEF ApplyPull, Inv, Shapes
  <2>. QED BY <2>1 DEF Stays, Here
<1>3. CASE x.owner # "own"
  BY <1>1, <1>3 DEF ItemOK, Stays
<1>. QED BY <1>2, <1>3

(* A receipt takes the saved item for what was sent of it, and only when it   *)
(* still is what was sent.                                                   *)
LEMMA ReceiptKeepsWork ==
  ASSUME Inv, NEW d \in Devices, ReceivePush(d),
         NEW i \in Ids, Pending(d, i), Here(d, i), i \notin Queued(d)
  PROVE  Stays(d, i)
<1>1. PICK q \in Run : q = run[d] /\ RunOK(d, q)
  BY RunInHand
<1>2. PICK a \in Answer : a = run[d].answer /\ a.kind = "results" /\ AnswerOK(a)
  BY <1>1 DEF Run, RunOK, ReceivePush
<1>3. catalog[d][i] \in Item
  BY InHand
<1>4. ResultOK(i, a.results[i], a.items[i], q.sent[i])
  BY <1>1, <1>2 DEF RunOK
<1>5. CASE a.results[i] # "ok"
  <2>1. catalog'[d][i] = catalog[d][i]
    BY <1>2, <1>5 DEF ReceivePush, Inv, Shapes
  <2>. QED BY <2>1 DEF Stays, Here
<1>6. CASE a.results[i] = "ok" /\ Newer(d, i)
  <2>1. catalog'[d][i] = [catalog[d][i] EXCEPT !.base = a.items[i].base]
    BY <1>2, <1>6 DEF ReceivePush, Inv, Shapes
  <2>2. catalog'[d][i].text = catalog[d][i].text /\ catalog'[d][i].owner = catalog[d][i].owner
    BY <1>3, <2>1 DEF Item
  <2>3. catalog[d][i].owner # NoItem.owner
    BY <1>3 DEF Item, Owners, NoItem
  <2>. QED BY <2>2, <2>3 DEF Stays
<1>7. CASE a.results[i] = "ok" /\ ~Newer(d, i)
  <2>1. a.items[i].text = q.sent[i].text /\ q.sent[i] # NotSent
    BY <1>4, <1>7 DEF ResultOK
  <2>2. catalog[d][i].text = run[d].sent[i].text
    BY <1>1, <1>7, <2>1, RunInHand DEF SentIsHeld, Newer
  <2>3. a.items[i] # NoItem /\ SeenOK(i, a.items[i])
    BY <1>2, <1>4, <1>7 DEF ResultOK, AnswerOK
  <2>. QED BY <1>1, <2>1, <2>2, <2>3 DEF SeenOK, Stays
<1>. QED BY <1>5, <1>6, <1>7

(* No step of a run takes away an item that the member wrote and that was not *)
(* sent: the pull, the rounds over the removals and the receipt of a batch    *)
(* leave its content, or the server has it already (syncEquipmentWithServer). *)
THEOREM UnsentWorkIsKept == Spec => UnsentWorkStays
<1>1. ASSUME Inv, WorkOK, Next, NEW d \in Devices, NEW i \in Ids,
             Pending(d, i), Here(d, i), i \notin Queued(d), run'[d] # run[d]
      PROVE  Stays(d, i)
  <2>1. CASE catalog' = catalog
    BY <1>1, <2>1 DEF Stays, Here
  <2>2. ASSUME NEW e \in Devices, Act(e) \/ Step(e) \/ Serve(e) \/ GiveUp(e) PROVE e = d
    BY <1>1, <2>2, OneMoves DEF Alone, Same
  <2>3. CASE Act(d)
    <3>1. run' = run
      BY <2>3 DEF Act, Edit, Add, Remove, Reset, AcceptServer, KeepLocal, Fork
    <3>. QED BY <1>1, <3>1
  <2>4. CASE ApplyPull(d) \/ ReceivePush(d)
    BY <1>1, <2>4, PullKeepsWork, ReceiptKeepsWork
  <2>5. ASSUME NEW c, DeletionConflicts(d, c) PROVE Stays(d, i)
    <3>1. c \in Command /\ Working(run[d], c)
      BY <1>1, <2>5, NextRound DEF DeletionConflicts, Looping, Working
    <3>. QED BY <1>1, <2>5, <3>1, RecoverKeepsOthers DEF DeletionConflicts, WorkOK
  <2>6. CASE ReceiveCheck(d)
    <3>1. PICK c \in Command : c = run[d].command /\ Working(run[d], c)
      BY <1>1, <2>6, BackIsOK DEF ReceiveCheck, Working
    <3>2. \/ catalog' = catalog
          \/ /\ Changed(run[d].answer.items[c.id], c)
             /\ Recover(d, c, run[d].answer.items[c.id])
      BY <2>6, <3>1 DEF ReceiveCheck, local
    <3>. QED BY <1>1, <2>1, <3>1, <3>2, RecoverKeepsOthers DEF WorkOK
  <2>7. CASE Sync(d) \/ Push(d) \/ Serve(d) \/ GiveUp(d) \/ ReceiveDeletion(d)
    <3>1. catalog' = catalog
      BY <2>7 DEF Sync, Push, Serve, ServePull, ServePush, ServeDelete, GiveUp, ReceiveDeletion, local
    <3>. QED BY <2>1, <3>1
  <2>8. ASSUME NEW c, AlreadyDeleted(d, c) \/ SendDeletion(d, c) PROVE Stays(d, i)
    <3>1. catalog' = catalog
      BY <2>8 DEF AlreadyDeleted, SendDeletion, local
    <3>. QED BY <2>1, <3>1
  <2>9. ASSUME NEW r \in late, ArriveLate(r) PROVE Stays(d, i)
    BY <2>1, <2>9 DEF ArriveLate, local
  <2>. QED BY <1>1, <2>2, <2>3, <2>4, <2>5, <2>6, <2>7, <2>8, <2>9 DEF Next, Step
<1>2. ASSUME Inv, WorkOK, [Next]_<<setting, vars>>
      PROVE  [\A d \in Devices, i \in Ids :
                (Pending(d, i) /\ Here(d, i) /\ i \notin Queued(d) /\ run'[d] # run[d]) =>
                  \/ catalog'[d][i].text = catalog[d][i].text /\ catalog'[d][i] # NoItem
                  \/ <<i, catalog[d][i].text>> \in stored]_vars
  BY <1>1, <1>2 DEF Stays
<1>3. Spec => []WorkOK
  BY InvHolds, NoWorkYet, WorkPreserved, PTL DEF Spec
<1>. QED BY InvHolds, <1>2, <1>3, PTL DEF Spec, UnsentWorkStays
=============================================================================
