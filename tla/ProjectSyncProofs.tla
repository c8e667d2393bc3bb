------------------------- MODULE ProjectSyncProofs -------------------------
(***************************************************************************)
(* Proofs, for any number of devices and bodies and any bounds, of the     *)
(* safety properties TLC checks on ProjectSync.                            *)
(*                                                                         *)
(* The invariant speaks of each device alone (DeviceInv): what it was told *)
(* is what the server published, the bases it holds were shown on it, its  *)
(* run and its requests agree; and of the server alone (ServerInv): its    *)
(* row does not link a deleted client.  A step of one device leaves the    *)
(* server and the other devices alone; a step of the server only adds to   *)
(* its log.                                                                *)
(***************************************************************************)
EXTENDS ProjectSync, TLAPS

\* The server published this content under this version.
Served(version, content) ==
  version \in 1..Version /\ published[version].content = content

\* What a synced copy is: the version it names, but for a dead link.
Named(copy) ==
  copy.base \in 1..Version /\ (Verbatim(copy) \/ UnlinkedAhead(copy))

\* Answers and cards show what the server published, a synced copy also, but
\* for the link it may have lost.
Truthful(d) ==
  /\ sync[d].pull # None =>
       /\ sync[d].pull.purged => purged
       /\ sync[d].pull.version # 0 =>
            Served(sync[d].pull.version, sync[d].pull.content)
  /\ sync[d].reply # None =>
       /\ sync[d].reply.status = "deleted" => purged
       /\ sync[d].reply.status = "saved" => sync[d].reply.content # None
       /\ sync[d].reply.content # None =>
            Served(sync[d].reply.version, sync[d].reply.content)
  /\ conflict[d] # None /\ conflict[d].content # None =>
       Served(conflict[d].version, conflict[d].content)
  /\ local[d] # None /\ local[d].status = "synced" => Named(local[d])

\* Every base a device holds or has sent was shown on it.
Sighted(d) ==
  /\ local[d] # None => local[d].base <= seen[d]
  /\ queue[d] # None => queue[d].base <= seen[d]
  /\ conflict[d] # None => conflict[d].version <= seen[d]
  /\ \A r \in requests : r.from = d => r.base <= seen[d]

Asked(d, r) == r \in requests /\ r.from = d /\ r.awaited

\* The phase of the run tells what is queued and what is awaited.
Orderly(d) ==
  /\ sync[d].phase \in {"trashing", "removing", "rereading"} => queue[d] # None
  /\ queue[d] # None => local[d] = None
  /\ \A r \in requests : Asked(d, r) =>
       /\ sync[d].reply = None
       /\ sync[d].phase \in {"trashing", "removing", "pushing"}
       /\ \A q \in requests : Asked(d, q) => q = r
  /\ \A r \in requests : r.from = d /\ r.kind = "push" => r.content \in Content

\* While the copy is untouched, what is being pushed is its content.
SentUnchanged(d) ==
  (sync[d].phase = "pushing" /\ ~sync[d].touched /\ local[d] # None) =>
    /\ \A r \in requests : Asked(d, r) => r.content = local[d].content
    /\ (sync[d].reply # None /\ sync[d].reply.status = "saved") =>
         sync[d].reply.content = local[d].content

DeviceInv(d) == Truthful(d) /\ Sighted(d) /\ Orderly(d) /\ SentUnchanged(d)

\* The row does not link a client that is deleted: a version that does is
\* behind the server.
ServerInv == (clientGone /\ ~purged /\ Version > 0) => ~Row.linked

SyncInv == TypeOK /\ ServerInv /\ \A d \in Devices : DeviceInv(d)

-----------------------------------------------------------------------------
(* Steps, seen from a device that does not take them.                      *)

\* The server's log only grows, and a purge is final.
Grows ==
  /\ Version \in Nat /\ Version' \in Nat /\ Version <= Version'
  /\ \A v \in 1..Version : published'[v] = published[v]
  /\ purged => purged'
  /\ clientGone => clientGone'

Undisturbed(d) ==
  /\ local'[d] = local[d] /\ queue'[d] = queue[d]
  /\ conflict'[d] = conflict[d] /\ kept'[d] = kept[d]
  /\ sync'[d] = sync[d] /\ seen'[d] = seen[d]
  /\ \A r \in requests' : r.from = d => r \in requests

\* A step of one device.
StepOf(d) ==
  /\ UNCHANGED server
  /\ \A e \in Devices \ {d} : Undisturbed(e)

LEMMA UndisturbedKeeps ==
  ASSUME NEW d \in Devices, DeviceInv(d), Grows, Undisturbed(d)
  PROVE  DeviceInv(d)'
<1>1. ASSUME NEW v, NEW c, Served(v, c)
      PROVE  Served(v, c)'
  BY <1>1 DEF Served, Grows
<1>2. ASSUME NEW copy, Named(copy)
      PROVE  Named(copy)'
  BY <1>2 DEF Named, Verbatim, UnlinkedAhead, Grows
<1>3. Truthful(d)'
  BY <1>1, <1>2 DEF DeviceInv, Truthful, Undisturbed, Grows
<1>4. Sighted(d)'
  BY DEF DeviceInv, Sighted, Undisturbed
<1>5. Orderly(d)'
  BY DEF DeviceInv, Orderly, Undisturbed, Asked
<1>6. SentUnchanged(d)'
  BY DEF DeviceInv, SentUnchanged, Undisturbed, Asked
<1> QED
  BY <1>3, <1>4, <1>5, <1>6 DEF DeviceInv

LEMMA ServerGrows ==
  ASSUME TypeOK, UNCHANGED server
  PROVE  Grows
BY DEF TypeOK, Grows, server, Version

LEMMA StepOfKeeps ==
  ASSUME SyncInv, NEW d \in Devices, StepOf(d), TypeOK', DeviceInv(d)'
  PROVE  SyncInv'
<1>1. Grows
  BY ServerGrows DEF SyncInv, StepOf
<1>2. ServerInv'
  BY DEF SyncInv, StepOf, ServerInv, server, Version, Row
<1> QED
  BY <1>1, <1>2, UndisturbedKeeps DEF SyncInv, StepOf

-----------------------------------------------------------------------------
(* The steps of the user of a device.                                      *)

\* Types, spelled out for one device.
LEMMA DeviceTypes ==
  ASSUME TypeOK, NEW d \in Devices
  PROVE  /\ local[d] # None => local[d] \in Copy
         /\ queue[d] # None => queue[d] \in Command
         /\ conflict[d] # None => conflict[d] \in Card
         /\ sync[d] \in Run
         /\ sync[d].pull # None => sync[d].pull \in Answer
         /\ sync[d].reply # None => sync[d].reply \in Outcome
         /\ seen[d] \in Nat
         /\ kept[d] \in SUBSET Bodies
<1>1. sync[d] \in Run
  BY DEF TypeOK
<1> QED
  BY <1>1 DEF TypeOK, Run

LEMMA LaterIsMax ==
  ASSUME NEW v \in Nat, NEW w \in Nat
  PROVE  Later(v, w) \in Nat /\ v <= Later(v, w) /\ w <= Later(v, w)
BY DEF Later

LEMMA SpendTypes ==
  ASSUME TypeOK, Spend
  PROVE  ops' \in 0..MaxOps
BY SyncAssumption DEF TypeOK, Spend

\* A touched run differs only in that: and only while pushing.
LEMMA TouchKeeps ==
  ASSUME TypeOK, NEW d \in Devices, Touch(d)
  PROVE  /\ sync' \in [Devices -> Run]
         /\ \A e \in Devices \ {d} : sync'[e] = sync[e]
         /\ sync'[d].phase = sync[d].phase
         /\ sync'[d].pull = sync[d].pull
         /\ sync'[d].reply = sync[d].reply
         /\ sync'[d].phase = "pushing" => sync'[d].touched
<1>1. sync \in [Devices -> Run]
  BY DEF TypeOK
<1>2. sync'[d] = [sync[d] EXCEPT !.touched = @ \/ sync[d].phase = "pushing"]
  BY <1>1 DEF Touch
<1>3. sync'[d] \in Run
  BY <1>1, <1>2 DEF Run
<1> QED
  BY <1>1, <1>2, <1>3 DEF Touch, Run

LEMMA MutateKeeps ==
  ASSUME SyncInv, NEW d \in Devices, NEW content \in Content,
         local[d] # None, Mutate(d, content),
         kept' \in [Devices -> SUBSET Bodies],
         \A e \in Devices \ {d} : kept'[e] = kept[e]
  PROVE  SyncInv'
<1> USE DEF SyncInv
<1>1. /\ local[d] \in Copy
      /\ seen[d] \in Nat
  BY DeviceTypes
<1>2. local'[d] = [status |-> "pending", content |-> content,
                   base |-> local[d].base]
  BY DEF Mutate, Mutated, TypeOK
<1>3. local'[d] \in Copy
  BY <1>1, <1>2 DEF Copy
<1>4. TypeOK'
  <2>1. local' \in [Devices -> Copy \cup {None}]
    BY <1>2, <1>3 DEF Mutate, TypeOK, Mutated
  <2>2. UNCHANGED <<published, purged, clientGone, queue, conflict, told,
                    requests, seen>>
    BY DEF Mutate, server
  <2> QED
    BY <2>1, <2>2, TouchKeeps, SpendTypes DEF TypeOK, Mutate
<1>5. StepOf(d)
  BY TouchKeeps DEF StepOf, Undisturbed, Mutate, TypeOK
<1>6. /\ local'[d] # None
      /\ queue'[d] = queue[d] /\ conflict'[d] = conflict[d]
      /\ UNCHANGED <<published, purged, clientGone, requests, seen>>
  BY <1>3, NoneAssumption DEF Mutate, server
<1>7. Truthful(d)'
  BY <1>2, <1>6, TouchKeeps 
  DEF DeviceInv, Truthful, Served, Named, Verbatim, UnlinkedAhead, Version, Mutate
<1>8. Sighted(d)'
  BY <1>2, <1>6 DEF DeviceInv, Sighted
<1>9. Orderly(d)'
  BY <1>6, TouchKeeps DEF DeviceInv, Orderly, Asked, Mutate
<1>10. SentUnchanged(d)'
  BY TouchKeeps DEF SentUnchanged, Mutate
<1> QED
  BY <1>4, <1>5, <1>7, <1>8, <1>9, <1>10, StepOfKeeps DEF DeviceInv

LEMMA UserMutationKeeps ==
  ASSUME SyncInv, NEW d \in Devices,
         \/ \E body \in Bodies : \/ Edit(d, body)
                                 \/ SetProjectStatus(d, body)
                                 \/ RestoreSnapshot(d, body)
         \/ \E linked \in BOOLEAN : LinkProposal(d, linked)
         \/ MoveToTrash(d)
         \/ RestoreProject(d)
  PROVE  SyncInv'
<1>1. /\ local[d] # None
      /\ kept \in [Devices -> SUBSET Bodies]
  BY DEF SyncInv, TypeOK, Edit, SetProjectStatus, RestoreSnapshot,
         LinkProposal, MoveToTrash, RestoreProject
<1>2. /\ local[d].content \in Content
      /\ local[d].content.body \in Bodies
      /\ local[d].content.trashed \in BOOLEAN
      /\ local[d].content.linked \in BOOLEAN
  BY <1>1, DeviceTypes DEF SyncInv, Copy, Content
<1>3. ASSUME NEW linked \in BOOLEAN, LinkProposal(d, linked)
      PROVE  SyncInv'
  <2>1. [local[d].content EXCEPT !.linked = linked] \in Content
    BY <1>2 DEF Content
  <2> QED
    BY <1>1, <1>3, <2>1, MutateKeeps DEF LinkProposal
<1>4. ASSUME NEW body \in Bodies, \/ Edit(d, body)
                                  \/ SetProjectStatus(d, body)
                                  \/ RestoreSnapshot(d, body)
      PROVE  SyncInv'
  <2>1. [local[d].content EXCEPT !.body = body] \in Content
    BY <1>2 DEF Content
  <2>2. CASE Edit(d, body) \/ SetProjectStatus(d, body)
    BY <1>1, <2>1, <2>2, MutateKeeps DEF Edit, SetProjectStatus
  <2>3. CASE RestoreSnapshot(d, body)
    <3>1. /\ kept' \in [Devices -> SUBSET Bodies]
          /\ \A e \in Devices \ {d} : kept'[e] = kept[e]
      BY <1>1, <1>2, <2>3 DEF RestoreSnapshot
    <3> QED
      BY <1>1, <2>1, <2>3, <3>1, MutateKeeps DEF RestoreSnapshot
  <2> QED
    BY <1>4, <2>2, <2>3
<1>5. ASSUME NEW trashed \in BOOLEAN
      PROVE  [local[d].content EXCEPT !.trashed = trashed] \in Content
  BY <1>2 DEF Content
<1>6. CASE MoveToTrash(d)
  BY <1>1, <1>5, <1>6, MutateKeeps DEF MoveToTrash
<1>7. CASE RestoreProject(d)
  BY <1>1, <1>5, <1>7, MutateKeeps DEF RestoreProject
<1> QED
  BY <1>3, <1>4, <1>6, <1>7

LEMMA CreateProjectKeeps ==
  ASSUME SyncInv, NEW d \in Devices, NEW body \in Bodies,
         NEW linked \in BOOLEAN, CreateProject(d, body, linked)
  PROVE  SyncInv'
<1> DEFINE copy == [status |-> "pending", base |-> 0,
                    content |-> [body |-> body, linked |-> linked,
                                 trashed |-> FALSE]]
<1> USE DEF SyncInv
<1>1. /\ copy \in Copy
      /\ copy.status = "pending" /\ copy.base = 0
  BY DEF Copy, Content
<1>2. /\ local' = [local EXCEPT ![d] = copy]
      /\ requests = {} /\ local[d] = None /\ queue[d] = None
      /\ UNCHANGED <<published, purged, clientGone, queue, conflict, kept,
                     told, sync, requests, seen>>
  BY DEF CreateProject, Unused, server
<1>3. Version = 0
  BY DEF CreateProject, Unused, Version
<1> HIDE DEF copy
<1>4. local'[d] = copy
  BY <1>2 DEF TypeOK
<1>5. TypeOK'
  BY <1>1, <1>2, SpendTypes DEF TypeOK, CreateProject
<1>6. StepOf(d)
  BY <1>2 DEF StepOf, Undisturbed, TypeOK, server
<1>7. seen[d] \in Nat
  BY DeviceTypes
<1>8. Truthful(d)'
  BY <1>1, <1>2, <1>4
  DEF DeviceInv, Truthful, Served, Named, Verbatim, UnlinkedAhead, Version
<1>9. Sighted(d)'
  BY <1>1, <1>2, <1>4, <1>7 DEF DeviceInv, Sighted
<1>10. Orderly(d)'
  BY <1>2 DEF DeviceInv, Orderly
<1>11. SentUnchanged(d)'
  <2>1. ~(sync[d].reply # None /\ sync[d].reply.status = "saved")
    BY <1>3 DEF DeviceInv, Truthful, Served
  <2> QED
    BY <1>2, <2>1 DEF SentUnchanged, Asked
<1> QED
  BY <1>5, <1>6, <1>8, <1>9, <1>10, <1>11, StepOfKeeps DEF DeviceInv

LEMMA HardDeleteProjectKeeps ==
  ASSUME SyncInv, NEW d \in Devices, HardDeleteProject(d)
  PROVE  SyncInv'
<1> USE DEF SyncInv
<1>1. /\ local[d] # None /\ local[d] \in Copy
      /\ seen[d] \in Nat
  BY DeviceTypes DEF HardDeleteProject
<1>2. /\ Deletion(local[d]) \in Command
      /\ Deletion(local[d]).base = local[d].base
  BY <1>1 DEF Deletion, Command, Copy, Content
<1>3. /\ local' = [local EXCEPT ![d] = None]
      /\ queue' = [queue EXCEPT ![d] = Deletion(local[d])]
      /\ UNCHANGED <<published, purged, clientGone, conflict, kept, told,
                     requests, seen>>
  BY DEF HardDeleteProject, server
<1>4. /\ local'[d] = None /\ queue'[d] = Deletion(local[d])
      /\ queue'[d] # None
  BY <1>2, <1>3, NoneAssumption DEF TypeOK
<1>5. TypeOK'
  <2>1. queue' \in [Devices -> Command \cup {None}]
    BY <1>2, <1>3 DEF TypeOK
  <2>2. local' \in [Devices -> Copy \cup {None}]
    BY <1>3 DEF TypeOK
  <2> QED
    BY <1>3, <2>1, <2>2, TouchKeeps, SpendTypes DEF TypeOK, HardDeleteProject
<1>6. StepOf(d)
  BY <1>3, TouchKeeps DEF StepOf, Undisturbed, TypeOK, server,
                          HardDeleteProject
<1>7. Truthful(d)'
  BY <1>3, <1>4, TouchKeeps
  DEF DeviceInv, Truthful, Served, Named, Verbatim, UnlinkedAhead, Version,
      HardDeleteProject
<1>8. Sighted(d)'
  BY <1>1, <1>2, <1>3, <1>4 DEF DeviceInv, Sighted
<1>9. Orderly(d)'
  BY <1>3, <1>4, TouchKeeps DEF DeviceInv, Orderly, Asked, HardDeleteProject
<1>10. SentUnchanged(d)'
  BY <1>4 DEF SentUnchanged
<1> QED
  BY <1>5, <1>6, <1>7, <1>8, <1>9, <1>10, StepOfKeeps DEF DeviceInv

\* A device that is shown more has still been shown what its bases name.
LEMMA SightedGrows ==
  ASSUME TypeOK, NEW d \in Devices, Sighted(d),
         seen'[d] \in Nat, seen[d] <= seen'[d]
  PROVE  /\ local[d] # None => local[d].base <= seen'[d]
         /\ queue[d] # None => queue[d].base <= seen'[d]
         /\ conflict[d] # None => conflict[d].version <= seen'[d]
         /\ \A r \in requests : r.from = d => r.base <= seen'[d]
<1>1. /\ local[d] # None => local[d].base \in Nat
      /\ queue[d] # None => queue[d].base \in Nat
      /\ conflict[d] # None => conflict[d].version \in Nat
      /\ seen[d] \in Nat
  BY DeviceTypes DEF Copy, Command, Card
<1>2. \A r \in requests : r.base \in Nat
  BY DEF TypeOK, Request
<1> QED
  BY <1>1, <1>2 DEF Sighted

\* What the server published is content.
LEMMA PublishedTypes ==
  ASSUME TypeOK
  PROVE  /\ Version \in Nat
         /\ \A v \in 1..Version : published[v].content \in Content
<1>1. published \in Seq(Entry) /\ Version \in Nat
  BY DEF TypeOK, Version
<1>2. ASSUME NEW v \in 1..Version
      PROVE  published[v].content \in Content
  <2>1. published[v] \in Entry
    BY <1>1 DEF Version
  <2> QED
    BY <2>1 DEF Entry
<1> QED
  BY <1>1, <1>2

LEMMA OpenConflictKeeps ==
  ASSUME SyncInv, NEW d \in Devices, OpenConflict(d)
  PROVE  SyncInv'
<1> USE DEF SyncInv
<1>1. UNCHANGED <<published, purged, clientGone, local, queue, kept, told,
                  sync, requests, ops>>
  BY DEF OpenConflict, server
<1>2. PICK card \in Card :
        /\ conflict' = [conflict EXCEPT ![d] = card]
        /\ card.content # None => Served(card.version, card.content)
        /\ seen' = [seen EXCEPT ![d] = Later(@, card.version)]
  <2>1. CASE /\ purged
             /\ conflict' = [conflict EXCEPT ![d] = DeletedCard]
             /\ UNCHANGED seen
    <3>1. DeletedCard \in Card /\ DeletedCard.content = None
             /\ DeletedCard.version = 0
      BY DEF DeletedCard, Card
    <3>2. seen' = [seen EXCEPT ![d] = Later(@, 0)]
      BY <2>1, DeviceTypes DEF Later, TypeOK
    <3> QED
      BY <2>1, <3>1, <3>2
  <2>2. CASE \E v \in 1..Version :
               /\ conflict' = [conflict EXCEPT ![d] =
                    CardOf(v, published[v].content)]
               /\ seen' = [seen EXCEPT ![d] = Later(@, v)]
    <3>1. PICK v \in 1..Version :
               /\ conflict' = [conflict EXCEPT ![d] =
                    CardOf(v, published[v].content)]
               /\ seen' = [seen EXCEPT ![d] = Later(@, v)]
      BY <2>2
    <3>2. /\ CardOf(v, published[v].content) \in Card
          /\ CardOf(v, published[v].content).version = v
          /\ CardOf(v, published[v].content).content = published[v].content
      BY PublishedTypes DEF CardOf, Card
    <3> QED
      BY <3>1, <3>2 DEF Served
  <2> QED
    BY <2>1, <2>2 DEF OpenConflict
<1>3. /\ card.version \in Nat
      /\ seen'[d] = Later(seen[d], card.version)
      /\ seen[d] \in Nat /\ seen'[d] \in Nat
      /\ seen[d] <= seen'[d] /\ card.version <= seen'[d]
      /\ conflict'[d] = card
  BY <1>2, DeviceTypes, LaterIsMax DEF Card, TypeOK
<1>4. TypeOK'
  BY <1>1, <1>2, <1>3 DEF TypeOK
<1>5. StepOf(d)
  BY <1>1, <1>2 DEF StepOf, Undisturbed, TypeOK, server
<1>6. Truthful(d)'
  BY <1>1, <1>2, <1>3
  DEF DeviceInv, Truthful, Served, Named, Verbatim, UnlinkedAhead, Version
<1>7. Sighted(d)'
  BY <1>1, <1>3, SightedGrows DEF DeviceInv, Sighted
<1>8. Orderly(d)'
  BY <1>1 DEF DeviceInv, Orderly, Asked
<1>9. SentUnchanged(d)'
  BY <1>1 DEF DeviceInv, SentUnchanged, Asked
<1> QED
  BY <1>4, <1>5, <1>6, <1>7, <1>8, <1>9, StepOfKeeps DEF DeviceInv

LEMMA ResolveConflictKeeps ==
  ASSUME SyncInv, NEW d \in Devices, NEW resolution,
         ResolveConflict(d, resolution)
  PROVE  SyncInv'
<1> USE DEF SyncInv
<1>1. /\ local[d] # None /\ local[d] \in Copy
      /\ conflict[d] # None /\ conflict[d] \in Card
      /\ seen[d] \in Nat
  BY DeviceTypes DEF ResolveConflict
<1>2. UNCHANGED <<published, purged, clientGone, queue, told, requests, seen>>
  BY DEF ResolveConflict, server
<1>3. PICK copy \in Copy \cup {None} :
        /\ local' = [local EXCEPT ![d] = copy]
        /\ copy # None => copy.base = conflict[d].version
        /\ copy # None /\ copy.status = "synced" =>
             Served(copy.base, copy.content)
  <2>1. CASE conflict[d].content = None
    BY <2>1, <1>1 DEF ResolveConflict
  <2>2. CASE conflict[d].content # None /\ resolution = "keep_local"
    <3> DEFINE copy == [status |-> "pending", content |-> local[d].content,
                        base |-> conflict[d].version]
    <3>1. copy \in Copy /\ copy.status # "synced"
          /\ copy.base = conflict[d].version
      BY <1>1 DEF Copy, Card
    <3>2. local' = [local EXCEPT ![d] = copy]
      BY <2>2 DEF ResolveConflict
    <3> QED
      BY <3>1, <3>2
  <2>3. CASE conflict[d].content # None /\ resolution # "keep_local"
    <3> DEFINE copy == [status |-> "synced", content |-> conflict[d].content,
                        base |-> conflict[d].version]
    <3>1. copy \in Copy /\ copy.content = conflict[d].content
          /\ copy.base = conflict[d].version
      BY <2>3, <1>1 DEF Copy, Card
    <3>2. local' = [local EXCEPT ![d] = copy]
      BY <2>3 DEF ResolveConflict
    <3> QED
      BY <1>1, <2>3, <3>1, <3>2 DEF DeviceInv, Truthful
  <2> QED
    BY <2>1, <2>2, <2>3
<1>4. /\ conflict' = [conflict EXCEPT ![d] = None]
      /\ local'[d] = copy /\ conflict'[d] = None
  BY <1>3 DEF ResolveConflict, TypeOK
<1>5. TypeOK'
  <2>1. /\ local' \in [Devices -> Copy \cup {None}]
        /\ conflict' \in [Devices -> Card \cup {None}]
    BY <1>3, <1>4 DEF TypeOK
  <2>2. kept' \in [Devices -> SUBSET Bodies]
    BY <1>1 DEF TypeOK, ResolveConflict, SnapshotBefore, Copy, Content
  <2> QED
    BY <1>2, <2>1, <2>2, TouchKeeps, SpendTypes DEF TypeOK, ResolveConflict
<1>6. StepOf(d)
  BY <1>2, <1>3, <1>4, TouchKeeps
  DEF StepOf, Undisturbed, TypeOK, server, ResolveConflict
<1>7. Truthful(d)'
  BY <1>2, <1>3, <1>4, TouchKeeps
  DEF DeviceInv, Truthful, Served, Named, Verbatim, UnlinkedAhead, Version,
      ResolveConflict
<1>8. Sighted(d)'
  BY <1>1, <1>2, <1>3, <1>4 DEF DeviceInv, Sighted
<1>9. Orderly(d)'
  BY <1>1, <1>2, TouchKeeps DEF DeviceInv, Orderly, Asked, ResolveConflict
<1>10. SentUnchanged(d)'
  BY TouchKeeps DEF SentUnchanged, ResolveConflict
<1> QED
  BY <1>5, <1>6, <1>7, <1>8, <1>9, <1>10, StepOfKeeps DEF DeviceInv

-----------------------------------------------------------------------------
(* The pass over the clients.                                              *)

\* A copy that loses its link keeps its status and its base; it named a
\* version with the link, and the row has it no more.
LEMMA LinkDroppedFacts ==
  ASSUME SyncInv, clientGone, NEW copy \in Copy, copy.content.linked
  PROVE  /\ LinkDropped(copy) \in Copy
         /\ LinkDropped(copy).base = copy.base
         /\ LinkDropped(copy).status = copy.status
         /\ LinkDropped(copy).content.body = copy.content.body
         /\ Named(copy) => Named(LinkDropped(copy))
<1> USE DEF SyncInv
<1> DEFINE new == LinkDropped(copy)
<1>1. copy.content \in Content /\ copy.base \in Nat
  BY DEF Copy
<1>2. /\ Unlinked(copy.content) \in Content
      /\ ~Unlinked(copy.content).linked
      /\ Unlinked(copy.content).body = copy.content.body
  BY <1>1 DEF Unlinked, Content
<1>3. new = [copy EXCEPT !.content = Unlinked(copy.content)]
  BY DEF LinkDropped
<1>4. /\ new \in Copy /\ new.content = Unlinked(copy.content)
      /\ new.base = copy.base /\ new.status = copy.status
  BY <1>2, <1>3 DEF Copy
<1> HIDE DEF new
<1>5. ASSUME Named(copy)
      PROVE  Named(new)
  <2>1. /\ copy.base \in 1..Version /\ Version \in Nat
        /\ published[copy.base].content \in Content
    BY <1>5, PublishedTypes DEF Named
  <2>2. published[copy.base].content = copy.content
    <3>1. ~Unlinked(published[copy.base].content).linked
      BY <2>1 DEF Unlinked, Content
    <3> QED
      BY <1>5, <3>1 DEF Named, Verbatim, UnlinkedAhead
  <2>3. purged \/ copy.base < Version
    BY <2>1, <2>2 DEF ServerInv, Row
  <2> QED
    BY <1>4, <2>1, <2>2, <2>3 DEF Named, UnlinkedAhead
<1> QED
  BY <1>2, <1>4, <1>5 DEF new

LEMMA UnlinkDeletedKeeps ==
  ASSUME SyncInv, NEW d \in Devices, UnlinkDeleted(d)
  PROVE  SyncInv'
<1> USE DEF SyncInv
<1>1. /\ clientGone /\ told' \subseteq Devices
      /\ UNCHANGED <<published, purged, clientGone, queue, conflict, kept,
                     requests, seen, ops>>
  BY DEF UnlinkDeleted, server, TypeOK
<1>2. CASE LinkedCopy(d)
  <2>1. /\ local[d] # None /\ local[d] \in Copy /\ local[d].content.linked
        /\ local' = [local EXCEPT ![d] = LinkDropped(@)]
        /\ Touch(d) /\ seen[d] \in Nat
    BY <1>2, DeviceTypes DEF LinkedCopy, UnlinkDeleted
  <2>2. PICK copy \in Copy :
          /\ local' = [local EXCEPT ![d] = copy]
          /\ copy.base = local[d].base /\ copy.status = local[d].status
          /\ Named(local[d]) => Named(copy)
    BY <1>1, <2>1, LinkDroppedFacts DEF TypeOK
  <2>3. local'[d] = copy
    BY <2>2 DEF TypeOK
  <2>4. TypeOK'
    BY <1>1, <2>1, <2>2, TouchKeeps DEF TypeOK
  <2>5. StepOf(d)
    BY <1>1, <2>1, <2>2, TouchKeeps DEF StepOf, Undisturbed, TypeOK, server
  <2>6. Truthful(d)'
    BY <1>1, <2>1, <2>2, <2>3, TouchKeeps
    DEF DeviceInv, Truthful, Served, Named, Verbatim, UnlinkedAhead, Version
  <2>7. Sighted(d)'
    BY <1>1, <2>1, <2>2, <2>3 DEF DeviceInv, Sighted
  <2>8. Orderly(d)'
    BY <1>1, <2>1, TouchKeeps DEF DeviceInv, Orderly, Asked
  <2>9. SentUnchanged(d)'
    BY <2>1, TouchKeeps DEF SentUnchanged
  <2> QED
    BY <2>4, <2>5, <2>6, <2>7, <2>8, <2>9, StepOfKeeps DEF DeviceInv
<1>3. CASE ~LinkedCopy(d)
  <2>1. UNCHANGED <<local, sync>>
    BY <1>3 DEF UnlinkDeleted
  <2>2. TypeOK'
    BY <1>1, <2>1 DEF TypeOK
  <2>3. ASSUME NEW e \in Devices
        PROVE  Undisturbed(e)
    BY <1>1, <2>1 DEF Undisturbed
  <2>4. UNCHANGED server
    BY <1>1 DEF server
  <2>5. ServerInv'
    BY <1>1 DEF ServerInv, Version, Row
  <2> QED
    BY <2>2, <2>3, <2>4, <2>5, ServerGrows, UndisturbedKeeps
<1> QED
  BY <1>2, <1>3

-----------------------------------------------------------------------------
(* The steps of a run.                                                     *)

\* Of the requests of d only some that it gave up on are left.
GivenUp(d) ==
  \A r \in requests' :
    /\ r \in Request
    /\ r.from # d => r \in requests
    /\ r.from = d =>
         /\ ~r.awaited
         /\ \E q \in requests : /\ q.from = d /\ q.base = r.base
                                /\ q.kind = r.kind /\ q.content = r.content

LEMMA AbandonGivesUp ==
  ASSUME TypeOK, NEW d \in Devices, Abandon(d)
  PROVE  GivenUp(d)
<1>1. CASE requests' = requests \ Awaited(d)
  BY <1>1 DEF GivenUp, Awaited, TypeOK, Request
<1>2. CASE requests' = (requests \ Awaited(d)) \cup
             {[r EXCEPT !.awaited = FALSE] : r \in Awaited(d)}
  <2>1. ASSUME NEW q \in Awaited(d), NEW r,
               r = [q EXCEPT !.awaited = FALSE]
        PROVE  /\ r \in Request /\ ~r.awaited
               /\ r.from = q.from /\ r.base = q.base
               /\ r.kind = q.kind /\ r.content = q.content
               /\ q.from = d /\ q \in requests
    <3>1. q \in Request /\ q \in requests /\ q.from = d
      BY DEF Awaited, TypeOK
    <3>2. r \in Request
      BY <2>1, <3>1 DEF Request
    <3> QED
      BY <2>1, <3>1, <3>2 DEF Request
  <2>2. ASSUME NEW r \in requests \ Awaited(d)
        PROVE  r \in Request /\ r \in requests /\ (r.from = d => ~r.awaited)
                 /\ r.awaited \in BOOLEAN
    BY DEF Awaited, TypeOK, Request
  <2>3. ASSUME NEW r \in requests'
        PROVE  \/ r \in requests \ Awaited(d)
               \/ \E q \in Awaited(d) : r = [q EXCEPT !.awaited = FALSE]
    BY <1>2, <2>3
  <2> QED
    BY <2>1, <2>2, <2>3 DEF GivenUp
<1> QED
  BY <1>1, <1>2 DEF Abandon

LEMMA NothingAskedIsGivenUp ==
  ASSUME TypeOK, NEW d \in Devices, UNCHANGED requests,
         \A r \in requests : ~Asked(d, r)
  PROVE  GivenUp(d)
BY DEF GivenUp, Asked, TypeOK

LEMMA EnterTypes ==
  ASSUME NEW phase \in Phases
  PROVE  /\ Enter(phase) \in Run
         /\ Enter(phase).phase = phase
         /\ Enter(phase).pull = None /\ Enter(phase).reply = None
BY DEF Enter, Run

\* The run begins, ends or looks up a deletion: it awaits nothing.
LEMMA RestKeeps ==
  ASSUME SyncInv, NEW d \in Devices,
         NEW phase \in {"idle", "pulling", "rereading"},
         sync' = [sync EXCEPT ![d] = Enter(phase)],
         phase = "rereading" => queue[d] # None,
         GivenUp(d),
         UNCHANGED <<server, device, seen, ops>>
  PROVE  SyncInv'
<1> USE DEF SyncInv
<1>1. UNCHANGED <<published, purged, clientGone, local, queue, conflict, kept,
                  told, seen, ops>>
  BY DEF server, device
<1>2. /\ sync'[d] \in Run /\ sync'[d].phase = phase
      /\ sync'[d].pull = None /\ sync'[d].reply = None
  BY EnterTypes DEF TypeOK, Phases
<1>3. \A r \in requests' : ~Asked(d, r)'
  BY DEF GivenUp, Asked
<1>4. TypeOK'
  <2>1. requests' \subseteq Request
    BY DEF GivenUp
  <2>2. sync' \in [Devices -> Run]
    BY <1>2 DEF TypeOK
  <2> QED
    BY <1>1, <2>1, <2>2 DEF TypeOK
<1>5. StepOf(d)
  BY <1>1 DEF StepOf, Undisturbed, TypeOK, server, GivenUp
<1>6. Truthful(d)'
  BY <1>1, <1>2
  DEF DeviceInv, Truthful, Served, Named, Verbatim, UnlinkedAhead, Version
<1>7. Sighted(d)'
  BY <1>1 DEF DeviceInv, Sighted, GivenUp
<1>8. Orderly(d)'
  <2>1. \A r \in requests' :
          r.from = d /\ r.kind = "push" => r.content \in Content
    BY DEF DeviceInv, Orderly, GivenUp
  <2> QED
    BY <1>1, <1>2, <1>3, <2>1 DEF DeviceInv, Orderly
<1>9. SentUnchanged(d)'
  BY <1>2 DEF SentUnchanged
<1> QED
  BY <1>4, <1>5, <1>6, <1>7, <1>8, <1>9, StepOfKeeps DEF DeviceInv

\* While a pull is out or an answer has come, nothing is awaited.
LEMMA NothingAsked ==
  ASSUME SyncInv, NEW d \in Devices,
         \/ sync[d].phase \in {"idle", "pulling", "rereading"}
         \/ sync[d].reply # None
  PROVE  \A r \in requests : ~Asked(d, r)
BY DEF SyncInv, DeviceInv, Orderly

LEMMA StartSyncKeeps ==
  ASSUME SyncInv, NEW d \in Devices, StartSync(d)
  PROVE  SyncInv'
BY NothingAsked, NothingAskedIsGivenUp, RestKeeps DEF StartSync, SyncInv

LEMMA RemoveFailedKeeps ==
  ASSUME SyncInv, NEW d \in Devices, RemoveFailed(d)
  PROVE  SyncInv'
<1>1. queue[d] # None
  BY DEF RemoveFailed, SyncInv, DeviceInv, Orderly
<1> QED
  BY <1>1, AbandonGivesUp, RestKeeps DEF RemoveFailed, SyncInv

LEMMA GiveUpKeeps ==
  ASSUME SyncInv, NEW d \in Devices, GiveUp(d)
  PROVE  SyncInv'
BY AbandonGivesUp, RestKeeps DEF GiveUp, Idle, SyncInv

LEMMA AnswerPullKeeps ==
  ASSUME SyncInv, NEW d \in Devices, AnswerPull(d)
  PROVE  SyncInv'
<1> USE DEF SyncInv
<1> DEFINE answer ==
      [version |-> IF purged THEN 0 ELSE Version, purged |-> purged,
       content |-> IF purged \/ Version = 0 THEN None ELSE Row]
<1>1. /\ answer \in Answer
      /\ answer.purged => purged
      /\ answer.version # 0 => Served(answer.version, answer.content)
  BY PublishedTypes DEF Answer, Row, Served, TypeOK
<1>2. sync' = [sync EXCEPT ![d].pull = answer]
  BY DEF AnswerPull
<1> HIDE DEF answer
<1>3. sync[d] \in Run
  BY DEF TypeOK
<1>4. /\ sync'[d] \in Run
      /\ sync'[d].pull = answer /\ sync'[d].reply = sync[d].reply
      /\ sync'[d].phase = sync[d].phase
      /\ sync'[d].touched = sync[d].touched
  BY <1>1, <1>2, <1>3 DEF TypeOK, Run
<1>5. UNCHANGED <<published, purged, clientGone, local, queue, conflict, kept,
                  told, requests, seen, ops>>
  BY DEF AnswerPull, server, device
<1>6. TypeOK'
  BY <1>2, <1>4, <1>5 DEF TypeOK
<1>7. StepOf(d)
  BY <1>2, <1>5 DEF StepOf, Undisturbed, TypeOK, server
<1>8. Truthful(d)'
  BY <1>1, <1>4, <1>5
  DEF DeviceInv, Truthful, Served, Named, Verbatim, UnlinkedAhead, Version
<1>9. Sighted(d)'
  BY <1>5 DEF DeviceInv, Sighted
<1>10. Orderly(d)'
  BY <1>4, <1>5 DEF DeviceInv, Orderly, Asked
<1>11. SentUnchanged(d)'
  BY <1>4, <1>5 DEF DeviceInv, SentUnchanged, Asked
<1> QED
  BY <1>6, <1>7, <1>8, <1>9, <1>10, <1>11, StepOfKeeps DEF DeviceInv

\* What reconcilePulledProjects makes of a copy: the document it read under
\* the version it read, or the same copy with the base it had.
LEMMA ReconciledFacts ==
  ASSUME NEW copy \in Copy \cup {None}, NEW answer \in Answer,
         answer.version # 0 => answer.content \in Content
  PROVE  LET new == Reconciled(copy, answer) IN
         \/ new = None
         \/ /\ new \in Copy /\ answer.version # 0
            /\ new = SyncedCopy(answer.version, answer.content)
         \/ /\ new \in Copy /\ copy # None
            /\ new.base = copy.base /\ new.content = copy.content
            /\ new.status = "synced" => copy.status = "synced"
<1> DEFINE new == Reconciled(copy, answer)
<1>1. ASSUME answer.version # 0
      PROVE  SyncedCopy(answer.version, answer.content) \in Copy
  BY <1>1 DEF SyncedCopy, Copy, Answer
<1>2. CASE answer.purged
  <2>1. new = AfterPurge(copy, answer)
    BY <1>2 DEF Reconciled
  <2>2. CASE copy # None /\ Unconfirmed(copy)
    <3>1. new = [copy EXCEPT !.status = "conflict"]
      BY <2>1, <2>2 DEF AfterPurge
    <3>2. copy \in Copy
      BY <2>2
    <3> QED
      BY <3>1, <3>2, <2>2 DEF Copy
  <2>3. CASE ~(copy # None /\ Unconfirmed(copy))
    BY <2>1, <2>3 DEF AfterPurge
  <2> QED
    BY <2>2, <2>3
<1>3. CASE ~answer.purged /\ answer.version = 0
  <2>1. new = copy
    BY <1>3 DEF Reconciled
  <2> QED
    BY <2>1
<1>4. CASE ~answer.purged /\ answer.version # 0
  <2>1. new = IF copy # None /\ Unconfirmed(copy)
              THEN AfterRead(copy, answer)
              ELSE SyncedCopy(answer.version, answer.content)
    BY <1>4 DEF Reconciled
  <2>2. \/ new = SyncedCopy(answer.version, answer.content)
        \/ copy # None /\ new = copy
    BY <2>1 DEF AfterRead
  <2> QED
    BY <1>1, <1>4, <2>2
<1> QED
  BY <1>2, <1>3, <1>4 DEF Answer

LEMMA ReconcileKeeps ==
  ASSUME SyncInv, NEW d \in Devices, Reconcile(d)
  PROVE  SyncInv'
<1> USE DEF SyncInv
<1> DEFINE answer == sync[d].pull
           copy == Reconciled(local[d], answer)
           request == Ask(d, "push", copy.base, copy.content)
           sends == copy # None /\ copy.status = "pending"
           phase == IF sends THEN "pushing" ELSE "idle"
<1>1. /\ answer # None /\ sync[d].phase = "pulling" /\ queue[d] = None
      /\ UNCHANGED <<published, purged, clientGone, queue, kept, told, ops>>
  BY DEF Reconcile, PullArrived, server
<1>2. /\ local[d] \in Copy \cup {None}
      /\ answer \in Answer /\ seen[d] \in Nat
      /\ conflict[d] \in Card \cup {None}
  BY <1>1, DeviceTypes DEF TypeOK
<1>3. /\ answer.version \in Nat
      /\ answer.version # 0 => /\ Served(answer.version, answer.content)
                               /\ answer.content \in Content
  BY <1>1, <1>2, PublishedTypes DEF DeviceInv, Truthful, Served, Answer
<1>4. /\ local' = [local EXCEPT ![d] = copy]
      /\ conflict' = [conflict EXCEPT ![d] = Remembered(@, copy, answer)]
      /\ seen' = [seen EXCEPT ![d] =
            IF copy # None /\ copy.status = "synced"
            THEN Later(@, answer.version) ELSE @]
      /\ requests' = IF sends THEN requests \cup {request} ELSE requests
      /\ sync' = [sync EXCEPT ![d] = Enter(phase)]
  BY DEF Reconcile, Idle
<1>5. /\ sync'[d] \in Run /\ sync'[d].phase = phase
      /\ sync'[d].pull = None /\ sync'[d].reply = None
  BY <1>4, EnterTypes DEF TypeOK, Phases
<1>6. \/ copy = None
      \/ /\ copy \in Copy /\ answer.version # 0
         /\ copy = SyncedCopy(answer.version, answer.content)
      \/ /\ copy \in Copy /\ local[d] # None
         /\ copy.base = local[d].base /\ copy.content = local[d].content
         /\ copy.status = "synced" => local[d].status = "synced"
  BY <1>2, <1>3, ReconciledFacts
<1> HIDE DEF answer, copy, request
<1>7. local'[d] = copy /\ copy \in Copy \cup {None}
  BY <1>4, <1>6 DEF TypeOK
<1>8. /\ seen'[d] \in Nat /\ seen[d] <= seen'[d]
      /\ copy # None /\ copy.status = "synced" => answer.version <= seen'[d]
  <2>1. seen'[d] = IF copy # None /\ copy.status = "synced"
                   THEN Later(seen[d], answer.version) ELSE seen[d]
    BY <1>4 DEF TypeOK
  <2>2. /\ Later(seen[d], answer.version) \in Nat
        /\ seen[d] <= Later(seen[d], answer.version)
        /\ answer.version <= Later(seen[d], answer.version)
    BY <1>2, <1>3, LaterIsMax
  <2> QED
    BY <1>2, <2>1, <2>2
<1>9. \A r \in requests : ~Asked(d, r)
  BY <1>1, NothingAsked
<1>10. /\ conflict'[d] \in Card \cup {None}
       /\ conflict'[d] # None =>
            \/ conflict'[d].content = None /\ conflict'[d].version = 0
            \/ conflict'[d] = conflict[d]
  <2>1. \/ conflict'[d] = None
        \/ conflict'[d] = DeletedCard
        \/ conflict'[d] = conflict[d]
    BY <1>4 DEF Remembered, TypeOK
  <2>2. /\ DeletedCard \in Card
        /\ DeletedCard.content = None /\ DeletedCard.version = 0
    BY DEF DeletedCard, Card
  <2> QED
    BY <1>2, <2>1, <2>2
<1>11. /\ copy # None => copy.base <= seen'[d] /\ copy.base \in Nat
       /\ copy # None /\ copy.status = "synced" => Named(copy)
  <2>1. CASE copy = SyncedCopy(answer.version, answer.content)
               /\ answer.version # 0
    BY <1>3, <1>8, <2>1 DEF SyncedCopy, Served, Named, Verbatim
  <2>2. CASE /\ local[d] # None /\ copy \in Copy
             /\ copy.base = local[d].base
             /\ copy.content = local[d].content
             /\ copy.status = "synced" => local[d].status = "synced"
    <3>1. local[d].base <= seen[d] /\ copy.base \in Nat
      BY <2>2 DEF DeviceInv, Sighted, Copy
    <3> QED
      BY <1>2, <1>8, <2>2, <3>1
      DEF DeviceInv, Truthful, Named, Verbatim, UnlinkedAhead
  <2> QED
    BY <1>6, <2>1, <2>2
<1>12. sends => /\ request \in Request
                /\ request.from = d /\ request.kind = "push"
                /\ request.base = copy.base
                /\ request.content = copy.content
                /\ request.content \in Content
  BY <1>7, <1>11 DEF Ask, Request, request, Copy
<1>13. TypeOK'
  <2>1. requests' \subseteq Request
    BY <1>4, <1>12 DEF TypeOK
  <2>2. /\ local' \in [Devices -> Copy \cup {None}]
        /\ conflict' \in [Devices -> Card \cup {None}]
        /\ sync' \in [Devices -> Run]
        /\ seen' \in [Devices -> Nat]
    BY <1>4, <1>5, <1>7, <1>8, <1>10 DEF TypeOK
  <2> QED
    BY <1>1, <2>1, <2>2 DEF TypeOK
<1>14. StepOf(d)
  BY <1>1, <1>4, <1>12 DEF StepOf, Undisturbed, TypeOK, server
<1>15. Truthful(d)'
  BY <1>1, <1>5, <1>7, <1>10, <1>11
  DEF DeviceInv, Truthful, Served, Named, Verbatim, UnlinkedAhead, Version
<1>16. Sighted(d)'
  <2>1. \A r \in requests' : r.from = d => r.base <= seen'[d]
    BY <1>4, <1>8, <1>11, <1>12, SightedGrows DEF DeviceInv
  <2>2. conflict'[d] # None => conflict'[d].version <= seen'[d]
    BY <1>8, <1>10, SightedGrows DEF DeviceInv
  <2> QED
    BY <1>1, <1>7, <1>11, <2>1, <2>2 DEF Sighted
<1>17. Orderly(d)'
  <2>1. \A r \in requests' : Asked(d, r)' => r = request /\ sends
    BY <1>4, <1>9 DEF Asked
  <2>2. \A r \in requests' :
          r.from = d /\ r.kind = "push" => r.content \in Content
    BY <1>4, <1>12 DEF DeviceInv, Orderly
  <2>3. queue'[d] = None /\ sync'[d].phase \in {"pushing", "idle"}
    BY <1>1, <1>5
  <2> QED
    BY <1>5, <2>1, <2>2, <2>3 DEF Orderly
<1>18. SentUnchanged(d)'
  <2>1. \A r \in requests' : Asked(d, r)' => r = request /\ sends
    BY <1>4, <1>9 DEF Asked
  <2> QED
    BY <1>5, <1>7, <1>12, <2>1 DEF SentUnchanged
<1> QED
  BY <1>13, <1>14, <1>15, <1>16, <1>17, <1>18, StepOfKeeps DEF DeviceInv

-----------------------------------------------------------------------------
(* The steps of a queued deletion.                                         *)

LEMMA ReleaseKeeps ==
  ASSUME SyncInv, NEW d \in Devices, Release(d),
         \A r \in requests : ~Asked(d, r)
  PROVE  SyncInv'
<1> USE DEF SyncInv
<1>1. /\ UNCHANGED <<published, purged, clientGone, local, kept, told,
                     requests, seen, ops>>
      /\ queue' = [queue EXCEPT ![d] = None]
      /\ conflict' = [conflict EXCEPT ![d] = None]
      /\ sync' = [sync EXCEPT ![d] = Enter("idle")]
  BY DEF Release, server, Idle
<1>2. /\ queue'[d] = None /\ conflict'[d] = None
      /\ sync'[d] \in Run /\ sync'[d].phase = "idle"
      /\ sync'[d].pull = None /\ sync'[d].reply = None
  BY <1>1, EnterTypes DEF TypeOK, Phases
<1>3. TypeOK'
  BY <1>1, <1>2 DEF TypeOK
<1>4. StepOf(d)
  BY <1>1 DEF StepOf, Undisturbed, TypeOK, server
<1>5. Truthful(d)'
  BY <1>1, <1>2
  DEF DeviceInv, Truthful, Served, Named, Verbatim, UnlinkedAhead, Version
<1>6. Sighted(d)'
  BY <1>1, <1>2 DEF DeviceInv, Sighted
<1>7. Orderly(d)'
  BY <1>1, <1>2 DEF DeviceInv, Orderly, Asked
<1>8. SentUnchanged(d)'
  BY <1>2 DEF SentUnchanged
<1> QED
  BY <1>3, <1>4, <1>5, <1>6, <1>7, <1>8, StepOfKeeps DEF DeviceInv

LEMMA RecoverKeeps ==
  ASSUME SyncInv, NEW d \in Devices, NEW version, NEW content,
         version \in Nat, content # None => Served(version, content),
         Recover(d, version, content),
         queue[d] # None, \A r \in requests : ~Asked(d, r)
  PROVE  SyncInv'
<1> USE DEF SyncInv
<1> DEFINE copy == [status |-> "conflict", base |-> queue[d].base,
                    content |-> InTrash(queue[d])]
           card == Shown(conflict[d], version, content)
<1>1. /\ UNCHANGED <<published, purged, clientGone, kept, told, requests, ops>>
      /\ queue' = [queue EXCEPT ![d] = None]
      /\ local' = [local EXCEPT ![d] = copy]
      /\ conflict' = [conflict EXCEPT ![d] = card]
      /\ seen' = [seen EXCEPT ![d] = Later(@, version)]
      /\ sync' = [sync EXCEPT ![d] = Enter("idle")]
  BY DEF Recover, server, Idle, TypeOK
<1>2. /\ copy \in Copy /\ copy.status = "conflict"
      /\ copy.base = queue[d].base
  BY DeviceTypes DEF Copy, Content, Command, InTrash
<1>3. \/ card = conflict[d]
      \/ /\ card \in Card /\ card.version = version
         /\ card.content = content /\ content # None
  BY PublishedTypes DEF Served, Shown, CardOf, Card
<1> HIDE DEF copy, card
<1>4. /\ queue'[d] = None /\ local'[d] = copy /\ conflict'[d] = card
      /\ sync'[d] \in Run /\ sync'[d].phase = "idle"
      /\ sync'[d].pull = None /\ sync'[d].reply = None
      /\ seen'[d] = Later(seen[d], version)
  BY <1>1, EnterTypes DEF TypeOK, Phases
<1>5. seen'[d] \in Nat /\ seen[d] <= seen'[d] /\ version <= seen'[d]
  <2>1. seen[d] \in Nat
    BY DeviceTypes
  <2> QED
    BY <1>3, <1>4, <2>1, LaterIsMax
<1>6. TypeOK'
  BY <1>1, <1>2, <1>3, <1>4, <1>5 DEF TypeOK
<1>7. StepOf(d)
  BY <1>1 DEF StepOf, Undisturbed, TypeOK, server
<1>8. Truthful(d)'
  <2>1. card # None /\ card.content # None =>
          Served(card.version, card.content)
    BY <1>3 DEF DeviceInv, Truthful
  <2> QED
    BY <1>1, <1>2, <1>4, <2>1 DEF Truthful, Served, Version
<1>9. Sighted(d)'
  <2>1. card # None => card.version <= seen'[d]
    BY <1>3, <1>5, SightedGrows DEF DeviceInv
  <2> QED
    BY <1>1, <1>2, <1>4, <1>5, <2>1, SightedGrows DEF DeviceInv, Sighted
<1>10. Orderly(d)'
  BY <1>1, <1>4 DEF DeviceInv, Orderly, Asked
<1>11. SentUnchanged(d)'
  BY <1>4 DEF SentUnchanged
<1> QED
  BY <1>6, <1>7, <1>8, <1>9, <1>10, <1>11, StepOfKeeps DEF DeviceInv

\* What may be sent for a queued deletion.
Sendable(d, request) ==
  /\ request \in Request /\ request.from = d
  /\ request.base <= seen'[d]
  /\ request.kind = "push" => request.content \in Content

LEMMA SendKeeps ==
  ASSUME SyncInv, NEW d \in Devices, NEW phase \in {"trashing", "removing"},
         NEW request, NEW command \in Command,
         Send(d, phase, request, command),
         Sendable(d, request), command.base <= seen'[d],
         seen' \in [Devices -> Nat], seen[d] <= seen'[d],
         \A e \in Devices \ {d} : seen'[e] = seen[e],
         queue[d] # None, \A r \in requests : ~Asked(d, r)
  PROVE  SyncInv'
<1> USE DEF SyncInv
<1>1. /\ UNCHANGED <<published, purged, clientGone, local, kept, told, ops>>
      /\ requests' = requests \cup {request}
      /\ queue' = [queue EXCEPT ![d] = command]
      /\ conflict' = [conflict EXCEPT ![d] = None]
      /\ sync' = [sync EXCEPT ![d] = Enter(phase)]
  BY DEF Send, server
<1>2. /\ queue'[d] = command /\ conflict'[d] = None
      /\ sync'[d] \in Run /\ sync'[d].phase = phase
      /\ sync'[d].pull = None /\ sync'[d].reply = None
  BY <1>1, EnterTypes DEF TypeOK, Phases
<1>3. command # None /\ local'[d] = None
  BY <1>1, NoneAssumption DEF DeviceInv, Orderly
<1>4. TypeOK'
  BY <1>1, <1>2 DEF TypeOK, Sendable
<1>5. StepOf(d)
  BY <1>1 DEF StepOf, Undisturbed, TypeOK, server, Sendable
<1>6. Truthful(d)'
  BY <1>2, <1>3 DEF Truthful
<1>7. Sighted(d)'
  BY <1>1, <1>2, <1>3, SightedGrows DEF DeviceInv, Sighted, Sendable
<1>8. Orderly(d)'
  <2>1. \A r \in requests' : Asked(d, r)' => r = request
    BY <1>1 DEF Asked
  <2>2. \A r \in requests' :
          r.from = d /\ r.kind = "push" => r.content \in Content
    BY <1>1 DEF DeviceInv, Orderly, Sendable
  <2> QED
    BY <1>2, <1>3, <2>1, <2>2 DEF Orderly
<1>9. SentUnchanged(d)'
  BY <1>3 DEF SentUnchanged
<1> QED
  BY <1>4, <1>5, <1>6, <1>7, <1>8, <1>9, StepOfKeeps DEF DeviceInv

\* The trash and the DELETE of a command name its base.
LEMMA CommandIsSendable ==
  ASSUME NEW d \in Devices, NEW command \in Command,
         command.base <= seen'[d]
  PROVE  Sendable(d, AskTrash(d, command)) /\ Sendable(d, AskRemove(d, command))
<1>1. InTrash(command) \in Content /\ command.base \in Nat
  BY DEF Command, Content, InTrash
<1> QED
  BY <1>1 DEF Sendable, AskTrash, AskRemove, Ask, Request

LEMMA BeginDeletionKeeps ==
  ASSUME SyncInv, NEW d \in Devices, BeginDeletion(d)
  PROVE  SyncInv'
<1> USE DEF SyncInv
<1>1. /\ sync[d].phase = "pulling" /\ sync[d].pull # None
      /\ queue[d] # None /\ queue[d] \in Command
      /\ queue[d].base <= seen[d]
  BY DeviceTypes DEF BeginDeletion, PullArrived, DeviceInv, Sighted
<1>2. \A r \in requests : ~Asked(d, r)
  BY <1>1, NothingAsked
<1>3. CASE Release(d)
  BY <1>2, <1>3, ReleaseKeeps
<1>4. CASE /\ WrittenSince(queue[d], sync[d].pull)
           /\ Recover(d, sync[d].pull.version, sync[d].pull.content)
  <2>1. /\ Served(sync[d].pull.version, sync[d].pull.content)
        /\ sync[d].pull.version \in Nat
    BY <1>1, <1>4, DeviceTypes
    DEF WrittenSince, DeviceInv, Truthful, Answer
  <2> QED
    BY <1>1, <1>2, <1>4, <2>1, RecoverKeeps
<1>5. ASSUME UNCHANGED seen
      PROVE  /\ seen' \in [Devices -> Nat] /\ seen[d] <= seen'[d]
             /\ queue[d].base <= seen'[d]
             /\ \A e \in Devices \ {d} : seen'[e] = seen[e]
  <2>1. seen[d] \in Nat
    BY DeviceTypes
  <2> QED
    BY <1>1, <1>5, <2>1 DEF TypeOK
<1>6. CASE /\ Send(d, "trashing", AskTrash(d, queue[d]), queue[d])
           /\ UNCHANGED seen
  <2>1. Sendable(d, AskTrash(d, queue[d]))
    BY <1>1, <1>5, <1>6, CommandIsSendable
  <2> QED
    BY <1>1, <1>2, <1>5, <1>6, <2>1, SendKeeps
<1>7. CASE /\ Send(d, "removing", AskRemove(d, queue[d]), queue[d])
           /\ UNCHANGED seen
  <2>1. Sendable(d, AskRemove(d, queue[d]))
    BY <1>1, <1>5, <1>7, CommandIsSendable
  <2> QED
    BY <1>1, <1>2, <1>5, <1>7, <2>1, SendKeeps
<1> QED
  BY <1>3, <1>4, <1>6, <1>7 DEF BeginDeletion

LEMMA ConfirmedIsCommand ==
  ASSUME NEW command \in Command, NEW outcome, outcome.version \in Nat
  PROVE  /\ Confirmed(command, outcome) \in Command
         /\ Confirmed(command, outcome).base = outcome.version
BY DEF Confirmed, Command

LEMMA AckTrashKeeps ==
  ASSUME SyncInv, NEW d \in Devices, AckTrash(d)
  PROVE  SyncInv'
<1> USE DEF SyncInv
<1> DEFINE outcome == sync[d].reply
           command == Confirmed(queue[d], outcome)
<1>1. /\ sync[d].phase = "trashing" /\ outcome # None
      /\ queue[d] # None /\ queue[d] \in Command
      /\ outcome \in Outcome /\ seen[d] \in Nat
      /\ outcome.version \in Nat
  BY DeviceTypes DEF AckTrash, DeviceInv, Orderly, Outcome
<1>2. \A r \in requests : ~Asked(d, r)
  BY <1>1, NothingAsked
<1>3. CASE Release(d)
  BY <1>2, <1>3, ReleaseKeeps
<1>4. CASE /\ outcome.status = "conflict"
           /\ Recover(d, outcome.version, outcome.content)
  BY <1>1, <1>2, <1>4, RecoverKeeps DEF DeviceInv, Truthful
<1>5. CASE /\ outcome.status = "saved"
           /\ Send(d, "removing", AskRemove(d, command), command)
           /\ seen' = [seen EXCEPT ![d] = Later(@, outcome.version)]
  <2>1. command \in Command /\ command.base = outcome.version
    BY <1>1, ConfirmedIsCommand
  <2> HIDE DEF outcome, command
  <2>2. seen'[d] = Later(seen[d], outcome.version)
    BY <1>5 DEF TypeOK
  <2>3. /\ seen'[d] \in Nat /\ seen[d] <= seen'[d]
        /\ outcome.version <= seen'[d]
    BY <1>1, <2>2, LaterIsMax
  <2>4. /\ seen' \in [Devices -> Nat]
        /\ \A e \in Devices \ {d} : seen'[e] = seen[e]
    BY <1>5, <2>2, <2>3 DEF TypeOK
  <2>5. Sendable(d, AskRemove(d, command))
    BY <2>1, <2>3, CommandIsSendable
  <2> QED
    BY <1>1, <1>2, <1>5, <2>1, <2>3, <2>4, <2>5, SendKeeps
<1> QED
  BY <1>3, <1>4, <1>5 DEF AckTrash

LEMMA AckRemoveKeeps ==
  ASSUME SyncInv, NEW d \in Devices, AckRemove(d)
  PROVE  SyncInv'
BY NothingAsked, ReleaseKeeps DEF AckRemove

LEMMA FinishRereadKeeps ==
  ASSUME SyncInv, NEW d \in Devices, FinishReread(d)
  PROVE  SyncInv'
<1> USE DEF SyncInv
<1> DEFINE answer == sync[d].pull
<1>1. /\ sync[d].phase = "rereading" /\ answer # None
      /\ queue[d] # None
  BY DEF FinishReread, PullArrived, DeviceInv, Orderly
<1>2. \A r \in requests : ~Asked(d, r)
  BY <1>1, NothingAsked
<1>3. CASE Release(d)
  BY <1>2, <1>3, ReleaseKeeps
<1>4. CASE /\ answer.version # 0
           /\ Recover(d, answer.version, answer.content)
  <2>1. Served(answer.version, answer.content) /\ answer.version \in Nat
    BY <1>1, <1>4, DeviceTypes DEF DeviceInv, Truthful, Answer
  <2> QED
    BY <1>1, <1>2, <1>4, <2>1, RecoverKeeps
<1>5. CASE /\ sync' = [sync EXCEPT ![d] = Idle]
           /\ UNCHANGED <<server, device, requests, seen, ops>>
  BY <1>2, <1>5, NothingAskedIsGivenUp, RestKeeps DEF Idle
<1> QED
  BY <1>3, <1>4, <1>5 DEF FinishReread

-----------------------------------------------------------------------------
(* The acknowledgement of a push.                                          *)

LEMMA AckPushKeeps ==
  ASSUME SyncInv, NEW d \in Devices, AckPush(d)
  PROVE  SyncInv'
<1> USE DEF SyncInv
<1> DEFINE outcome == sync[d].reply
           card == IF outcome.status = "deleted" THEN DeletedCard
                   ELSE Shown(conflict[d], outcome.version, outcome.content)
           saved == outcome.status = "saved"
<1>1. /\ outcome # None /\ outcome \in Outcome
      /\ outcome.version \in Nat
      /\ sync[d].phase = "pushing" /\ seen[d] \in Nat
      /\ UNCHANGED <<published, purged, clientGone, kept, told, requests, ops>>
      /\ sync' = [sync EXCEPT ![d] = Enter("idle")]
  BY DeviceTypes DEF AckPush, Outcome, server, Idle
<1>2. /\ local' = [local EXCEPT ![d] =
            IF local[d] = None THEN None
            ELSE IF saved THEN Acknowledged(@, outcome, sync[d].touched)
            ELSE [@ EXCEPT !.status = "conflict"]]
      /\ queue' = [queue EXCEPT ![d] =
            IF queue[d] = None \/ ~saved THEN @ ELSE Confirmed(@, outcome)]
      /\ conflict' = [conflict EXCEPT ![d] =
            IF local[d] = None \/ saved THEN @ ELSE card]
      /\ seen' = [seen EXCEPT ![d] =
            IF saved \/ local[d] # None THEN Later(@, outcome.version) ELSE @]
  BY DEF AckPush, TypeOK
<1>3. /\ saved => /\ Served(outcome.version, outcome.content)
                  /\ outcome.content \in Content
      /\ ~saved /\ card # conflict[d] =>
           /\ card \in Card
           /\ card.content # None => Served(card.version, card.content)
           /\ card.version <= outcome.version
  <2>1. saved => /\ Served(outcome.version, outcome.content)
                 /\ outcome.content \in Content
    BY <1>1, PublishedTypes DEF DeviceInv, Truthful, Served
  <2>2. CASE outcome.status = "deleted"
    <3>1. card = DeletedCard /\ ~saved
      BY <2>2
    <3>2. /\ DeletedCard \in Card /\ DeletedCard.content = None
          /\ DeletedCard.version = 0
      BY DEF DeletedCard, Card
    <3> HIDE DEF outcome, card
    <3> QED
      BY <1>1, <3>1, <3>2
  <2>3. CASE outcome.status # "deleted"
    <3>1. \/ card = conflict[d]
          \/ /\ card = CardOf(outcome.version, outcome.content)
             /\ outcome.content # None
      BY <2>3 DEF Shown
    <3>2. outcome.content # None => Served(outcome.version, outcome.content)
      BY <1>1 DEF DeviceInv, Truthful
    <3>3. outcome.content \in Content \cup {None}
      BY <1>1 DEF Outcome
    <3> HIDE DEF outcome, card, saved
    <3> QED
      BY <1>1, <2>1, <3>1, <3>2, <3>3 DEF CardOf, Card
  <2> QED
    BY <2>2, <2>3
<1>4. /\ local[d] # None => local[d] \in Copy
      /\ queue[d] # None => queue[d] \in Command
      /\ queue[d] # None => local[d] = None
  BY DeviceTypes DEF DeviceInv, Orderly
<1> HIDE DEF outcome, card
<1>5. /\ sync'[d] \in Run /\ sync'[d].phase = "idle"
      /\ sync'[d].pull = None /\ sync'[d].reply = None
  BY <1>1, EnterTypes DEF TypeOK, Phases
<1>6. /\ seen'[d] \in Nat /\ seen[d] <= seen'[d]
      /\ saved \/ local[d] # None => outcome.version <= seen'[d]
  <2>1. seen'[d] = IF saved \/ local[d] # None
                   THEN Later(seen[d], outcome.version) ELSE seen[d]
    BY <1>2 DEF TypeOK
  <2>2. /\ Later(seen[d], outcome.version) \in Nat
        /\ seen[d] <= Later(seen[d], outcome.version)
        /\ outcome.version <= Later(seen[d], outcome.version)
    BY <1>1, LaterIsMax
  <2> QED
    BY <1>1, <2>1, <2>2
<1>7. \/ local'[d] = None
      \/ /\ local[d] # None /\ local'[d] \in Copy
         /\ \/ saved /\ local'[d].base = outcome.version
            \/ ~saved /\ local'[d].base = local[d].base
         /\ local'[d].status = "synced" =>
              saved /\ local'[d].content = outcome.content
  <2>1. CASE local[d] = None
    BY <1>2, <2>1 DEF TypeOK
  <2>2. CASE local[d] # None /\ saved /\ sync[d].touched
    <3>1. local'[d] = [local[d] EXCEPT !.status = "pending",
                                       !.base = outcome.version]
      BY <1>2, <2>2 DEF TypeOK, Acknowledged
    <3> QED
      BY <1>1, <1>4, <2>2, <3>1 DEF Copy
  <2>3. CASE local[d] # None /\ saved /\ ~sync[d].touched
    <3>1. local'[d] = SyncedCopy(outcome.version, outcome.content)
      BY <1>2, <2>3 DEF TypeOK, Acknowledged
    <3>2. outcome.content \in Content
      BY <1>3, <2>3
    <3> QED
      BY <1>1, <2>3, <3>1, <3>2 DEF SyncedCopy, Copy
  <2>4. CASE local[d] # None /\ ~saved
    <3>1. local'[d] = [local[d] EXCEPT !.status = "conflict"]
      BY <1>2, <2>4 DEF TypeOK
    <3> QED
      BY <1>4, <2>4, <3>1 DEF Copy
  <2> QED
    BY <2>1, <2>2, <2>3, <2>4
<1>8. \/ queue'[d] = queue[d]
      \/ /\ saved /\ queue[d] # None
         /\ queue'[d] \in Command /\ queue'[d].base = outcome.version
  BY <1>1, <1>2, <1>4, ConfirmedIsCommand DEF TypeOK
<1>9. \/ conflict'[d] = conflict[d]
      \/ /\ ~saved /\ local[d] # None
         /\ conflict'[d] = card /\ card # conflict[d]
  BY <1>2 DEF TypeOK
<1>10. TypeOK'
  <2>1. /\ local'[d] \in Copy \cup {None}
        /\ queue'[d] \in Command \cup {None}
        /\ conflict'[d] \in Card \cup {None}
    BY <1>3, <1>7, <1>8, <1>9 DEF TypeOK
  <2>2. /\ local' \in [Devices -> Copy \cup {None}]
        /\ queue' \in [Devices -> Command \cup {None}]
        /\ conflict' \in [Devices -> Card \cup {None}]
        /\ seen' \in [Devices -> Nat]
        /\ sync' \in [Devices -> Run]
    BY <1>1, <1>2, <1>5, <1>6, <2>1 DEF TypeOK
  <2> QED
    BY <1>1, <2>2 DEF TypeOK
<1>11. StepOf(d)
  BY <1>1, <1>2 DEF StepOf, Undisturbed, TypeOK, server
<1>12. Truthful(d)'
  <2>1. conflict'[d] # None /\ conflict'[d].content # None =>
          Served(conflict'[d].version, conflict'[d].content)
    BY <1>3, <1>9 DEF DeviceInv, Truthful
  <2>2. local'[d] # None /\ local'[d].status = "synced" =>
          Named(local'[d])
    BY <1>3, <1>7 DEF Served, Named, Verbatim
  <2> QED
    BY <1>1, <1>5, <2>1, <2>2
    DEF Truthful, Served, Named, Verbatim, UnlinkedAhead, Version
<1>13. Sighted(d)'
  <2>1. local'[d] # None => local'[d].base <= seen'[d]
    BY <1>6, <1>7, SightedGrows DEF DeviceInv
  <2>2. queue'[d] # None => queue'[d].base <= seen'[d]
    BY <1>6, <1>8, SightedGrows DEF DeviceInv
  <2>3. conflict'[d] # None => conflict'[d].version <= seen'[d]
    <3>1. CASE conflict'[d] = conflict[d]
      BY <1>6, <3>1, SightedGrows DEF DeviceInv
    <3>2. CASE /\ ~saved /\ local[d] # None
               /\ conflict'[d] = card /\ card # conflict[d]
      <4>1. card.version \in Nat
        BY <1>3, <3>2 DEF Card
      <4> QED
        BY <1>1, <1>3, <1>6, <3>2, <4>1
    <3> QED
      BY <1>9, <3>1, <3>2
  <2>4. \A r \in requests : r.from = d => r.base <= seen'[d]
    BY <1>6, SightedGrows DEF DeviceInv
  <2> QED
    BY <1>1, <2>1, <2>2, <2>3, <2>4 DEF Sighted
<1>14. Orderly(d)'
  <2>1. \A r \in requests : ~Asked(d, r)
    BY <1>1, NothingAsked DEF outcome
  <2>2. queue'[d] # None => local'[d] = None
    BY <1>4, <1>7, <1>8
  <2> QED
    BY <1>1, <1>5, <2>1, <2>2 DEF DeviceInv, Orderly, Asked
<1>15. SentUnchanged(d)'
  BY <1>5 DEF SentUnchanged
<1> QED
  BY <1>10, <1>11, <1>12, <1>13, <1>14, <1>15, StepOfKeeps DEF DeviceInv

-----------------------------------------------------------------------------
(* The steps of the server.                                                *)

\* The log of the server only grew, and no row links a client that is gone.
ServerStep ==
  /\ published' \in Seq(Entry)
  /\ purged' \in BOOLEAN /\ clientGone' \in BOOLEAN
  /\ Grows
  /\ ServerInv'

\* A step of the server that tells no device anything.
LEMMA SilentKeeps ==
  ASSUME SyncInv, ServerStep, ops' \in 0..MaxOps,
         UNCHANGED <<device, sync, requests, seen>>
  PROVE  SyncInv'
<1>1. UNCHANGED <<local, queue, conflict, kept, told, sync, requests, seen>>
  BY DEF device
<1>2. TypeOK'
  BY <1>1 DEF SyncInv, TypeOK, ServerStep
<1>3. ASSUME NEW d \in Devices
      PROVE  DeviceInv(d)'
  BY <1>1, UndisturbedKeeps DEF SyncInv, ServerStep, Undisturbed
<1> QED
  BY <1>2, <1>3 DEF SyncInv, ServerStep

\* The server has published this content under this version after the step.
NowServed(version, content) ==
  version \in 1..Version' /\ published'[version].content = content

\* What the server may answer to a request.
Honest(r, status, version, content) ==
  /\ [status |-> status, version |-> version, content |-> content] \in Outcome
  /\ status = "deleted" => purged'
  /\ content # None => NowServed(version, content)
  /\ status = "saved" => content # None /\ content = r.content

LEMMA ReplyKeeps ==
  ASSUME SyncInv, NEW r \in requests,
         NEW status, NEW version, NEW content,
         Reply(r, status, version, content), ServerStep,
         Honest(r, status, version, content)
  PROVE  SyncInv'
<1> USE DEF SyncInv
<1> DEFINE outcome == [status |-> status, version |-> version,
                       content |-> content]
           d == r.from
<1>1. /\ UNCHANGED <<local, queue, conflict, kept, told, seen, ops>>
      /\ requests' = requests \ {r}
      /\ sync' = IF r.awaited THEN [sync EXCEPT ![d].reply = outcome] ELSE sync
  BY DEF Reply, device
<1>2. /\ d \in Devices /\ r.awaited \in BOOLEAN
      /\ outcome \in Outcome
      /\ outcome.status = status /\ outcome.version = version
      /\ outcome.content = content
  BY DEF TypeOK, Request, Honest
<1> HIDE DEF outcome, d
<1>3. sync[d] \in Run
  BY <1>2 DEF TypeOK
<1>4. ASSUME r.awaited
      PROVE  /\ sync'[d] \in Run
             /\ sync'[d].reply = outcome /\ sync'[d].pull = sync[d].pull
             /\ sync'[d].phase = sync[d].phase
             /\ sync'[d].touched = sync[d].touched
  BY <1>1, <1>2, <1>3, <1>4 DEF TypeOK, Run
<1>5. TypeOK'
  <2>1. sync' \in [Devices -> Run]
    BY <1>1, <1>4 DEF TypeOK
  <2> QED
    BY <1>1, <2>1 DEF TypeOK, ServerStep
<1>6. ASSUME NEW e \in Devices, e # d \/ ~r.awaited
      PROVE  DeviceInv(e)'
  <2>1. Undisturbed(e)
    BY <1>1, <1>6 DEF Undisturbed, TypeOK
  <2> QED
    BY <2>1, UndisturbedKeeps DEF ServerStep
<1>7. ASSUME r.awaited
      PROVE  DeviceInv(d)'
  <2>1. DeviceInv(d) /\ Asked(d, r)
    BY <1>2, <1>7 DEF Asked, d
  <2>2. \A q \in requests' : ~Asked(d, q)'
    BY <1>1, <2>1 DEF DeviceInv, Orderly, Asked
  <2>3. ASSUME NEW v, NEW c, Served(v, c)
        PROVE  Served(v, c)'
    BY <2>3 DEF Served, ServerStep, Grows
  <2>4. Truthful(d)'
    <3>1. content # None => Served(version, content)'
      BY DEF Honest, NowServed, Served
    <3>2. \* The answer, as the device has it.
          /\ sync'[d].reply.status = "deleted" => purged'
          /\ sync'[d].reply.status = "saved" => sync'[d].reply.content # None
          /\ sync'[d].reply.content # None =>
               Served(sync[d].reply.version, sync[d].reply.content)'
      BY <1>2, <1>4, <1>7, <3>1 DEF Honest, Served
    <3>3. ASSUME NEW copy, Named(copy)
          PROVE  Named(copy)'
      BY <3>3 DEF Named, Verbatim, UnlinkedAhead, ServerStep, Grows
    <3> QED
      BY <1>1, <1>4, <1>7, <2>1, <2>3, <3>2, <3>3
      DEF DeviceInv, Truthful, ServerStep, Grows
  <2>5. Sighted(d)'
    BY <1>1, <2>1 DEF DeviceInv, Sighted
  <2>6. Orderly(d)'
    BY <1>1, <1>4, <1>7, <2>1, <2>2 DEF DeviceInv, Orderly
  <2>7. SentUnchanged(d)'
    BY <1>1, <1>2, <1>4, <1>7, <2>1, <2>2
    DEF DeviceInv, SentUnchanged, Honest
  <2> QED
    BY <2>4, <2>5, <2>6, <2>7 DEF DeviceInv
<1> QED
  BY <1>2, <1>5, <1>6, <1>7 DEF ServerStep

\* An entry is added to the log.
LEMMA AppendGrows ==
  ASSUME TypeOK, NEW entry \in Entry,
         published' = Append(published, entry), purged' = purged,
         clientGone' \in BOOLEAN, clientGone => clientGone',
         clientGone' => ~entry.content.linked
  PROVE  /\ ServerStep
         /\ Version \in Nat /\ Version' = Version + 1
         /\ published'[Version + 1] = entry
BY DEF TypeOK, ServerStep, Grows, ServerInv, Version, Row

LEMMA PurgeGrows ==
  ASSUME TypeOK, UNCHANGED <<published, clientGone>>, purged' = TRUE
  PROVE  ServerStep
BY DEF TypeOK, ServerStep, Grows, ServerInv, Version

LEMMA SameServerGrows ==
  ASSUME TypeOK, ServerInv, UNCHANGED server
  PROVE  ServerStep
BY ServerGrows DEF TypeOK, ServerStep, ServerInv, server, Version, Row

LEMMA HandlePushKeeps ==
  ASSUME SyncInv, NEW r \in requests, HandlePush(r)
  PROVE  SyncInv'
<1> USE DEF SyncInv
<1>1. /\ r.from \in Devices /\ r.content \in Content
      /\ r.base \in Nat /\ Version \in Nat
  BY PublishedTypes DEF HandlePush, DeviceInv, Orderly, TypeOK, Request
<1>2. CASE purged /\ Reply(r, "deleted", 0, None) /\ UNCHANGED server
  <2>1. Honest(r, "deleted", 0, None)
    BY <1>2 DEF Honest, Outcome, server
  <2> QED
    BY <1>2, <2>1, ReplyKeeps, SameServerGrows
<1>3. CASE /\ ~purged /\ Linkable(r)
           /\ published' = Append(published,
                                  [content |-> r.content, by |-> r.from])
           /\ purged' = FALSE /\ UNCHANGED clientGone
           /\ Reply(r, "saved", Version + 1, r.content)
  <2>1. [content |-> r.content, by |-> r.from] \in Entry
    BY <1>1 DEF Entry
  <2>2. /\ ServerStep /\ Version' = Version + 1
        /\ published'[Version + 1] = [content |-> r.content, by |-> r.from]
    <3>1. /\ purged' = purged /\ clientGone' \in BOOLEAN
          /\ clientGone' => ~r.content.linked
      BY <1>3 DEF TypeOK, Linkable
    <3> QED
      BY <1>3, <2>1, <3>1, AppendGrows
  <2>3. NowServed(Version + 1, r.content)
    BY <1>1, <2>2 DEF NowServed
  <2>4. Honest(r, "saved", Version + 1, r.content)
    BY <1>1, <2>3, NoneAssumption DEF Honest, Outcome
  <2> QED
    BY <1>3, <2>2, <2>4, ReplyKeeps
<1>4. CASE /\ ~purged
           /\ Reply(r, "conflict", Version, IF Version = 0 THEN None ELSE Row)
           /\ UNCHANGED server
  <2>1. Version # 0 => NowServed(Version, Row) /\ Row \in Content
    BY <1>1, <1>4, PublishedTypes DEF NowServed, Row, Version, server
  <2>2. Honest(r, "conflict", Version, IF Version = 0 THEN None ELSE Row)
    BY <1>1, <2>1 DEF Honest, Outcome
  <2> QED
    BY <1>4, <2>2, ReplyKeeps, SameServerGrows
<1> QED
  BY <1>2, <1>3, <1>4 DEF HandlePush, IsPurged

LEMMA HandleRemoveKeeps ==
  ASSUME SyncInv, NEW r \in requests, HandleRemove(r)
  PROVE  SyncInv'
<1> USE DEF SyncInv
<1>1. CASE purged /\ Reply(r, "deleted", 0, None) /\ UNCHANGED server
  <2>1. Honest(r, "deleted", 0, None)
    BY <1>1 DEF Honest, Outcome, server
  <2> QED
    BY <1>1, <2>1, ReplyKeeps, SameServerGrows
<1>2. CASE /\ purged' = TRUE /\ UNCHANGED <<published, clientGone>>
           /\ Reply(r, "deleted", 0, None)
  <2>1. Honest(r, "deleted", 0, None)
    BY <1>2 DEF Honest, Outcome
  <2> QED
    BY <1>2, <2>1, ReplyKeeps, PurgeGrows
<1>3. CASE Reply(r, "refused", 0, None) /\ UNCHANGED server
  <2>1. Honest(r, "refused", 0, None)
    BY DEF Honest, Outcome
  <2> QED
    BY <1>3, <2>1, ReplyKeeps, SameServerGrows
<1> QED
  BY <1>1, <1>2, <1>3 DEF HandleRemove

\* The entry another writer, or the deletion of the client, adds to the log.
LEMMA OtherEntry ==
  ASSUME TypeOK, Version > 0
  PROVE  /\ \A body \in Bodies, trashed \in BOOLEAN :
              [by |-> None, content |-> [body |-> body, linked |-> Row.linked,
                                         trashed |-> trashed]] \in Entry
         /\ [content |-> Unlinked(Row), by |-> None] \in Entry
         /\ ~Unlinked(Row).linked
<1>1. Row \in Content
  BY PublishedTypes DEF Row
<1> QED
  BY <1>1 DEF Entry, Content, Unlinked

LEMMA OtherWriteGrows ==
  ASSUME SyncInv, NEW body \in Bodies, NEW trashed \in BOOLEAN,
         OtherWrite(body, trashed)
  PROVE  /\ ServerStep /\ purged' = purged
         /\ \E entry \in Entry : /\ published' = Append(published, entry)
                                 /\ entry.by = None
                                 /\ clientGone' => ~entry.content.linked
<1> USE DEF SyncInv
<1> DEFINE entry == [by |-> None,
                     content |-> [body |-> body, linked |-> Row.linked,
                                  trashed |-> trashed]]
<1>1. /\ published' = Append(published, entry) /\ entry \in Entry
      /\ ~purged /\ UNCHANGED <<purged, clientGone>> /\ Version > 0
  BY OtherEntry DEF OtherWrite
<1>2. clientGone' => ~entry.content.linked
  BY <1>1 DEF ServerInv
<1>3. entry.by = None /\ clientGone' \in BOOLEAN
  BY <1>1 DEF TypeOK
<1> HIDE DEF entry
<1> QED
  BY <1>1, <1>2, <1>3, AppendGrows

LEMMA OtherWriteKeeps ==
  ASSUME SyncInv, NEW body \in Bodies, NEW trashed \in BOOLEAN,
         OtherWrite(body, trashed)
  PROVE  SyncInv'
BY OtherWriteGrows, SilentKeeps, SpendTypes DEF OtherWrite, SyncInv

\* The client goes with the link of the row, so that no row keeps it.
LEMMA DeleteClientGrows ==
  ASSUME SyncInv, DeleteClient
  PROVE  /\ ServerStep /\ purged' = purged
         /\ \/ UNCHANGED published
            \/ \E entry \in Entry : /\ published' = Append(published, entry)
                                    /\ entry.by = None /\ ~purged
                                    /\ ~entry.content.linked
<1> USE DEF SyncInv
<1>1. clientGone' = TRUE /\ purged' = purged
  BY DEF DeleteClient
<1>2. CASE Version > 0 /\ ~purged /\ Row.linked
  <2> DEFINE entry == [content |-> Unlinked(Row), by |-> None]
  <2>1. /\ published' = Append(published, entry) /\ entry \in Entry
        /\ entry.by = None /\ ~entry.content.linked
    BY <1>2, OtherEntry DEF DeleteClient
  <2> HIDE DEF entry
  <2> QED
    BY <1>1, <1>2, <2>1, AppendGrows
<1>3. CASE ~(Version > 0 /\ ~purged /\ Row.linked)
  <2>1. UNCHANGED published
    BY <1>3 DEF DeleteClient
  <2>2. ServerInv'
    BY <1>1, <1>3, <2>1 DEF ServerInv, Version, Row
  <2> QED
    BY <1>1, <2>1, <2>2 DEF TypeOK, ServerStep, Grows, Version
<1> QED
  BY <1>2, <1>3

LEMMA DeleteClientKeeps ==
  ASSUME SyncInv, DeleteClient
  PROVE  SyncInv'
BY DeleteClientGrows, SilentKeeps, SpendTypes DEF DeleteClient, SyncInv

LEMMA PurgeTrashKeeps ==
  ASSUME SyncInv, PurgeTrash
  PROVE  SyncInv'
<1>1. ops' \in 0..MaxOps
  BY DEF PurgeTrash, SyncInv, TypeOK
<1> QED
  BY <1>1, SilentKeeps, PurgeGrows DEF PurgeTrash, SyncInv

-----------------------------------------------------------------------------
(* The invariant.                                                          *)

LEMMA InitHolds == Init => SyncInv
<1> SUFFICES ASSUME Init
             PROVE  SyncInv
  OBVIOUS
<1>1. /\ Idle \in Run /\ Idle.phase = "idle"
      /\ Idle.pull = None /\ Idle.reply = None
  BY EnterTypes DEF Idle, Phases
<1>2. PICK n \in Nat, copy \in Copy \cup {None} :
        /\ published \in Seq(Entry)
        /\ local = [d \in Devices |-> copy]
        /\ seen = [d \in Devices |-> n]
        /\ copy # None => copy.base <= n /\ Named(copy)
  <2>1. CASE /\ published = <<>>
             /\ local = [d \in Devices |-> None]
             /\ seen = [d \in Devices |-> 0]
    <3>1. published \in Seq(Entry) /\ 0 \in Nat /\ None \in Copy \cup {None}
      BY <2>1
    <3> QED
      BY <2>1, <3>1
  <2>2. ASSUME NEW body \in Bodies, NEW content,
               NEW linked \in BOOLEAN,
               content = [body |-> body, linked |-> linked,
                          trashed |-> FALSE],
               published = <<[content |-> content, by |-> None]>>,
               local = [d \in Devices |-> SyncedCopy(1, content)],
               seen = [d \in Devices |-> 1]
        PROVE  \E n \in Nat, copy \in Copy \cup {None} :
                 /\ published \in Seq(Entry)
                 /\ local = [d \in Devices |-> copy]
                 /\ seen = [d \in Devices |-> n]
                 /\ copy # None => copy.base <= n /\ Named(copy)
    <3>1. content \in Content
      BY <2>2 DEF Content
    <3>2. /\ SyncedCopy(1, content) \in Copy
          /\ SyncedCopy(1, content).base = 1
          /\ SyncedCopy(1, content).content = content
      BY <3>1 DEF SyncedCopy, Copy
    <3>3. [content |-> content, by |-> None] \in Entry
      BY <3>1 DEF Entry
    <3>4. /\ published \in Seq(Entry) /\ Len(published) = 1
          /\ published[1] = [content |-> content, by |-> None]
      BY <2>2, <3>3
    <3>5. Named(SyncedCopy(1, content))
      BY <3>2, <3>4 DEF Named, Verbatim, Version
    <3> QED
      BY <2>2, <3>2, <3>4, <3>5
  <2> QED
    BY <2>1, <2>2 DEF Init
<1>3. /\ purged = FALSE /\ clientGone = FALSE /\ told = {}
      /\ requests = {} /\ ops = 0
      /\ queue = [d \in Devices |-> None]
      /\ conflict = [d \in Devices |-> None]
      /\ kept = [d \in Devices |-> {}]
      /\ sync = [d \in Devices |-> Idle]
  BY DEF Init
<1>4. TypeOK
  <2>1. 0 \in 0..MaxOps
    BY SyncAssumption
  <2>2. /\ local \in [Devices -> Copy \cup {None}]
        /\ seen \in [Devices -> Nat]
        /\ published \in Seq(Entry)
    BY <1>2
  <2>3. /\ sync \in [Devices -> Run]
        /\ queue \in [Devices -> Command \cup {None}]
        /\ conflict \in [Devices -> Card \cup {None}]
        /\ kept \in [Devices -> SUBSET Bodies]
    BY <1>1, <1>3
  <2> QED
    BY <1>3, <2>1, <2>2, <2>3 DEF TypeOK
<1>5. ASSUME NEW d \in Devices
      PROVE  DeviceInv(d)
  <2>1. /\ local[d] = copy /\ seen[d] = n
        /\ queue[d] = None /\ conflict[d] = None
        /\ sync[d] = Idle
    BY <1>2, <1>3
  <2>2. Truthful(d)
    BY <1>1, <1>2, <2>1 DEF Truthful
  <2>3. Sighted(d)
    BY <1>2, <1>3, <2>1 DEF Sighted
  <2>4. Orderly(d) /\ SentUnchanged(d)
    BY <1>1, <1>3, <2>1 DEF Orderly, SentUnchanged
  <2> QED
    BY <2>2, <2>3, <2>4 DEF DeviceInv
<1> QED
  BY <1>3, <1>4, <1>5 DEF SyncInv, ServerInv

LEMMA UserKeeps ==
  ASSUME SyncInv, NEW d \in Devices, User(d)
  PROVE  SyncInv'
BY CreateProjectKeeps, UserMutationKeeps, HardDeleteProjectKeeps,
   OpenConflictKeeps, ResolveConflictKeeps
DEF User

LEMMA SynchroniseKeeps ==
  ASSUME SyncInv, NEW d \in Devices, Synchronise(d)
  PROVE  SyncInv'
BY StartSyncKeeps, AnswerPullKeeps, ReconcileKeeps, BeginDeletionKeeps,
   AckTrashKeeps, AckRemoveKeeps, RemoveFailedKeeps, FinishRereadKeeps,
   AckPushKeeps, GiveUpKeeps
DEF Synchronise

LEMMA NextKeeps ==
  ASSUME SyncInv, [Next]_vars
  PROVE  SyncInv'
<1>1. CASE Next
  BY <1>1, UserKeeps, UnlinkDeletedKeeps, SynchroniseKeeps, HandlePushKeeps,
     HandleRemoveKeeps, OtherWriteKeeps, DeleteClientKeeps, PurgeTrashKeeps
  DEF Next
<1>2. CASE UNCHANGED vars
  BY <1>2 DEF vars, SyncInv, TypeOK, ServerInv, DeviceInv, Truthful, Sighted,
              Orderly, SentUnchanged, Asked, Served, Named, Verbatim,
              UnlinkedAhead, Version, Row
<1> QED
  BY <1>1, <1>2

(* On every device, at every moment: what it was told is what the server   *)
(* published, it has been shown every base it holds or has sent, its run   *)
(* and its requests agree, and an untouched copy is what it is pushing.    *)
(* On the server, the row does not link a client that is deleted.          *)
THEOREM SyncInvariant == Spec => []SyncInv
<1>1. SyncInv /\ [Next]_vars => SyncInv'
  BY NextKeeps
<1> QED
  BY <1>1, InitHolds, PTL DEF Spec

(* The state keeps its types, for any devices, bodies and bounds.          *)
THEOREM SyncTypeCorrect == Spec => []TypeOK
<1>1. SyncInv => TypeOK
  BY DEF SyncInv
<1> QED
  BY <1>1, SyncInvariant, PTL

(* A synced copy is the version of the server it names, to the letter, or  *)
(* without the link to a deleted client, and then the server has left that *)
(* version behind: for any devices, whatever the pass over the clients,    *)
(* the run of the projects and the deletion of the client interleave.      *)
THEOREM SyncedCopiesArePublished == Spec => []SyncedIsPublished
<1>1. SyncInv => SyncedIsPublished
  BY DEF SyncInv, DeviceInv, Truthful, Named, SyncedIsPublished
<1> QED
  BY <1>1, SyncInvariant, PTL

-----------------------------------------------------------------------------
(* What a step may not do.                                                 *)

LEMMA DevicesLeaveTheServer ==
  ASSUME NEW d \in Devices, User(d) \/ UnlinkDeleted(d) \/ Synchronise(d)
  PROVE  UNCHANGED server
<1>1. CASE User(d) \/ UnlinkDeleted(d)
  BY <1>1 DEF User, CreateProject, Edit, LinkProposal, SetProjectStatus,
    RestoreSnapshot, MoveToTrash, RestoreProject, Mutate, HardDeleteProject,
    OpenConflict, ResolveConflict, UnlinkDeleted
<1>2. CASE Synchronise(d)
  BY <1>2 DEF Synchronise, StartSync, AnswerPull, Reconcile, BeginDeletion,
    AckTrash, AckRemove, RemoveFailed, FinishReread, AckPush, GiveUp,
    Release, Recover, Send
<1> QED
  BY <1>1, <1>2

\* The server writes and purges only what the base of the request names.
LEMMA StepOverwritesNothingUnseen ==
  ASSUME SyncInv, Next
  PROVE  ~BlindWrite /\ ~BlindPurge
<1> USE DEF SyncInv
<1>1. Version \in Nat
  BY PublishedTypes
<1>2. \A r \in requests : r.from \in Devices /\ r.base <= seen[r.from]
                          /\ seen[r.from] \in Nat /\ r.base \in Nat
  BY DEF TypeOK, Request, DeviceInv, Sighted
<1>3. ASSUME UNCHANGED server
      PROVE  ~BlindWrite /\ ~BlindPurge
  BY <1>1, <1>3 DEF server, Version, BlindWrite, BlindPurge
<1>4. ASSUME NEW r \in requests, HandlePush(r)
      PROVE  ~BlindWrite /\ ~BlindPurge
  <2>1. CASE /\ ~purged /\ Current(r) /\ purged' = FALSE
             /\ published' = Append(published,
                               [content |-> r.content, by |-> r.from])
    <3>1. /\ r.from \in Devices /\ r.content \in Content /\ purged' = purged
      BY <1>4, <2>1, <1>2 DEF HandlePush, DeviceInv, Orderly, TypeOK
    <3>2. [content |-> r.content, by |-> r.from] \in Entry
      BY <3>1 DEF Entry
    <3>3. /\ Version' = Version + 1
          /\ published'[Version + 1] = [content |-> r.content, by |-> r.from]
      BY <2>1, <3>1, <3>2 DEF Version, TypeOK
    <3>4. ~(Version > seen[r.from])
      BY <1>1, <1>2, <2>1 DEF Current
    <3>5. published'[Version'].by = r.from
      BY <3>3
    <3> QED
      BY <3>1, <3>4, <3>5 DEF BlindWrite, BlindPurge
  <2> QED
    BY <1>3, <1>4, <2>1 DEF HandlePush, IsPurged
<1>5. ASSUME NEW r \in requests, HandleRemove(r)
      PROVE  ~BlindWrite /\ ~BlindPurge
  <2>1. CASE /\ ~purged /\ Removable(r) /\ UNCHANGED published
             /\ Reply(r, "deleted", 0, None)
    <3>1. requests \ requests' = {r}
      BY <2>1 DEF Reply
    <3>2. ~(Version > seen[r.from])
      BY <1>1, <1>2, <2>1 DEF Removable
    <3> QED
      BY <1>1, <2>1, <3>1, <3>2 DEF BlindWrite, BlindPurge, Version
  <2> QED
    BY <1>3, <1>5, <2>1 DEF HandleRemove
<1>6. ASSUME \/ UNCHANGED published
             \/ \E entry \in Entry : /\ published' = Append(published, entry)
                                     /\ entry.by = None,
             purged' = purged
      PROVE  ~BlindWrite /\ ~BlindPurge
  <2>1. CASE UNCHANGED published
    BY <1>1, <1>6, <2>1 DEF BlindWrite, BlindPurge, Version
  <2>2. ASSUME NEW entry \in Entry, entry.by = None,
               published' = Append(published, entry)
        PROVE  ~BlindWrite /\ ~BlindPurge
    <3>1. published'[Version'] = entry
      BY <2>2 DEF Version, TypeOK
    <3> QED
      BY <1>6, <2>2, <3>1 DEF BlindWrite, BlindPurge
  <2> QED
    BY <1>6, <2>1, <2>2
<1>7. CASE PurgeTrash
  BY <1>1, <1>7 DEF PurgeTrash, BlindWrite, BlindPurge, Version
<1>8. ASSUME NEW body \in Bodies, NEW trashed \in BOOLEAN,
             OtherWrite(body, trashed)
      PROVE  ~BlindWrite /\ ~BlindPurge
  BY <1>6, <1>8, OtherWriteGrows
<1>9. CASE DeleteClient
  BY <1>6, <1>9, DeleteClientGrows
<1> QED
  BY <1>3, <1>4, <1>5, <1>7, <1>8, <1>9, DevicesLeaveTheServer DEF Next

(* No push and no DELETE of a device replaces or purges a version it was   *)
(* not shown, however late it arrives: for any number of devices and of    *)
(* requests given up on.                                                   *)
THEOREM NobodyOverwritesBlindly == Spec => NoBlindOverwrite
<1>1. SyncInv /\ [Next]_vars => [~BlindWrite /\ ~BlindPurge]_vars
  BY StepOverwritesNothingUnseen
<1> QED
  BY <1>1, SyncInvariant, PTL DEF Spec, NoBlindOverwrite

-----------------------------------------------------------------------------
(* Work survives.                                                          *)

LEMMA StaysKeepsWork ==
  ASSUME TypeOK, NEW d \in Devices,
         local'[d] = local[d], queue'[d] = queue[d]
  PROVE  KeepsWork(d)
<1>1. /\ local[d] # None => local[d].content.body \in Bodies
      /\ queue[d] # None => queue[d].body \in Bodies
  BY DeviceTypes DEF Copy, Content, Command
<1> QED
  BY <1>1 DEF KeepsWork, Survives, DeviceHolds

LEMMA OthersStay ==
  ASSUME TypeOK, NEW e \in Devices, NEW d \in Devices \ {e},
         User(e) \/ UnlinkDeleted(e) \/ Synchronise(e)
  PROVE  local'[d] = local[d] /\ queue'[d] = queue[d]
<1>1. CASE User(e) \/ UnlinkDeleted(e)
  BY <1>1 DEF TypeOK, User, CreateProject, Edit, LinkProposal,
    SetProjectStatus, RestoreSnapshot, MoveToTrash, RestoreProject, Mutate,
    HardDeleteProject, OpenConflict, ResolveConflict, UnlinkDeleted
<1>2. CASE Synchronise(e)
  BY <1>2 DEF TypeOK, device, Synchronise, StartSync, AnswerPull, Reconcile,
    BeginDeletion, AckTrash, AckRemove, RemoveFailed, FinishReread, AckPush,
    GiveUp, Release, Recover, Send
<1> QED
  BY <1>1, <1>2

\* The user replaces a body only by newer work or with a checkpoint of it.
LEMMA UserKeepsWork ==
  ASSUME SyncInv, NEW d \in Devices, User(d)
  PROVE  KeepsWork(d)
<1> USE DEF SyncInv
<1>1. /\ local[d] # None => /\ local[d] \in Copy
                            /\ local[d].content.body \in Bodies
      /\ queue[d] # None => queue[d].body \in Bodies /\ local[d] = None
  BY DeviceTypes DEF Copy, Content, Command, DeviceInv, Orderly
<1>2. ASSUME NEW content \in Content, local[d] # None, Mutate(d, content)
      PROVE  KeepsWork(d)
  <2>1. local'[d] = [status |-> "pending", content |-> content,
                     base |-> local[d].base]
    BY <1>2 DEF Mutate, Mutated, TypeOK
  <2>2. local'[d] \in Copy
    BY <1>1, <1>2, <2>1 DEF Copy
  <2>3. ops' # ops
    BY <1>2 DEF Mutate, Spend, TypeOK
  <2>4. UserReplaces(d)
    BY <2>1, <2>2, <2>3, NoneAssumption DEF UserReplaces
  <2> QED
    BY <1>1, <1>2, <2>4 DEF KeepsWork
<1>3. ASSUME NEW body \in Bodies, NEW linked \in BOOLEAN,
             CreateProject(d, body, linked)
      PROVE  KeepsWork(d)
  BY <1>3 DEF CreateProject, Unused, KeepsWork
<1>4. ASSUME local[d] # None
      PROVE  /\ \A body \in Bodies :
                  [local[d].content EXCEPT !.body = body] \in Content
             /\ \A trashed \in BOOLEAN :
                  [local[d].content EXCEPT !.trashed = trashed] \in Content
             /\ \A linked \in BOOLEAN :
                  [local[d].content EXCEPT !.linked = linked] \in Content
  BY <1>1, <1>4 DEF Copy, Content
<1>5. ASSUME NEW body \in Bodies,
             \/ Edit(d, body)
             \/ SetProjectStatus(d, body)
             \/ RestoreSnapshot(d, body)
      PROVE  KeepsWork(d)
  BY <1>2, <1>4, <1>5 DEF Edit, SetProjectStatus, RestoreSnapshot
<1>6. CASE \/ MoveToTrash(d) \/ RestoreProject(d)
           \/ \E linked \in BOOLEAN : LinkProposal(d, linked)
  BY <1>2, <1>4, <1>6 DEF MoveToTrash, RestoreProject, LinkProposal
<1>7. CASE HardDeleteProject(d)
  <2>1. /\ local[d] # None /\ queue'[d] = Deletion(local[d])
    BY <1>7 DEF HardDeleteProject, TypeOK
  <2>2. /\ Deletion(local[d]) \in Command
        /\ Deletion(local[d]).body = local[d].content.body
    BY <1>1, <2>1 DEF Deletion, Command, Copy, Content
  <2>3. queue'[d] # None
    BY <2>1, <2>2, NoneAssumption
  <2> QED
    BY <1>1, <2>1, <2>2, <2>3 DEF KeepsWork, Survives, DeviceHolds
<1>8. CASE OpenConflict(d)
  BY <1>8, StaysKeepsWork DEF OpenConflict
<1>9. ASSUME NEW resolution, ResolveConflict(d, resolution)
      PROVE  KeepsWork(d)
  <2>1. local[d] # None /\ local[d].content.body \in kept'[d]
    BY <1>9 DEF ResolveConflict, SnapshotBefore, TypeOK
  <2> QED
    BY <1>1, <2>1 DEF KeepsWork, Survives, DeviceHolds
<1> QED
  BY <1>3, <1>5, <1>6, <1>7, <1>8, <1>9 DEF User

\* The pass over the clients takes the link and leaves the body.
LEMMA UnlinkDeletedKeepsWork ==
  ASSUME SyncInv, NEW d \in Devices, UnlinkDeleted(d)
  PROVE  KeepsWork(d)
<1> USE DEF SyncInv
<1>1. queue'[d] = queue[d] /\ clientGone
  BY DEF UnlinkDeleted
<1>2. CASE LinkedCopy(d)
  <2>1. /\ local[d] # None /\ local[d] \in Copy /\ local[d].content.linked
        /\ queue[d] = None
        /\ local'[d] = LinkDropped(local[d])
    BY <1>2, DeviceTypes
    DEF LinkedCopy, UnlinkDeleted, TypeOK, DeviceInv, Orderly
  <2>2. /\ local'[d] # None
        /\ local'[d].content.body = local[d].content.body
        /\ local[d].content.body \in Bodies
    BY <1>1, <2>1, LinkDroppedFacts, NoneAssumption DEF Copy, Content
  <2> QED
    BY <2>1, <2>2 DEF KeepsWork, Survives, DeviceHolds
<1>3. CASE ~LinkedCopy(d)
  BY <1>1, <1>3, StaysKeepsWork DEF UnlinkDeleted
<1> QED
  BY <1>2, <1>3

LEMMA RecoverKeepsWork ==
  ASSUME SyncInv, NEW d \in Devices, NEW version, NEW content,
         Recover(d, version, content), queue[d] # None
  PROVE  KeepsWork(d)
<1>1. local[d] = None /\ queue[d] \in Command /\ queue[d].body \in Bodies
  BY DeviceTypes DEF SyncInv, DeviceInv, Orderly, Command
<1> DEFINE copy == [status |-> "conflict", base |-> queue[d].base,
                    content |-> InTrash(queue[d])]
<1>2. local'[d] = copy
  BY DEF Recover, SyncInv, TypeOK
<1>3. copy \in Copy /\ copy.content.body = queue[d].body
  BY <1>1 DEF Copy, Content, Command, InTrash
<1> HIDE DEF copy
<1>4. local'[d] # None
  BY <1>2, <1>3, NoneAssumption
<1> QED
  BY <1>1, <1>2, <1>3, <1>4 DEF KeepsWork, Survives, DeviceHolds

\* Sending a command keeps its body in the queue.
LEMMA SendKeepsWork ==
  ASSUME SyncInv, NEW d \in Devices, NEW phase, NEW request,
         NEW command \in Command, Send(d, phase, request, command),
         queue[d] # None, command.body = queue[d].body
  PROVE  KeepsWork(d)
<1>1. local[d] = None /\ queue[d].body \in Bodies
  BY DeviceTypes DEF SyncInv, DeviceInv, Orderly, Command
<1>2. queue'[d] = command /\ command # None
  BY NoneAssumption DEF Send, SyncInv, TypeOK
<1> QED
  BY <1>1, <1>2 DEF KeepsWork, Survives, DeviceHolds

\* A queue gives its command up when the project is gone.
LEMMA ReleaseKeepsWork ==
  ASSUME SyncInv, NEW d \in Devices, Release(d), queue[d] # None, purged
  PROVE  KeepsWork(d)
BY DEF SyncInv, DeviceInv, Orderly, Release, server, KeepsWork

LEMMA ReconcileKeepsWork ==
  ASSUME SyncInv, NEW d \in Devices, Reconcile(d)
  PROVE  KeepsWork(d)
<1> USE DEF SyncInv
<1> DEFINE answer == sync[d].pull
           copy == Reconciled(local[d], answer)
<1>1. /\ local'[d] = copy /\ queue[d] = None
      /\ answer # None /\ answer \in Answer
  BY DeviceTypes DEF Reconcile, PullArrived, TypeOK
<1>2. CASE local[d] # None /\ Unconfirmed(local[d])
  <2>1. local[d] \in Copy /\ local[d].content.body \in Bodies
    BY <1>2, DeviceTypes DEF Copy, Content
  <2>2. \/ copy = local[d]
        \/ copy = [local[d] EXCEPT !.status = "conflict"]
        \/ /\ copy = SyncedCopy(answer.version, answer.content)
           /\ answer.content = local[d].content
           /\ answer.version # 0
    BY <1>1, <1>2 DEF Reconciled, AfterPurge, AfterRead, Answer
  <2>3. copy \in Copy /\ copy.content = local[d].content
    BY <1>1, <2>1, <2>2 DEF Copy, SyncedCopy, Answer
  <2>4. copy # None
    BY <2>3, NoneAssumption
  <2> QED
    BY <1>1, <2>1, <2>3, <2>4 DEF KeepsWork, Survives, DeviceHolds
<1>3. CASE local[d] = None \/ ~Unconfirmed(local[d])
  BY <1>1, <1>3 DEF KeepsWork
<1> QED
  BY <1>2, <1>3

LEMMA AckPushKeepsWork ==
  ASSUME SyncInv, NEW d \in Devices, AckPush(d)
  PROVE  KeepsWork(d)
<1> USE DEF SyncInv
<1> DEFINE outcome == sync[d].reply
           saved == outcome.status = "saved"
<1>1. /\ outcome # None /\ outcome \in Outcome /\ outcome.version \in Nat
      /\ sync[d].phase = "pushing"
      /\ local[d] # None => local[d] \in Copy /\ queue[d] = None
      /\ queue[d] # None => queue[d] \in Command
  BY DeviceTypes DEF AckPush, Outcome, DeviceInv, Orderly
<1>2. CASE local[d] # None
  <2>1. local[d].content \in Content /\ local[d].content.body \in Bodies
    BY <1>1, <1>2 DEF Copy, Content
  <2>2. \/ local'[d] = [local[d] EXCEPT !.status = "pending",
                                        !.base = outcome.version]
        \/ /\ local'[d] = SyncedCopy(outcome.version, outcome.content)
           /\ saved /\ ~sync[d].touched
        \/ local'[d] = [local[d] EXCEPT !.status = "conflict"]
    BY <1>2 DEF AckPush, Acknowledged, TypeOK
  <2>3. saved /\ ~sync[d].touched => outcome.content = local[d].content
    BY <1>1, <1>2 DEF DeviceInv, SentUnchanged
  <2>4. local'[d] \in Copy /\ local'[d].content = local[d].content
    <3>1. local[d] \in Copy
      BY <1>1, <1>2
    <3>2. CASE local'[d] = [local[d] EXCEPT !.status = "pending",
                                            !.base = outcome.version]
      BY <1>1, <3>1, <3>2 DEF Copy
    <3>3. CASE /\ local'[d] = SyncedCopy(outcome.version, outcome.content)
               /\ saved /\ ~sync[d].touched
      BY <1>1, <2>1, <2>3, <3>3 DEF Copy, SyncedCopy
    <3>4. CASE local'[d] = [local[d] EXCEPT !.status = "conflict"]
      BY <3>1, <3>4 DEF Copy
    <3> QED
      BY <2>2, <3>2, <3>3, <3>4
  <2>5. local'[d] # None
    BY <2>4, NoneAssumption
  <2> QED
    BY <1>1, <1>2, <2>1, <2>4, <2>5 DEF KeepsWork, Survives, DeviceHolds
<1>3. CASE local[d] = None /\ queue[d] # None
  <2>1. queue[d].body \in Bodies
    BY <1>1, <1>3 DEF Command
  <2>2. queue'[d] = queue[d] \/ queue'[d] = Confirmed(queue[d], outcome)
    BY <1>3 DEF AckPush, TypeOK
  <2>3. /\ Confirmed(queue[d], outcome) \in Command
        /\ Confirmed(queue[d], outcome).body = queue[d].body
    BY <1>1, <1>3 DEF Confirmed, Command
  <2>4. queue'[d] # None /\ queue'[d].body = queue[d].body
    BY <1>3, <2>2, <2>3, NoneAssumption
  <2> QED
    BY <1>3, <2>1, <2>4 DEF KeepsWork, Survives, DeviceHolds
<1>4. CASE local[d] = None /\ queue[d] = None
  BY <1>4 DEF KeepsWork
<1> QED
  BY <1>2, <1>3, <1>4

LEMMA DeletionKeepsWork ==
  ASSUME SyncInv, NEW d \in Devices,
         \/ BeginDeletion(d) \/ AckTrash(d) \/ AckRemove(d) \/ FinishReread(d)
  PROVE  KeepsWork(d)
<1> USE DEF SyncInv
<1>1. queue[d] # None /\ queue[d] \in Command
  BY DeviceTypes DEF BeginDeletion, AckTrash, AckRemove, FinishReread,
                     PullArrived, DeviceInv, Orderly
<1>2. /\ sync[d].pull # None => (sync[d].pull.purged => purged)
      /\ sync[d].reply # None => (sync[d].reply.status = "deleted" => purged)
  BY DEF DeviceInv, Truthful
<1>3. CASE BeginDeletion(d)
  BY <1>1, <1>2, <1>3, ReleaseKeepsWork, RecoverKeepsWork, SendKeepsWork
  DEF BeginDeletion, PullArrived
<1>4. CASE AckTrash(d)
  <2>1. CASE sync[d].reply # None /\ Release(d)
               /\ sync[d].reply.status = "deleted"
    BY <1>1, <1>2, <2>1, ReleaseKeepsWork
  <2>2. CASE Recover(d, sync[d].reply.version, sync[d].reply.content)
    BY <1>1, <2>2, RecoverKeepsWork
  <2>3. ASSUME NEW command, command = Confirmed(queue[d], sync[d].reply),
               sync[d].reply # None,
               Send(d, "removing", AskRemove(d, command), command)
        PROVE  KeepsWork(d)
    <3>1. sync[d].reply.version \in Nat
      BY <2>3, DeviceTypes DEF Outcome
    <3>2. command \in Command /\ command.body = queue[d].body
      BY <1>1, <2>3, <3>1 DEF Confirmed, Command
    <3> QED
      BY <1>1, <2>3, <3>2, SendKeepsWork
  <2> QED
    BY <1>4, <2>1, <2>2, <2>3 DEF AckTrash
<1>5. CASE AckRemove(d)
  BY <1>1, <1>2, <1>5, ReleaseKeepsWork DEF AckRemove
<1>6. CASE FinishReread(d)
  BY <1>1, <1>2, <1>6, ReleaseKeepsWork, RecoverKeepsWork, StaysKeepsWork
  DEF FinishReread, PullArrived, device
<1> QED
  BY <1>3, <1>4, <1>5, <1>6

LEMMA SynchroniseKeepsWork ==
  ASSUME SyncInv, NEW d \in Devices, Synchronise(d)
  PROVE  KeepsWork(d)
<1>1. CASE StartSync(d) \/ AnswerPull(d) \/ RemoveFailed(d) \/ GiveUp(d)
  BY <1>1, StaysKeepsWork
  DEF SyncInv, StartSync, AnswerPull, RemoveFailed, GiveUp, device
<1> QED
  BY <1>1, ReconcileKeepsWork, AckPushKeepsWork, DeletionKeepsWork
  DEF Synchronise

LEMMA StepKeepsWork ==
  ASSUME SyncInv, Next, NEW d \in Devices
  PROVE  KeepsWork(d)
<1>1. CASE User(d) \/ UnlinkDeleted(d) \/ Synchronise(d)
  BY <1>1, UserKeepsWork, UnlinkDeletedKeepsWork, SynchroniseKeepsWork
<1>2. ASSUME NEW e \in Devices \ {d},
             User(e) \/ UnlinkDeleted(e) \/ Synchronise(e)
      PROVE  KeepsWork(d)
  BY <1>2, OthersStay, StaysKeepsWork DEF SyncInv
<1>3. CASE \/ \E r \in requests : HandlePush(r) \/ HandleRemove(r)
           \/ \E body \in Bodies, trashed \in BOOLEAN :
                OtherWrite(body, trashed)
           \/ DeleteClient \/ PurgeTrash
  BY <1>3, StaysKeepsWork DEF SyncInv, HandlePush, HandleRemove, OtherWrite,
                              DeleteClient, PurgeTrash, Reply, device
<1> QED
  BY <1>1, <1>2, <1>3 DEF Next

(* No step of any device or of the server loses a body the server has not  *)
(* confirmed, for any number of devices: it stays in the copy, the queue,  *)
(* the history or on the server, unless the user replaced it or the        *)
(* project whose deletion was asked for is gone.                           *)
THEOREM WorkSurvives == Spec => WorkIsNeverLost
<1>1. SyncInv /\ [Next]_vars => [\A d \in Devices : KeepsWork(d)]_vars
  BY StepKeepsWork
<1> QED
  BY <1>1, SyncInvariant, PTL DEF Spec, WorkIsNeverLost

-----------------------------------------------------------------------------
(* Refinement.                                                             *)

\* An entry of the log is a write of the one document.
LEMMA AppendIsWritten ==
  ASSUME TypeOK, NEW entry \in Entry,
         published' = Append(published, entry), ~purged, purged' = purged
  PROVE  Docs!DocsNext
<1>1. /\ Version \in Nat /\ Version' = Version + 1
      /\ published'[Version'] = entry
  BY DEF Version, TypeOK
<1>2. /\ Row' = entry.content
      /\ Row'.body \in Bodies /\ Row'.linked \in BOOLEAN
      /\ Row'.trashed \in BOOLEAN
  BY <1>1 DEF Row, Entry, Content
<1> QED
  BY <1>1, <1>2 DEF Docs!DocsNext, Docs!Written, Docs!Published

LEMMA PurgeIsPurged ==
  ASSUME TypeOK, Version > 0, ~purged, Row.trashed, purged'
  PROVE  Docs!DocsNext
BY PublishedTypes DEF Docs!DocsNext, Docs!Purged

LEMMA SameServerIsStutter ==
  ASSUME UNCHANGED server
  PROVE  UNCHANGED Docs!docsVars
BY DEF server, Docs!docsVars, Version, Row

LEMMA StepServesDocs ==
  ASSUME SyncInv, [Next]_vars
  PROVE  [Docs!DocsNext]_(Docs!docsVars)
<1> USE DEF SyncInv
<1>1. CASE UNCHANGED server
  BY <1>1, SameServerIsStutter
<1>2. ASSUME NEW d \in Devices,
             User(d) \/ UnlinkDeleted(d) \/ Synchronise(d)
      PROVE  [Docs!DocsNext]_(Docs!docsVars)
  BY <1>1, <1>2, DevicesLeaveTheServer
<1>3. ASSUME NEW r \in requests, HandlePush(r)
      PROVE  [Docs!DocsNext]_(Docs!docsVars)
  <2>1. CASE /\ ~purged /\ purged' = FALSE
             /\ published' = Append(published,
                               [content |-> r.content, by |-> r.from])
    <3>1. purged' = purged /\ [content |-> r.content, by |-> r.from] \in Entry
      BY <1>3, <2>1 DEF HandlePush, DeviceInv, Orderly, TypeOK, Request, Entry
    <3> QED
      BY <2>1, <3>1, AppendIsWritten
  <2> QED
    BY <1>1, <1>3, <2>1 DEF HandlePush, IsPurged
<1>4. ASSUME NEW r \in requests, HandleRemove(r)
      PROVE  [Docs!DocsNext]_(Docs!docsVars)
  BY <1>1, <1>4, PurgeIsPurged DEF HandleRemove, Removable, server
<1>5. ASSUME NEW body \in Bodies, NEW trashed \in BOOLEAN,
             OtherWrite(body, trashed)
      PROVE  [Docs!DocsNext]_(Docs!docsVars)
  BY <1>5, OtherWriteGrows, AppendIsWritten DEF OtherWrite
<1>6. CASE PurgeTrash
  BY <1>6, PurgeIsPurged DEF PurgeTrash
<1>7. CASE UNCHANGED vars
  BY <1>1, <1>7 DEF vars, server
<1>8. CASE DeleteClient
  <2>1. CASE UNCHANGED published
    BY <1>8, <2>1, DeleteClientGrows
    DEF Docs!docsVars, Version, Row
  <2>2. CASE ~UNCHANGED published
    BY <1>8, <2>2, DeleteClientGrows, AppendIsWritten
  <2> QED
    BY <2>1, <2>2
<1> QED
  BY <1>2, <1>3, <1>4, <1>5, <1>6, <1>7, <1>8 DEF Next

(* The devices with their server implement the versioned documents, for    *)
(* any number of devices, of retries and of late requests.                 *)
THEOREM SyncServesVersionedDocs == Spec => ServesVersionedDocs
<1>1. SyncInv /\ Init => Docs!DocsInit
  <2> SUFFICES ASSUME SyncInv, Init
               PROVE  Docs!DocsInit
    OBVIOUS
  <2>1. Version # 0 => /\ Version \in Nat \ {0}
                       /\ Row.body \in Bodies /\ Row.linked \in BOOLEAN
                       /\ Row.trashed \in BOOLEAN
    BY PublishedTypes DEF SyncInv, Row, Content
  <2> QED
    BY <2>1 DEF Init, Docs!DocsInit, Docs!Published
<1>2. SyncInv /\ [Next]_vars => [Docs!DocsNext]_(Docs!docsVars)
  BY StepServesDocs
<1> QED
  BY <1>1, <1>2, InitHolds, SyncInvariant, PTL
  DEF Spec, ServesVersionedDocs, Docs!DocsSpec
=============================================================================
