------------------------ MODULE DirectorySyncProofs ------------------------
(***************************************************************************)
(* What holds of a shared directory for any devices, users and bodies, and *)
(* in every circumstance a behaviour may be in.                            *)
(*                                                                         *)
(* The invariant speaks of each device alone (DeviceInv): what it was told *)
(* is what the server published, the bases it holds were shown on it, its  *)
(* pass, its changes and its requests agree.  A step of a device leaves    *)
(* the server and the other devices alone (LocalStep); a step of the       *)
(* server adds to its log and answers one device (ServerStep).             *)
(***************************************************************************)
EXTENDS DirectorySync, TLAPS

\* The server published this card, and showed it to its user.
Served(card) ==
  card.version \in 1..Version /\ published[card.version].content = card.content

ShownTo(card, u) == Served(card) /\ (card.content.private => Creator = u)

(* What a device was told is what the server published, and what a conflict *)
(* shows its owner was shown to that user.                                  *)
Truthful(d) ==
  /\ pass[d].listed # None =>
       /\ pass[d].listed.gone => deleted
       /\ pass[d].listed.record # None => ShownTo(pass[d].listed.record, user[d])
  /\ pass[d].reply # None =>
       /\ pass[d].reply.status \in {"saved", "conflict"} => pass[d].reply.card # None
       /\ pass[d].reply.card # None => ShownTo(pass[d].reply.card, user[d])
       /\ pass[d].reply.status = "done" => deleted
  /\ (change[d] # None /\ change[d].server # None) =>
       /\ Served(change[d].server)
       /\ change[d].owner # None => ShownTo(change[d].server, change[d].owner)

\* A copy without a pending change is what the server published.
CleanCopy(d) ==
  (copy[d] \notin {None, shelf[d]} /\ change[d] = None /\ copy[d].base > 0) =>
    Served([version |-> copy[d].base, content |-> copy[d].content])

\* Every base a device holds or has sent was shown on it.
Sighted(d) ==
  /\ copy[d] # None => copy[d].base <= seen[d]
  /\ shelf[d] # None => shelf[d].base <= seen[d]
  /\ change[d] # None =>
       /\ change[d].base <= seen[d]
       /\ change[d].server # None => change[d].server.version <= seen[d]
  /\ command[d] # None => command[d].base <= seen[d]
  /\ pass[d].command # None => pass[d].command.base <= seen[d]
  /\ pass[d].change # None => pass[d].change.base <= seen[d]
  /\ \A r \in requests : r.from = d => r.base <= seen[d]
  /\ seen[d] <= Version

\* The loop works on a change of the user's that awaits no decision.
Taken(d) ==
  LET taken == pass[d].change IN
  taken # None /\ taken.server = None /\ ~taken.gone /\ Own(d, taken.owner)

\* What the phase of a pass says of its other parts.
PassShape(d) ==
  /\ pass[d].phase # "idle" => user[d] # None
  /\ pass[d].phase \notin {"idle", "listing"} => pass[d].listed # None
  /\ pass[d].reply # None => pass[d].phase \in {"removing", "putting"}
  /\ pass[d].phase = "removing" => pass[d].command # None
  /\ (pass[d].phase \in {"deleting", "removing"} /\ pass[d].command # None)
       => command[d] # None
  /\ pass[d].phase = "putting" => Taken(d)

\* Nobody is signed in: there is nothing of anybody's.
OutOfUse(d) ==
  user[d] = None =>
    copy[d] = None /\ change[d] = None /\ command[d] = None /\ shelf[d] = None

(* While the loop works on a change nobody but its user touches the entry: *)
(* it goes with the record, into the queue, or awaits no decision still.   *)
InHand(d) ==
  pass[d].phase \in {"updating", "putting"} =>
    /\ ~pass[d].touched => change[d] = pass[d].change
    /\ Taken(d) =>
         IF change[d] = None THEN copy[d] = None /\ command[d] # None
         ELSE change[d].server = None /\ ~change[d].gone /\ Own(d, change[d].owner)

\* A request is answered in the phase that sent it.
Asking(d) ==
  /\ \A r \in requests : r.from = d =>
       /\ r.kind = "put" => r.content # None
       /\ r.kind = "delete" => Version > 0
       /\ r.awaited =>
            /\ pass[d].reply = None /\ r.user = user[d]
            /\ pass[d].phase = IF r.kind = "put" THEN "putting" ELSE "removing"
  /\ \A r, s \in requests :
       (r.from = d /\ s.from = d /\ r.awaited /\ s.awaited) => r = s

(* The PUT under way carries the copy, if it was not edited since; once    *)
(* saved, nothing the device sent before can be written after it.          *)
Sent(d) ==
  LET p == pass[d] IN
  p.phase = "putting" =>
    /\ \A r \in requests : (r.from = d /\ r.awaited) =>
         /\ r.base = p.change.base
         /\ ~p.touched => copy[d] # None /\ r.content = copy[d].content
    /\ (p.reply # None /\ p.reply.status = "saved") =>
         /\ p.change.base < p.reply.card.version
         /\ ~p.touched => copy[d] # None /\ p.reply.card.content = copy[d].content
         /\ \A r \in requests : r.from = d => r.base < p.reply.card.version
         /\ \A w \in p.reply.card.version + 1 .. Version : published[w].from # d

(* The devices hide no client, so the server refuses them none; what a     *)
(* list does not show, nobody has published.                               *)
ClientsAreOpen ==
  Kind = "client" =>
    /\ \A v \in 1..Version : ~published[v].content.private
    /\ \A r \in requests : r.content # None => ~r.content.private

OpenClient(d) ==
  Kind = "client" =>
    /\ copy[d] # None => ~copy[d].content.private
    /\ shelf[d] # None => ~shelf[d].content.private
    /\ (pass[d].reply # None /\ pass[d].reply.status = "absent") => pass[d].phase = "putting"
    /\ ( /\ pass[d].phase \in {"listing", "deleting"} /\ pass[d].listed # None
         /\ pass[d].listed.record = None /\ ~pass[d].listed.gone) => seen[d] = 0

DeviceInv(d) ==
  /\ Truthful(d) /\ CleanCopy(d) /\ Sighted(d) /\ PassShape(d) /\ OutOfUse(d)
  /\ InHand(d) /\ Asking(d) /\ Sent(d) /\ OpenClient(d)

DirectoryIInv ==
  DirectoryTypeOK /\ ClientsAreOpen /\ \A d \in Devices : DeviceInv(d)

-----------------------------------------------------------------------------
(* What a step leaves alone.                                               *)

\* The device's own state, and its requests, stay.
Still(e) ==
  /\ user'[e] = user[e] /\ copy'[e] = copy[e] /\ change'[e] = change[e]
  /\ command'[e] = command[e] /\ shelf'[e] = shelf[e] /\ pass'[e] = pass[e]
  /\ seen'[e] = seen[e]
  /\ \A r \in requests \cup requests' :
       r.from = e => r \in requests /\ r \in requests'

\* The log of the server only grows.
Grows ==
  /\ Version \in Nat /\ Version' \in Nat /\ Version <= Version'
  /\ \A v \in 1..Version : published'[v] = published[v]
  /\ deleted => deleted'

LEMMA ServedStays ==
  ASSUME Grows, NEW card, Served(card)
  PROVE  /\ card.version \in 1..Version' /\ published'[card.version].content = card.content
         /\ Creator' = Creator
BY DEF Grows, Served, Creator

LEMMA ShownStays ==
  ASSUME Grows, NEW card, NEW u, ShownTo(card, u)
  PROVE  /\ card.version \in 1..Version' /\ published'[card.version].content = card.content
         /\ card.content.private => Creator' = u
BY ServedStays DEF ShownTo

LEMMA Bystander ==
  ASSUME UNCHANGED setting, Grows, NEW e \in Devices, Still(e), DeviceInv(e), seen[e] \in Nat,
         \A w \in Version + 1 .. Version' : published'[w].from # e
  PROVE  DeviceInv(e)'
<1> USE DEF Still
<1>1. Truthful(e)'
  <2>1. Truthful(e)
    BY DEF DeviceInv
  <2>2. ASSUME NEW card, NEW u, ShownTo(card, u)
        PROVE  /\ card.version \in 1..Version' /\ published'[card.version].content = card.content
               /\ card.content.private => Creator' = u
    BY <2>2, ShownStays
  <2>3. ASSUME NEW card, Served(card)
        PROVE  card.version \in 1..Version' /\ published'[card.version].content = card.content
    BY <2>3, ServedStays
  <2>4. deleted => deleted'
    BY DEF Grows
  <2>5. ASSUME pass[e].listed # None
        PROVE  /\ pass[e].listed.gone => deleted'
               /\ pass[e].listed.record # None => ShownTo(pass[e].listed.record, user[e])'
    <3>1. pass[e].listed.gone => deleted
      BY <2>1, <2>5 DEF Truthful
    <3>2. pass[e].listed.record # None => ShownTo(pass[e].listed.record, user[e])
      BY <2>1, <2>5 DEF Truthful
    <3>. QED BY <3>1, <3>2, <2>2, <2>4 DEF ShownTo, Served
  <2>6. ASSUME pass[e].reply # None
        PROVE  /\ pass[e].reply.card # None => ShownTo(pass[e].reply.card, user[e])'
               /\ pass[e].reply.status = "done" => deleted'
    <3>1. pass[e].reply.status = "done" => deleted
      BY <2>1, <2>6 DEF Truthful
    <3>2. pass[e].reply.card # None => ShownTo(pass[e].reply.card, user[e])
      BY <2>1, <2>6 DEF Truthful
    <3>. QED BY <3>1, <3>2, <2>2, <2>4 DEF ShownTo, Served
  <2>7. ASSUME change[e] # None, change[e].server # None
        PROVE  /\ Served(change[e].server)'
               /\ change[e].owner # None => ShownTo(change[e].server, change[e].owner)'
    <3>1. /\ Served(change[e].server)
          /\ change[e].owner # None => ShownTo(change[e].server, change[e].owner)
      BY <2>1, <2>7 DEF Truthful
    <3>. QED BY <3>1, <2>2, <2>3 DEF ShownTo, Served
  <2>. QED BY <2>1, <2>5, <2>6, <2>7 DEF Truthful
<1>2. CleanCopy(e)'
  <2>1. CleanCopy(e)
    BY DEF DeviceInv
  <2>. QED BY <2>1, ServedStays DEF CleanCopy, Served
<1>3. Sighted(e)'
  <2>1. Sighted(e) /\ Version <= Version' /\ Version \in Nat /\ Version' \in Nat
    BY DEF DeviceInv, Grows
  <2>. QED BY <2>1 DEF Sighted
<1>4. PassShape(e)' /\ OutOfUse(e)' /\ InHand(e)'
  BY DEF DeviceInv, PassShape, OutOfUse, InHand, Taken, Own
<1>5. Asking(e)'
  BY DEF DeviceInv, Asking, Grows
<1>6. Sent(e)'
  <2>1. Sent(e)
    BY DEF DeviceInv
  <2>2. ASSUME pass[e].phase = "putting", pass[e].reply # None, pass[e].reply.status = "saved"
        PROVE  \A w \in pass[e].reply.card.version + 1 .. Version' : published'[w].from # e
    <3>1. pass[e].reply.card.version \in 1..Version
      BY <2>2 DEF DeviceInv, Truthful, ShownTo, Served
    <3>. QED BY <3>1, <2>1, <2>2 DEF Sent, Grows
  <2>. QED BY <2>1, <2>2 DEF Sent
<1>7. OpenClient(e)'
  BY DEF DeviceInv, OpenClient, Kind
<1>. QED BY <1>1, <1>2, <1>3, <1>4, <1>5, <1>6, <1>7 DEF DeviceInv

LEMMA ServerStaysGrows ==
  ASSUME DirectoryTypeOK, UNCHANGED server
  PROVE  Grows
BY DEF Grows, server, Version, DirectoryTypeOK

(* A step of one device: its own invariant is what is left to show. *)
LEMMA LocalStep ==
  ASSUME DirectoryIInv, UNCHANGED <<setting, server>>, NEW d \in Devices,
         \A e \in Devices \ {d} : Still(e),
         DirectoryTypeOK', ClientsAreOpen', DeviceInv(d)'
  PROVE  DirectoryIInv'
<1>1. Grows /\ Version' = Version
  BY ServerStaysGrows DEF DirectoryIInv, server, Version
<1>2. ASSUME NEW e \in Devices \ {d}
      PROVE  DeviceInv(e)'
  <2>1. DeviceInv(e) /\ seen[e] \in Nat /\ Version \in Nat
    BY DEF DirectoryIInv, DirectoryTypeOK, Version
  <2>2. \A w \in Version + 1 .. Version' : published'[w].from # e
    BY <1>1, <2>1
  <2>. QED BY <1>1, <2>1, <2>2, Bystander
<1>. QED BY <1>2 DEF DirectoryIInv

(* A step that leaves every device as it was. *)
LEMMA QuietStep ==
  ASSUME DirectoryIInv,
         UNCHANGED <<setting, server, user, copy, change, command, shelf, pass, seen, requests>>,
         DirectoryTypeOK'
  PROVE  DirectoryIInv'
<1>1. Grows /\ Version' = Version /\ Version \in Nat
  BY ServerStaysGrows DEF DirectoryIInv, server, Version, DirectoryTypeOK
<1>2. ASSUME NEW e \in Devices
      PROVE  DeviceInv(e)'
  <2>1. DeviceInv(e) /\ seen[e] \in Nat /\ Still(e)
    BY DEF DirectoryIInv, DirectoryTypeOK, Still
  <2>2. \A w \in Version + 1 .. Version' : published'[w].from # e
    BY <1>1
  <2>. QED BY <1>1, <2>1, <2>2, Bystander
<1>3. ClientsAreOpen'
  BY DEF DirectoryIInv, ClientsAreOpen, Kind, Version, server
<1>. QED BY <1>2, <1>3 DEF DirectoryIInv

-----------------------------------------------------------------------------
(* The beginning.                                                          *)

LEMMA SettingTyped ==
  ASSUME setting \in DOMAIN Settings
  PROVE  /\ Kind \in {"folder", "client"} /\ AutoSync \in BOOLEAN /\ MaxOps \in Nat
         /\ SignsIn \in [Devices -> SUBSET Users]
BY DirectoryAssumption DEF Kind, AutoSync, MaxOps, SignsIn, Setting

LEMMA NothingIsNone ==
  /\ None \notin Users /\ None \notin Content /\ None \notin Copy /\ None \notin Card
  /\ None \notin Change /\ None \notin Command /\ None \notin Listing /\ None \notin Outcome
BY NoneAssumption

LEMMA PassTyped == NoPass \in Pass /\ Listing0 \in Pass
BY DEF NoPass, Listing0, Pass, Phases

LEMMA OneEntry ==
  ASSUME NEW x PROVE Len(<<x>>) = 1 /\ <<x>>[1] = x /\ DOMAIN <<x>> = 1..1
OBVIOUS

LEMMA Initially == Init => DirectoryIInv
<1> SUFFICES ASSUME Init PROVE DirectoryIInv
  OBVIOUS
<1>0. /\ SignsIn \in [Devices -> SUBSET Users] /\ MaxOps \in Nat
  BY SettingTyped DEF Init
<1>1. user \in [Devices -> Users \cup {None}]
  BY DEF Init
<1> DEFINE Begun ==
      /\ published \in Seq(Entry) /\ Version \in 0..1
      /\ \A d \in Devices : copy[d] # None =>
           /\ user[d] # None /\ copy[d] \in Copy /\ ~copy[d].content.private
           /\ copy[d].base = Version
           /\ Version = 1 => copy[d].content = published[1].content
      /\ copy \in [Devices -> Copy \cup {None}]
      /\ seen \in [Devices -> Nat]
      /\ \A d \in Devices : seen[d] <= Version /\ (copy[d] # None => seen[d] = Version)
      /\ \A v \in 1..Version : ~published[v].content.private
<1>2. Begun
  <2>1. CASE published = <<>>
    <3>0. Version = 0 /\ published \in Seq(Entry) /\ ~Started
      BY <2>1 DEF Version, Init
    <3>1. seen = [d \in Devices |-> 0]
      BY <2>1, <3>0 DEF Init
    <3>2. CASE copy = [d \in Devices |-> None]
      BY <3>0, <3>1, <3>2
    <3>3. ASSUME NEW d \in Online, NEW body \in Bodies,
                 copy = [[e \in Devices |-> None] EXCEPT ![d] =
                     [content |-> [body |-> body, private |-> FALSE],
                      base |-> 0, creator |-> user[d]]]
          PROVE  Begun
      <4>1. d \in Devices /\ user[d] \in Users /\ user[d] # None
        BY <1>1 DEF Online
      <4>2. copy[d] \in Copy /\ copy[d].base = 0 /\ copy[d].content.private = FALSE
        BY <3>3, <4>1 DEF Copy, Content
      <4>3. \A e \in Devices \ {d} : copy[e] = None
        BY <3>3, <4>1
      <4>4. copy \in [Devices -> Copy \cup {None}]
        BY <3>3, <4>2, <4>3, <4>1
      <4>5. seen \in [Devices -> Nat] /\ \A e \in Devices : seen[e] = 0
        BY <3>1
      <4>6. \A e \in Devices : copy[e] # None => e = d
        BY <4>3
      <4>7. \A e \in Devices : copy[e] # None =>
              /\ user[e] # None /\ copy[e] \in Copy /\ ~copy[e].content.private
              /\ copy[e].base = 0
        BY <4>1, <4>2, <4>6
      <4>. QED BY <3>0, <4>4, <4>5, <4>7
    <3>. QED BY <3>0, <3>2, <3>3 DEF Init
  <2>2. CASE published # <<>>
    <3>1. PICK d \in Online, body \in Bodies :
            LET content == [body |-> body, private |-> FALSE] IN
            /\ published = <<[content |-> content, by |-> user[d], from |-> d]>>
            /\ copy = [e \in Devices |-> IF e \notin Online THEN None ELSE
                 [content |-> content, base |-> 1, creator |-> user[d]]]
            /\ seen = [e \in Devices |-> IF e \in Online THEN 1 ELSE 0]
      BY <2>2 DEF Init
    <3>2. d \in Devices /\ user[d] \in Users
      BY <1>1 DEF Online
    <3> DEFINE content == [body |-> body, private |-> FALSE]
               entry == [content |-> content, by |-> user[d], from |-> d]
    <3>3. content \in Content /\ content.private = FALSE /\ entry \in Entry
          /\ entry.content = content
      BY <3>2 DEF Content, Entry
    <3>4. published = <<entry>>
      BY <3>1
    <3>5. Version = 1 /\ published[1] = entry /\ published \in Seq(Entry)
      BY <3>3, <3>4, OneEntry DEF Version
    <3>6. [content |-> content, base |-> 1, creator |-> user[d]] \in Copy
      BY <3>2, <3>3 DEF Copy
    <3>7. \A e \in Devices : copy[e] # None =>
            /\ user[e] # None /\ copy[e] \in Copy /\ copy[e].content = content /\ copy[e].base = 1
            /\ seen[e] = 1
      BY <3>1, <3>6 DEF Online
    <3>8. /\ copy \in [Devices -> Copy \cup {None}] /\ seen \in [Devices -> Nat]
          /\ \A e \in Devices : seen[e] <= 1
      <4>1. \A e \in Devices : copy[e] \in Copy \cup {None} /\ seen[e] \in {0, 1}
        BY <3>1, <3>6
      <4>2. copy = [e \in Devices |-> copy[e]] /\ seen = [e \in Devices |-> seen[e]]
        BY <3>1
      <4>3. copy \in [Devices -> Copy \cup {None}]
        BY <4>1, <4>2
      <4>4. seen \in [Devices -> Nat] /\ \A e \in Devices : seen[e] <= 1
        BY <4>1, <4>2
      <4>. QED BY <4>3, <4>4
    <3>9. published[1].content = content /\ ~content.private
      BY <3>3, <3>5
    <3>10. \A v \in 1..Version : ~published[v].content.private
      BY <3>5, <3>9
    <3>11. \A e \in Devices : copy[e] # None =>
             /\ user[e] # None /\ copy[e] \in Copy /\ ~copy[e].content.private
             /\ copy[e].base = Version /\ copy[e].content = published[1].content
      BY <3>5, <3>7, <3>9
    <3> HIDE DEF content
    <3>. QED BY <3>5, <3>7, <3>8, <3>10, <3>11
  <2>. QED BY <2>1, <2>2
<1>3. /\ deleted = FALSE /\ requests = {} /\ ops = 0 /\ setting \in DOMAIN Settings
      /\ change = [d \in Devices |-> None] /\ command = [d \in Devices |-> None]
      /\ shelf = [d \in Devices |-> None] /\ link = [d \in Devices |-> FALSE]
      /\ feedback = [d \in Devices |-> FALSE] /\ pass = [d \in Devices |-> NoPass]
  BY DEF Init
<1>4. DirectoryTypeOK
  <2>1. /\ change \in [Devices -> Change \cup {None}] /\ command \in [Devices -> Command \cup {None}]
        /\ shelf \in [Devices -> Copy \cup {None}]
    BY <1>3
  <2>2. /\ link \in [Devices -> BOOLEAN] /\ feedback \in [Devices -> BOOLEAN] /\ deleted \in BOOLEAN
    BY <1>3
  <2>3. pass \in [Devices -> Pass] /\ requests \subseteq Request /\ ops \in 0..MaxOps
    BY <1>0, <1>3, PassTyped
  <2>. QED BY <1>1, <1>2, <1>3, <2>1, <2>2, <2>3 DEF DirectoryTypeOK
<1>5. ClientsAreOpen
  BY <1>2, <1>3 DEF ClientsAreOpen
<1>6. ASSUME NEW d \in Devices PROVE DeviceInv(d)
  <2>1. /\ change[d] = None /\ command[d] = None /\ shelf[d] = None
        /\ pass[d].phase = "idle" /\ pass[d].listed = None /\ pass[d].command = None
        /\ pass[d].change = None /\ pass[d].reply = None
    BY <1>3 DEF NoPass
  <2>2. Truthful(d) /\ PassShape(d) /\ InHand(d) /\ Sent(d)
    BY <2>1 DEF Truthful, PassShape, InHand, Sent
  <2>3. CleanCopy(d)
    BY <1>2, <2>1 DEF CleanCopy, Served
  <2>4. Sighted(d)
    BY <1>2, <1>3, <2>1 DEF Sighted
  <2>5. OutOfUse(d) /\ Asking(d) /\ OpenClient(d)
    BY <1>2, <1>3, <2>1 DEF OutOfUse, Asking, OpenClient
  <2>. QED BY <2>2, <2>3, <2>4, <2>5 DEF DeviceInv
<1>. QED BY <1>4, <1>5, <1>6 DEF DirectoryIInv

-----------------------------------------------------------------------------
(* The user's steps.                                                       *)

\* A pass starts, or the one that runs goes on where it is.
PassGoesOn(d) ==
  /\ pass' \in [Devices -> Pass]
  /\ \A e \in Devices \ {d} : pass'[e] = pass[e]
  /\ \/ pass[d].phase = "idle" /\ pass'[d] = Listing0
     \/ /\ pass'[d].phase = pass[d].phase /\ pass'[d].listed = pass[d].listed
        /\ pass'[d].command = pass[d].command /\ pass'[d].change = pass[d].change
        /\ pass'[d].reply = pass[d].reply

LEMMA RevisedGoesOn ==
  ASSUME pass \in [Devices -> Pass], AutoSync \in BOOLEAN, NEW d \in Devices, Revised(d)
  PROVE  /\ PassGoesOn(d)
         /\ pass[d].phase \in {"updating", "putting"} => pass'[d].touched
<1> DEFINE touched == pass[d].touched \/ pass[d].phase \in {"updating", "putting"}
           p == [pass[d] EXCEPT !.touched = touched]
<1>0. pass[d] \in Pass /\ touched \in BOOLEAN
  BY DEF Pass
<1>1. /\ p \in Pass /\ p.phase = pass[d].phase /\ p.listed = pass[d].listed
      /\ p.command = pass[d].command /\ p.change = pass[d].change
      /\ p.reply = pass[d].reply /\ p.touched = touched
  BY <1>0 DEF Pass
<1>2. pass' = [pass EXCEPT ![d] = IF AutoSync THEN Triggered(p) ELSE p]
  BY DEF Revised
<1> HIDE DEF p
<1>3. CASE ~AutoSync
  BY <1>0, <1>1, <1>2, <1>3 DEF PassGoesOn
<1>4. CASE AutoSync /\ p.phase = "idle"
  <2>1. pass'[d] = Listing0 /\ \A e \in Devices \ {d} : pass'[e] = pass[e]
    BY <1>2, <1>4 DEF Triggered
  <2>2. pass' \in [Devices -> Pass]
    BY <1>2, <1>4, PassTyped DEF Triggered
  <2>. QED BY <1>1, <1>4, <2>1, <2>2 DEF PassGoesOn
<1>5. CASE AutoSync /\ p.phase # "idle"
  <2> DEFINE q == [p EXCEPT !.again = TRUE]
  <2>1. /\ q \in Pass /\ q.phase = p.phase /\ q.listed = p.listed /\ q.command = p.command
        /\ q.change = p.change /\ q.reply = p.reply /\ q.touched = p.touched
    BY <1>1 DEF Pass
  <2>2. pass' = [pass EXCEPT ![d] = q]
    BY <1>2, <1>5 DEF Triggered
  <2> HIDE DEF q
  <2>. QED BY <1>0, <1>1, <2>1, <2>2 DEF PassGoesOn
<1>. QED BY <1>3, <1>4, <1>5

LEMMA TouchedGoesOn ==
  ASSUME pass \in [Devices -> Pass], NEW d \in Devices,
         pass' = [pass EXCEPT ![d].touched = TRUE]
  PROVE  PassGoesOn(d) /\ pass'[d].touched
<1>1. pass[d] \in Pass
  OBVIOUS
<1>. QED BY <1>1 DEF PassGoesOn, Pass

LEMMA EditStep ==
  ASSUME DirectoryIInv, UNCHANGED <<setting, server, user, shelf, requests, seen>>,
         NEW d \in Devices, user[d] # None, PassGoesOn(d),
         pass[d].phase \in {"updating", "putting"} =>
           /\ pass'[d].touched
           /\ (Taken(d) /\ change'[d] = None) => copy'[d] = None /\ command'[d] # None,
         change'[d] # None =>
           /\ change'[d].server = None /\ ~change'[d].gone /\ Own(d, change'[d].owner)
           /\ change'[d].base <= seen[d],
         copy'[d] # None =>
           copy'[d].base <= seen[d] /\ (Kind = "client" => ~copy'[d].content.private),
         command'[d] # None => command'[d].base <= seen[d],
         command[d] # None => command'[d] # None,
         CleanCopy(d)'
  PROVE  DeviceInv(d)'
<1>0. DeviceInv(d) /\ published' = published /\ Version' = Version /\ deleted' = deleted
      /\ Creator' = Creator /\ Kind' = Kind
  BY DEF DirectoryIInv, server, Version, Creator, Kind
<1>1. \/ /\ pass[d].phase = "idle" /\ pass'[d].phase = "listing" /\ pass'[d].listed = None
         /\ pass'[d].reply = None /\ pass'[d].command = None /\ pass'[d].change = None
      \/ /\ pass'[d].phase = pass[d].phase /\ pass'[d].listed = pass[d].listed
         /\ pass'[d].command = pass[d].command /\ pass'[d].change = pass[d].change
         /\ pass'[d].reply = pass[d].reply
  BY DEF PassGoesOn, Listing0, NoPass
<1>2. Truthful(d)'
  BY <1>0, <1>1 DEF DeviceInv, Truthful, ShownTo, Served
<1>3. Sighted(d)'
  BY <1>0, <1>1 DEF DeviceInv, Sighted
<1>4. PassShape(d)' /\ OutOfUse(d)'
  BY <1>0, <1>1 DEF DeviceInv, PassShape, OutOfUse, Taken, Own
<1>5. InHand(d)'
  BY <1>0, <1>1 DEF DeviceInv, InHand, Taken, Own
<1>6. Asking(d)'
  BY <1>0, <1>1 DEF DeviceInv, Asking, PassShape
<1>7. Sent(d)'
  BY <1>0, <1>1 DEF DeviceInv, Sent
<1>8. OpenClient(d)'
  BY <1>0, <1>1 DEF DeviceInv, OpenClient
<1>. QED BY <1>2, <1>3, <1>4, <1>5, <1>6, <1>7, <1>8 DEF DeviceInv

LEMMA Shapes ==
  ASSUME DirectoryTypeOK, NEW d \in Devices
  PROVE  /\ user[d] \in Users \cup {None} /\ copy[d] \in Copy \cup {None}
         /\ change[d] \in Change \cup {None} /\ command[d] \in Command \cup {None}
         /\ shelf[d] \in Copy \cup {None} /\ pass[d] \in Pass /\ seen[d] \in Nat
BY DEF DirectoryTypeOK

LEMMA SpendTyped ==
  ASSUME DirectoryTypeOK, UNCHANGED setting, Spend
  PROVE  ops' \in 0..MaxOps'
BY SettingTyped DEF DirectoryTypeOK, Spend, MaxOps

LEMMA DirtyTyped ==
  ASSUME NEW d \in Devices, user[d] \in Users \cup {None}, NEW base \in Nat
  PROVE  /\ Dirty(d, base) \in Change /\ Dirty(d, base).owner = user[d]
         /\ Dirty(d, base).base = base /\ Dirty(d, base).server = None
         /\ Dirty(d, base).gone = FALSE
BY DEF Dirty, Change

LEMMA BasesSeen ==
  ASSUME DirectoryIInv, NEW d \in Devices, copy[d] # None
  PROVE  /\ BaseOf(d) \in Nat /\ BaseOf(d) <= seen[d]
         /\ copy[d] \in Copy /\ copy[d].base \in Nat /\ copy[d].base <= seen[d] /\ user[d] \in Users
<1>1. copy[d] \in Copy /\ change[d] \in Change \cup {None} /\ user[d] \in Users \cup {None}
  BY Shapes DEF DirectoryIInv
<1>2. copy[d].base \in Nat /\ (change[d] # None => change[d].base \in Nat)
  BY <1>1 DEF Copy, Change
<1>. QED BY <1>1, <1>2 DEF DirectoryIInv, DeviceInv, Sighted, OutOfUse, BaseOf

LEMMA ClientsOpenStill ==
  ASSUME DirectoryIInv, UNCHANGED <<setting, server, requests>>
  PROVE  ClientsAreOpen'
BY DEF DirectoryIInv, ClientsAreOpen, Kind, Version, server

LEMMA CreateRecordPreserves ==
  ASSUME DirectoryIInv, UNCHANGED setting, NEW d \in Devices, NEW content \in Content,
         content.private => Kind = "folder", CreateRecord(d, content)
  PROVE  DirectoryIInv'
<1>0. DirectoryTypeOK /\ AutoSync \in BOOLEAN /\ Kind \in {"folder", "client"}
  BY SettingTyped DEF DirectoryIInv, DirectoryTypeOK
<1> DEFINE new == [content |-> content, base |-> 0, creator |-> user[d]]
<1>1. /\ user[d] \in Users /\ user[d] # None /\ seen[d] \in Nat /\ copy[d] = None /\ command[d] = None
      /\ published = <<>> /\ requests = {}
  BY <1>0, Shapes, NothingIsNone DEF CreateRecord, Online, Unused
<1>2. new \in Copy /\ new.base = 0 /\ new.content = content
  BY <1>1 DEF Copy
<1>3. Dirty(d, 0) \in Change /\ Dirty(d, 0).owner = user[d] /\ Dirty(d, 0).base = 0
      /\ Dirty(d, 0).server = None /\ Dirty(d, 0).gone = FALSE /\ Dirty(d, 0) # None
  BY <1>1, DirtyTyped, NothingIsNone
<1>4. /\ copy' = [copy EXCEPT ![d] = new] /\ change' = [change EXCEPT ![d] = Dirty(d, 0)]
      /\ UNCHANGED <<server, user, command, shelf, link, feedback, requests, seen>>
      /\ Revised(d) /\ Spend
  BY DEF CreateRecord
<1> HIDE DEF new
<1>5. PassGoesOn(d) /\ (pass[d].phase \in {"updating", "putting"} => pass'[d].touched)
  BY <1>0, <1>4, RevisedGoesOn DEF DirectoryTypeOK
<1>6. DirectoryTypeOK'
  BY <1>0, <1>2, <1>3, <1>4, <1>5, SpendTyped DEF DirectoryTypeOK, PassGoesOn, server
<1>7. copy'[d] = new /\ change'[d] = Dirty(d, 0) /\ command'[d] = command[d]
  BY <1>0, <1>4 DEF DirectoryTypeOK
<1>8. CleanCopy(d)'
  BY <1>3, <1>7 DEF CleanCopy
<1>9. DeviceInv(d)'
  BY <1>0, <1>1, <1>2, <1>3, <1>4, <1>5, <1>7, <1>8, EditStep DEF Own
<1>10. \A e \in Devices \ {d} : Still(e)
  BY <1>0, <1>4, <1>5 DEF Still, PassGoesOn, DirectoryTypeOK
<1>. QED BY <1>4, <1>6, <1>9, <1>10, LocalStep, ClientsOpenStill

LEMMA UpdateRecordPreserves ==
  ASSUME DirectoryIInv, UNCHANGED setting, NEW d \in Devices, NEW content \in Content,
         content.private => Kind = "folder", UpdateRecord(d, content)
  PROVE  DirectoryIInv'
<1>0. DirectoryTypeOK /\ AutoSync \in BOOLEAN /\ Kind \in {"folder", "client"}
  BY SettingTyped DEF DirectoryIInv, DirectoryTypeOK
<1> DEFINE new == [copy[d] EXCEPT !.content = content]
<1>1. /\ BaseOf(d) \in Nat /\ BaseOf(d) <= seen[d] /\ copy[d] \in Copy
      /\ copy[d].base \in Nat /\ copy[d].base <= seen[d] /\ user[d] \in Users /\ user[d] # None
  BY BasesSeen, NothingIsNone DEF UpdateRecord
<1>2. new \in Copy /\ new.base = copy[d].base /\ new.content = content
  BY <1>1 DEF Copy
<1>3. /\ Dirty(d, BaseOf(d)) \in Change /\ Dirty(d, BaseOf(d)).owner = user[d]
      /\ Dirty(d, BaseOf(d)).base = BaseOf(d) /\ Dirty(d, BaseOf(d)).server = None
      /\ Dirty(d, BaseOf(d)).gone = FALSE /\ Dirty(d, BaseOf(d)) # None
  BY <1>1, DirtyTyped, NothingIsNone
<1>4. /\ copy' = [copy EXCEPT ![d] = new] /\ change' = [change EXCEPT ![d] = Dirty(d, BaseOf(d))]
      /\ UNCHANGED <<server, user, command, shelf, link, feedback, requests, seen>>
      /\ Revised(d) /\ Spend
  BY DEF UpdateRecord
<1> HIDE DEF new
<1>5. PassGoesOn(d) /\ (pass[d].phase \in {"updating", "putting"} => pass'[d].touched)
  BY <1>0, <1>4, RevisedGoesOn DEF DirectoryTypeOK
<1>6. DirectoryTypeOK'
  BY <1>0, <1>2, <1>3, <1>4, <1>5, SpendTyped DEF DirectoryTypeOK, PassGoesOn, server
<1>7. copy'[d] = new /\ change'[d] = Dirty(d, BaseOf(d)) /\ command'[d] = command[d]
  BY <1>0, <1>4 DEF DirectoryTypeOK
<1>8. CleanCopy(d)' /\ (command[d] # None => command[d].base <= seen[d])
  BY <1>3, <1>7 DEF CleanCopy, DirectoryIInv, DeviceInv, Sighted
<1>9. DeviceInv(d)'
  BY <1>0, <1>1, <1>2, <1>3, <1>4, <1>5, <1>7, <1>8, EditStep DEF Own
<1>10. \A e \in Devices \ {d} : Still(e)
  BY <1>0, <1>4, <1>5 DEF Still, PassGoesOn, DirectoryTypeOK
<1>. QED BY <1>4, <1>6, <1>9, <1>10, LocalStep, ClientsOpenStill

LEMMA DeleteRecordPreserves ==
  ASSUME DirectoryIInv, UNCHANGED setting, NEW d \in Devices, DeleteRecord(d)
  PROVE  DirectoryIInv'
<1>0. DirectoryTypeOK /\ AutoSync \in BOOLEAN
  BY SettingTyped DEF DirectoryIInv, DirectoryTypeOK
<1> DEFINE new == [owner |-> user[d], base |-> copy[d].base]
<1>1. /\ copy[d] \in Copy /\ copy[d].base \in Nat /\ copy[d].base <= seen[d]
      /\ user[d] \in Users /\ user[d] # None /\ link[d] \in BOOLEAN
  BY <1>0, BasesSeen, NothingIsNone DEF DeleteRecord, DirectoryTypeOK
<1>2. new \in Command /\ new.base = copy[d].base /\ new # None
  BY <1>1, NothingIsNone DEF Command
<1>3. LinkAfterDelete(d) \in BOOLEAN
  BY <1>1 DEF LinkAfterDelete
<1>4. /\ copy' = [copy EXCEPT ![d] = None] /\ change' = [change EXCEPT ![d] = None]
      /\ command' = [command EXCEPT ![d] = new] /\ link' = [link EXCEPT ![d] = LinkAfterDelete(d)]
      /\ UNCHANGED <<server, user, shelf, feedback, requests, seen>>
      /\ Revised(d) /\ Spend
  BY DEF DeleteRecord
<1> HIDE DEF new
<1>5. PassGoesOn(d) /\ (pass[d].phase \in {"updating", "putting"} => pass'[d].touched)
  BY <1>0, <1>4, RevisedGoesOn DEF DirectoryTypeOK
<1>6. DirectoryTypeOK'
  BY <1>0, <1>2, <1>3, <1>4, <1>5, SpendTyped DEF DirectoryTypeOK, PassGoesOn, server
<1>7. copy'[d] = None /\ change'[d] = None /\ command'[d] = new
  BY <1>0, <1>4 DEF DirectoryTypeOK
<1>8. CleanCopy(d)'
  BY <1>7 DEF CleanCopy
<1>9. DeviceInv(d)'
  BY <1>1, <1>2, <1>4, <1>5, <1>7, <1>8, EditStep
<1>10. \A e \in Devices \ {d} : Still(e)
  BY <1>0, <1>4, <1>5 DEF Still, PassGoesOn, DirectoryTypeOK
<1>. QED BY <1>4, <1>6, <1>9, <1>10, LocalStep, ClientsOpenStill

LEMMA LinkProjectPreserves ==
  ASSUME DirectoryIInv, UNCHANGED setting, NEW d \in Devices, LinkProject(d)
  PROVE  DirectoryIInv'
<1>1. DirectoryTypeOK'
  BY SpendTyped DEF DirectoryIInv, DirectoryTypeOK, LinkProject, server, held
<1>. QED BY <1>1, QuietStep DEF LinkProject, server, held

LEMMA LogTyped ==
  ASSUME DirectoryTypeOK
  PROVE  /\ Version \in Nat
         /\ \A v \in 1..Version : published[v] \in Entry /\ published[v].content \in Content
         /\ Version > 0 => Creator \in Users /\ Row \in Entry
<1>1. Version \in Nat /\ \A v \in 1..Version : published[v] \in Entry
  BY DEF DirectoryTypeOK, Version
<1>2. \A x \in Entry : x.content \in Content /\ x.by \in Users
  BY DEF Entry
<1>3. Version > 0 => 1 \in 1..Version /\ Version \in 1..Version
  BY <1>1
<1>. QED BY <1>1, <1>2, <1>3 DEF Creator, Row

\* What a conflict shows is known to the device, and open if it is a client.
LEMMA ConflictShown ==
  ASSUME DirectoryIInv, NEW d \in Devices, change[d] # None, change[d].server # None
  PROVE  /\ change[d] \in Change /\ change[d].server \in Card /\ change[d].server.version \in Nat \ {0}
         /\ change[d].server.version <= seen[d] /\ Served(change[d].server)
         /\ Downloaded(change[d].server) \in Copy /\ Downloaded(change[d].server) # None
         /\ Downloaded(change[d].server).base = change[d].server.version
         /\ Downloaded(change[d].server).content = change[d].server.content
         /\ Downloaded(change[d].server).creator = Creator
         /\ Kind = "client" => ~change[d].server.content.private
         /\ pass[d].phase \in {"updating", "putting"} => ~Taken(d)
         /\ user[d] \in Users /\ user[d] # None
<1>1. DirectoryTypeOK /\ DeviceInv(d) /\ ClientsAreOpen
  BY DEF DirectoryIInv
<1>2. change[d] \in Change /\ user[d] \in Users \cup {None}
  BY <1>1, Shapes
<1>3. change[d].server \in Card
  BY <1>2 DEF Change
<1>4. Served(change[d].server) /\ change[d].server.version <= seen[d]
  BY <1>1 DEF DeviceInv, Truthful, Sighted
<1>5. Version \in Nat /\ change[d].server.version \in 1..Version
      /\ published[change[d].server.version].content = change[d].server.content
  BY <1>1, <1>4 DEF Served, Version, DirectoryTypeOK
<1>6. Creator \in Users
  BY <1>1, <1>5, LogTyped
<1>7. Kind = "client" => ~change[d].server.content.private
  BY <1>1, <1>5 DEF ClientsAreOpen
<1>8. pass[d].phase \in {"updating", "putting"} => ~Taken(d)
  BY <1>1 DEF DeviceInv, InHand
<1>9. user[d] \in Users /\ user[d] # None
  BY <1>1, <1>2 DEF DeviceInv, OutOfUse
<1>10. Downloaded(change[d].server) \in Copy
  BY <1>3, <1>5, <1>6 DEF Downloaded, Card, Copy
<1>. QED BY <1>2, <1>3, <1>4, <1>5, <1>7, <1>8, <1>9, <1>10, NothingIsNone DEF Downloaded

LEMMA AcceptServerPreserves ==
  ASSUME DirectoryIInv, UNCHANGED setting, NEW d \in Devices, AcceptServer(d)
  PROVE  DirectoryIInv'
<1>0. DirectoryTypeOK
  BY DEF DirectoryIInv
<1> DEFINE new == IF Kind = "folder" /\ copy[d] = None THEN None ELSE Downloaded(change[d].server)
<1>1. /\ change[d] # None /\ change[d].server # None
      /\ change' = [change EXCEPT ![d] = None] /\ copy' = [copy EXCEPT ![d] = new]
      /\ feedback' = [feedback EXCEPT ![d] = FALSE]
      /\ pass' = [pass EXCEPT ![d].touched = TRUE]
      /\ UNCHANGED <<server, user, command, shelf, link, requests, seen>> /\ Spend
  BY DEF AcceptServer
<1>2. new \in Copy \cup {None}
  BY <1>1, ConflictShown
<1>3. new # None =>
        /\ new.base <= seen[d] /\ new.content = change[d].server.content
        /\ Served([version |-> new.base, content |-> new.content])
        /\ Kind = "client" => ~new.content.private
  BY <1>1, ConflictShown DEF Served
<1>4. user[d] # None /\ (pass[d].phase \in {"updating", "putting"} => ~Taken(d))
  BY <1>1, ConflictShown
<1> HIDE DEF new
<1>5. PassGoesOn(d) /\ pass'[d].touched
  BY <1>0, <1>1, TouchedGoesOn DEF DirectoryTypeOK
<1>6. DirectoryTypeOK'
  BY <1>0, <1>1, <1>2, <1>5, SpendTyped DEF DirectoryTypeOK, PassGoesOn, server
<1>7. copy'[d] = new /\ change'[d] = None /\ command'[d] = command[d]
  BY <1>0, <1>1 DEF DirectoryTypeOK
<1>8. CleanCopy(d)' /\ (command[d] # None => command[d].base <= seen[d])
  BY <1>1, <1>3, <1>7 DEF CleanCopy, Served, Version, server, DirectoryIInv, DeviceInv, Sighted
<1>9. DeviceInv(d)'
  BY <1>1, <1>3, <1>4, <1>5, <1>7, <1>8, EditStep
<1>10. \A e \in Devices \ {d} : Still(e)
  BY <1>0, <1>1, <1>5 DEF Still, PassGoesOn, DirectoryTypeOK
<1>. QED BY <1>1, <1>6, <1>9, <1>10, LocalStep, ClientsOpenStill

LEMMA KeepLocalPreserves ==
  ASSUME DirectoryIInv, UNCHANGED setting, NEW d \in Devices, KeepLocal(d)
  PROVE  DirectoryIInv'
<1>0. DirectoryTypeOK /\ AutoSync \in BOOLEAN
  BY SettingTyped DEF DirectoryIInv, DirectoryTypeOK
<1> DEFINE new == [owner |-> change[d].owner, base |-> change[d].server.version, server |-> None,
                   gone |-> FALSE]
<1>1. /\ change[d] # None /\ change[d].server # None /\ Own(d, change[d].owner)
      /\ change' = [change EXCEPT ![d] = new]
      /\ feedback' = [feedback EXCEPT ![d] = FALSE]
      /\ UNCHANGED <<server, user, copy, command, shelf, link, requests, seen>>
      /\ Revised(d) /\ Spend
  BY DEF KeepLocal
<1>2. /\ change[d] \in Change /\ change[d].server.version \in Nat
      /\ change[d].server.version <= seen[d] /\ user[d] # None
      /\ pass[d].phase \in {"updating", "putting"} => ~Taken(d)
  BY <1>1, ConflictShown
<1>3. new \in Change /\ new # None /\ new.server = None /\ new.gone = FALSE /\ Own(d, new.owner)
      /\ new.base = change[d].server.version
  <2>1. change[d].owner \in Users \cup {None}
    BY <1>2 DEF Change
  <2>2. new \in Change
    BY <1>2, <2>1 DEF Change
  <2>. QED BY <1>1, <2>2, NothingIsNone
<1> HIDE DEF new
<1>5. PassGoesOn(d) /\ (pass[d].phase \in {"updating", "putting"} => pass'[d].touched)
  BY <1>0, <1>1, RevisedGoesOn DEF DirectoryTypeOK
<1>6. DirectoryTypeOK'
  BY <1>0, <1>1, <1>3, <1>5, SpendTyped DEF DirectoryTypeOK, PassGoesOn, server
<1>7. copy'[d] = copy[d] /\ change'[d] = new /\ command'[d] = command[d]
  BY <1>0, <1>1 DEF DirectoryTypeOK
<1>8. /\ CleanCopy(d)' /\ (command[d] # None => command[d].base <= seen[d])
      /\ copy[d] # None =>
           copy[d].base <= seen[d] /\ (Kind = "client" => ~copy[d].content.private)
  BY <1>3, <1>7 DEF CleanCopy, DirectoryIInv, DeviceInv, Sighted, OpenClient
<1>9. DeviceInv(d)'
  BY <1>1, <1>2, <1>3, <1>5, <1>7, <1>8, EditStep
<1>10. \A e \in Devices \ {d} : Still(e)
  BY <1>0, <1>1, <1>5 DEF Still, PassGoesOn, DirectoryTypeOK
<1>. QED BY <1>1, <1>6, <1>9, <1>10, LocalStep, ClientsOpenStill

LEMMA LeaveDeletedPreserves ==
  ASSUME DirectoryIInv, UNCHANGED setting, NEW d \in Devices, NEW keep \in BOOLEAN,
         LeaveDeleted(d, keep)
  PROVE  DirectoryIInv'
<1>0. DirectoryTypeOK /\ AutoSync \in BOOLEAN /\ DeviceInv(d)
  BY SettingTyped DEF DirectoryIInv, DirectoryTypeOK
<1>1. /\ change[d] # None /\ change[d].gone
      /\ change' = [change EXCEPT ![d] = None] /\ copy' = [copy EXCEPT ![d] = None]
      /\ feedback' = [feedback EXCEPT ![d] = FALSE]
      /\ UNCHANGED <<server, user, command, shelf, link, requests, seen>> /\ Spend
      /\ Revised(d) \/ pass' = [pass EXCEPT ![d].touched = TRUE]
  BY DEF LeaveDeleted
<1>2. user[d] # None /\ (pass[d].phase \in {"updating", "putting"} => ~Taken(d))
  BY <1>0, <1>1 DEF DeviceInv, OutOfUse, InHand
<1>5. PassGoesOn(d) /\ (pass[d].phase \in {"updating", "putting"} => pass'[d].touched)
  BY <1>0, <1>1, RevisedGoesOn, TouchedGoesOn DEF DirectoryTypeOK
<1>6. DirectoryTypeOK'
  BY <1>0, <1>1, <1>5, SpendTyped DEF DirectoryTypeOK, PassGoesOn, server
<1>7. copy'[d] = None /\ change'[d] = None /\ command'[d] = command[d]
  BY <1>0, <1>1 DEF DirectoryTypeOK
<1>8. CleanCopy(d)' /\ (command[d] # None => command[d].base <= seen[d])
  BY <1>0, <1>7 DEF CleanCopy, DeviceInv, Sighted
<1>9. DeviceInv(d)'
  BY <1>1, <1>2, <1>5, <1>7, <1>8, EditStep
<1>10. \A e \in Devices \ {d} : Still(e)
  BY <1>0, <1>1, <1>5 DEF Still, PassGoesOn, DirectoryTypeOK
<1>. QED BY <1>1, <1>6, <1>9, <1>10, LocalStep, ClientsOpenStill

-----------------------------------------------------------------------------
(* The steps that end a pass, and the one that begins it.                  *)

LEMMA AbandonedRequests ==
  ASSUME requests \subseteq Request, NEW d \in Devices
  PROVE  /\ Abandoned(d) \subseteq Request
         /\ \A s \in Abandoned(d) : \E r \in requests :
              /\ s.from = r.from /\ s.kind = r.kind /\ s.base = r.base
              /\ s.content = r.content /\ s.user = r.user
              /\ s.from = d => ~s.awaited
              /\ s.from # d => s = r
         /\ \A r \in requests : r.from # d => r \in Abandoned(d)
<1> DEFINE Left(r) == [r EXCEPT !.awaited = @ /\ r.from # d]
<1>1. ASSUME NEW r \in requests
      PROVE  /\ Left(r) \in Request /\ Left(r).from = r.from /\ Left(r).kind = r.kind
             /\ Left(r).base = r.base /\ Left(r).content = r.content /\ Left(r).user = r.user
             /\ r.from = d => ~Left(r).awaited
             /\ r.from # d => Left(r) = r
  <2>1. r \in Request /\ r.awaited \in BOOLEAN
    BY DEF Request
  <2>2. CASE r.from = d
    <3>1. Left(r) = [r EXCEPT !.awaited = FALSE]
      BY <2>2
    <3>. QED BY <2>1, <2>2, <3>1 DEF Request
  <2>3. CASE r.from # d
    <3>1. Left(r) = [r EXCEPT !.awaited = r.awaited]
      BY <2>1, <2>3
    <3>2. Left(r) = r
      BY <2>1, <3>1 DEF Request
    <3>. QED BY <2>1, <2>3, <3>2
  <2>. QED BY <2>2, <2>3
<1>2. Abandoned(d) = {Left(r) : r \in requests}
  BY DEF Abandoned
<1> HIDE DEF Left
<1>. QED BY <1>1, <1>2

LEMMA EndStep ==
  ASSUME DirectoryIInv, UNCHANGED <<setting, server, change, command, seen>>,
         NEW d \in Devices, pass'[d] = NoPass, requests' = Abandoned(d),
         \/ user'[d] # None
         \/ user'[d] = user[d] /\ copy'[d] = copy[d] /\ shelf'[d] = shelf[d],
         copy'[d] # None =>
           copy'[d].base <= seen[d] /\ (Kind = "client" => ~copy'[d].content.private),
         shelf'[d] # None =>
           shelf'[d].base <= seen[d] /\ (Kind = "client" => ~shelf'[d].content.private),
         CleanCopy(d)'
  PROVE  DeviceInv(d)'
<1>0. DeviceInv(d) /\ published' = published /\ Version' = Version /\ deleted' = deleted
      /\ Creator' = Creator /\ Kind' = Kind
  BY DEF DirectoryIInv, server, Version, Creator, Kind
<1>1. /\ pass'[d].phase = "idle" /\ pass'[d].listed = None
      /\ pass'[d].reply = None /\ pass'[d].command = None /\ pass'[d].change = None
  BY DEF NoPass
<1>2. ASSUME NEW s \in requests', s.from = d
      PROVE  /\ ~s.awaited
             /\ \E r \in requests :
                  r.from = d /\ s.kind = r.kind /\ s.base = r.base /\ s.content = r.content
  <2>1. requests \subseteq Request /\ s \in Abandoned(d)
    BY DEF DirectoryIInv, DirectoryTypeOK
  <2>. QED BY <1>2, <2>1, AbandonedRequests
<1>3. Truthful(d)'
  BY <1>0, <1>1 DEF DeviceInv, Truthful, ShownTo, Served
<1>4. Sighted(d)'
  <2>1. \A s \in requests' : s.from = d => s.base <= seen[d]
    BY <1>0, <1>2 DEF DeviceInv, Sighted
  <2>. QED BY <1>0, <1>1, <2>1 DEF DeviceInv, Sighted
<1>5. PassShape(d)' /\ OutOfUse(d)' /\ InHand(d)' /\ Sent(d)'
  BY <1>0, <1>1 DEF DeviceInv, PassShape, OutOfUse, InHand, Sent
<1>6. Asking(d)'
  BY <1>0, <1>2 DEF DeviceInv, Asking
<1>7. OpenClient(d)'
  BY <1>0, <1>1 DEF DeviceInv, OpenClient
<1>. QED BY <1>3, <1>4, <1>5, <1>6, <1>7 DEF DeviceInv

LEMMA OthersKeepRequests ==
  ASSUME requests \subseteq Request, NEW d \in Devices, requests' = Abandoned(d)
  PROVE  /\ requests' \subseteq Request
         /\ \A e \in Devices \ {d} : \A r \in requests \cup requests' :
              r.from = e => r \in requests /\ r \in requests'
BY AbandonedRequests

LEMMA ClientsOpenAbandoned ==
  ASSUME DirectoryIInv, UNCHANGED <<setting, server>>, NEW d \in Devices, requests' = Abandoned(d)
  PROVE  ClientsAreOpen'
<1>1. \A s \in requests' : \E r \in requests : s.content = r.content
  BY AbandonedRequests DEF DirectoryIInv, DirectoryTypeOK
<1>. QED BY <1>1 DEF DirectoryIInv, ClientsAreOpen, Kind, Version, server

LEMMA SwitchUserPreserves ==
  ASSUME DirectoryIInv, UNCHANGED setting, NEW d \in Devices, NEW u \in Users, SwitchUser(d, u)
  PROVE  DirectoryIInv'
<1>0. DirectoryTypeOK /\ DeviceInv(d)
  BY DEF DirectoryIInv
<1> DEFINE new == IF ShelvedFor(d, Captured(d), u) THEN None ELSE Captured(d)
<1>1. /\ user' = [user EXCEPT ![d] = u] /\ shelf' = [shelf EXCEPT ![d] = Captured(d)]
      /\ copy' = [copy EXCEPT ![d] = new] /\ feedback' = [feedback EXCEPT ![d] = FALSE]
      /\ pass' = [pass EXCEPT ![d] = NoPass] /\ requests' = Abandoned(d)
      /\ UNCHANGED <<server, change, command, link, seen>> /\ Spend
  BY DEF SwitchUser
<1>2. Captured(d) \in {copy[d], shelf[d]} /\ Captured(d) \in Copy \cup {None}
  BY <1>0, Shapes DEF Captured
<1>3. new \in {Captured(d), None}
  OBVIOUS
<1>4. Captured(d) # None =>
        /\ Captured(d).base <= seen[d]
        /\ Kind = "client" => ~Captured(d).content.private
  BY <1>0, <1>2 DEF DeviceInv, Sighted, OpenClient
<1> HIDE DEF new
<1>5. DirectoryTypeOK'
  BY <1>0, <1>1, <1>2, <1>3, SpendTyped, PassTyped, OthersKeepRequests DEF DirectoryTypeOK, server
<1>6. /\ user'[d] = u /\ u # None /\ copy'[d] = new /\ shelf'[d] = Captured(d)
      /\ pass'[d] = NoPass
  BY <1>0, <1>1, NothingIsNone DEF DirectoryTypeOK
<1>7. CleanCopy(d)'
  BY <1>3, <1>6 DEF CleanCopy
<1>8. DeviceInv(d)'
  BY <1>1, <1>3, <1>4, <1>6, <1>7, EndStep
<1>9. \A e \in Devices \ {d} : Still(e)
  BY <1>0, <1>1, OthersKeepRequests DEF Still, DirectoryTypeOK
<1>. QED BY <1>1, <1>5, <1>8, <1>9, LocalStep, ClientsOpenAbandoned

(* PassFails and Reload. *)
LEMMA PassEndsPreserves ==
  ASSUME DirectoryIInv, UNCHANGED setting, NEW d \in Devices, PassFails(d) \/ Reload(d)
  PROVE  DirectoryIInv'
<1>0. DirectoryTypeOK /\ DeviceInv(d)
  BY DEF DirectoryIInv
<1>1. /\ feedback' \in [Devices -> BOOLEAN]
      /\ pass' = [pass EXCEPT ![d] = NoPass] /\ requests' = Abandoned(d)
      /\ UNCHANGED <<server, user, copy, change, command, shelf, link, seen>> /\ Spend
  BY <1>0 DEF PassFails, Reload, held, DirectoryTypeOK
<1>2. DirectoryTypeOK'
  BY <1>0, <1>1, SpendTyped, PassTyped, OthersKeepRequests DEF DirectoryTypeOK, server
<1>3. pass'[d] = NoPass
  BY <1>0, <1>1 DEF DirectoryTypeOK
<1>4. CleanCopy(d)'
  BY <1>0, <1>1 DEF DeviceInv, CleanCopy, Served, Version, server
<1>5. /\ copy[d] # None =>
           copy[d].base <= seen[d] /\ (Kind = "client" => ~copy[d].content.private)
      /\ shelf[d] # None =>
           shelf[d].base <= seen[d] /\ (Kind = "client" => ~shelf[d].content.private)
  BY <1>0 DEF DeviceInv, Sighted, OpenClient
<1>6. DeviceInv(d)'
  BY <1>1, <1>3, <1>4, <1>5, EndStep
<1>7. \A e \in Devices \ {d} : Still(e)
  BY <1>0, <1>1, OthersKeepRequests DEF Still, DirectoryTypeOK
<1>. QED BY <1>1, <1>2, <1>6, <1>7, LocalStep, ClientsOpenAbandoned

LEMMA TriggerPreserves ==
  ASSUME DirectoryIInv, UNCHANGED setting, NEW d \in Devices, Trigger(d)
  PROVE  DirectoryIInv'
<1>0. DirectoryTypeOK /\ DeviceInv(d) /\ pass[d] \in Pass
  BY Shapes DEF DirectoryIInv
<1>1. /\ user[d] # None /\ pass' = [pass EXCEPT ![d] = Triggered(pass[d])]
      /\ UNCHANGED <<server, user, copy, change, command, shelf, link, feedback, requests, seen, ops>>
  BY DEF Trigger, Online, held
<1>2. /\ Triggered(pass[d]) \in Pass
      /\ \/ pass[d].phase = "idle" /\ Triggered(pass[d]) = Listing0
         \/ /\ Triggered(pass[d]).phase = pass[d].phase
            /\ Triggered(pass[d]).listed = pass[d].listed
            /\ Triggered(pass[d]).command = pass[d].command
            /\ Triggered(pass[d]).change = pass[d].change
            /\ Triggered(pass[d]).reply = pass[d].reply
            /\ Triggered(pass[d]).touched = pass[d].touched
  BY <1>0, PassTyped DEF Triggered, Pass
<1>3. pass' \in [Devices -> Pass] /\ pass'[d] = Triggered(pass[d])
      /\ \A e \in Devices \ {d} : pass'[e] = pass[e]
  BY <1>0, <1>1, <1>2 DEF DirectoryTypeOK
<1>4. DirectoryTypeOK'
  BY <1>0, <1>1, <1>3 DEF DirectoryTypeOK, server, MaxOps
<1>5. /\ published' = published /\ Version' = Version /\ deleted' = deleted
      /\ Creator' = Creator /\ Kind' = Kind
  BY <1>1 DEF server, Version, Creator, Kind
<1>6. \/ /\ pass[d].phase = "idle" /\ pass'[d].phase = "listing" /\ pass'[d].listed = None
         /\ pass'[d].reply = None /\ pass'[d].command = None /\ pass'[d].change = None
      \/ /\ pass'[d].phase = pass[d].phase /\ pass'[d].listed = pass[d].listed
         /\ pass'[d].command = pass[d].command /\ pass'[d].change = pass[d].change
         /\ pass'[d].reply = pass[d].reply /\ pass'[d].touched = pass[d].touched
  BY <1>2, <1>3 DEF Listing0, NoPass
<1>7. Truthful(d)'
  BY <1>0, <1>1, <1>5, <1>6 DEF DeviceInv, Truthful, ShownTo, Served
<1>8. CleanCopy(d)' /\ Sighted(d)'
  BY <1>0, <1>1, <1>5, <1>6 DEF DeviceInv, CleanCopy, Served, Sighted
<1>9. PassShape(d)' /\ OutOfUse(d)'
  BY <1>0, <1>1, <1>5, <1>6 DEF DeviceInv, PassShape, OutOfUse, Taken, Own
<1>10. InHand(d)' /\ Asking(d)'
  BY <1>0, <1>1, <1>5, <1>6 DEF DeviceInv, InHand, Taken, Own, Asking, PassShape
<1>11. Sent(d)' /\ OpenClient(d)'
  BY <1>0, <1>1, <1>5, <1>6 DEF DeviceInv, Sent, OpenClient
<1>12. DeviceInv(d)'
  BY <1>7, <1>8, <1>9, <1>10, <1>11 DEF DeviceInv
<1>13. \A e \in Devices \ {d} : Still(e)
  BY <1>1, <1>3 DEF Still
<1>. QED BY <1>1, <1>4, <1>12, <1>13, LocalStep, ClientsOpenStill

-----------------------------------------------------------------------------
(* The steps of a pass that send nothing.                                  *)

LEMMA LoopStep ==
  ASSUME DirectoryIInv, UNCHANGED <<setting, server, user, requests>>, NEW d \in Devices,
         user[d] # None, pass'[d].phase # "putting",
         pass[d].phase \in {"removing", "putting"} => pass[d].reply # None,
         Truthful(d)', CleanCopy(d)', Sighted(d)', PassShape(d)', InHand(d)', OpenClient(d)',
         \A e \in Devices \ {d} : Still(e), DirectoryTypeOK'
  PROVE  DirectoryIInv'
<1>1. Asking(d) /\ Version' = Version
  BY DEF DirectoryIInv, DeviceInv, server, Version
<1>2. \A r \in requests : r.from = d => ~r.awaited
  BY <1>1 DEF Asking
<1>3. Asking(d)'
  BY <1>1, <1>2 DEF Asking
<1>4. Sent(d)' /\ OutOfUse(d)'
  BY DEF Sent, OutOfUse
<1>5. DeviceInv(d)'
  BY <1>3, <1>4 DEF DeviceInv
<1>. QED BY <1>5, LocalStep, ClientsOpenStill

LEMMA ServerStill ==
  ASSUME UNCHANGED <<setting, server>>
  PROVE  /\ published' = published /\ deleted' = deleted /\ Version' = Version /\ Creator' = Creator
         /\ Kind' = Kind /\ MaxOps' = MaxOps
BY DEF server, Version, Creator, Kind, MaxOps

\* The row, shown as a card.
LEMMA RowShown ==
  ASSUME DirectoryTypeOK, Version > 0
  PROVE  /\ RowCard \in Card /\ RowCard # None /\ Served(RowCard)
         /\ RowCard.version = Version /\ RowCard.content = Row.content
<1>1. Version \in Nat /\ Version \in 1..Version /\ published[Version].content \in Content
  BY LogTyped
<1>2. RowCard.version = Version /\ RowCard.content = published[Version].content
  BY DEF RowCard, Row
<1>3. RowCard \in Card
  BY <1>1 DEF RowCard, Row, Card
<1>. QED BY <1>1, <1>2, <1>3, NothingIsNone DEF Served, Row

LEMMA AnswerListPreserves ==
  ASSUME DirectoryIInv, UNCHANGED setting, NEW d \in Devices, AnswerList(d)
  PROVE  DirectoryIInv'
<1>0. DirectoryTypeOK /\ DeviceInv(d) /\ pass[d] \in Pass /\ Version \in Nat /\ ClientsAreOpen
  BY Shapes, LogTyped DEF DirectoryIInv
<1> DEFINE answer == IF Version = 0 \/ ~Visible(user[d])
                     THEN [record |-> None, gone |-> FALSE]
                     ELSE [record |-> IF deleted THEN None ELSE RowCard, gone |-> deleted]
<1>1. /\ pass[d].phase = "listing" /\ pass[d].listed = None
      /\ pass' = [pass EXCEPT ![d].listed = answer]
      /\ UNCHANGED <<server, user, copy, change, command, shelf, link, feedback, requests, seen, ops>>
  BY DEF AnswerList, held
<1>2. /\ answer \in Listing
      /\ answer.gone => deleted
      /\ answer.record # None => ShownTo(answer.record, user[d])
      /\ (Kind = "client" /\ answer.record = None /\ ~answer.gone) => Version = 0
  <2>1. CASE Version = 0 \/ ~Visible(user[d])
    <3>1. answer = [record |-> None, gone |-> FALSE]
      BY <2>1
    <3>2. Version > 0 => Version \in 1..Version
      BY <1>0
    <3>3. Kind = "client" => Version = 0
      BY <1>0, <2>1, <3>2 DEF ClientsAreOpen, Visible, Row
    <3>. QED BY <3>1, <3>3 DEF Listing
  <2>2. CASE Version > 0 /\ Visible(user[d])
    <3>1. answer = [record |-> IF deleted THEN None ELSE RowCard, gone |-> deleted]
      BY <2>2
    <3>2. deleted \in BOOLEAN
      BY <1>0 DEF DirectoryTypeOK
    <3>3. RowCard \in Card /\ RowCard # None /\ ShownTo(RowCard, user[d])
      BY <1>0, <2>2, RowShown DEF ShownTo, Visible
    <3>4. CASE deleted
      <4>1. answer = [record |-> None, gone |-> TRUE]
        BY <3>1, <3>2, <3>4
      <4>. QED BY <3>4, <4>1 DEF Listing
    <3>5. CASE ~deleted
      <4>1. answer = [record |-> RowCard, gone |-> FALSE]
        BY <3>1, <3>2, <3>5
      <4>. QED BY <3>3, <4>1 DEF Listing
    <3>. QED BY <3>4, <3>5
  <2>. QED BY <1>0, <2>1, <2>2
<1> HIDE DEF answer
<1>3. pass'[d] = [pass[d] EXCEPT !.listed = answer]
      /\ \A e \in Devices \ {d} : pass'[e] = pass[e]
  BY <1>0, <1>1 DEF DirectoryTypeOK
<1>4. /\ pass'[d] \in Pass /\ pass'[d].listed = answer /\ answer # None
      /\ pass'[d].phase = "listing" /\ pass'[d].command = pass[d].command
      /\ pass'[d].change = pass[d].change /\ pass'[d].reply = pass[d].reply
  BY <1>0, <1>1, <1>2, <1>3, NothingIsNone DEF Pass
<1>5. DirectoryTypeOK'
  BY <1>0, <1>1, <1>3, <1>4, ServerStill DEF DirectoryTypeOK
<1>6. Truthful(d)'
  BY <1>0, <1>1, <1>2, <1>4, ServerStill DEF DeviceInv, Truthful, ShownTo, Served
<1>7. CleanCopy(d)' /\ Sighted(d)'
  BY <1>0, <1>1, <1>4, ServerStill DEF DeviceInv, CleanCopy, Served, Sighted
<1>8. PassShape(d)' /\ InHand(d)' /\ user[d] # None
  BY <1>0, <1>1, <1>4 DEF DeviceInv, PassShape, InHand
<1>9. OpenClient(d)'
  <2>1. Version = 0 => seen[d] = 0
    BY <1>0, Shapes DEF DeviceInv, Sighted
  <2>. QED BY <1>0, <1>1, <1>2, <1>4, <2>1, ServerStill DEF DeviceInv, OpenClient
<1>10. \A e \in Devices \ {d} : Still(e)
  BY <1>1, <1>3 DEF Still
<1>. QED BY <1>1, <1>4, <1>5, <1>6, <1>7, <1>8, <1>9, <1>10, LoopStep

LEMMA ReceiveListPreserves ==
  ASSUME DirectoryIInv, UNCHANGED setting, NEW d \in Devices, ReceiveList(d)
  PROVE  DirectoryIInv'
<1>0. /\ DirectoryTypeOK /\ DeviceInv(d) /\ pass[d] \in Pass /\ seen[d] \in Nat
      /\ command[d] \in Command \cup {None} /\ user[d] \in Users \cup {None}
  BY Shapes DEF DirectoryIInv
<1>1. /\ pass[d].phase = "listing" /\ pass[d].listed # None
      /\ change' = IF Unpublished(d) THEN [change EXCEPT ![d] = Dirty(d, 0)] ELSE change
      /\ pass' = [pass EXCEPT ![d].phase = "deleting", ![d].command = command[d]]
      /\ UNCHANGED <<server, user, copy, command, shelf, link, feedback, requests, seen, ops>>
  BY DEF ReceiveList
<1>2. Dirty(d, 0) \in Change /\ Dirty(d, 0) # None /\ Dirty(d, 0).server = None
      /\ Dirty(d, 0).base = 0
  BY <1>0, DirtyTyped, NothingIsNone
<1>3. pass'[d] = [pass[d] EXCEPT !.phase = "deleting", !.command = command[d]]
      /\ \A e \in Devices \ {d} : pass'[e] = pass[e]
  BY <1>0, <1>1 DEF DirectoryTypeOK
<1>4. /\ pass'[d] \in Pass /\ pass'[d].listed = pass[d].listed
      /\ pass'[d].phase = "deleting" /\ pass'[d].command = command[d]
      /\ pass'[d].change = pass[d].change /\ pass'[d].reply = pass[d].reply
  BY <1>0, <1>3 DEF Pass, Phases
<1>5. /\ change' \in [Devices -> Change \cup {None}]
      /\ \A e \in Devices \ {d} : change'[e] = change[e]
      /\ change'[d] = change[d] \/ change'[d] = Dirty(d, 0)
  BY <1>0, <1>1, <1>2 DEF DirectoryTypeOK
<1>6. DirectoryTypeOK'
  BY <1>0, <1>1, <1>3, <1>4, <1>5, ServerStill DEF DirectoryTypeOK
<1>7. Truthful(d)'
  BY <1>0, <1>1, <1>2, <1>4, <1>5, ServerStill DEF DeviceInv, Truthful, ShownTo, Served
<1>8. CleanCopy(d)' /\ Sighted(d)'
  BY <1>0, <1>1, <1>2, <1>4, <1>5, ServerStill DEF DeviceInv, CleanCopy, Served, Sighted
<1>9. PassShape(d)' /\ InHand(d)' /\ user[d] # None
  BY <1>0, <1>1, <1>4 DEF DeviceInv, PassShape, InHand
<1>10. OpenClient(d)'
  BY <1>0, <1>1, <1>4, ServerStill DEF DeviceInv, OpenClient
<1>11. \A e \in Devices \ {d} : Still(e)
  BY <1>1, <1>3, <1>5 DEF Still
<1>. QED BY <1>1, <1>4, <1>6, <1>7, <1>8, <1>9, <1>10, <1>11, LoopStep

LEMMA SkipCommandPreserves ==
  ASSUME DirectoryIInv, UNCHANGED setting, NEW d \in Devices, SkipCommand(d)
  PROVE  DirectoryIInv'
<1>0. DirectoryTypeOK /\ DeviceInv(d) /\ pass[d] \in Pass
  BY Shapes DEF DirectoryIInv
<1>1. /\ pass[d].phase = "deleting"
      /\ command' \in {command, [command EXCEPT ![d] = None]}
      /\ pass' = [pass EXCEPT ![d].phase = "surveying"]
      /\ UNCHANGED <<server, user, copy, change, shelf, link, feedback, requests, seen, ops>>
  BY DEF SkipCommand
<1>2. pass'[d] = [pass[d] EXCEPT !.phase = "surveying"]
      /\ \A e \in Devices \ {d} : pass'[e] = pass[e]
  BY <1>0, <1>1 DEF DirectoryTypeOK
<1>3. /\ pass'[d] \in Pass /\ pass'[d].listed = pass[d].listed
      /\ pass'[d].phase = "surveying" /\ pass'[d].command = pass[d].command
      /\ pass'[d].change = pass[d].change /\ pass'[d].reply = pass[d].reply
  BY <1>0, <1>2 DEF Pass, Phases
<1>4. /\ command' \in [Devices -> Command \cup {None}]
      /\ \A e \in Devices \ {d} : command'[e] = command[e]
      /\ command'[d] \in {command[d], None}
  BY <1>0, <1>1 DEF DirectoryTypeOK
<1>5. DirectoryTypeOK'
  BY <1>0, <1>1, <1>2, <1>3, <1>4, ServerStill DEF DirectoryTypeOK
<1>6. Truthful(d)'
  BY <1>0, <1>1, <1>3, ServerStill DEF DeviceInv, Truthful, ShownTo, Served
<1>7. CleanCopy(d)' /\ Sighted(d)'
  BY <1>0, <1>1, <1>3, <1>4, ServerStill DEF DeviceInv, CleanCopy, Served, Sighted
<1>8. PassShape(d)' /\ InHand(d)' /\ user[d] # None
  BY <1>0, <1>1, <1>3 DEF DeviceInv, PassShape, InHand
<1>9. OpenClient(d)'
  BY <1>0, <1>1, <1>3, ServerStill DEF DeviceInv, OpenClient
<1>10. \A e \in Devices \ {d} : Still(e)
  BY <1>1, <1>2, <1>4 DEF Still
<1>. QED BY <1>1, <1>3, <1>5, <1>6, <1>7, <1>8, <1>9, <1>10, LoopStep

LEMMA SurveyPreserves ==
  ASSUME DirectoryIInv, UNCHANGED setting, NEW d \in Devices, Survey(d)
  PROVE  DirectoryIInv'
<1>0. DirectoryTypeOK /\ DeviceInv(d) /\ pass[d] \in Pass /\ change[d] \in Change \cup {None}
  BY Shapes DEF DirectoryIInv
<1>1. /\ pass[d].phase = "surveying"
      /\ pass' = [pass EXCEPT ![d].phase = "updating", ![d].change = change[d], ![d].touched = FALSE]
      /\ UNCHANGED <<server, user, copy, change, command, shelf, link, feedback, requests, seen, ops>>
  BY DEF Survey, held
<1>2. pass'[d] = [pass[d] EXCEPT !.phase = "updating", !.change = change[d], !.touched = FALSE]
      /\ \A e \in Devices \ {d} : pass'[e] = pass[e]
  BY <1>0, <1>1 DEF DirectoryTypeOK
<1>3. /\ pass'[d] \in Pass /\ pass'[d].listed = pass[d].listed
      /\ pass'[d].phase = "updating" /\ pass'[d].command = pass[d].command
      /\ pass'[d].change = change[d] /\ pass'[d].reply = pass[d].reply
      /\ pass'[d].touched = FALSE
  BY <1>0, <1>2 DEF Pass, Phases
<1>5. DirectoryTypeOK'
  BY <1>0, <1>1, <1>2, <1>3, ServerStill DEF DirectoryTypeOK
<1>6. Truthful(d)'
  BY <1>0, <1>1, <1>3, ServerStill DEF DeviceInv, Truthful, ShownTo, Served
<1>7. CleanCopy(d)' /\ Sighted(d)'
  BY <1>0, <1>1, <1>3, ServerStill DEF DeviceInv, CleanCopy, Served, Sighted
<1>8. PassShape(d)' /\ user[d] # None
  BY <1>0, <1>1, <1>3 DEF DeviceInv, PassShape
<1>9. InHand(d)'
  BY <1>1, <1>3 DEF InHand, Taken
<1>10. OpenClient(d)'
  BY <1>0, <1>1, <1>3, ServerStill DEF DeviceInv, OpenClient
<1>11. \A e \in Devices \ {d} : Still(e)
  BY <1>1, <1>2 DEF Still
<1>. QED BY <1>1, <1>3, <1>5, <1>6, <1>7, <1>8, <1>9, <1>10, <1>11, LoopStep

\* What the decision of the loop presupposes.
LEMMA Decided ==
  ASSUME NEW d \in Devices
  PROVE  /\ Decision(d) \in {"identical", "diverged", "put"} =>
              /\ Taken(d) /\ copy[d] # None /\ ~pass[d].listed.gone
         /\ Decision(d) = "identical" =>
              pass[d].listed.record # None /\ pass[d].listed.record.content = copy[d].content
         /\ Decision(d) = "diverged" => pass[d].listed.record # None
         /\ Decision(d) \in {"protect", "lost"} => Kind = "client" /\ pass[d].listed.gone
BY DEF Decision, Taken

\* Going on to the end of the loop, with nothing but the change and what was
\* shown of the record different.
LEMMA ClosingStep ==
  ASSUME DirectoryIInv, UNCHANGED <<setting, server, user, copy, command, shelf, requests>>,
         NEW d \in Devices, pass[d].phase \in {"updating", "putting"},
         pass[d].phase = "putting" => pass[d].reply # None,
         pass'[d].phase = "closing", pass'[d].listed = pass[d].listed,
         pass'[d].command = pass[d].command, pass'[d].change = pass[d].change,
         pass'[d].reply = None,
         seen[d] <= seen'[d], seen'[d] <= Version,
         change'[d] = change[d] \/ change'[d] # None,
         change'[d] # None =>
           /\ change'[d].base <= seen'[d]
           /\ change'[d].server # None =>
                /\ Served(change'[d].server) /\ change'[d].server.version <= seen'[d]
                /\ change'[d].owner # None => ShownTo(change'[d].server, change'[d].owner),
         \A e \in Devices \ {d} : Still(e), DirectoryTypeOK'
  PROVE  DirectoryIInv'
<1>0. /\ DirectoryTypeOK /\ DeviceInv(d) /\ seen[d] \in Nat /\ seen'[d] \in Nat /\ Version \in Nat
      /\ pass[d] \in Pass /\ copy[d] \in Copy \cup {None} /\ shelf[d] \in Copy \cup {None}
      /\ command[d] \in Command \cup {None} /\ requests \subseteq Request
  BY Shapes, LogTyped DEF DirectoryIInv, DirectoryTypeOK
<1>1. user[d] # None
  BY <1>0 DEF DeviceInv, PassShape
<1>2. Truthful(d)'
  BY <1>0, ServerStill DEF DeviceInv, Truthful, ShownTo, Served
<1>3. CleanCopy(d)'
  BY <1>0, ServerStill DEF DeviceInv, CleanCopy, Served
<1>4. Sighted(d)'
  <2>1. /\ copy[d] # None => copy[d].base \in Nat
        /\ shelf[d] # None => shelf[d].base \in Nat
        /\ command[d] # None => command[d].base \in Nat
        /\ pass[d].command # None => pass[d].command.base \in Nat
        /\ pass[d].change # None => pass[d].change.base \in Nat
        /\ \A r \in requests : r.base \in Nat
    BY <1>0 DEF Copy, Command, Change, Pass, Request
  <2>. QED BY <1>0, <2>1, ServerStill DEF DeviceInv, Sighted
<1>5. PassShape(d)' /\ InHand(d)'
  BY <1>0 DEF DeviceInv, PassShape, InHand
<1>6. OpenClient(d)'
  BY <1>0, ServerStill DEF DeviceInv, OpenClient
<1>. QED BY <1>1, <1>2, <1>3, <1>4, <1>5, <1>6, LoopStep

LEMMA SkipChangePreserves ==
  ASSUME DirectoryIInv, UNCHANGED setting, NEW d \in Devices, SkipChange(d)
  PROVE  DirectoryIInv'
<1>0. DirectoryTypeOK /\ DeviceInv(d) /\ pass[d] \in Pass
  BY Shapes DEF DirectoryIInv
<1> DEFINE failed == pass[d].failed \/ Decision(d) = "review"
<1>1. /\ pass[d].phase = "updating"
      /\ pass' = [pass EXCEPT ![d] = [pass[d] EXCEPT !.phase = "closing", !.failed = failed]]
      /\ UNCHANGED <<server, user, copy, change, command, shelf, link, feedback, requests, seen, ops>>
  BY <1>0 DEF SkipChange, held, DirectoryTypeOK
<1>2. failed \in BOOLEAN
  BY <1>0 DEF Pass
<1> HIDE DEF failed
<1>3. pass'[d] = [pass[d] EXCEPT !.phase = "closing", !.failed = failed]
      /\ \A e \in Devices \ {d} : pass'[e] = pass[e]
  BY <1>0, <1>1 DEF DirectoryTypeOK
<1>4. /\ pass'[d] \in Pass /\ pass'[d].listed = pass[d].listed
      /\ pass'[d].phase = "closing" /\ pass'[d].command = pass[d].command
      /\ pass'[d].change = pass[d].change /\ pass'[d].reply = pass[d].reply
  BY <1>0, <1>2, <1>3 DEF Pass, Phases
<1>5. DirectoryTypeOK'
  BY <1>0, <1>1, <1>3, <1>4, ServerStill DEF DirectoryTypeOK
<1>6. pass[d].reply = None /\ seen[d] <= seen'[d] /\ seen'[d] <= Version
  BY <1>0, <1>1, Shapes DEF DeviceInv, PassShape, Sighted
<1>7. change[d] # None =>
        /\ change[d].base <= seen[d]
        /\ change[d].server # None =>
             /\ Served(change[d].server) /\ change[d].server.version <= seen[d]
             /\ change[d].owner # None => ShownTo(change[d].server, change[d].owner)
  BY <1>0 DEF DeviceInv, Sighted, Truthful
<1>8. \A e \in Devices \ {d} : Still(e)
  BY <1>1, <1>3 DEF Still
<1>. QED BY <1>1, <1>4, <1>5, <1>6, <1>7, <1>8, ClosingStep

LEMMA PresentTyped ==
  ASSUME DirectoryIInv, NEW d \in Devices
  PROVE  /\ Present(d) \in Change /\ Present(d).base \in Nat /\ Present(d).base <= seen[d]
         /\ Present(d).owner \in {None, user[d]} \/ Present(d) = change[d]
<1>1. /\ user[d] \in Users \cup {None} /\ change[d] \in Change \cup {None} /\ seen[d] \in Nat
      /\ Sighted(d)
  BY Shapes DEF DirectoryIInv, DeviceInv
<1>2. CASE change[d] # None
  BY <1>1, <1>2 DEF Present, Change, Sighted
<1>3. CASE change[d] = None
  BY <1>1, <1>3 DEF Present, Change
<1>. QED BY <1>2, <1>3

LEMMA ConflictingTyped ==
  ASSUME DirectoryIInv, NEW d \in Devices, NEW card \in Card
  PROVE  /\ Conflicting(d, card) \in Change /\ Conflicting(d, card) # None
         /\ Conflicting(d, card).server = card /\ Conflicting(d, card).base <= seen[d]
         /\ Conflicting(d, card).base \in Nat
         /\ Conflicting(d, card).owner = Present(d).owner
<1>1. Present(d) \in Change /\ Present(d).base <= seen[d]
  BY PresentTyped
<1>2. Conflicting(d, card) \in Change
  BY <1>1 DEF Conflicting, Change
<1>. QED BY <1>1, <1>2, NothingIsNone DEF Conflicting, Change

LEMMA MarkDeletedPreserves ==
  ASSUME DirectoryIInv, UNCHANGED setting, NEW d \in Devices, MarkDeleted(d)
  PROVE  DirectoryIInv'
<1>0. /\ DirectoryTypeOK /\ DeviceInv(d) /\ pass[d] \in Pass /\ seen[d] \in Nat
      /\ change[d] \in Change \cup {None}
  BY Shapes DEF DirectoryIInv
<1> DEFINE failed == pass[d].failed \/ Decision(d) = "lost"
<1>1. /\ pass[d].phase = "updating"
      /\ change' = [change EXCEPT ![d] = Deletion(d)]
      /\ pass' = [pass EXCEPT ![d] = [pass[d] EXCEPT !.phase = "closing", !.failed = failed]]
      /\ UNCHANGED <<server, user, copy, command, shelf, link, feedback, requests, seen, ops>>
  BY <1>0 DEF MarkDeleted, DirectoryTypeOK
<1>2. failed \in BOOLEAN
  BY <1>0 DEF Pass
<1> HIDE DEF failed
<1>3. pass'[d] = [pass[d] EXCEPT !.phase = "closing", !.failed = failed]
      /\ \A e \in Devices \ {d} : pass'[e] = pass[e]
  BY <1>0, <1>1 DEF DirectoryTypeOK
<1>4. /\ pass'[d] \in Pass /\ pass'[d].listed = pass[d].listed
      /\ pass'[d].phase = "closing" /\ pass'[d].command = pass[d].command
      /\ pass'[d].change = pass[d].change /\ pass'[d].reply = pass[d].reply
  BY <1>0, <1>2, <1>3 DEF Pass, Phases
<1>5. /\ Deletion(d) \in Change /\ Deletion(d) # None /\ Deletion(d).server = None
      /\ Deletion(d).base <= seen[d]
  <2>1. Present(d).base \in Nat /\ Present(d).base <= seen[d]
    BY PresentTyped
  <2>2. (IF change[d] = None THEN None ELSE change[d].owner) \in Users \cup {None}
    BY <1>0 DEF Change
  <2>3. Deletion(d) \in Change
    BY <2>1, <2>2 DEF Deletion, Change
  <2>. QED BY <2>1, <2>3, NothingIsNone DEF Deletion
<1>6. /\ change' \in [Devices -> Change \cup {None}] /\ change'[d] = Deletion(d)
      /\ \A e \in Devices \ {d} : change'[e] = change[e]
  BY <1>0, <1>1, <1>5 DEF DirectoryTypeOK
<1>7. DirectoryTypeOK'
  BY <1>0, <1>1, <1>3, <1>4, <1>6, ServerStill DEF DirectoryTypeOK
<1>8. pass[d].reply = None /\ seen[d] <= seen'[d] /\ seen'[d] <= Version
  BY <1>0, <1>1 DEF DeviceInv, PassShape, Sighted
<1>9. \A e \in Devices \ {d} : Still(e)
  BY <1>1, <1>3, <1>6 DEF Still
<1>. QED BY <1>1, <1>4, <1>5, <1>6, <1>7, <1>8, <1>9, ClosingStep

LEMMA LaterIsBoth ==
  ASSUME NEW v \in Nat, NEW w \in Nat
  PROVE  Later(v, w) \in Nat /\ v <= Later(v, w) /\ w <= Later(v, w) /\ Later(v, w) \in {v, w}
BY DEF Later

\* A conflict that the loop met: KeepDiverged, and AckPut of a 409.
LEMMA MeetsConflict ==
  ASSUME DirectoryIInv,
         UNCHANGED <<setting, server, user, copy, command, shelf, requests, link, feedback, ops>>,
         NEW d \in Devices, NEW card \in Card, ShownTo(card, user[d]),
         pass[d].phase \in {"updating", "putting"}, Taken(d),
         pass[d].phase = "putting" => pass[d].reply # None,
         change' = [change EXCEPT ![d] = Conflicting(d, card)],
         seen' = [seen EXCEPT ![d] = Later(seen[d], card.version)],
         pass' = [pass EXCEPT ![d] =
                   [pass[d] EXCEPT !.phase = "closing", !.reply = None, !.failed = TRUE]]
  PROVE  DirectoryIInv'
<1>0. DirectoryTypeOK /\ DeviceInv(d) /\ pass[d] \in Pass /\ seen[d] \in Nat /\ Version \in Nat
  BY Shapes, LogTyped DEF DirectoryIInv
<1>1. card.version \in Nat /\ card.version <= Version /\ Served(card)
  BY <1>0 DEF ShownTo, Served
<1>2. pass'[d] = [pass[d] EXCEPT !.phase = "closing", !.reply = None, !.failed = TRUE]
      /\ \A e \in Devices \ {d} : pass'[e] = pass[e]
  BY <1>0 DEF DirectoryTypeOK
<1>3. /\ pass'[d] \in Pass /\ pass'[d].listed = pass[d].listed
      /\ pass'[d].phase = "closing" /\ pass'[d].command = pass[d].command
      /\ pass'[d].change = pass[d].change /\ pass'[d].reply = None
  BY ONLY <1>0, <1>2 DEF Pass, Phases
<1>4. /\ Conflicting(d, card) \in Change /\ Conflicting(d, card) # None
      /\ Conflicting(d, card).server = card /\ Conflicting(d, card).base <= seen[d]
      /\ Conflicting(d, card).base \in Nat
      /\ Conflicting(d, card).owner = Present(d).owner
  BY ConflictingTyped
<1>5. Conflicting(d, card).owner \in {None, user[d]}
  <2>1. change[d] # None => Own(d, change[d].owner)
    BY <1>0 DEF DeviceInv, InHand
  <2>. QED BY <1>4, <2>1 DEF Present, Own
<1>6. /\ seen'[d] \in Nat /\ seen[d] <= seen'[d] /\ card.version <= seen'[d] /\ seen'[d] <= Version
      /\ \A e \in Devices \ {d} : seen'[e] = seen[e]
      /\ seen' \in [Devices -> Nat]
  <2>1. seen'[d] = Later(seen[d], card.version) /\ \A e \in Devices \ {d} : seen'[e] = seen[e]
    BY <1>0 DEF DirectoryTypeOK
  <2>2. seen[d] <= Version
    BY <1>0 DEF DeviceInv, Sighted
  <2>3. seen' \in [Devices -> Nat]
    BY <1>0, <1>1, LaterIsBoth DEF DirectoryTypeOK
  <2>. QED BY <1>0, <1>1, <2>1, <2>2, <2>3, LaterIsBoth
<1>7. /\ change' \in [Devices -> Change \cup {None}] /\ change'[d] = Conflicting(d, card)
      /\ \A e \in Devices \ {d} : change'[e] = change[e]
  BY <1>0, <1>4 DEF DirectoryTypeOK
<1>8. DirectoryTypeOK'
  BY <1>0, <1>2, <1>3, <1>6, <1>7, ServerStill DEF DirectoryTypeOK
<1>9. \A e \in Devices \ {d} : Still(e)
  BY <1>2, <1>6, <1>7 DEF Still
<1>10. change'[d].base <= seen'[d]
  BY <1>0, <1>4, <1>6, <1>7
<1>. QED BY <1>1, <1>3, <1>4, <1>5, <1>6, <1>7, <1>8, <1>9, <1>10, ClosingStep

LEMMA KeepDivergedPreserves ==
  ASSUME DirectoryIInv, UNCHANGED setting, NEW d \in Devices, KeepDiverged(d)
  PROVE  DirectoryIInv'
<1>0. DirectoryTypeOK /\ DeviceInv(d) /\ pass[d] \in Pass /\ pass[d].phase = "updating"
  BY Shapes DEF DirectoryIInv, KeepDiverged
<1>1. pass[d].reply = None /\ pass[d].listed # None
  BY <1>0 DEF DeviceInv, PassShape
<1>2. Taken(d) /\ pass[d].listed.record # None
  BY Decided DEF KeepDiverged
<1>3. pass[d].listed.record \in Card /\ ShownTo(pass[d].listed.record, user[d])
  BY <1>0, <1>1, <1>2 DEF Pass, Listing, DeviceInv, Truthful
<1>4. /\ change' = [change EXCEPT ![d] = Conflicting(d, pass[d].listed.record)]
      /\ seen' = [seen EXCEPT ![d] = Later(seen[d], pass[d].listed.record.version)]
      /\ pass' = [pass EXCEPT ![d] = [pass[d] EXCEPT !.phase = "closing", !.failed = TRUE]]
      /\ UNCHANGED <<server, user, copy, command, shelf, link, feedback, requests, ops>>
  BY <1>0 DEF KeepDiverged, DirectoryTypeOK
<1>5. [pass[d] EXCEPT !.phase = "closing", !.failed = TRUE]
        = [pass[d] EXCEPT !.phase = "closing", !.reply = None, !.failed = TRUE]
  BY <1>0, <1>1 DEF Pass
<1>. QED BY <1>0, <1>2, <1>3, <1>4, <1>5, MeetsConflict

\* A card as the copy that a device makes of it.
LEMMA CardDownloaded ==
  ASSUME DirectoryIInv, NEW card \in Card, Served(card)
  PROVE  /\ Downloaded(card) \in Copy /\ Downloaded(card) # None
         /\ Downloaded(card).base = card.version /\ Downloaded(card).content = card.content
         /\ Downloaded(card).creator = Creator
         /\ card.version \in Nat /\ card.version <= Version
         /\ Kind = "client" => ~card.content.private
<1>1. DirectoryTypeOK /\ ClientsAreOpen /\ Version \in Nat
  BY LogTyped DEF DirectoryIInv
<1>2. card.version \in 1..Version /\ published[card.version].content = card.content
  BY DEF Served
<1>3. Creator \in Users
  BY <1>1, <1>2, LogTyped
<1>4. Kind = "client" => ~card.content.private
  BY <1>1, <1>2 DEF ClientsAreOpen
<1>5. Downloaded(card) \in Copy
  BY <1>1, <1>2, <1>3 DEF Downloaded, Card, Copy
<1>. QED BY <1>1, <1>2, <1>4, <1>5, NothingIsNone DEF Downloaded

\* What installReceipt does to the device.
LEMMA Installs ==
  ASSUME DirectoryIInv, NEW d \in Devices, NEW card \in Card, ShownTo(card, user[d]),
         pass[d].phase \in {"updating", "putting"}, Taken(d), InstallReceipt(d, card)
  PROVE  /\ change' \in [Devices -> Change \cup {None}] /\ copy' \in [Devices -> Copy \cup {None}]
         /\ command' \in [Devices -> Command \cup {None}] /\ seen' \in [Devices -> Nat]
         /\ \A e \in Devices \ {d} :
              /\ change'[e] = change[e] /\ copy'[e] = copy[e] /\ command'[e] = command[e]
              /\ seen'[e] = seen[e]
         /\ seen'[d] \in Nat /\ seen[d] <= seen'[d] /\ card.version <= seen'[d] /\ seen'[d] <= Version
         /\ change'[d] # None =>
              change[d] # None /\ change'[d].base = card.version /\ change'[d].server = None
         /\ copy'[d] # None =>
              /\ copy[d] # None /\ copy'[d].base = card.version
              /\ change[d] # None
              /\ IF Acknowledged(d) THEN copy'[d].content = card.content /\ copy'[d].creator = Creator
                 ELSE copy'[d].content = copy[d].content /\ copy'[d].creator = copy[d].creator
              /\ Kind = "client" => ~copy'[d].content.private
         /\ copy[d] # None => copy'[d] # None
         /\ change'[d] = None => copy'[d] = None \/ Acknowledged(d)
         /\ command'[d] # None => command'[d].base = card.version
<1>0. /\ DirectoryTypeOK /\ DeviceInv(d) /\ seen[d] \in Nat /\ Version \in Nat
      /\ change[d] \in Change \cup {None} /\ copy[d] \in Copy \cup {None}
      /\ command[d] \in Command \cup {None}
  BY Shapes, LogTyped DEF DirectoryIInv
<1>1. /\ card.version \in Nat /\ card.version <= Version
      /\ Downloaded(card) \in Copy /\ Downloaded(card) # None
      /\ Downloaded(card).base = card.version /\ Downloaded(card).content = card.content
      /\ Downloaded(card).creator = Creator
      /\ Kind = "client" => ~card.content.private
  BY CardDownloaded DEF ShownTo
<1> DEFINE change1 == IF change[d] = None \/ Acknowledged(d) THEN None
                      ELSE [change[d] EXCEPT !.base = card.version]
           copy1 == IF copy[d] = None THEN None
                    ELSE IF Acknowledged(d) THEN Downloaded(card)
                    ELSE [copy[d] EXCEPT !.base = card.version]
           command1 == IF command[d] = None THEN None
                       ELSE [command[d] EXCEPT !.base = card.version]
           seen1 == Later(seen[d], card.version)
<1>2. /\ change' = [change EXCEPT ![d] = change1] /\ copy' = [copy EXCEPT ![d] = copy1]
      /\ command' = [command EXCEPT ![d] = command1] /\ seen' = [seen EXCEPT ![d] = seen1]
  BY DEF InstallReceipt
<1>3. change[d] # None => change[d].server = None
  BY <1>0 DEF DeviceInv, InHand
<1>4. change[d] = None => copy[d] = None
  BY <1>0 DEF DeviceInv, InHand
<1>5. /\ change1 \in Change \cup {None}
      /\ change1 # None =>
           change[d] # None /\ change1.base = card.version /\ change1.server = None
  BY <1>0, <1>1, <1>3 DEF Change
<1>6. /\ command1 \in Command \cup {None}
      /\ command1 # None => command1.base = card.version
  BY <1>0, <1>1 DEF Command
<1>7. /\ copy1 \in Copy \cup {None}
      /\ copy1 # None =>
           /\ copy[d] # None /\ copy1.base = card.version
           /\ IF Acknowledged(d) THEN copy1.content = card.content /\ copy1.creator = Creator
              ELSE copy1.content = copy[d].content /\ copy1.creator = copy[d].creator
      /\ copy[d] # None => copy1 # None
  <2>1. CASE copy[d] = None
    BY <2>1
  <2>2. CASE copy[d] # None /\ Acknowledged(d)
    BY <1>1, <2>2
  <2>3. CASE copy[d] # None /\ ~Acknowledged(d)
    <3>1. copy1 = [copy[d] EXCEPT !.base = card.version]
      BY <2>3
    <3>2. copy1 \in Copy /\ copy1.base = card.version /\ copy1.content = copy[d].content
          /\ copy1.creator = copy[d].creator
      BY <1>0, <1>1, <2>3, <3>1 DEF Copy
    <3>. QED BY <2>3, <3>2, NothingIsNone
  <2>. QED BY <2>1, <2>2, <2>3
<1>8. Kind = "client" => (copy[d] # None => ~copy[d].content.private)
  BY <1>0 DEF DeviceInv, OpenClient
<1>9. /\ seen1 \in Nat /\ seen[d] <= seen1 /\ card.version <= seen1 /\ seen1 <= Version
  <2>1. seen[d] <= Version
    BY <1>0 DEF DeviceInv, Sighted
  <2>. QED BY <1>0, <1>1, <2>1, LaterIsBoth
<1>10. change1 = None => change[d] = None \/ Acknowledged(d)
  BY <1>0, <1>1, NothingIsNone DEF Change
<1> HIDE DEF change1, copy1, command1, seen1
<1>11. /\ change' \in [Devices -> Change \cup {None}] /\ copy' \in [Devices -> Copy \cup {None}]
       /\ command' \in [Devices -> Command \cup {None}] /\ seen' \in [Devices -> Nat]
       /\ \A e \in Devices \ {d} :
            /\ change'[e] = change[e] /\ copy'[e] = copy[e] /\ command'[e] = command[e]
            /\ seen'[e] = seen[e]
       /\ change'[d] = change1 /\ copy'[d] = copy1 /\ command'[d] = command1 /\ seen'[d] = seen1
  BY <1>0, <1>2, <1>5, <1>6, <1>7, <1>9 DEF DirectoryTypeOK
<1>12. copy1 # None => (Kind = "client" => ~copy1.content.private)
  BY <1>1, <1>7, <1>8
<1>13. change1 = None => copy1 = None \/ Acknowledged(d)
  BY <1>4, <1>7, <1>10
<1>14. copy1 # None => change[d] # None
  BY <1>4, <1>7
<1>. QED BY <1>5, <1>6, <1>7, <1>9, <1>11, <1>12, <1>13, <1>14

LEMMA InstallStep ==
  ASSUME DirectoryIInv, UNCHANGED <<setting, server, user, shelf, requests, link, feedback, ops>>,
         NEW d \in Devices, NEW card \in Card, ShownTo(card, user[d]),
         pass[d].phase \in {"updating", "putting"}, Taken(d), InstallReceipt(d, card),
         pass[d].phase = "putting" => pass[d].reply # None,
         NEW q \in Pass, pass' = [pass EXCEPT ![d] = q],
         q.phase = "closing", q.listed # None, q.reply = None,
         q.command = pass[d].command, q.change = pass[d].change,
         q.listed.gone = pass[d].listed.gone, q.listed.record \in {pass[d].listed.record, card}
  PROVE  DirectoryIInv'
<1>0. /\ DirectoryTypeOK /\ DeviceInv(d) /\ seen[d] \in Nat /\ Version \in Nat
      /\ pass[d] \in Pass /\ shelf[d] \in Copy \cup {None} /\ requests \subseteq Request
  BY Shapes, LogTyped DEF DirectoryIInv, DirectoryTypeOK
<1>1. pass'[d] = q /\ \A e \in Devices \ {d} : pass'[e] = pass[e]
  BY <1>0 DEF DirectoryTypeOK
<1>2. DirectoryTypeOK'
  <2>1. /\ change' \in [Devices -> Change \cup {None}] /\ copy' \in [Devices -> Copy \cup {None}]
        /\ command' \in [Devices -> Command \cup {None}] /\ seen' \in [Devices -> Nat]
    BY Installs
  <2>. QED BY <1>0, <2>1, ServerStill DEF DirectoryTypeOK
<1>3. \A e \in Devices \ {d} : Still(e)
  <2>1. \A e \in Devices \ {d} :
              /\ change'[e] = change[e] /\ copy'[e] = copy[e] /\ command'[e] = command[e]
              /\ seen'[e] = seen[e]
    BY Installs
  <2>. QED BY <1>1, <2>1 DEF Still
<1>4. /\ seen'[d] \in Nat /\ seen[d] <= seen'[d] /\ card.version <= seen'[d] /\ seen'[d] <= Version
      /\ change'[d] # None => change'[d].base = card.version /\ change'[d].server = None
      /\ copy'[d] # None => copy'[d].base = card.version
      /\ change'[d] = None => copy'[d] = None \/ Acknowledged(d)
      /\ (copy'[d] # None /\ Acknowledged(d)) => copy'[d].content = card.content
      /\ copy'[d] # None => (Kind = "client" => ~copy'[d].content.private)
      /\ command'[d] # None => command'[d].base = card.version
      /\ card.version \in Nat
  BY Installs, CardDownloaded DEF ShownTo
<1>5. user[d] # None /\ pass[d].listed # None
  BY <1>0 DEF DeviceInv, PassShape
<1>6. Truthful(d)'
  <2>1. q.listed.record # None => ShownTo(q.listed.record, user[d])
    BY <1>0, <1>5 DEF DeviceInv, Truthful
  <2>2. q.listed.gone => deleted
    BY <1>0, <1>5 DEF DeviceInv, Truthful
  <2>. QED BY <1>1, <1>4, <2>1, <2>2, ServerStill DEF Truthful, ShownTo, Served
<1>7. CleanCopy(d)'
  BY <1>4, ServerStill DEF CleanCopy, ShownTo, Served
<1>8. Sighted(d)'
  <2>1. /\ shelf[d] # None => shelf[d].base \in Nat
        /\ pass[d].command # None => pass[d].command.base \in Nat
        /\ pass[d].change # None => pass[d].change.base \in Nat
        /\ \A r \in requests : r.base \in Nat
    BY <1>0 DEF Copy, Command, Change, Pass, Request
  <2>. QED BY <1>0, <1>1, <1>4, <2>1, ServerStill DEF DeviceInv, Sighted
<1>9. PassShape(d)' /\ InHand(d)'
  BY <1>1, <1>5 DEF PassShape, InHand
<1>10. OpenClient(d)'
  BY <1>0, <1>1, <1>4, ServerStill DEF DeviceInv, OpenClient
<1>. QED BY <1>1, <1>2, <1>3, <1>5, <1>6, <1>7, <1>8, <1>9, <1>10, LoopStep

LEMMA RecoverReceiptPreserves ==
  ASSUME DirectoryIInv, UNCHANGED setting, NEW d \in Devices, RecoverReceipt(d)
  PROVE  DirectoryIInv'
<1>0. DirectoryTypeOK /\ DeviceInv(d) /\ pass[d] \in Pass /\ pass[d].phase = "updating"
  BY Shapes DEF DirectoryIInv, RecoverReceipt
<1>1. pass[d].reply = None /\ pass[d].listed # None
  BY <1>0 DEF DeviceInv, PassShape
<1>2. Taken(d) /\ pass[d].listed.record # None
  BY Decided DEF RecoverReceipt
<1>3. pass[d].listed.record \in Card /\ ShownTo(pass[d].listed.record, user[d])
  BY <1>0, <1>1, <1>2 DEF Pass, Listing, DeviceInv, Truthful
<1> DEFINE q == [pass[d] EXCEPT !.phase = "closing"]
<1>4. /\ InstallReceipt(d, pass[d].listed.record) /\ pass' = [pass EXCEPT ![d] = q]
      /\ UNCHANGED <<server, user, shelf, link, feedback, requests, ops>>
  BY <1>0 DEF RecoverReceipt, DirectoryTypeOK
<1>5. /\ q \in Pass /\ q.phase = "closing" /\ q.listed = pass[d].listed /\ q.reply = None
      /\ q.command = pass[d].command /\ q.change = pass[d].change
  BY <1>0, <1>1 DEF Pass, Phases
<1> HIDE DEF q
<1>. QED BY <1>0, <1>1, <1>2, <1>3, <1>4, <1>5, InstallStep

\* The answer to a PUT that the device waits for.
LEMMA PutAnswered ==
  ASSUME DirectoryIInv, NEW d \in Devices, pass[d].phase = "putting", pass[d].reply # None
  PROVE  /\ Taken(d) /\ pass[d].listed \in Listing /\ pass[d].listed # None
         /\ pass[d].reply \in Outcome /\ user[d] # None
         /\ pass[d].reply.status \in {"saved", "conflict"} =>
              pass[d].reply.card \in Card /\ ShownTo(pass[d].reply.card, user[d])
<1>1. DeviceInv(d) /\ pass[d] \in Pass
  BY Shapes DEF DirectoryIInv
<1>2. Taken(d) /\ pass[d].listed # None /\ user[d] # None
  BY <1>1 DEF DeviceInv, PassShape
<1>3. pass[d].listed \in Listing /\ pass[d].reply \in Outcome
  BY <1>1, <1>2 DEF Pass
<1>4. pass[d].reply.card \in Card \cup {None}
  BY <1>3 DEF Outcome
<1>. QED BY <1>1, <1>2, <1>3, <1>4 DEF DeviceInv, Truthful

LEMMA AckPutPreserves ==
  ASSUME DirectoryIInv, UNCHANGED setting, NEW d \in Devices, AckPut(d)
  PROVE  DirectoryIInv'
<1>0. /\ DirectoryTypeOK /\ DeviceInv(d) /\ pass[d] \in Pass
      /\ pass[d].phase = "putting" /\ pass[d].reply # None
      /\ UNCHANGED <<server, user, shelf, link, feedback, requests, ops>>
  BY Shapes DEF DirectoryIInv, AckPut
<1> DEFINE card == pass[d].reply.card
<1>1. /\ Taken(d) /\ pass[d].listed \in Listing /\ pass[d].listed # None
      /\ pass[d].reply.status \in {"saved", "conflict"} => card \in Card /\ ShownTo(card, user[d])
  BY <1>0, PutAnswered
<1>2. ASSUME /\ pass[d].reply.status = "saved" /\ InstallReceipt(d, card)
             /\ pass' = [pass EXCEPT ![d].phase = "closing", ![d].reply = None,
                                     ![d].listed.record = card]
      PROVE  DirectoryIInv'
  <2> DEFINE seenNow == [pass[d].listed EXCEPT !.record = card]
             q == [pass[d] EXCEPT !.phase = "closing", !.reply = None, !.listed = seenNow]
  <2>1. /\ seenNow \in Listing /\ seenNow.record = card /\ seenNow.gone = pass[d].listed.gone
    BY <1>1, <1>2 DEF Listing
  <2>2. seenNow # None
    BY <2>1, NothingIsNone
  <2>3. pass' = [pass EXCEPT ![d] = q]
    BY <1>0, <1>2 DEF DirectoryTypeOK, Pass
  <2> HIDE DEF seenNow
  <2>4. /\ q \in Pass /\ q.phase = "closing" /\ q.listed = seenNow /\ q.reply = None
        /\ q.command = pass[d].command /\ q.change = pass[d].change
    BY <1>0, <2>1 DEF Pass, Phases
  <2> HIDE DEF q
  <2>. QED BY <1>0, <1>1, <1>2, <2>1, <2>2, <2>3, <2>4, InstallStep
<1> DEFINE q == [pass[d] EXCEPT !.phase = "closing", !.reply = None, !.failed = TRUE]
<1>3. ASSUME /\ pass[d].reply.status = "conflict"
             /\ change' = [change EXCEPT ![d] = Conflicting(d, card)]
             /\ seen' = [seen EXCEPT ![d] = Later(seen[d], card.version)]
             /\ pass' = [pass EXCEPT ![d] = q]
             /\ UNCHANGED <<copy, command>>
      PROVE  DirectoryIInv'
  BY <1>0, <1>1, <1>3, MeetsConflict
<1>4. ASSUME pass' = [pass EXCEPT ![d] = q], UNCHANGED <<copy, change, command, seen>>
      PROVE  DirectoryIInv'
  <2>1. /\ pass'[d] = q /\ \A e \in Devices \ {d} : pass'[e] = pass[e]
    BY <1>0, <1>4 DEF DirectoryTypeOK
  <2>2. /\ q \in Pass /\ q.listed = pass[d].listed /\ q.phase = "closing"
        /\ q.command = pass[d].command /\ q.change = pass[d].change /\ q.reply = None
    BY <1>0 DEF Pass, Phases
  <2> HIDE DEF q
  <2>3. DirectoryTypeOK'
    BY <1>0, <1>4, <2>1, <2>2, ServerStill DEF DirectoryTypeOK
  <2>4. seen[d] <= seen'[d] /\ seen'[d] <= Version
    BY <1>0, <1>4, Shapes DEF DeviceInv, Sighted
  <2>5. change[d] # None =>
          /\ change[d].base <= seen[d]
          /\ change[d].server # None =>
               /\ Served(change[d].server) /\ change[d].server.version <= seen[d]
               /\ change[d].owner # None => ShownTo(change[d].server, change[d].owner)
    BY <1>0 DEF DeviceInv, Sighted, Truthful
  <2>6. \A e \in Devices \ {d} : Still(e)
    BY <1>0, <1>4, <2>1 DEF Still
  <2>. QED BY <1>0, <1>4, <2>1, <2>2, <2>3, <2>4, <2>5, <2>6, ClosingStep
<1>5. pass' = [pass EXCEPT ![d].phase = "closing", ![d].reply = None, ![d].failed = TRUE]
        => pass' = [pass EXCEPT ![d] = q]
  BY <1>0 DEF DirectoryTypeOK
<1> HIDE DEF q, card
<1>. QED BY <1>2, <1>3, <1>4, <1>5 DEF AckPut, held, card

LEMMA AckDeletePreserves ==
  ASSUME DirectoryIInv, UNCHANGED setting, NEW d \in Devices, AckDelete(d)
  PROVE  DirectoryIInv'
<1>0. /\ DirectoryTypeOK /\ DeviceInv(d) /\ pass[d] \in Pass /\ seen[d] \in Nat
      /\ pass[d].phase = "removing" /\ pass[d].reply # None
      /\ UNCHANGED <<server, user, shelf, link, feedback, requests, ops>>
      /\ shelf[d] \in Copy \cup {None} /\ change[d] \in Change \cup {None}
      /\ user[d] \in Users \cup {None}
  BY Shapes DEF DirectoryIInv, AckDelete
<1> DEFINE reply == pass[d].reply
           card == reply.card
           Ends(listed, failed) == [pass[d] EXCEPT !.phase = "surveying", !.reply = None,
                                                   !.listed = listed, !.failed = failed]
<1>1. /\ user[d] # None /\ pass[d].listed # None /\ pass[d].listed \in Listing
      /\ pass[d].command # None /\ pass[d].command \in Command /\ pass[d].failed \in BOOLEAN
      /\ reply \in Outcome /\ pass[d].command.base \in Nat /\ pass[d].command.base <= seen[d]
  <2>1. /\ user[d] # None /\ pass[d].listed # None /\ pass[d].command # None
    BY <1>0 DEF DeviceInv, PassShape
  <2>2. /\ pass[d].listed \in Listing /\ pass[d].command \in Command /\ reply \in Outcome
        /\ pass[d].failed \in BOOLEAN
    BY <1>0, <2>1 DEF Pass
  <2>. QED BY <1>0, <2>1, <2>2 DEF Command, DeviceInv, Sighted
<1>2. ASSUME NEW listed \in Listing, NEW failed \in BOOLEAN,
             pass' = [pass EXCEPT ![d] = Ends(listed, failed)],
             listed.gone => deleted, listed.record # None => ShownTo(listed.record, user[d]),
             change' \in [Devices -> Change \cup {None}], copy' \in [Devices -> Copy \cup {None}],
             command' \in [Devices -> Command \cup {None}], seen' \in [Devices -> Nat],
             \A e \in Devices \ {d} : /\ change'[e] = change[e] /\ copy'[e] = copy[e]
                                      /\ command'[e] = command[e] /\ seen'[e] = seen[e],
             command'[d] \in {command[d], None}, seen[d] <= seen'[d], seen'[d] <= Version,
             change'[d] # None =>
               /\ change'[d].base <= seen'[d]
               /\ change'[d].server # None =>
                    /\ Served(change'[d].server) /\ change'[d].server.version <= seen'[d]
                    /\ change'[d].owner # None => ShownTo(change'[d].server, change'[d].owner),
             copy'[d] # None =>
               copy'[d].base <= seen'[d] /\ (Kind = "client" => ~copy'[d].content.private),
             CleanCopy(d)'
      PROVE  DirectoryIInv'
  <2>1. /\ Ends(listed, failed) \in Pass /\ Ends(listed, failed).phase = "surveying"
        /\ Ends(listed, failed).listed = listed /\ Ends(listed, failed).reply = None
        /\ Ends(listed, failed).command = pass[d].command
        /\ Ends(listed, failed).change = pass[d].change /\ listed # None
    BY <1>0, <1>2, NothingIsNone DEF Pass, Phases
  <2>2. /\ pass'[d] = Ends(listed, failed) /\ \A e \in Devices \ {d} : pass'[e] = pass[e]
        /\ pass' \in [Devices -> Pass]
    BY <1>0, <1>2, <2>1 DEF DirectoryTypeOK
  <2> HIDE DEF Ends, reply, card
  <2>3. DirectoryTypeOK'
    BY <1>0, <1>2, <2>2, ServerStill DEF DirectoryTypeOK
  <2>4. Truthful(d)'
    BY <1>0, <1>2, <2>1, <2>2, ServerStill DEF Truthful, ShownTo, Served
  <2>5. Sighted(d)'
    <3>1. /\ shelf[d] # None => shelf[d].base \in Nat
          /\ command[d] # None => command[d].base \in Nat
          /\ pass[d].command # None => pass[d].command.base \in Nat
          /\ pass[d].change # None => pass[d].change.base \in Nat
          /\ \A r \in requests : r.base \in Nat
          /\ seen'[d] \in Nat
      BY <1>0, <1>2 DEF Copy, Command, Change, Pass, Request, DirectoryTypeOK
    <3>. QED BY <1>0, <1>2, <2>1, <2>2, <3>1, ServerStill DEF DeviceInv, Sighted
  <2>6. PassShape(d)' /\ InHand(d)'
    BY <1>0, <1>1, <2>1, <2>2 DEF PassShape, InHand
  <2>7. OpenClient(d)'
    BY <1>0, <1>2, <2>1, <2>2, ServerStill DEF DeviceInv, OpenClient
  <2>8. \A e \in Devices \ {d} : Still(e)
    BY <1>0, <1>2, <2>2 DEF Still
  <2>. QED BY <1>0, <1>1, <1>2, <2>1, <2>2, <2>3, <2>4, <2>5, <2>6, <2>7, <2>8, LoopStep
<1>3. ASSUME Released(reply.status), command' = [command EXCEPT ![d] = None],
             pass' = [pass EXCEPT ![d].phase = "surveying", ![d].reply = None,
                        ![d].listed = [record |-> None, gone |-> TRUE]],
             UNCHANGED <<copy, change, seen>>
      PROVE  DirectoryIInv'
  <2> DEFINE listed == [record |-> None, gone |-> TRUE]
  <2>1. listed \in Listing /\ listed.gone /\ listed.record = None
    BY DEF Listing
  <2>2. deleted
    <3>1. reply.status = "done"
      BY <1>0, <1>3 DEF Released, DeviceInv, OpenClient
    <3>. QED BY <1>0, <3>1 DEF DeviceInv, Truthful
  <2>3. pass' = [pass EXCEPT ![d] = Ends(listed, pass[d].failed)]
    BY <1>0, <1>3 DEF DirectoryTypeOK, Pass
  <2>4. /\ command' \in [Devices -> Command \cup {None}] /\ command'[d] = None
        /\ \A e \in Devices \ {d} : command'[e] = command[e]
    BY <1>0, <1>3 DEF DirectoryTypeOK
  <2>5. Sighted(d) /\ Truthful(d) /\ CleanCopy(d)' /\ OpenClient(d)
    BY <1>0, <1>3, ServerStill DEF DeviceInv, CleanCopy, Served
  <2>6. /\ change[d] # None =>
             /\ change[d].base <= seen[d]
             /\ change[d].server # None =>
                  /\ Served(change[d].server) /\ change[d].server.version <= seen[d]
                  /\ change[d].owner # None => ShownTo(change[d].server, change[d].owner)
        /\ copy[d] # None =>
             copy[d].base <= seen[d] /\ (Kind = "client" => ~copy[d].content.private)
        /\ seen[d] <= seen[d] /\ seen[d] <= Version
    BY <1>0, <2>5 DEF Sighted, Truthful, OpenClient
  <2> HIDE DEF listed, Ends
  <2>7. /\ copy' = copy /\ change' = change /\ seen' = seen
        /\ copy \in [Devices -> Copy \cup {None}] /\ change \in [Devices -> Change \cup {None}]
        /\ seen \in [Devices -> Nat] /\ pass[d].failed \in BOOLEAN
    BY <1>0, <1>1, <1>3 DEF DirectoryTypeOK
  <2> HIDE DEF reply, card
  <2>. QED BY <1>2, <2>1, <2>2, <2>3, <2>4, <2>5, <2>6, <2>7
<1>4. ASSUME reply.status = "conflict",
             copy' = [copy EXCEPT ![d] = Downloaded(card)],
             change' = [change EXCEPT ![d] = Returned(d, card)],
             command' = [command EXCEPT ![d] = None],
             seen' = [seen EXCEPT ![d] = Later(seen[d], card.version)],
             pass' = [pass EXCEPT ![d].phase = "surveying", ![d].reply = None, ![d].failed = TRUE]
      PROVE  DirectoryIInv'
  <2>1. card \in Card /\ ShownTo(card, user[d])
    BY <1>0, <1>1, <1>4 DEF Outcome, DeviceInv, Truthful
  <2>2. /\ Downloaded(card) \in Copy /\ Downloaded(card).base = card.version
        /\ Downloaded(card).content = card.content
        /\ card.version \in Nat /\ card.version <= Version
        /\ Kind = "client" => ~card.content.private
    BY <2>1, CardDownloaded DEF ShownTo
  <2>3. /\ Returned(d, card) \in Change /\ Returned(d, card).server = card
        /\ Returned(d, card).base <= seen[d] /\ Returned(d, card).base \in Nat
        /\ Returned(d, card).owner # user[d] => Kind = "client"
    <3>1. change[d] # None => change[d].base \in Nat /\ change[d].base <= seen[d]
                              /\ change[d].owner \in Users \cup {None} /\ change[d].gone \in BOOLEAN
      BY <1>0 DEF Change, DeviceInv, Sighted
    <3>2. Returned(d, card) \in Change
      BY <1>0, <1>1, <2>1, <3>1 DEF Returned, Change
    <3>. QED BY <1>1, <3>1, <3>2 DEF Returned
  <2>4. pass' = [pass EXCEPT ![d] = Ends(pass[d].listed, TRUE)]
    BY <1>0, <1>4 DEF DirectoryTypeOK, Pass
  <2>5. /\ command' \in [Devices -> Command \cup {None}] /\ command'[d] = None
        /\ change' \in [Devices -> Change \cup {None}] /\ change'[d] = Returned(d, card)
        /\ copy' \in [Devices -> Copy \cup {None}] /\ copy'[d] = Downloaded(card)
        /\ seen' \in [Devices -> Nat] /\ seen'[d] = Later(seen[d], card.version)
        /\ \A e \in Devices \ {d} : /\ change'[e] = change[e] /\ copy'[e] = copy[e]
                                    /\ command'[e] = command[e] /\ seen'[e] = seen[e]
    BY <1>0, <1>4, <2>2, <2>3, LaterIsBoth DEF DirectoryTypeOK
  <2>6. /\ seen[d] <= seen'[d] /\ card.version <= seen'[d] /\ seen'[d] <= Version /\ seen'[d] \in Nat
    BY <1>0, <2>2, <2>5, LaterIsBoth DEF DeviceInv, Sighted
  <2>7. /\ pass[d].listed.gone => deleted
        /\ pass[d].listed.record # None => ShownTo(pass[d].listed.record, user[d])
    BY <1>0, <1>1 DEF DeviceInv, Truthful
  <2>8. CleanCopy(d)'
    BY <2>3, <2>5, NothingIsNone DEF CleanCopy
  <2>9. /\ Returned(d, card).base <= seen'[d] /\ Served(card)
        /\ Returned(d, card).owner # None => ShownTo(card, Returned(d, card).owner)
    BY <1>0, <2>1, <2>2, <2>3, <2>6 DEF ShownTo
  <2> HIDE DEF reply, card, Ends
  <2>. QED BY <1>0, <1>1, <1>2, <2>2, <2>3, <2>4, <2>5, <2>6, <2>7, <2>8, <2>9
<1>5. ASSUME pass' = [pass EXCEPT ![d].phase = "surveying", ![d].reply = None, ![d].failed = TRUE],
             UNCHANGED <<copy, change, command, seen>>
      PROVE  DirectoryIInv'
  <2>1. pass' = [pass EXCEPT ![d] = Ends(pass[d].listed, TRUE)]
    BY <1>0, <1>5 DEF DirectoryTypeOK, Pass
  <2>2. Sighted(d) /\ Truthful(d) /\ CleanCopy(d)' /\ OpenClient(d)
    BY <1>0, <1>5, ServerStill DEF DeviceInv, CleanCopy, Served
  <2>3. /\ change[d] # None =>
             /\ change[d].base <= seen[d]
             /\ change[d].server # None =>
                  /\ Served(change[d].server) /\ change[d].server.version <= seen[d]
                  /\ change[d].owner # None => ShownTo(change[d].server, change[d].owner)
        /\ copy[d] # None =>
             copy[d].base <= seen[d] /\ (Kind = "client" => ~copy[d].content.private)
        /\ seen[d] <= seen[d] /\ seen[d] <= Version
        /\ pass[d].listed.gone => deleted
        /\ pass[d].listed.record # None => ShownTo(pass[d].listed.record, user[d])
    BY <1>0, <1>1, <2>2 DEF Sighted, Truthful, OpenClient
  <2> HIDE DEF reply, card, Ends
  <2>. QED BY <1>0, <1>1, <1>2, <1>5, <2>1, <2>2, <2>3 DEF DirectoryTypeOK
<1> HIDE DEF Ends
<1>. QED BY <1>3, <1>4, <1>5 DEF AckDelete, held

LEMMA ClosePreserves ==
  ASSUME DirectoryIInv, UNCHANGED setting, NEW d \in Devices, Close(d)
  PROVE  DirectoryIInv'
<1>0. /\ DirectoryTypeOK /\ DeviceInv(d) /\ pass[d] \in Pass /\ seen[d] \in Nat /\ Version \in Nat
      /\ copy[d] \in Copy \cup {None} /\ change[d] \in Change \cup {None}
      /\ command[d] \in Command \cup {None} /\ shelf[d] \in Copy \cup {None}
      /\ requests \subseteq Request
  BY Shapes, LogTyped DEF DirectoryIInv, DirectoryTypeOK
<1> DEFINE record == pass[d].listed.record
           left == RemainingChange(d)
           copy1 == IF Pending(d) THEN copy[d]
                    ELSE IF Offered(d) THEN Downloaded(record) ELSE None
           seen1 == IF ~Pending(d) /\ Offered(d) THEN Later(seen[d], record.version) ELSE seen[d]
           link1 == link[d] /\ ~(Kind = "client" /\ pass[d].listed.gone)
           waits == pass[d].failed \/ NeedsReview(d)
           pass1 == IF pass[d].again /\ ~waits THEN Listing0 ELSE NoPass
<1>1. /\ pass[d].phase = "closing"
      /\ change' = [change EXCEPT ![d] = left] /\ copy' = [copy EXCEPT ![d] = copy1]
      /\ seen' = [seen EXCEPT ![d] = seen1] /\ link' = [link EXCEPT ![d] = link1]
      /\ feedback' = [feedback EXCEPT ![d] = waits] /\ pass' = [pass EXCEPT ![d] = pass1]
      /\ UNCHANGED <<server, user, command, shelf, requests, ops>>
  BY DEF Close
<1>2. /\ user[d] # None /\ pass[d].listed # None /\ pass[d].listed \in Listing
      /\ record \in Card \cup {None} /\ pass[d].listed.gone \in BOOLEAN
  BY <1>0, <1>1 DEF DeviceInv, PassShape, Pass, Listing
<1>3. left \in {None, change[d]}
  BY DEF RemainingChange
<1>4. Offered(d) =>
        /\ record \in Card /\ ShownTo(record, user[d]) /\ Served(record)
        /\ Downloaded(record) \in Copy /\ Downloaded(record).base = record.version
        /\ Downloaded(record).content = record.content
        /\ record.version \in Nat /\ record.version <= Version
        /\ Kind = "client" => ~record.content.private
  <2>1. Offered(d) => record \in Card /\ ShownTo(record, user[d]) /\ Served(record)
    BY <1>0, <1>2 DEF Offered, DeviceInv, Truthful, ShownTo
  <2>. QED BY <2>1, CardDownloaded
<1>5. /\ seen1 \in Nat /\ seen[d] <= seen1 /\ seen1 <= Version
      /\ (~Pending(d) /\ Offered(d)) => record.version <= seen1
  BY <1>0, <1>4, LaterIsBoth DEF DeviceInv, Sighted
<1>6. Pending(d) => copy[d] # None /\ left # None
  BY DEF Pending
<1>7. /\ copy1 \in Copy \cup {None}
      /\ copy1 # None => copy1.base <= seen1 /\ (Kind = "client" => ~copy1.content.private)
      /\ (copy1 # None /\ left = None) =>
           Served([version |-> copy1.base, content |-> copy1.content])
  <2>1. CASE Pending(d)
    <3>1. copy[d].base \in Nat /\ copy[d].base <= seen[d] /\ copy1 = copy[d]
      BY <1>0, <1>6, <2>1 DEF Copy, DeviceInv, Sighted
    <3>2. Kind = "client" => ~copy[d].content.private
      BY <1>0, <1>6, <2>1 DEF DeviceInv, OpenClient
    <3>. QED BY <1>0, <1>5, <1>6, <2>1, <3>1, <3>2
  <2>2. CASE ~Pending(d) /\ Offered(d)
    <3>1. copy1 = Downloaded(record)
      BY <2>2
    <3>. QED BY <1>4, <1>5, <2>2, <3>1 DEF Served
  <2>3. CASE ~Pending(d) /\ ~Offered(d)
    BY <2>3
  <2>. QED BY <2>1, <2>2, <2>3
<1>8. /\ pass1 \in Pass /\ pass1.phase \in {"idle", "listing"} /\ pass1.listed = None
      /\ pass1.command = None /\ pass1.change = None /\ pass1.reply = None
  BY PassTyped DEF Listing0, NoPass
<1>9. link1 \in BOOLEAN /\ waits \in BOOLEAN
  <2>1. pass[d].failed \in BOOLEAN
    BY <1>0 DEF Pass
  <2>2. NeedsReview(d) \in BOOLEAN
    BY DEF NeedsReview
  <2>. QED BY <2>1, <2>2
<1> HIDE DEF left, copy1, seen1, link1, waits, pass1
<1>10. /\ change'[d] = left /\ copy'[d] = copy1 /\ seen'[d] = seen1 /\ pass'[d] = pass1
       /\ \A e \in Devices \ {d} : /\ change'[e] = change[e] /\ copy'[e] = copy[e]
                                   /\ seen'[e] = seen[e] /\ pass'[e] = pass[e]
  BY <1>0, <1>1 DEF DirectoryTypeOK
<1>11. DirectoryTypeOK'
  <2>1. change' \in [Devices -> Change \cup {None}] /\ copy' \in [Devices -> Copy \cup {None}]
    BY <1>0, <1>1, <1>3, <1>7 DEF DirectoryTypeOK
  <2>2. seen' \in [Devices -> Nat] /\ link' \in [Devices -> BOOLEAN]
    BY <1>0, <1>1, <1>5, <1>9 DEF DirectoryTypeOK
  <2>3. feedback' \in [Devices -> BOOLEAN] /\ pass' \in [Devices -> Pass]
    BY <1>0, <1>1, <1>8, <1>9 DEF DirectoryTypeOK
  <2>. QED BY <1>0, <1>1, <2>1, <2>2, <2>3, ServerStill DEF DirectoryTypeOK
<1>12. Truthful(d)'
  BY <1>0, <1>1, <1>3, <1>8, <1>10, ServerStill DEF DeviceInv, Truthful, ShownTo, Served
<1>13. CleanCopy(d)'
  BY <1>1, <1>7, <1>10, ServerStill DEF CleanCopy, Served
<1>14. Sighted(d)'
  <2>1. /\ shelf[d] # None => shelf[d].base \in Nat
        /\ command[d] # None => command[d].base \in Nat
        /\ change[d] # None => /\ change[d].base \in Nat
                               /\ change[d].server # None => change[d].server.version \in Nat
        /\ \A r \in requests : r.base \in Nat
    BY <1>0 DEF Copy, Command, Change, Card, Request
  <2>. QED BY <1>0, <1>1, <1>3, <1>5, <1>7, <1>8, <1>10, <2>1, ServerStill DEF DeviceInv, Sighted
<1>15. PassShape(d)' /\ InHand(d)'
  BY <1>1, <1>2, <1>8, <1>10 DEF PassShape, InHand
<1>16. OpenClient(d)'
  BY <1>0, <1>1, <1>7, <1>8, <1>10, ServerStill DEF DeviceInv, OpenClient
<1>17. \A e \in Devices \ {d} : Still(e)
  BY <1>1, <1>10 DEF Still
<1>. QED BY <1>1, <1>2, <1>8, <1>10, <1>11, <1>12, <1>13, <1>14, <1>15, <1>16, <1>17, LoopStep

-----------------------------------------------------------------------------
(* The requests.                                                           *)

LEMMA SendStep ==
  ASSUME DirectoryIInv,
         UNCHANGED <<setting, server, user, copy, change, command, shelf, link, feedback, seen, ops>>,
         NEW d \in Devices, NEW r \in Request, NEW q \in Pass,
         requests' = requests \cup {r}, pass' = [pass EXCEPT ![d] = q],
         r.from = d, r.awaited, r.user = user[d], r.base <= seen[d], user[d] # None,
         pass[d].phase \in {"deleting", "updating"}, q.listed = pass[d].listed,
         q.command = pass[d].command, q.change = pass[d].change, q.touched = pass[d].touched,
         q.reply = pass[d].reply,
         \/ /\ r.kind = "put" /\ pass[d].phase = "updating" /\ q.phase = "putting" /\ Taken(d)
            /\ copy[d] # None /\ r.content = copy[d].content /\ r.content # None
            /\ r.base = pass[d].change.base
         \/ /\ r.kind = "delete" /\ pass[d].phase = "deleting" /\ q.phase = "removing"
            /\ r.content = None /\ Version > 0 /\ pass[d].command # None
  PROVE  DirectoryIInv'
<1>0. DirectoryTypeOK /\ ClientsAreOpen /\ DeviceInv(d)
  BY DEF DirectoryIInv
<1>1. pass'[d] = q /\ \A e \in Devices \ {d} : pass'[e] = pass[e]
  BY <1>0 DEF DirectoryTypeOK
<1>2. \A s \in requests : s.from = d => ~s.awaited
  BY <1>0 DEF DeviceInv, Asking
<1>3. DirectoryTypeOK'
  BY <1>0, ServerStill DEF DirectoryTypeOK
<1>4. ClientsAreOpen'
  <2>1. (Kind = "client" /\ r.content # None) => ~r.content.private
    BY <1>0 DEF DeviceInv, OpenClient
  <2>. QED BY <1>0, <2>1, ServerStill DEF ClientsAreOpen
<1>5. pass[d].reply = None
  BY <1>0 DEF DeviceInv, PassShape
<1>6. Truthful(d)'
  BY <1>0, <1>1, ServerStill DEF DeviceInv, Truthful, ShownTo, Served
<1>7. CleanCopy(d)' /\ Sighted(d)'
  BY <1>0, <1>1, ServerStill DEF DeviceInv, CleanCopy, Served, Sighted
<1>8. PassShape(d)' /\ OutOfUse(d)'
  BY <1>0, <1>1, <1>5 DEF DeviceInv, PassShape, OutOfUse, Taken, Own
<1>9. InHand(d)'
  BY <1>0, <1>1 DEF DeviceInv, InHand, Taken, Own
<1>10. Asking(d)'
  BY <1>0, <1>1, <1>2, <1>5, ServerStill DEF DeviceInv, Asking
<1>11. Sent(d)'
  BY <1>0, <1>1, <1>2, <1>5 DEF Sent
<1>12. OpenClient(d)'
  BY <1>0, <1>1, <1>5, ServerStill DEF DeviceInv, OpenClient
<1>13. DeviceInv(d)'
  BY <1>6, <1>7, <1>8, <1>9, <1>10, <1>11, <1>12 DEF DeviceInv
<1>14. \A e \in Devices \ {d} : Still(e)
  BY <1>1 DEF Still
<1>. QED BY <1>3, <1>4, <1>13, <1>14, LocalStep

LEMMA SendDeletePreserves ==
  ASSUME DirectoryIInv, UNCHANGED setting, NEW d \in Devices, SendDelete(d)
  PROVE  DirectoryIInv'
<1>0. /\ DirectoryTypeOK /\ DeviceInv(d) /\ pass[d] \in Pass /\ Version \in Nat
      /\ user[d] \in Users \cup {None} /\ seen[d] \in Nat
  BY Shapes, LogTyped DEF DirectoryIInv
<1> DEFINE r == [from |-> d, user |-> user[d], kind |-> "delete",
                 base |-> pass[d].command.base, content |-> None, awaited |-> TRUE]
           q == [pass[d] EXCEPT !.phase = "removing"]
<1>1. /\ pass[d].phase = "deleting" /\ pass[d].command # None
      /\ pass[d].listed.record # None \/ pass[d].command.base > 0
      /\ requests' = requests \cup {r} /\ pass' = [pass EXCEPT ![d] = q]
      /\ UNCHANGED <<server, user, copy, change, command, shelf, link, feedback, seen, ops>>
  BY <1>0 DEF SendDelete, held, DirectoryTypeOK
<1>2. /\ user[d] # None /\ pass[d].listed # None /\ user[d] \in Users
      /\ pass[d].command \in Command /\ pass[d].listed \in Listing
  BY <1>0, <1>1 DEF DeviceInv, PassShape, Pass
<1>3. pass[d].command.base \in Nat /\ pass[d].command.base <= seen[d] /\ seen[d] <= Version
  BY <1>0, <1>1, <1>2 DEF Command, DeviceInv, Sighted
<1>4. Version > 0
  <2>1. pass[d].listed.record # None => pass[d].listed.record.version \in 1..Version
    BY <1>0, <1>2 DEF DeviceInv, Truthful, ShownTo, Served
  <2>. QED BY <1>0, <1>1, <1>3, <2>1
<1>5. r \in Request /\ r.from = d /\ r.awaited /\ r.user = user[d] /\ r.base = pass[d].command.base
      /\ r.kind = "delete" /\ r.content = None
  BY <1>2, <1>3 DEF Request
<1>6. /\ q \in Pass /\ q.phase = "removing" /\ q.listed = pass[d].listed /\ q.reply = pass[d].reply
      /\ q.command = pass[d].command /\ q.change = pass[d].change /\ q.touched = pass[d].touched
  BY <1>0 DEF Pass, Phases
<1> HIDE DEF r, q
<1>. QED BY <1>1, <1>2, <1>3, <1>4, <1>5, <1>6, SendStep

LEMMA SendPutPreserves ==
  ASSUME DirectoryIInv, UNCHANGED setting, NEW d \in Devices, SendPut(d)
  PROVE  DirectoryIInv'
<1>0. /\ DirectoryTypeOK /\ DeviceInv(d) /\ pass[d] \in Pass /\ copy[d] \in Copy \cup {None}
      /\ user[d] \in Users \cup {None}
  BY Shapes DEF DirectoryIInv
<1> DEFINE r == [from |-> d, user |-> user[d], kind |-> "put", base |-> pass[d].change.base,
                 content |-> copy[d].content, awaited |-> TRUE]
           q == [pass[d] EXCEPT !.phase = "putting"]
<1>1. /\ pass[d].phase = "updating" /\ Decision(d) = "put"
      /\ requests' = requests \cup {r} /\ pass' = [pass EXCEPT ![d] = q]
      /\ UNCHANGED <<server, user, copy, change, command, shelf, link, feedback, seen, ops>>
  BY <1>0 DEF SendPut, held, DirectoryTypeOK
<1>2. /\ Taken(d) /\ copy[d] # None /\ pass[d].change # None
  BY <1>1, Decided DEF Taken
<1>3. /\ user[d] # None /\ user[d] \in Users /\ pass[d].change \in Change
      /\ copy[d].content \in Content /\ copy[d].content # None
  BY <1>0, <1>1, <1>2, NothingIsNone DEF DeviceInv, PassShape, Pass, Copy
<1>4. pass[d].change.base \in Nat /\ pass[d].change.base <= seen[d]
  BY <1>0, <1>2, <1>3 DEF Change, DeviceInv, Sighted
<1>5. r \in Request /\ r.from = d /\ r.awaited /\ r.user = user[d] /\ r.base = pass[d].change.base
      /\ r.kind = "put" /\ r.content = copy[d].content
  BY <1>3, <1>4 DEF Request
<1>6. /\ q \in Pass /\ q.phase = "putting" /\ q.listed = pass[d].listed /\ q.reply = pass[d].reply
      /\ q.command = pass[d].command /\ q.change = pass[d].change /\ q.touched = pass[d].touched
  BY <1>0 DEF Pass, Phases
<1> HIDE DEF r, q
<1>. QED BY <1>1, <1>2, <1>3, <1>4, <1>5, <1>6, SendStep

-----------------------------------------------------------------------------
(* The server.                                                             *)

\* The log goes on with what one device wrote, and that device gets a true
\* answer if it still waits.
Answered(r, status, card) ==
  /\ [status |-> status, card |-> card] \in Outcome
  /\ status \in {"saved", "conflict"} => card # None
  /\ card # None =>
       /\ card.version \in 1..Version' /\ published'[card.version].content = card.content
       /\ card.content.private => Creator' = r.user
  /\ status = "done" => deleted'
  /\ status = "saved" => /\ r.kind = "put" /\ r.base = Version /\ Version' = Version + 1
                         /\ card.version = Version' /\ card.content = r.content
  /\ (status = "absent" /\ Kind = "client") => r.kind = "put"

\* The device that asked.
LEMMA AskerStep ==
  ASSUME DirectoryIInv, UNCHANGED setting, NEW r \in requests, NEW d \in Devices, r.from = d,
         NEW status, NEW card,
         Reply(r, status, card), Answered(r, status, card), Grows, pass' \in [Devices -> Pass],
         Version' > Version => r.base = Version
  PROVE  DeviceInv(d)'
<1> DEFINE outcome == [status |-> status, card |-> card]
<1>0. /\ DirectoryTypeOK /\ d \in Devices /\ DeviceInv(d) /\ pass[d] \in Pass /\ Version \in Nat
      /\ requests \subseteq Request /\ Kind' = Kind /\ Version' \in Nat /\ Version <= Version'
      /\ r.base \in Nat /\ seen[d] \in Nat
  <2>1. r \in Request
    BY DEF DirectoryIInv, DirectoryTypeOK
  <2>. QED BY <2>1, Shapes, LogTyped DEF DirectoryIInv, DirectoryTypeOK, Request, Kind, Grows
<1>1. /\ requests' = requests \ {r}
      /\ UNCHANGED <<user, copy, change, command, shelf, link, feedback, seen, ops>>
      /\ r.awaited => pass' = [pass EXCEPT ![d].reply = outcome]
      /\ ~r.awaited => pass' = pass
  BY DEF Reply, held
<1>2. /\ pass'[d].phase = pass[d].phase /\ pass'[d].listed = pass[d].listed
      /\ pass'[d].command = pass[d].command /\ pass'[d].change = pass[d].change
      /\ pass'[d].touched = pass[d].touched
      /\ pass'[d].reply = IF r.awaited THEN outcome ELSE pass[d].reply
  <2>1. CASE r.awaited
    <3>1. pass'[d] = [pass[d] EXCEPT !.reply = outcome]
      BY <1>0, <1>1, <2>1 DEF DirectoryTypeOK
    <3>. QED BY <1>0, <2>1, <3>1 DEF Pass
  <2>2. CASE ~r.awaited
    BY <1>1, <2>2
  <2>. QED BY <2>1, <2>2
<1>3. r.awaited =>
        /\ pass[d].reply = None /\ r.user = user[d] /\ user[d] # None
        /\ pass[d].phase = IF r.kind = "put" THEN "putting" ELSE "removing"
        /\ \A s \in requests' : s.from = d => ~s.awaited
  BY <1>0, <1>1 DEF DeviceInv, Asking, PassShape
<1>4. /\ outcome # None /\ outcome.status = status /\ outcome.card = card /\ outcome \in Outcome
  BY NothingIsNone DEF Answered
<1> HIDE DEF outcome
<1>5. ASSUME NEW shown, Served(shown)
      PROVE  /\ shown.version \in 1..Version' /\ published'[shown.version].content = shown.content
             /\ Creator' = Creator
  BY <1>5, ServedStays
<1>14. deleted => deleted'
  BY DEF Grows
<1>6. Truthful(d)'
  <2>0. Truthful(d)
    BY <1>0 DEF DeviceInv
  <2>1. pass[d].listed # None =>
          /\ pass[d].listed.gone => deleted'
          /\ pass[d].listed.record # None => ShownTo(pass[d].listed.record, user[d])'
    BY <1>1, <1>2, <1>5, <1>14, <2>0 DEF Truthful, ShownTo, Served
  <2>2. (change[d] # None /\ change[d].server # None) =>
          /\ Served(change[d].server)'
          /\ change[d].owner # None => ShownTo(change[d].server, change[d].owner)'
    BY <1>1, <1>5, <1>14, <2>0 DEF Truthful, ShownTo, Served
  <2>3. pass'[d].reply # None =>
          /\ pass'[d].reply.status \in {"saved", "conflict"} => pass'[d].reply.card # None
          /\ pass'[d].reply.card # None => ShownTo(pass[d].reply.card, user[d])'
          /\ pass'[d].reply.status = "done" => deleted'
    <3>1. CASE r.awaited
      BY <1>1, <1>2, <1>3, <1>4, <3>1 DEF Answered, ShownTo, Served
    <3>2. CASE ~r.awaited
      BY <1>1, <1>2, <1>5, <1>14, <2>0, <3>2 DEF Truthful, ShownTo, Served
    <3>. QED BY <3>1, <3>2
  <2>. QED BY <1>1, <1>2, <2>1, <2>2, <2>3 DEF Truthful
<1>7. CleanCopy(d)'
  <2>1. CleanCopy(d)
    BY <1>0 DEF DeviceInv
  <2>. QED BY <1>1, <2>1, ServedStays DEF CleanCopy, Served
<1>8. Sighted(d)'
  BY <1>0, <1>1, <1>2 DEF DeviceInv, Sighted
<1>9. PassShape(d)' /\ OutOfUse(d)' /\ InHand(d)'
  BY <1>0, <1>1, <1>2, <1>3 DEF DeviceInv, PassShape, OutOfUse, InHand, Taken, Own
<1>10. Asking(d)'
  <2>1. \A s \in requests' : s \in requests
    BY <1>1
  <2>2. CASE r.awaited
    BY <1>0, <1>1, <1>3, <2>1, <2>2 DEF DeviceInv, Asking
  <2>3. CASE ~r.awaited
    BY <1>0, <1>1, <1>2, <2>1, <2>3 DEF DeviceInv, Asking
  <2>. QED BY <2>2, <2>3
<1>11. Sent(d)'
  <2>0. /\ Sent(d) /\ seen[d] <= Version
        /\ \A s \in requests : s.from = d => s.base \in Nat /\ s.base <= seen[d]
    BY <1>0 DEF DeviceInv, Sighted, Request
  <2>1. CASE r.awaited
    <3>1. SUFFICES ASSUME pass[d].phase = "putting", status = "saved"
                   PROVE  /\ pass[d].change.base < card.version
                          /\ ~pass[d].touched => copy[d] # None /\ card.content = copy[d].content
                          /\ \A s \in requests' : s.from = d => s.base < card.version
                          /\ \A w \in card.version + 1 .. Version' : published'[w].from # d
      BY <1>1, <1>2, <1>3, <1>4, <2>1 DEF Sent
    <3>2. /\ r.base = Version /\ card.version = Version + 1 /\ Version' = Version + 1
          /\ card.content = r.content
      BY <3>1 DEF Answered
    <3>3. /\ r.base = pass[d].change.base
          /\ ~pass[d].touched => copy[d] # None /\ r.content = copy[d].content
      BY <2>0, <2>1, <3>1 DEF Sent
    <3>4. \A s \in requests' : s.from = d => s.base < card.version
      BY <1>0, <1>1, <2>0, <3>2
    <3>. QED BY <1>0, <3>2, <3>3, <3>4
  <2>2. CASE ~r.awaited
    <3>1. pass'[d] = pass[d] /\ \A s \in requests' : s \in requests
      BY <1>1, <2>2
    <3>2. (pass[d].phase = "putting" /\ pass[d].reply # None /\ pass[d].reply.status = "saved")
            => Version' = Version
      <4>1. SUFFICES ASSUME pass[d].phase = "putting", pass[d].reply # None,
                            pass[d].reply.status = "saved", Version' > Version
                     PROVE  FALSE
        BY <1>0
      <4>2. pass[d].reply.card.version \in 1..Version
        BY <1>0, <4>1 DEF DeviceInv, Truthful, ShownTo, Served
      <4>3. r.base < pass[d].reply.card.version
        BY <2>0, <4>1 DEF Sent
      <4>. QED BY <1>0, <4>1, <4>2, <4>3
    <3>3. ASSUME pass[d].phase = "putting", pass[d].reply # None, pass[d].reply.status = "saved"
          PROVE  \A w \in pass[d].reply.card.version + 1 .. Version' : published'[w].from # d
      <4>1. pass[d].reply.card.version \in 1..Version
        BY <1>0, <3>3 DEF DeviceInv, Truthful, ShownTo, Served
      <4>. QED BY <1>0, <2>0, <3>2, <3>3, <4>1 DEF Sent, Grows
    <3>. QED BY <1>1, <2>0, <3>1, <3>3 DEF Sent
  <2>. QED BY <2>1, <2>2
<1>12. OpenClient(d)'
  BY <1>0, <1>1, <1>2, <1>3, <1>4 DEF DeviceInv, OpenClient, Answered
<1>. QED BY <1>6, <1>7, <1>8, <1>9, <1>10, <1>11, <1>12 DEF DeviceInv

\* What a request makes of the log: nothing, or one more version.
Written(r) ==
  \/ published' = published
  \/ \E entry \in Entry :
       /\ published' = Append(published, entry) /\ entry.from = r.from /\ r.base = Version
       /\ Kind = "client" => ~entry.content.private

LEMMA WrittenGrows ==
  ASSUME DirectoryTypeOK, NEW r, Written(r), deleted' \in BOOLEAN, deleted => deleted'
  PROVE  /\ Grows /\ published' \in Seq(Entry)
         /\ Version' > Version => r.base = Version /\ Version' = Version + 1
         /\ \A w \in Version + 1 .. Version' :
              published'[w].from = r.from /\ (Kind = "client" => ~published'[w].content.private)
<1>1. published \in Seq(Entry) /\ Version \in Nat
  BY LogTyped DEF DirectoryTypeOK
<1>2. CASE published' = published
  <2>1. Version' = Version
    BY <1>2 DEF Version
  <2>. QED BY <1>1, <1>2, <2>1 DEF Grows
<1>3. CASE published' # published
  <2>1. PICK entry \in Entry :
          /\ published' = Append(published, entry) /\ entry.from = r.from /\ r.base = Version
          /\ Kind = "client" => ~entry.content.private
    BY <1>3 DEF Written
  <2>2. /\ published' \in Seq(Entry) /\ Version' = Version + 1
        /\ \A v \in 1..Version : published'[v] = published[v]
        /\ published'[Version + 1] = entry
    BY <1>1, <2>1 DEF Version
  <2>3. ASSUME NEW w \in Version + 1 .. Version'
        PROVE  published'[w] = entry
    <3>1. w = Version + 1
      BY <1>1, <2>2
    <3>. QED BY <2>2, <3>1
  <2>4. Grows
    BY <1>1, <2>2 DEF Grows
  <2>5. \A w \in Version + 1 .. Version' :
          published'[w].from = r.from /\ (Kind = "client" => ~published'[w].content.private)
    BY <2>1, <2>3
  <2>. QED BY <2>1, <2>2, <2>4, <2>5
<1>. QED BY <1>2, <1>3

LEMMA ServerStep ==
  ASSUME DirectoryIInv, UNCHANGED setting, NEW r \in requests, NEW status, NEW card,
         Reply(r, status, card), Written(r), deleted' \in BOOLEAN, deleted => deleted',
         Answered(r, status, card)
  PROVE  DirectoryIInv'
<1>0. /\ DirectoryTypeOK /\ r \in Request /\ r.from \in Devices /\ Version \in Nat
  BY LogTyped DEF DirectoryIInv, DirectoryTypeOK, Request
<1>1. /\ requests' = requests \ {r}
      /\ UNCHANGED <<user, copy, change, command, shelf, link, feedback, seen, ops>>
      /\ pass' = [pass EXCEPT ![r.from].reply = [status |-> status, card |-> card]] \/ pass' = pass
  BY DEF Reply, held
<1>2. pass' \in [Devices -> Pass] /\ \A e \in Devices \ {r.from} : pass'[e] = pass[e]
  <2>1. pass[r.from] \in Pass /\ [status |-> status, card |-> card] \in Outcome
    BY <1>0, Shapes DEF Answered
  <2>2. [pass[r.from] EXCEPT !.reply = [status |-> status, card |-> card]] \in Pass
    BY <2>1 DEF Pass
  <2>. QED BY <1>0, <1>1, <2>2 DEF DirectoryTypeOK
<1>3. /\ Grows /\ published' \in Seq(Entry)
      /\ Version' > Version => r.base = Version
      /\ \A w \in Version + 1 .. Version' :
           published'[w].from = r.from /\ (Kind = "client" => ~published'[w].content.private)
  BY <1>0, WrittenGrows
<1>4. DirectoryTypeOK'
  BY <1>0, <1>1, <1>2, <1>3 DEF DirectoryTypeOK, MaxOps
<1>5. ClientsAreOpen'
  <2>1. ClientsAreOpen /\ Kind' = Kind
    BY DEF DirectoryIInv, Kind
  <2>2. ASSUME Kind = "client", NEW v \in 1..Version' PROVE ~published'[v].content.private
    <3>1. v \in 1..Version \/ v \in Version + 1 .. Version'
      BY <1>0, <1>3 DEF Grows
    <3>. QED BY <1>3, <2>1, <2>2, <3>1 DEF Grows, ClientsAreOpen
  <2>. QED BY <1>1, <2>1, <2>2 DEF ClientsAreOpen
<1>6. ASSUME NEW e \in Devices PROVE DeviceInv(e)'
  <2>1. CASE e = r.from
    BY <1>2, <1>3, <2>1, AskerStep
  <2>2. CASE e # r.from
    <3>1. Still(e)
      BY <1>1, <1>2, <2>2 DEF Still
    <3>2. DeviceInv(e) /\ seen[e] \in Nat
      BY <1>0, Shapes DEF DirectoryIInv
    <3>3. \A w \in Version + 1 .. Version' : published'[w].from # e
      BY <1>3, <2>2
    <3>. QED BY <1>3, <3>1, <3>2, <3>3, Bystander
  <2>. QED BY <2>1, <2>2
<1>. QED BY <1>4, <1>5, <1>6 DEF DirectoryIInv

\* What the server does not refuse its user may see.
LEMMA AllowedSee ==
  ASSUME DirectoryTypeOK, NEW r, ~Forbidden(r), Version > 0
  PROVE  /\ RowCard \in Card /\ RowCard # None /\ RowCard.version = Version
         /\ published[RowCard.version].content = RowCard.content
         /\ RowCard.content.private => Creator = r.user
         /\ (r.kind = "put" /\ r.content.private) => Creator = r.user
<1>1. /\ RowCard \in Card /\ RowCard # None /\ Served(RowCard)
      /\ RowCard.version = Version /\ RowCard.content = Row.content
  BY RowShown
<1>. QED BY <1>1 DEF Forbidden, Served

LEMMA HandlePutPreserves ==
  ASSUME DirectoryIInv, UNCHANGED setting, NEW r \in requests, HandlePut(r)
  PROVE  DirectoryIInv'
<1>0. /\ DirectoryTypeOK /\ r \in Request /\ r.from \in Devices /\ r.user \in Users /\ Version \in Nat
      /\ deleted \in BOOLEAN /\ r.base \in Nat /\ r.kind = "put"
  BY LogTyped DEF DirectoryIInv, DirectoryTypeOK, Request, HandlePut
<1>1. r.content # None /\ r.content \in Content /\ (Kind = "client" => ~r.content.private)
  BY <1>0 DEF DirectoryIInv, DeviceInv, Asking, Request, ClientsAreOpen
<1>2. CASE ~Forbidden(r) /\ Expected(r)
  <2> DEFINE entry == [content |-> r.content, by |-> r.user, from |-> r.from]
             card == [version |-> Version + 1, content |-> r.content]
  <2>1. /\ published' = Append(published, entry) /\ Reply(r, "saved", card)
        /\ deleted' = deleted /\ r.base = Version
    BY <1>2 DEF HandlePut, Expected
  <2>2. entry \in Entry /\ entry.from = r.from /\ entry.content = r.content /\ entry.by = r.user
    BY <1>0, <1>1 DEF Entry
  <2>3. card \in Card /\ card # None /\ card.version = Version + 1 /\ card.content = r.content
    BY <1>0, <1>1, NothingIsNone DEF Card
  <2> HIDE DEF entry, card
  <2>4. /\ Version' = Version + 1 /\ published'[Version + 1] = entry
        /\ \A v \in 1..Version : published'[v] = published[v]
    BY <1>0, <2>1, <2>2 DEF DirectoryTypeOK, Version
  <2>5. Written(r)
    BY <1>1, <2>1, <2>2 DEF Written
  <2>6. r.content.private => Creator' = r.user
    <3>1. CASE Version = 0
      BY <2>2, <2>4, <3>1 DEF Creator
    <3>2. CASE Version > 0
      <4>1. Creator' = Creator
        BY <1>0, <2>4, <3>2 DEF Creator
      <4>. QED BY <1>0, <1>2, <3>2, <4>1, AllowedSee
    <3>. QED BY <1>0, <3>1, <3>2
  <2>7. [status |-> "saved", card |-> card] \in Outcome
    BY <2>3 DEF Outcome
  <2>8. Answered(r, "saved", card)
    BY <1>0, <2>1, <2>2, <2>3, <2>4, <2>6, <2>7 DEF Answered
  <2>. QED BY <1>0, <2>1, <2>5, <2>8, ServerStep
<1>3. CASE ~Forbidden(r) /\ ~Expected(r)
  <2>1. UNCHANGED server
    BY <1>3 DEF HandlePut
  <2>2. CASE deleted \/ Version = 0
    <3>1. Reply(r, "refused", None)
      BY <1>3, <2>2 DEF HandlePut
    <3>2. Answered(r, "refused", None)
      BY DEF Answered, Outcome
    <3>. QED BY <1>0, <2>1, <3>1, <3>2, ServerStep DEF Written, server
  <2>3. CASE ~(deleted \/ Version = 0)
    <3>1. Reply(r, "conflict", RowCard)
      BY <1>3, <2>3 DEF HandlePut
    <3>2. [status |-> "conflict", card |-> RowCard] \in Outcome
      BY <1>0, <1>3, <2>3, AllowedSee DEF Outcome
    <3>3. Answered(r, "conflict", RowCard)
      BY <1>0, <1>3, <2>1, <2>3, <3>2, AllowedSee, ServerStill DEF Answered
    <3>. QED BY <1>0, <2>1, <3>1, <3>3, ServerStep DEF Written, server
  <2>. QED BY <2>2, <2>3
<1>4. CASE Forbidden(r)
  <2>1. UNCHANGED server /\ Reply(r, "absent", None)
    BY <1>4 DEF HandlePut
  <2>2. Answered(r, "absent", None)
    BY <1>0 DEF Answered, Outcome
  <2>. QED BY <1>0, <2>1, <2>2, ServerStep DEF Written, server
<1>. QED BY <1>2, <1>3, <1>4

LEMMA HandleDeletePreserves ==
  ASSUME DirectoryIInv, UNCHANGED setting, NEW r \in requests, HandleDelete(r)
  PROVE  DirectoryIInv'
<1>0. /\ DirectoryTypeOK /\ r \in Request /\ r.from \in Devices /\ r.user \in Users /\ Version \in Nat
      /\ deleted \in BOOLEAN /\ r.base \in Nat /\ r.kind = "delete" /\ ClientsAreOpen
  BY LogTyped DEF DirectoryIInv, DirectoryTypeOK, Request, HandleDelete
<1>1. Version > 0 /\ Version \in 1..Version
  BY <1>0 DEF DirectoryIInv, DeviceInv, Asking
<1>2. Kind = "client" => ~Row.content.private /\ ~Forbidden(r)
  BY <1>0, <1>1 DEF ClientsAreOpen, Row, Forbidden
<1>3. CASE Forbidden(r)
  <2>1. UNCHANGED server /\ Reply(r, "absent", None)
    BY <1>3 DEF HandleDelete
  <2>2. Answered(r, "absent", None)
    BY <1>2, <1>3 DEF Answered, Outcome
  <2>. QED BY <1>0, <2>1, <2>2, ServerStep DEF Written, server
<1>4. CASE ~Forbidden(r) /\ r.base # Version
  <2>1. UNCHANGED server /\ (Reply(r, "refused", None) \/ Reply(r, "conflict", RowCard))
    BY <1>1, <1>4 DEF HandleDelete
  <2>2. Answered(r, "refused", None)
    BY DEF Answered, Outcome
  <2>3. [status |-> "conflict", card |-> RowCard] \in Outcome
    BY <1>0, <1>1, <1>4, AllowedSee DEF Outcome
  <2>4. Answered(r, "conflict", RowCard)
    BY <1>0, <1>1, <1>4, <2>1, <2>3, AllowedSee, ServerStill DEF Answered
  <2>. QED BY <1>0, <2>1, <2>2, <2>4, ServerStep DEF Written, server
<1>5. CASE ~Forbidden(r) /\ r.base = Version
  <2> DEFINE entry == [content |-> Row.content, by |-> r.user, from |-> r.from]
  <2>1. /\ published' = published \/ published' = Append(published, entry)
        /\ deleted' = TRUE /\ Reply(r, "done", None)
    BY <1>1, <1>5 DEF HandleDelete
  <2>2. Row.content \in Content
    BY <1>0, <1>1, LogTyped DEF Row
  <2>3. entry \in Entry /\ entry.from = r.from /\ entry.content = Row.content
    BY <1>0, <2>2 DEF Entry
  <2> HIDE DEF entry
  <2>4. Written(r)
    BY <1>2, <1>5, <2>1, <2>3 DEF Written
  <2>5. Answered(r, "done", None)
    BY <2>1 DEF Answered, Outcome
  <2>. QED BY <1>0, <2>1, <2>4, <2>5, ServerStep
<1>. QED BY <1>3, <1>4, <1>5

-----------------------------------------------------------------------------
(* Every step keeps the invariant.                                         *)

LEMMA StutterPreserves ==
  ASSUME DirectoryIInv, UNCHANGED <<setting, vars>>
  PROVE  DirectoryIInv'
<1>1. DirectoryTypeOK'
  BY DEF vars, DirectoryIInv, DirectoryTypeOK, MaxOps
<1>. QED BY <1>1, QuietStep DEF vars, server

LEMMA UserStepPreserves ==
  ASSUME DirectoryIInv, UNCHANGED setting, NEW d \in Devices, UserStep(d)
  PROVE  DirectoryIInv'
BY CreateRecordPreserves, UpdateRecordPreserves, DeleteRecordPreserves, LinkProjectPreserves,
   AcceptServerPreserves, KeepLocalPreserves, LeaveDeletedPreserves DEF UserStep

LEMMA PassStepPreserves ==
  ASSUME DirectoryIInv, UNCHANGED setting, NEW d \in Devices, PassStep(d)
  PROVE  DirectoryIInv'
BY AnswerListPreserves, ReceiveListPreserves, SkipCommandPreserves, SendDeletePreserves,
   AckDeletePreserves, SurveyPreserves, SkipChangePreserves, MarkDeletedPreserves,
   RecoverReceiptPreserves, KeepDivergedPreserves, SendPutPreserves, AckPutPreserves,
   ClosePreserves DEF PassStep

LEMMA StepPreserves == DirectoryIInv /\ [Next]_<<setting, vars>> => DirectoryIInv'
<1> SUFFICES ASSUME DirectoryIInv, [Next]_<<setting, vars>> PROVE DirectoryIInv'
  OBVIOUS
<1>1. CASE UNCHANGED <<setting, vars>>
  BY <1>1, StutterPreserves
<1>2. CASE Next
  <2>1. UNCHANGED setting
    BY <1>2 DEF Next
  <2>2. ASSUME NEW d \in Devices,
               UserStep(d) \/ Trigger(d) \/ PassStep(d) \/ PassFails(d) \/ Reload(d)
        PROVE  DirectoryIInv'
    BY <2>1, <2>2, UserStepPreserves, TriggerPreserves, PassStepPreserves, PassEndsPreserves
  <2>3. ASSUME NEW d \in Devices, NEW u \in Users, SwitchUser(d, u)
        PROVE  DirectoryIInv'
    BY <2>1, <2>3, SwitchUserPreserves
  <2>4. ASSUME NEW r \in requests, HandlePut(r) \/ HandleDelete(r)
        PROVE  DirectoryIInv'
    BY <2>1, <2>4, HandlePutPreserves, HandleDeletePreserves
  <2>. QED BY <1>2, <2>2, <2>3, <2>4 DEF Next
<1>. QED BY <1>1, <1>2

(* In every reachable state the server's answers, the copies, the bases,   *)
(* the passes and the requests of the devices agree.                       *)
THEOREM DirectoryAgrees == Spec => []DirectoryIInv
BY Initially, StepPreserves, PTL DEF Spec

(* What a device takes for synchronised is what the server published under *)
(* the version it holds, and the state has the code's shape.               *)
THEOREM DirectoryIsPublished == Spec => []DirectoryInv
<1>1. DirectoryIInv => DirectoryInv
  <2> SUFFICES ASSUME DirectoryIInv PROVE DirectoryInv
    OBVIOUS
  <2>1. ASSUME NEW d \in Devices, copy[d] \notin {None, shelf[d]}, change[d] = None, copy[d].base > 0
        PROVE  copy[d].base <= Version /\ published[copy[d].base].content = copy[d].content
    <3>1. Served([version |-> copy[d].base, content |-> copy[d].content])
      BY <2>1 DEF DirectoryIInv, DeviceInv, CleanCopy
    <3>2. Version \in Nat
      BY LogTyped DEF DirectoryIInv
    <3>. QED BY <3>1, <3>2 DEF Served
  <2>. QED BY <2>1 DEF DirectoryInv, DirectoryIInv, CleanIsPublished
<1>. QED BY <1>1, DirectoryAgrees, PTL

-----------------------------------------------------------------------------
(* What a step may do.                                                     *)

DeviceStep(d) ==
  \/ UserStep(d) \/ Trigger(d) \/ PassStep(d) \/ PassFails(d) \/ Reload(d)
  \/ \E u \in Users : SwitchUser(d, u)

\* What a device holds, and who works on it.
Apart(e) ==
  /\ user'[e] = user[e] /\ copy'[e] = copy[e] /\ change'[e] = change[e]
  /\ command'[e] = command[e] /\ shelf'[e] = shelf[e] /\ link'[e] = link[e]

LEMMA NextSteps ==
  ASSUME [Next]_<<setting, vars>>
  PROVE  /\ UNCHANGED setting
         /\ \/ UNCHANGED vars
            \/ \E d \in Devices : DeviceStep(d)
            \/ \E r \in requests : HandlePut(r) \/ HandleDelete(r)
BY DEF Next, DeviceStep

LEMMA ServerApart ==
  ASSUME NEW r \in requests, HandlePut(r) \/ HandleDelete(r)
  PROVE  \A e \in Devices : Apart(e)
BY DEF HandlePut, HandleDelete, Reply, held, Apart

LEMMA UserApart ==
  ASSUME DirectoryTypeOK, NEW d \in Devices, UserStep(d)
  PROVE  UNCHANGED <<server, user, shelf>> /\ \A e \in Devices \ {d} : Apart(e)
<1>1. ASSUME NEW content \in Content, CreateRecord(d, content) \/ UpdateRecord(d, content)
      PROVE  UNCHANGED <<server, user, shelf>> /\ \A e \in Devices \ {d} : Apart(e)
  BY <1>1 DEF CreateRecord, UpdateRecord, Apart, DirectoryTypeOK
<1>2. CASE DeleteRecord(d) \/ LinkProject(d)
  BY <1>2 DEF DeleteRecord, LinkProject, held, Apart, DirectoryTypeOK
<1>3. CASE AcceptServer(d) \/ KeepLocal(d)
  BY <1>3 DEF AcceptServer, KeepLocal, Apart, DirectoryTypeOK
<1>4. ASSUME NEW keep \in BOOLEAN, LeaveDeleted(d, keep)
      PROVE  UNCHANGED <<server, user, shelf>> /\ \A e \in Devices \ {d} : Apart(e)
  BY <1>4 DEF LeaveDeleted, Apart, DirectoryTypeOK
<1>. QED BY <1>1, <1>2, <1>3, <1>4 DEF UserStep

LEMMA PassApart ==
  ASSUME DirectoryTypeOK, NEW d \in Devices, PassStep(d)
  PROVE  UNCHANGED <<server, user, shelf>> /\ \A e \in Devices \ {d} : Apart(e)
<1>1. CASE AnswerList(d) \/ ReceiveList(d) \/ SkipCommand(d) \/ SendDelete(d)
  BY <1>1 DEF AnswerList, ReceiveList, SkipCommand, SendDelete, held, Apart, DirectoryTypeOK
<1>2. CASE AckDelete(d)
  BY <1>2 DEF AckDelete, held, Apart, DirectoryTypeOK
<1>3. CASE Survey(d) \/ SkipChange(d) \/ MarkDeleted(d) \/ SendPut(d) \/ KeepDiverged(d)
  BY <1>3 DEF Survey, SkipChange, MarkDeleted, SendPut, KeepDiverged, held, Apart, DirectoryTypeOK
<1>4. CASE RecoverReceipt(d) \/ AckPut(d)
  BY <1>4 DEF RecoverReceipt, AckPut, InstallReceipt, held, Apart, DirectoryTypeOK
<1>5. CASE Close(d)
  BY <1>5 DEF Close, Apart, DirectoryTypeOK
<1>. QED BY <1>1, <1>2, <1>3, <1>4, <1>5 DEF PassStep

LEMMA DeviceApart ==
  ASSUME DirectoryTypeOK, NEW d \in Devices, DeviceStep(d)
  PROVE  UNCHANGED server /\ \A e \in Devices \ {d} : Apart(e)
<1>1. CASE Trigger(d) \/ PassFails(d) \/ Reload(d)
  BY <1>1 DEF Trigger, PassFails, Reload, held, Apart
<1>2. ASSUME NEW u \in Users, SwitchUser(d, u)
      PROVE  UNCHANGED server /\ \A e \in Devices \ {d} : Apart(e)
  BY <1>2 DEF SwitchUser, Apart, DirectoryTypeOK
<1>. QED BY <1>1, <1>2, UserApart, PassApart DEF DeviceStep

LEMMA StepSeesFirst == DirectoryIInv /\ [Next]_<<setting, vars>> => [~Blind]_vars
<1> SUFFICES ASSUME DirectoryIInv, [Next]_<<setting, vars>>, Blind PROVE FALSE
  OBVIOUS
<1>0. DirectoryTypeOK /\ Version \in Nat /\ Version' > Version
  BY LogTyped DEF DirectoryIInv, Blind
<1>1. published' # published
  BY <1>0 DEF Version
<1>2. PICK r \in requests : HandlePut(r) \/ HandleDelete(r)
  BY <1>0, <1>1, NextSteps, DeviceApart DEF vars, server
<1>3. \E entry \in Entry :
        published' = Append(published, entry) /\ entry.from = r.from /\ r.base = Version
  <2>1. r.user \in Users /\ r.from \in Devices /\ r.content \in Content \cup {None}
    BY <1>0 DEF DirectoryTypeOK, Request
  <2>2. r.kind = "put" => r.content \in Content
    BY <1>0, <2>1 DEF DirectoryIInv, DeviceInv, Asking
  <2>3. CASE HandlePut(r)
    <3> DEFINE entry == [content |-> r.content, by |-> r.user, from |-> r.from]
    <3>1. published' = Append(published, entry) /\ r.base = Version /\ r.kind = "put"
      BY <1>1, <2>3 DEF HandlePut, Expected, server
    <3>2. entry \in Entry /\ entry.from = r.from
      BY <2>1, <2>2, <3>1 DEF Entry
    <3>. QED BY <3>1, <3>2
  <2>4. CASE HandleDelete(r)
    <3> DEFINE entry == [content |-> Row.content, by |-> r.user, from |-> r.from]
    <3>1. published' = Append(published, entry) /\ r.base = Version /\ Version > 0
      BY <1>1, <2>4 DEF HandleDelete, server
    <3>2. Row.content \in Content
      BY <1>0, <3>1, LogTyped DEF Row
    <3>3. entry \in Entry /\ entry.from = r.from
      BY <2>1, <3>2 DEF Entry
    <3>. QED BY <3>1, <3>3
  <2>. QED BY <1>2, <2>3, <2>4
<1>4. r.from \in Devices /\ r.base <= seen[r.from]
  BY <1>0 DEF DirectoryIInv, DeviceInv, Sighted, DirectoryTypeOK, Request
<1>5. published'[Version'].from = r.from /\ r.base = Version
  BY <1>0, <1>3 DEF DirectoryTypeOK, Version
<1>6. Version > seen[r.from]
  BY <1>5 DEF Blind
<1>7. seen[r.from] \in Nat
  BY <1>0, <1>4 DEF DirectoryTypeOK
<1>. QED BY <1>0, <1>4, <1>5, <1>6, <1>7

(* No device overwrites or deletes a version that it has not been shown or *)
(* has not written, whatever arrives late.                                 *)
THEOREM NothingIsBlind == Spec => NothingBlind
BY StepSeesFirst, DirectoryAgrees, PTL DEF Spec, NothingBlind

-----------------------------------------------------------------------------
(* Unsynced work.                                                          *)

\* The change and the copy stay, at least in content.
Held(d) ==
  /\ change'[d] # None
  /\ copy'[d] # None /\ copy'[d].content = copy[d].content

LEMMA HeldIsKept ==
  ASSUME NEW d, Held(d) PROVE KeepsWork(d)
BY DEF Held, KeepsWork

\* A receipt puts an end to the change only if it was of this content.
LEMMA ReceiptKeeps ==
  ASSUME DirectoryIInv, UNCHANGED server, NEW d \in Devices, NEW card \in Card,
         ShownTo(card, user[d]), pass[d].phase \in {"updating", "putting"}, Taken(d),
         InstallReceipt(d, card), change[d] # None, copy[d] # None,
         Acknowledged(d) =>
           /\ card.content = copy[d].content /\ change[d].base <= card.version
           /\ \A w \in card.version + 1 .. Version : published[w].from # d
  PROVE  KeepsWork(d)
<1>1. /\ copy'[d] # None
      /\ IF Acknowledged(d) THEN copy'[d].content = card.content
         ELSE copy'[d].content = copy[d].content
  BY Installs
<1>2. CASE Acknowledged(d)
  <2>1. card.version \in 1..Version /\ published[card.version].content = card.content
    BY DEF ShownTo, Served
  <2>2. published' = published /\ Version' = Version
    BY DEF server, Version
  <2>3. change[d].base \in Nat /\ card.version \in Nat
    BY Shapes, <2>1 DEF DirectoryIInv, Change, Card
  <2>4. Settled(d, copy[d].content)
    BY <1>2, <2>1, <2>2, <2>3 DEF Settled
  <2>. QED BY <2>4 DEF KeepsWork
<1>3. CASE ~Acknowledged(d)
  <2>1. change'[d] = [change[d] EXCEPT !.base = card.version]
    BY <1>3 DEF InstallReceipt, DirectoryIInv, DirectoryTypeOK
  <2>2. change[d] \in Change /\ card.version \in Nat
    BY Shapes DEF DirectoryIInv, Card
  <2>3. change'[d] \in Change
    BY <2>1, <2>2 DEF Change
  <2>4. change'[d] # None
    BY <2>3, NothingIsNone
  <2>. QED BY <1>1, <1>3, <2>4, HeldIsKept DEF Held
<1>. QED BY <1>2, <1>3

LEMMA PassKeeps ==
  ASSUME DirectoryIInv, NEW d \in Devices, PassStep(d),
         change[d] # None, copy[d] # None, command[d] = None
  PROVE  KeepsWork(d)
<1>0. /\ DirectoryTypeOK /\ DeviceInv(d) /\ UNCHANGED server /\ pass[d] \in Pass
      /\ change[d] \in Change /\ copy[d] \in Copy
  BY PassApart, Shapes DEF DirectoryIInv
<1>1. ASSUME UNCHANGED <<copy, change>> PROVE KeepsWork(d)
  BY <1>1, HeldIsKept DEF Held
<1>2. CASE \/ AnswerList(d) \/ SkipCommand(d) \/ SendDelete(d) \/ Survey(d) \/ SkipChange(d)
           \/ SendPut(d)
  BY <1>1, <1>2 DEF AnswerList, SkipCommand, SendDelete, Survey, SkipChange, SendPut, held
<1>3. CASE ReceiveList(d)
  BY <1>1, <1>3 DEF ReceiveList, Unpublished
<1>4. CASE AckDelete(d)
  BY <1>0, <1>4 DEF AckDelete, DeviceInv, PassShape
<1>5. CASE MarkDeleted(d) \/ KeepDiverged(d)
  <2>1. change'[d] # None
    <3>1. CASE MarkDeleted(d)
      <4>1. Present(d).base \in Nat /\ change[d].owner \in Users \cup {None}
        BY <1>0 DEF Present, Change
      <4>2. Deletion(d) \in Change
        BY <4>1 DEF Deletion, Change
      <4>3. change'[d] = Deletion(d)
        BY <1>0, <3>1 DEF MarkDeleted, DirectoryTypeOK
      <4>. QED BY <4>2, <4>3, NothingIsNone
    <3>2. CASE KeepDiverged(d)
      <4>1. /\ Present(d).owner \in Users \cup {None} /\ Present(d).base \in Nat
            /\ Present(d).gone \in BOOLEAN
        BY <1>0 DEF Present, Change
      <4>2. pass[d].listed.record \in Card
        <5>1. pass[d].phase = "updating" /\ pass[d].listed.record # None
          BY <3>2, Decided DEF KeepDiverged
        <5>2. pass[d].listed \in Listing
          BY <1>0, <5>1 DEF DeviceInv, PassShape, Pass
        <5>. QED BY <5>1, <5>2 DEF Listing
      <4>3. Conflicting(d, pass[d].listed.record) \in Change
        BY <4>1, <4>2 DEF Conflicting, Change
      <4>4. change'[d] = Conflicting(d, pass[d].listed.record)
        BY <1>0, <3>2 DEF KeepDiverged, DirectoryTypeOK
      <4>. QED BY <4>3, <4>4, NothingIsNone
    <3>. QED BY <1>5, <3>1, <3>2
  <2>2. copy' = copy
    BY <1>5 DEF MarkDeleted, KeepDiverged
  <2>. QED BY <2>1, <2>2, HeldIsKept DEF Held
<1>6. CASE RecoverReceipt(d)
  <2>1. /\ Taken(d) /\ pass[d].listed.record # None /\ pass[d].phase = "updating"
        /\ pass[d].listed.record.content = copy[d].content
        /\ InstallReceipt(d, pass[d].listed.record)
    BY <1>6, Decided DEF RecoverReceipt
  <2>2. pass[d].listed # None /\ pass[d].listed \in Listing
    BY <1>0, <2>1 DEF DeviceInv, PassShape, Pass
  <2>3. pass[d].listed.record \in Card /\ ShownTo(pass[d].listed.record, user[d])
    BY <1>0, <2>1, <2>2 DEF Listing, DeviceInv, Truthful
  <2>4. CASE OlderList(d)
    BY <2>4 DEF KeepsWork
  <2>5. CASE ~OlderList(d)
    <3>1. /\ ~(pass[d].listed.record.version < change[d].base)
          /\ \A w \in pass[d].listed.record.version + 1 .. Version : published[w].from # d
      BY <2>1, <2>5 DEF OlderList
    <3>2. change[d].base \in Nat /\ pass[d].listed.record.version \in Nat
      BY <1>0, <2>3 DEF Change, Card
    <3>3. change[d].base <= pass[d].listed.record.version
      BY <3>1, <3>2
    <3>. QED BY <1>0, <2>1, <2>3, <3>1, <3>3, ReceiptKeeps
  <2>. QED BY <2>4, <2>5
<1>7. CASE AckPut(d)
  <2>1. /\ pass[d].phase = "putting" /\ pass[d].reply # None
        /\ Taken(d)
        /\ pass[d].reply.status \in {"saved", "conflict"} =>
              pass[d].reply.card \in Card /\ ShownTo(pass[d].reply.card, user[d])
    BY <1>7, PutAnswered DEF AckPut
  <2>2. CASE pass[d].reply.status = "saved"
    <3>1. InstallReceipt(d, pass[d].reply.card) /\ pass[d].reply.card \in Card
      BY <1>7, <2>1, <2>2 DEF AckPut
    <3>2. /\ pass[d].change.base < pass[d].reply.card.version
          /\ ~pass[d].touched => pass[d].reply.card.content = copy[d].content
          /\ \A w \in pass[d].reply.card.version + 1 .. Version : published[w].from # d
      BY <1>0, <2>1, <2>2 DEF DeviceInv, Sent
    <3>3. ~pass[d].touched => change[d] = pass[d].change
      BY <1>0, <2>1 DEF DeviceInv, InHand
    <3>4. change[d].base \in Nat /\ pass[d].reply.card.version \in Nat
      BY <1>0, <3>1 DEF Change, Card
    <3>5. Acknowledged(d) =>
            /\ pass[d].reply.card.content = copy[d].content
            /\ change[d].base <= pass[d].reply.card.version
            /\ \A w \in pass[d].reply.card.version + 1 .. Version : published[w].from # d
      BY <3>2, <3>3, <3>4 DEF Acknowledged
    <3>. QED BY <1>0, <2>1, <2>2, <3>1, <3>5, ReceiptKeeps
  <2>3. CASE pass[d].reply.status = "conflict"
    <3>1. /\ change' = [change EXCEPT ![d] = Conflicting(d, pass[d].reply.card)] /\ copy' = copy
          /\ pass[d].reply.card \in Card
      BY <1>7, <2>1, <2>3 DEF AckPut
    <3>2. Conflicting(d, pass[d].reply.card) \in Change
      BY <1>0, <3>1 DEF Conflicting, Present, Change
    <3>3. change'[d] # None
      BY <1>0, <3>1, <3>2, NothingIsNone DEF DirectoryTypeOK
    <3>. QED BY <3>1, <3>3, HeldIsKept DEF Held
  <2>4. CASE pass[d].reply.status \notin {"saved", "conflict"}
    <3>1. UNCHANGED <<copy, change>>
      BY <1>7, <2>4 DEF AckPut, held
    <3>. QED BY <1>1, <3>1
  <2>. QED BY <2>2, <2>3, <2>4
<1>8. CASE Close(d)
  <2>1. CASE RemainingChange(d) = None
    <3>1. pass[d].listed.gone /\ pass[d].listed # None
      BY <1>0, <1>8, <2>1 DEF RemainingChange, Close, DeviceInv, PassShape
    <3>2. deleted
      BY <1>0, <3>1 DEF DeviceInv, Truthful
    <3>. QED BY <3>2 DEF KeepsWork
  <2>2. CASE RemainingChange(d) # None
    <3>1. RemainingChange(d) = change[d] /\ Pending(d)
      BY <2>2 DEF RemainingChange, Pending
    <3>2. change'[d] = change[d] /\ copy'[d] = copy[d]
      BY <1>0, <1>8, <3>1 DEF Close, DirectoryTypeOK
    <3>. QED BY <3>2, HeldIsKept DEF Held
  <2>. QED BY <2>1, <2>2
<1>. QED BY <1>2, <1>3, <1>4, <1>5, <1>6, <1>7, <1>8 DEF PassStep

LEMMA StepKeepsWork ==
  DirectoryIInv /\ [Next]_<<setting, vars>> => [\A d \in Devices : KeepsWork(d)]_vars
<1> SUFFICES ASSUME DirectoryIInv, [Next]_<<setting, vars>>, vars' # vars, NEW d \in Devices,
                    change[d] # None, copy[d] # None, command[d] = None
             PROVE  KeepsWork(d)
  BY DEF KeepsWork
<1>0. DirectoryTypeOK
  BY DEF DirectoryIInv
<1>1. ASSUME Apart(d) PROVE KeepsWork(d)
  BY <1>1, HeldIsKept DEF Apart, Held
<1>2. ASSUME NEW e \in Devices, DeviceStep(e) PROVE KeepsWork(d)
  <2>1. CASE e # d
    BY <1>0, <1>1, <1>2, <2>1, DeviceApart
  <2>2. CASE e = d
    <3>1. CASE UserStep(d)
      BY <3>1 DEF KeepsWork
    <3>2. CASE Trigger(d) \/ PassFails(d) \/ Reload(d)
      BY <3>2, HeldIsKept DEF Trigger, PassFails, Reload, held, Held
    <3>3. CASE PassStep(d)
      BY <3>3, PassKeeps
    <3>4. ASSUME NEW u \in Users, SwitchUser(d, u) PROVE KeepsWork(d)
      <4>1. Captured(d) = copy[d]
        BY DEF Captured
      <4>2. change'[d] = change[d] /\ shelf'[d] = copy[d]
        BY <1>0, <3>4, <4>1 DEF SwitchUser, DirectoryTypeOK
      <4>. QED BY <4>2 DEF KeepsWork
    <3>. QED BY <1>2, <2>2, <3>1, <3>2, <3>3, <3>4 DEF DeviceStep
  <2>. QED BY <2>1, <2>2
<1>3. ASSUME NEW r \in requests, HandlePut(r) \/ HandleDelete(r) PROVE KeepsWork(d)
  BY <1>1, <1>3, ServerApart
<1>. QED BY <1>2, <1>3, NextSteps

(* Unsynced work is never lost: only its user gives up a pending edit;     *)
(* otherwise it stays, also through failures and changes of the user, until *)
(* the server has its very content under a version of its own.             *)
THEOREM WorkIsKept == Spec => WorkSurvives
BY StepKeepsWork, DirectoryAgrees, PTL DEF Spec, WorkSurvives

-----------------------------------------------------------------------------
(* Deletions.                                                              *)

LEMMA PassConfirms ==
  ASSUME DirectoryIInv, NEW d \in Devices, PassStep(d)
  PROVE  ~Withdrawn(d) /\ LinkWaits(d)
<1>0. /\ DirectoryTypeOK /\ DeviceInv(d) /\ pass[d] \in Pass
      /\ change[d] \in Change \cup {None} /\ command[d] \in Command \cup {None}
      /\ seen[d] \in Nat
  BY Shapes DEF DirectoryIInv
<1>1. ASSUME UNCHANGED <<command, link>> PROVE ~Withdrawn(d) /\ LinkWaits(d)
  BY <1>1 DEF Withdrawn, LinkWaits
<1>2. CASE \/ AnswerList(d) \/ ReceiveList(d) \/ SendDelete(d) \/ Survey(d) \/ SkipChange(d)
           \/ MarkDeleted(d) \/ KeepDiverged(d) \/ SendPut(d)
  BY <1>1, <1>2
     DEF AnswerList, ReceiveList, SendDelete, Survey, SkipChange, MarkDeleted, KeepDiverged, SendPut, held
<1>3. CASE SkipCommand(d)
  <2>1. LinkWaits(d)
    BY <1>3 DEF SkipCommand, LinkWaits
  <2>2. SUFFICES ASSUME Withdrawn(d) PROVE FALSE
    BY <2>1
  <2>3. /\ pass[d].phase = "deleting" /\ pass[d].command # None
        /\ pass[d].listed.gone \/ (pass[d].listed.record = None /\ pass[d].command.base = 0)
    BY <1>3, <2>2 DEF SkipCommand, Withdrawn
  <2>4. pass[d].listed # None
    BY <1>0, <2>3 DEF DeviceInv, PassShape
  <2>5. ~pass[d].listed.gone
    BY <1>0, <2>2, <2>4 DEF DeviceInv, Truthful, Withdrawn
  <2>6. Kind = "client"
    BY <2>2, <2>3, <2>5, <1>0, SettingTyped DEF Withdrawn, DirectoryTypeOK, Command
  <2>7. seen[d] = 0
    BY <1>0, <2>3, <2>4, <2>5, <2>6 DEF DeviceInv, OpenClient
  <2>8. command[d] # None /\ command[d].base > 0 /\ command[d].base <= seen[d] /\ command[d].base \in Nat
    BY <1>0, <2>2 DEF Withdrawn, DeviceInv, Sighted, Command
  <2>. QED BY <2>7, <2>8
<1>4. CASE AckDelete(d)
  <2>1. LinkWaits(d)
    BY <1>4 DEF AckDelete, LinkWaits
  <2>2. SUFFICES ASSUME Withdrawn(d) PROVE FALSE
    BY <2>1
  <2>3. pass[d].phase = "removing" /\ pass[d].reply # None /\ pass[d].reply \in Outcome
    BY <1>0, <1>4 DEF AckDelete, Pass
  <2>4. ~Released(pass[d].reply.status)
    BY <1>0, <2>2, <2>3 DEF Released, Withdrawn, DeviceInv, Truthful, OpenClient
  <2>5. pass[d].reply.status = "conflict"
    BY <1>4, <2>2, <2>4 DEF AckDelete, Withdrawn, held
  <2>6. /\ change'[d] = Returned(d, pass[d].reply.card) /\ pass[d].reply.card # None
        /\ pass[d].reply.card \in Card
    BY <1>0, <1>4, <2>3, <2>4, <2>5 DEF AckDelete, DirectoryTypeOK, DeviceInv, Truthful, Outcome
  <2>7. change'[d].server = pass[d].reply.card
    BY <2>6 DEF Returned
  <2>8. change'[d] # None
    <3>1. pass[d].command # None /\ user[d] # None /\ user[d] \in Users \cup {None}
      BY <1>0, <2>3, Shapes DEF DeviceInv, PassShape
    <3>2. pass[d].command \in Command
      BY <1>0, <3>1 DEF Pass
    <3>3. Returned(d, pass[d].reply.card) \in Change
      BY <1>0, <2>6, <3>1, <3>2 DEF Returned, Change, Command
    <3>. QED BY <2>6, <3>3, NothingIsNone
  <2>. QED BY <2>2, <2>6, <2>7, <2>8 DEF Withdrawn
<1>5. ASSUME NEW card, InstallReceipt(d, card), card.version \in Nat, UNCHANGED link
      PROVE  ~Withdrawn(d) /\ LinkWaits(d)
  <2>1. ASSUME command[d] # None PROVE command'[d] # None
    <3>1. command'[d] = [command[d] EXCEPT !.base = card.version]
      BY <1>0, <1>5, <2>1 DEF InstallReceipt, DirectoryTypeOK
    <3>2. command'[d] \in Command
      BY <1>0, <1>5, <2>1, <3>1 DEF Command
    <3>. QED BY <3>2, NothingIsNone
  <2>. QED BY <1>5, <2>1 DEF Withdrawn, LinkWaits
<1>6. CASE RecoverReceipt(d)
  <2>1. pass[d].listed.record # None /\ pass[d].phase = "updating"
    BY <1>6, Decided DEF RecoverReceipt
  <2>2. pass[d].listed \in Listing
    BY <1>0, <2>1 DEF DeviceInv, PassShape, Pass
  <2>3. pass[d].listed.record.version \in Nat
    BY <2>1, <2>2 DEF Listing, Card
  <2>. QED BY <1>5, <1>6, <2>3 DEF RecoverReceipt
<1>7. CASE AckPut(d)
  <2>1. CASE pass[d].reply.status = "saved"
    <3>1. /\ pass[d].reply.card \in Card /\ InstallReceipt(d, pass[d].reply.card) /\ UNCHANGED link
      BY <1>7, <2>1, PutAnswered DEF AckPut
    <3>2. pass[d].reply.card.version \in Nat
      BY <3>1 DEF Card
    <3>. QED BY <1>5, <3>1, <3>2
  <2>2. CASE pass[d].reply.status # "saved"
    <3>1. UNCHANGED <<command, link>>
      BY <1>7, <2>2 DEF AckPut, held
    <3>. QED BY <1>1, <3>1
  <2>. QED BY <2>1, <2>2
<1>8. CASE Close(d)
  <2>1. /\ pass[d].phase = "closing" /\ command' = command
        /\ link' = [link EXCEPT ![d] = link[d] /\ ~(Kind = "client" /\ pass[d].listed.gone)]
    BY <1>8 DEF Close
  <2>2. pass[d].listed.gone => deleted
    BY <1>0, <2>1 DEF DeviceInv, PassShape, Truthful
  <2>. QED BY <1>0, <2>1, <2>2 DEF Withdrawn, LinkWaits, DirectoryTypeOK
<1>. QED BY <1>2, <1>3, <1>4, <1>6, <1>7, <1>8 DEF PassStep

LEMMA UserConfirms ==
  ASSUME DirectoryIInv, NEW d \in Devices, UserStep(d)
  PROVE  ~Withdrawn(d) /\ LinkWaits(d)
<1>0. DirectoryTypeOK
  BY DEF DirectoryIInv
<1>1. ASSUME UNCHANGED command, link[d] => link'[d]
      PROVE  ~Withdrawn(d) /\ LinkWaits(d)
  BY <1>1 DEF Withdrawn, LinkWaits
<1>2. ASSUME NEW content \in Content, CreateRecord(d, content) \/ UpdateRecord(d, content)
      PROVE  ~Withdrawn(d) /\ LinkWaits(d)
  BY <1>1, <1>2 DEF CreateRecord, UpdateRecord
<1>3. CASE LinkProject(d)
  BY <1>1, <1>3 DEF LinkProject, held
<1>4. CASE AcceptServer(d) \/ KeepLocal(d)
  BY <1>1, <1>4 DEF AcceptServer, KeepLocal
<1>5. ASSUME NEW keep \in BOOLEAN, LeaveDeleted(d, keep) PROVE ~Withdrawn(d) /\ LinkWaits(d)
  BY <1>1, <1>5 DEF LeaveDeleted
<1>6. CASE DeleteRecord(d)
  <2> DEFINE new == [owner |-> user[d], base |-> copy[d].base]
  <2>1. /\ copy[d] # None /\ command' = [command EXCEPT ![d] = new]
        /\ link' = [link EXCEPT ![d] = LinkAfterDelete(d)]
    BY <1>6 DEF DeleteRecord
  <2>2. command'[d] # None
    <3>1. copy[d] \in Copy /\ user[d] \in Users
      BY <1>0, <2>1, Shapes DEF DirectoryIInv, DeviceInv, OutOfUse
    <3>2. new \in Command
      BY <3>1 DEF Command, Copy
    <3>. QED BY <1>0, <2>1, <3>2, NothingIsNone DEF DirectoryTypeOK
  <2>3. (Kind = "client" /\ link[d] /\ ~link'[d]) => copy[d].base = 0
    BY <1>0, <2>1 DEF LinkAfterDelete, DirectoryTypeOK
  <2>. QED BY <2>2, <2>3 DEF Withdrawn, LinkWaits
<1>. QED BY <1>2, <1>3, <1>4, <1>5, <1>6 DEF UserStep

LEMMA StepConfirms ==
  DirectoryIInv /\ [Next]_<<setting, vars>> =>
    [\A d \in Devices : ~Withdrawn(d) /\ LinkWaits(d)]_vars
<1> SUFFICES ASSUME DirectoryIInv, [Next]_<<setting, vars>>, vars' # vars, NEW d \in Devices
             PROVE  ~Withdrawn(d) /\ LinkWaits(d)
  OBVIOUS
<1>0. DirectoryTypeOK
  BY DEF DirectoryIInv
<1>1. ASSUME Apart(d) PROVE ~Withdrawn(d) /\ LinkWaits(d)
  BY <1>1 DEF Apart, Withdrawn, LinkWaits
<1>2. ASSUME NEW e \in Devices, DeviceStep(e) PROVE ~Withdrawn(d) /\ LinkWaits(d)
  <2>1. CASE e # d
    BY <1>0, <1>1, <1>2, <2>1, DeviceApart
  <2>2. CASE e = d
    <3>1. CASE \/ Trigger(d) \/ PassFails(d) \/ Reload(d) \/ \E u \in Users : SwitchUser(d, u)
      BY <3>1 DEF Trigger, PassFails, Reload, SwitchUser, held, Withdrawn, LinkWaits
    <3>. QED BY <1>2, <2>2, <3>1, UserConfirms, PassConfirms DEF DeviceStep
  <2>. QED BY <2>1, <2>2
<1>3. ASSUME NEW r \in requests, HandlePut(r) \/ HandleDelete(r)
      PROVE  ~Withdrawn(d) /\ LinkWaits(d)
  BY <1>1, <1>3, ServerApart
<1>. QED BY <1>2, <1>3, NextSteps

(* A deletion the user asked for leaves the queue only confirmed, or shown *)
(* as a conflict, and costs no client a link before it is confirmed.       *)
THEOREM DeletionsEndRight == Spec => DeletionIsDurable
BY StepConfirms, DirectoryAgrees, PTL DEF Spec, DeletionIsDurable

-----------------------------------------------------------------------------
(* What one user keeps private.                                            *)

Theirs(d) ==
  /\ ~Exposed(d) => ~Exposed(d)' \/ AnswersOwnerless(d)
  /\ ShownToOther(d) \/ KeepsShelved(d)

\* What is set aside is another's: its user cannot answer for it.
LEMMA ShelvedIsForeign ==
  ASSUME DirectoryIInv, NEW d \in Devices, ShelvedWork(d)
  PROVE  /\ change[d] # None /\ copy[d] = None /\ shelf[d] # None
         /\ ~Own(d, change[d].owner)
<1>1. shelf[d] \in Copy /\ shelf[d].creator # user[d]
  BY Shapes DEF DirectoryIInv, ShelvedWork, ShelvedFor
<1>2. shelf[d].creator \in Users /\ shelf[d].creator # None
  BY <1>1, NothingIsNone DEF Copy
<1>. QED BY <1>1, <1>2 DEF ShelvedWork, ShelvedFor, Own

\* Nothing of it changes hands.
LEMMA SameHands ==
  ASSUME NEW d, user'[d] = user[d], shelf'[d] = shelf[d],
         copy'[d] = copy[d] \/ (copy'[d] # None /\ ~copy'[d].content.private) \/
           (copy'[d] # None /\ copy'[d].creator = user[d]) \/
           copy'[d] = None,
         copy[d] = None => copy'[d] = None \/ ShownToOther(d) \/ ~ShelvedWork(d),
         change'[d] = change[d] \/ deleted \/ ShownToOther(d) \/ ~ShelvedWork(d)
  PROVE  Theirs(d)
<1>1. ~Exposed(d) => ~Exposed(d)'
  BY DEF Exposed
<1>2. ShownToOther(d) \/ KeepsShelved(d)
  BY DEF KeepsShelved, ShelvedWork, ShelvedFor
<1>. QED BY <1>1, <1>2 DEF Theirs

LEMMA UserTheirs ==
  ASSUME DirectoryIInv, NEW d \in Devices, UserStep(d)
  PROVE  Theirs(d)
<1>0. /\ DirectoryTypeOK /\ DeviceInv(d) /\ user'[d] = user[d] /\ shelf'[d] = shelf[d]
      /\ copy[d] \in Copy \cup {None}
  BY UserApart, Shapes DEF DirectoryIInv
<1>1. ASSUME NEW content \in Content, CreateRecord(d, content) PROVE Theirs(d)
  <2>1. /\ copy'[d] = [content |-> content, base |-> 0, creator |-> user[d]]
        /\ shelf[d] = None /\ user[d] \in Users
    BY <1>0, <1>1, Shapes DEF CreateRecord, Unused, Online, DirectoryTypeOK
  <2>2. copy'[d] \in Copy /\ copy'[d].creator = user[d]
    BY <2>1 DEF Copy
  <2>3. copy'[d] # None /\ ~ShelvedWork(d)
    BY <2>1, <2>2, NothingIsNone DEF ShelvedWork, ShelvedFor
  <2>. QED BY <1>0, <2>2, <2>3, SameHands
<1>2. ASSUME NEW content \in Content, UpdateRecord(d, content) PROVE Theirs(d)
  <2>1. /\ copy[d] # None /\ MayManage(d, content.private)
        /\ copy'[d] = [copy[d] EXCEPT !.content = content]
    BY <1>0, <1>2 DEF UpdateRecord, DirectoryTypeOK
  <2>2. copy'[d] \in Copy /\ copy'[d].content = content /\ copy'[d].creator = copy[d].creator
    BY <1>0, <2>1 DEF Copy
  <2>3. copy'[d] # None /\ (~copy'[d].content.private \/ copy'[d].creator = user[d])
    BY <2>1, <2>2, NothingIsNone DEF MayManage
  <2>4. ~ShelvedWork(d)
    BY <2>1 DEF ShelvedWork
  <2>. QED BY <1>0, <2>3, <2>4, SameHands
<1>3. CASE DeleteRecord(d)
  <2>1. copy'[d] = None /\ copy[d] # None
    BY <1>0, <1>3 DEF DeleteRecord, DirectoryTypeOK
  <2>2. ~ShelvedWork(d)
    BY <2>1 DEF ShelvedWork
  <2>. QED BY <1>0, <2>1, <2>2, SameHands
<1>4. CASE LinkProject(d)
  BY <1>0, <1>4, SameHands DEF LinkProject, held
<1>5. CASE AcceptServer(d)
  <2>1. /\ change[d] # None /\ change[d].server # None /\ Own(d, change[d].owner)
        /\ copy'[d] = None \/ copy'[d] = Downloaded(change[d].server)
    BY <1>0, <1>5 DEF AcceptServer, DirectoryTypeOK
  <2>2. ~ShelvedWork(d)
    BY <2>1, ShelvedIsForeign
  <2>3. ~Exposed(d) => ~Exposed(d)' \/ AnswersOwnerless(d)
    <3>1. CASE change[d].owner = None
      BY <1>5, <2>1, <3>1 DEF AnswersOwnerless
    <3>2. CASE change[d].owner # None
      <4>1. ShownTo(change[d].server, user[d])
        BY <1>0, <2>1, <3>2 DEF DeviceInv, Truthful, Own
      <4>. QED BY <1>0, <2>1, <4>1 DEF Exposed, Downloaded, ShownTo
    <3>. QED BY <3>1, <3>2
  <2>. QED BY <2>2, <2>3 DEF Theirs, KeepsShelved
<1>6. CASE KeepLocal(d)
  <2>1. ~ShelvedWork(d) /\ copy' = copy
    BY <1>6, ShelvedIsForeign DEF KeepLocal
  <2>. QED BY <1>0, <2>1, SameHands
<1>7. ASSUME NEW keep \in BOOLEAN, LeaveDeleted(d, keep) PROVE Theirs(d)
  <2>1. ~ShelvedWork(d) /\ copy'[d] = None
    BY <1>0, <1>7, ShelvedIsForeign DEF LeaveDeleted, DirectoryTypeOK
  <2>. QED BY <1>0, <2>1, SameHands
<1>. QED BY <1>1, <1>2, <1>3, <1>4, <1>5, <1>6, <1>7 DEF UserStep

LEMMA PassTheirs ==
  ASSUME DirectoryIInv, NEW d \in Devices, PassStep(d)
  PROVE  Theirs(d)
<1>0. /\ DirectoryTypeOK /\ DeviceInv(d) /\ user'[d] = user[d] /\ shelf'[d] = shelf[d]
      /\ pass[d] \in Pass /\ change[d] \in Change \cup {None} /\ copy[d] \in Copy \cup {None}
  BY PassApart, Shapes DEF DirectoryIInv
<1>1. ASSUME UNCHANGED <<copy, change>> PROVE Theirs(d)
  BY <1>0, <1>1, SameHands
<1>2. CASE \/ AnswerList(d) \/ SkipCommand(d) \/ SendDelete(d) \/ Survey(d) \/ SkipChange(d)
           \/ SendPut(d)
  BY <1>1, <1>2 DEF AnswerList, SkipCommand, SendDelete, Survey, SkipChange, SendPut, held
<1>3. CASE ReceiveList(d)
  <2>1. copy' = copy /\ (change' = change \/ copy[d] # None)
    BY <1>3 DEF ReceiveList, Unpublished
  <2>. QED BY <1>0, <2>1, SameHands DEF ShelvedWork
<1>4. CASE AckDelete(d)
  <2>1. CASE pass[d].reply.status = "conflict"
    <3>1. /\ pass[d].reply # None /\ pass[d].reply.card # None
          /\ ShownTo(pass[d].reply.card, user[d])
      BY <1>0, <1>4, <2>1 DEF AckDelete, DeviceInv, Truthful
    <3>2. ~Released("conflict")
      BY DEF Released
    <3>3. copy'[d] = Downloaded(pass[d].reply.card)
      BY <1>0, <1>4, <2>1, <3>2 DEF AckDelete, DirectoryTypeOK
    <3>4. ~Exposed(d)'
      BY <1>0, <3>1, <3>3 DEF Exposed, Downloaded, ShownTo
    <3>. QED BY <3>1, <3>4 DEF Theirs, ShownToOther
  <2>2. CASE pass[d].reply.status # "conflict"
    <3>1. UNCHANGED <<copy, change>>
      BY <1>4, <2>2 DEF AckDelete, held
    <3>. QED BY <1>1, <3>1
  <2>. QED BY <2>1, <2>2
<1>5. CASE MarkDeleted(d) \/ KeepDiverged(d)
  <2>1. copy' = copy
    BY <1>5 DEF MarkDeleted, KeepDiverged
  <2>2. copy[d] # None
    BY <1>5 DEF MarkDeleted, KeepDiverged, Decision
  <2>. QED BY <1>0, <2>1, <2>2, SameHands DEF ShelvedWork
<1>6. ASSUME NEW card \in Card, ShownTo(card, user[d]), InstallReceipt(d, card), Taken(d),
             pass[d].phase \in {"updating", "putting"}
      PROVE  Theirs(d)
  <2>1. /\ copy'[d] # None =>
             /\ copy[d] # None
             /\ IF Acknowledged(d) THEN copy'[d].content = card.content /\ copy'[d].creator = Creator
                ELSE copy'[d].content = copy[d].content /\ copy'[d].creator = copy[d].creator
    BY <1>6, Installs
  <2>2. ~Exposed(d) => ~Exposed(d)'
    BY <1>0, <1>6, <2>1 DEF Exposed, ShownTo
  <2>3. ~ShelvedWork(d)
    <3>1. change[d] # None => Own(d, change[d].owner)
      BY <1>0, <1>6 DEF DeviceInv, InHand
    <3>. QED BY <3>1, ShelvedIsForeign
  <2>. QED BY <2>2, <2>3 DEF Theirs, KeepsShelved
<1>7. CASE RecoverReceipt(d)
  <2>1. /\ Taken(d) /\ pass[d].listed.record # None /\ pass[d].phase = "updating"
        /\ InstallReceipt(d, pass[d].listed.record)
    BY <1>7, Decided DEF RecoverReceipt
  <2>2. pass[d].listed # None /\ pass[d].listed \in Listing
    BY <1>0, <2>1 DEF DeviceInv, PassShape, Pass
  <2>3. pass[d].listed.record \in Card /\ ShownTo(pass[d].listed.record, user[d])
    BY <1>0, <2>1, <2>2 DEF Listing, DeviceInv, Truthful
  <2>. QED BY <1>6, <2>1, <2>3
<1>8. CASE AckPut(d)
  <2>0. pass[d].phase = "putting" /\ Taken(d)
    BY <1>8, PutAnswered DEF AckPut
  <2>1. CASE pass[d].reply.status = "saved"
    <3>1. /\ pass[d].reply.card \in Card /\ ShownTo(pass[d].reply.card, user[d])
          /\ InstallReceipt(d, pass[d].reply.card)
      BY <1>8, <2>1, PutAnswered DEF AckPut
    <3>. QED BY <1>6, <2>0, <3>1
  <2>2. CASE pass[d].reply.status # "saved"
    <3>1. copy' = copy
      BY <1>8, <2>2 DEF AckPut, held
    <3>2. ~ShelvedWork(d)
      <4>1. change[d] # None => Own(d, change[d].owner)
        BY <1>0, <2>0 DEF DeviceInv, InHand
      <4>. QED BY <4>1, ShelvedIsForeign
    <3>. QED BY <1>0, <3>1, <3>2, SameHands
  <2>. QED BY <2>1, <2>2
<1>9. CASE Close(d)
  <2>1. pass[d].phase = "closing" /\ pass[d].listed # None /\ pass[d].listed \in Listing
    BY <1>0, <1>9 DEF Close, DeviceInv, PassShape, Pass
  <2>2. /\ change'[d] = RemainingChange(d)
        /\ copy'[d] = IF Pending(d) THEN copy[d]
                      ELSE IF Offered(d) THEN Downloaded(pass[d].listed.record) ELSE None
    BY <1>0, <1>9 DEF Close, DirectoryTypeOK
  <2>3. change'[d] = change[d] \/ deleted
    BY <1>0, <2>1, <2>2 DEF RemainingChange, DeviceInv, Truthful
  <2>4. CASE ~Pending(d) /\ Offered(d)
    <3>1. pass[d].listed.record # None /\ ShownTo(pass[d].listed.record, user[d])
      BY <1>0, <2>1, <2>4 DEF Offered, DeviceInv, Truthful
    <3>2. ~Exposed(d)'
      BY <1>0, <2>2, <2>4, <3>1 DEF Exposed, Downloaded, ShownTo
    <3>. QED BY <2>1, <3>1, <3>2 DEF Theirs, ShownToOther
  <2>5. CASE Pending(d) \/ ~Offered(d)
    <3>1. copy'[d] = copy[d] \/ copy'[d] = None
      BY <2>2, <2>5
    <3>. QED BY <1>0, <2>3, <3>1, SameHands
  <2>. QED BY <2>4, <2>5
<1>. QED BY <1>2, <1>3, <1>4, <1>5, <1>7, <1>8, <1>9 DEF PassStep

LEMMA SwitchTheirs ==
  ASSUME DirectoryIInv, NEW d \in Devices, NEW u \in Users, SwitchUser(d, u)
  PROVE  Theirs(d)
<1>1. /\ user'[d] = u /\ shelf'[d] = Captured(d) /\ change'[d] = change[d]
      /\ copy'[d] = IF ShelvedFor(d, Captured(d), u) THEN None ELSE Captured(d)
  BY DEF SwitchUser, DirectoryIInv, DirectoryTypeOK
<1>2. ~Exposed(d)'
  BY <1>1 DEF Exposed, ShelvedFor
<1>3. KeepsShelved(d)
  <2>1. SUFFICES ASSUME ShelvedWork(d)
                 PROVE  (ShelvedWork(d)' /\ shelf'[d] = shelf[d]) \/ copy'[d] = shelf[d]
    BY DEF KeepsShelved
  <2>2. Captured(d) = shelf[d]
    BY <2>1 DEF ShelvedWork, Captured
  <2>. QED BY <1>1, <2>1, <2>2 DEF ShelvedWork, ShelvedFor
<1>. QED BY <1>2, <1>3 DEF Theirs

LEMMA StepTheirs ==
  DirectoryIInv /\ [Next]_<<setting, vars>> => [\A d \in Devices : Theirs(d)]_vars
<1> SUFFICES ASSUME DirectoryIInv, [Next]_<<setting, vars>>, vars' # vars, NEW d \in Devices
             PROVE  Theirs(d)
  OBVIOUS
<1>0. DirectoryTypeOK
  BY DEF DirectoryIInv
<1>1. ASSUME Apart(d) PROVE Theirs(d)
  BY <1>1, SameHands DEF Apart
<1>2. ASSUME NEW e \in Devices, DeviceStep(e) PROVE Theirs(d)
  <2>1. CASE e # d
    BY <1>0, <1>1, <1>2, <2>1, DeviceApart
  <2>2. CASE e = d
    <3>1. CASE Trigger(d) \/ PassFails(d) \/ Reload(d)
      <4>1. UNCHANGED <<user, copy, change, shelf>>
        BY <3>1 DEF Trigger, PassFails, Reload, held
      <4>. QED BY <4>1, SameHands
    <3>. QED BY <1>2, <2>2, <3>1, UserTheirs, PassTheirs, SwitchTheirs DEF DeviceStep
  <2>. QED BY <2>1, <2>2
<1>3. ASSUME NEW r \in requests, HandlePut(r) \/ HandleDelete(r) PROVE Theirs(d)
  BY <1>1, <1>3, ServerApart
<1>. QED BY <1>2, <1>3, NextSteps

(* What one user of a device keeps private no other user of it gets to see, *)
(* and a folder set aside with unsynced work comes back with it.           *)
THEOREM PrivateIsKept == Spec => PrivateStaysTheirs
<1>1. DirectoryIInv /\ [Next]_<<setting, vars>> =>
        [\A d \in Devices :
           /\ ~Exposed(d) => ~Exposed(d)' \/ AnswersOwnerless(d)
           /\ ShownToOther(d) \/ KeepsShelved(d)]_vars
  BY StepTheirs DEF Theirs
<1>. QED BY <1>1, DirectoryAgrees, PTL DEF Spec, PrivateStaysTheirs
=============================================================================
