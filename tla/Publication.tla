---------------------------- MODULE Publication ----------------------------
(***************************************************************************)
(* Published proposals: shareProposal and the register of links of         *)
(* shareProposalService.ts on every device, and the worker that keeps the  *)
(* published copies (index.ts, publicationAuthorization.ts and             *)
(* proposalRepository.ts of share-viewer), over the policy of              *)
(* FeaturePolicy.                                                          *)
(*                                                                         *)
(* The proposals published are those of one project.  The identifiers the  *)
(* worker draws are numbers, whose order is that of the keys it lists.     *)
(***************************************************************************)
EXTENDS FeaturePolicy, FiniteSets

CONSTANTS
  MaxId,       \* bound: published copies
  MaxPresses,  \* bound: publications asked for
  MaxRuns,     \* bound: readings of the register by one device
  PageSize     \* keys of a page

ASSUME PublicationAssumption ==
  /\ MaxId \in Nat /\ MaxPresses \in Nat /\ MaxRuns \in Nat
  /\ PageSize \in Nat \ {0}

VARIABLES
  content,  \* KV: proposal:<id>
  index,    \* KV: history:<organization>:<id>
  expired,  \* the published copies whose validity is over
  presses,  \* publications, by the press of the button that began them
  runs,     \* syncSharedHistory under way on each device
  ran,      \* runs begun so far
  links,    \* localStorage: the register of each organization on a device
  hidden,   \* localStorage: <key>:hidden
  last      \* localStorage: <key>:last:<project>

worker    == <<content, index, expired>>
storage   == <<links, hidden, last>>
vars      == <<policyVars, worker, presses, runs, ran, storage>>

Ids      == 1 .. MaxId
Snapshot == [org: Orgs, by: Users \cup {None}, version: Nat \ {0}, mode: Modes]
Press    == [dev: Devices, epoch: Nat, who: Identity,
             asked: Nat,           \* the load of the policy it waits for
             since: Nat,           \* auxiliary: the policy's version at the press
             snapshot: Policy \cup {None},
             stage: {"policy", "sent", "authorized", "stored", "published", "failed"},
             id: Ids \cup {None},
             waited: BOOLEAN]      \* the device still waits for an answer
Run      == [stage: {"idle", "next", "asked", "answered", "complete"}, epoch: Nat,
             who: Identity \cup {None},
             route: {"recover", "history"}, cursor: 0 .. MaxId,
             page: SUBSET Ids, more: BOOLEAN,
             began: SUBSET Ids, listed: SUBSET Ids] \* auxiliary: what there was to find

\* null is no copy.
ASSUME CopiesAssumption == None \notin Snapshot

NoRun == [stage |-> "idle", epoch |-> 0, who |-> None, route |-> "recover",
          cursor |-> 0, page |-> {}, more |-> FALSE, began |-> {}, listed |-> {}]

\* A copy older than the register does not say who published it.
Older(o) == [org |-> o, by |-> None, version |-> 1, mode |-> "legacy"]

Init ==
  /\ PolicyInit
  /\ content \in [Ids -> {None} \cup {Older(o) : o \in Orgs}]
  /\ index = {} /\ expired = {}
  /\ presses = <<>> /\ runs = [d \in Devices |-> NoRun] /\ ran = [d \in Devices |-> 0]
  /\ links = [d \in Devices |-> [o \in Orgs |-> {}]]
  /\ hidden = [d \in Devices |-> [o \in Orgs |-> {}]]
  /\ last = [d \in Devices |-> [o \in Orgs |-> None]]

\* contextIsCurrent
ContextIsCurrent(d, x) == session[d] = x.who /\ epoch[d] = x.epoch

Alive(i) == content[i] # None /\ i \notin expired

-----------------------------------------------------------------------------
(* shareProposal on the device. *)

\* The press of the button, and the load of the policy it begins with.  What
\* the device takes the user's role for only spares requests.
Publish(d) ==
  /\ Len(presses) < MaxPresses
  /\ Request(d, None)
  /\ presses' = Append(presses,
       [dev |-> d, epoch |-> epoch[d], who |-> session[d], asked |-> sequence[d] + 1,
        since |-> Len(modes[session[d].org]), snapshot |-> None, stage |-> "policy",
        id |-> None, waited |-> TRUE])
  /\ UNCHANGED <<worker, runs, ran, storage>>

Step(p, q) == presses' = [presses EXCEPT ![p] = q]

Loaded(x) == ~\E a \in asks : a.dev = x.dev /\ a.seq = x.asked

\* The load has ended, with an answer, an error, or overtaken by another.
Send(p) ==
  LET x == presses[p] policy == known[x.dev][x.who.org] IN
  /\ x.stage = "policy" /\ x.waited /\ Loaded(x)
  /\ IF ContextIsCurrent(x.dev, x) /\ policy # None /\ status[x.dev] # "error"
     THEN Step(p, [x EXCEPT !.stage = "sent", !.snapshot = policy])
     ELSE Step(p, [x EXCEPT !.stage = "failed", !.waited = FALSE])
  /\ UNCHANGED <<policyVars, worker, runs, ran, storage>>

\* The answer of the worker: the link is remembered for the project and
\* entered in the register unless it was hidden there meanwhile.
Hear(p) ==
  LET x == presses[p] d == x.dev o == x.who.org IN
  /\ x.stage \in {"published", "failed"} /\ x.waited
  /\ Step(p, [x EXCEPT !.waited = FALSE])
  /\ IF x.stage = "published" /\ ContextIsCurrent(d, x)
     THEN /\ last' = [last EXCEPT ![d][o] = x.id]
          /\ links' = [links EXCEPT ![d][o] = @ \cup ({x.id} \ hidden[d][o])]
     ELSE UNCHANGED <<links, last>>
  /\ UNCHANGED <<policyVars, worker, runs, ran, hidden>>

\* The connection fails; the worker may go on.
LoseAnswer(p) ==
  /\ presses[p].stage \in {"sent", "authorized", "stored", "published"} /\ presses[p].waited
  /\ Step(p, [presses[p] EXCEPT !.waited = FALSE])
  /\ UNCHANGED <<policyVars, worker, runs, ran, storage>>

-----------------------------------------------------------------------------
(* The worker. *)

\* share-authorization answers with the role and the policy of now; the
\* snapshot must be that policy.
Authorized(x) ==
  /\ RoleOf(x.who) \in {"EDITOR", "ADMIN"}
  /\ x.snapshot = Current(x.who.org)

Authorize(p) ==
  LET x == presses[p] IN
  /\ x.stage = "sent"
  /\ Step(p, [x EXCEPT !.stage = IF Authorized(x) THEN "authorized" ELSE "failed"])
  /\ UNCHANGED <<policyVars, worker, runs, ran, storage>>

\* Faulty: the policy is read again when the copy is stored.
StoreContentNow(p) ==
  LET x == presses[p] IN
  /\ x.stage = "authorized"
  /\ \E i \in {j \in Ids : content[j] = None} :
       /\ content' = [content EXCEPT ![i] =
            [org |-> x.who.org, by |-> x.who.id,
             version |-> Len(modes[x.who.org]), mode |-> x.snapshot.mode]]
       /\ Step(p, [x EXCEPT !.stage = "stored", !.id = i])
  /\ UNCHANGED <<policyVars, index, expired, runs, ran, storage>>

\* storeProposal: the copy, under an identifier drawn at random ...
StoreContent(p) ==
  LET x == presses[p] IN
  /\ x.stage = "authorized"
  /\ \E i \in {j \in Ids : content[j] = None} :
       /\ content' = [content EXCEPT ![i] =
            [org |-> x.who.org, by |-> x.who.id,
             version |-> x.snapshot.version, mode |-> x.snapshot.mode]]
       /\ Step(p, [x EXCEPT !.stage = "stored", !.id = i])
  /\ UNCHANGED <<policyVars, index, expired, runs, ran, storage>>

\* ... and then its entry in the register of the organization.
StoreIndex(p) ==
  LET x == presses[p] IN
  /\ x.stage = "stored"
  /\ index' = index \cup {<<x.who.org, x.id>>}
  /\ Step(p, [x EXCEPT !.stage = "published"])
  /\ UNCHANGED <<policyVars, content, expired, runs, ran, storage>>

\* The authorization, the store or the worker itself fails.
Break(p) ==
  /\ presses[p].stage \in {"sent", "authorized", "stored"}
  /\ Step(p, [presses[p] EXCEPT !.stage = "failed"])
  /\ UNCHANGED <<policyVars, worker, runs, ran, storage>>

\* The validity of a copy ends; its entry in the register remains.
Expire(i) ==
  /\ Alive(i) /\ expired' = expired \cup {i}
  /\ UNCHANGED <<policyVars, content, index, presses, runs, ran, storage>>

-----------------------------------------------------------------------------
(* syncSharedHistory: the recovery of copies without an entry, then the     *)
(* register, page by page.                                                  *)

Indexed(o) == {i \in Ids : <<o, i>> \in index}

StartRun(d) ==
  /\ session[d] # None /\ runs[d].stage \in {"idle", "complete"} /\ ran[d] < MaxRuns
  /\ runs' = [runs EXCEPT ![d] = [NoRun EXCEPT !.stage = "next", !.who = session[d],
                                     !.epoch = epoch[d], !.listed = Indexed(session[d].org),
                  !.began = {i \in Ids : Alive(i) /\ content[i].org = session[d].org}]]
  /\ ran' = [ran EXCEPT ![d] = @ + 1]
  /\ UNCHANGED <<policyVars, worker, presses, storage>>

EndRun(d) == runs' = [runs EXCEPT ![d] = NoRun]

AskPage(d) ==
  /\ runs[d].stage = "next"
  /\ IF ContextIsCurrent(d, runs[d])
     THEN runs' = [runs EXCEPT ![d].stage = "asked"]
     ELSE EndRun(d)
  /\ UNCHANGED <<policyVars, worker, presses, ran, storage>>

\* Faulty: a page begins two keys after the cursor.
FirstOfLater(keys, from) ==
  {i \in keys : i > from + 1 /\ Cardinality({j \in keys : j > from + 1 /\ j <= i}) <= PageSize}

\* Faulty: a copy is indexed without a look at whose it is.
OwnOrNot(o, page) == page

\* The copies of a page that name the organization as their publisher's.
Own(o, page) == {i \in page : content[i].org = o}

\* The first keys after the cursor.
FirstOf(keys, from) ==
  {i \in keys : i > from /\ Cardinality({j \in keys : j > from /\ j <= i}) <= PageSize}

Largest(keys, from) == CHOOSE i \in keys \cup {from} : \A j \in keys : j <= i

\* history-recover lists every copy and indexes those of the caller's
\* organization; history lists the entries of that organization alone.
ServePage(d) ==
  LET r == runs[d]
      o == r.who.org
      keys == IF r.route = "recover" THEN {i \in Ids : Alive(i)} ELSE Indexed(o)
      page == FirstOf(keys, r.cursor)
      own  == Own(o, page)
  IN
  /\ r.stage = "asked" /\ RoleOf(r.who) # "none"
  /\ runs' = [runs EXCEPT ![d] = [r EXCEPT !.stage = "answered", !.page = own,
                !.cursor = Largest(page, r.cursor),
                !.more = \E i \in keys : i > Largest(page, r.cursor)]]
  /\ index' = IF r.route = "recover" THEN index \cup ({o} \X own) ELSE index
  /\ UNCHANGED <<policyVars, content, expired, presses, ran, storage>>

ReceivePage(d) ==
  LET r == runs[d] o == r.who.org IN
  /\ r.stage = "answered"
  /\ IF ContextIsCurrent(d, r)
     THEN /\ links' = [links EXCEPT ![d][o] = @ \cup (r.page \ hidden[d][o])]
          /\ IF r.more \/ r.route = "recover"
             THEN runs' = [runs EXCEPT ![d] =
                    [r EXCEPT !.stage = "next", !.page = {}, !.more = FALSE,
                       !.route = IF r.more THEN @ ELSE "history",
                       !.cursor = IF r.more THEN @ ELSE 0]]
             ELSE runs' = [runs EXCEPT ![d] =
                    [r EXCEPT !.stage = "complete", !.page = {}, !.cursor = 0]]
     ELSE EndRun(d) /\ UNCHANGED links
  /\ UNCHANGED <<policyVars, worker, presses, ran, hidden, last>>

\* The worker refuses or cannot be reached, or the storage is full.
FailRun(d) ==
  /\ runs[d].stage \in {"asked", "answered"} /\ EndRun(d)
  /\ UNCHANGED <<policyVars, worker, presses, ran, storage>>

-----------------------------------------------------------------------------
(* The register of the device. *)

\* deleteSharedRecord: hidden on this device, and forgotten as the link of
\* its project.
Hide(d, i) ==
  LET o == session[d].org IN
  /\ session[d] # None /\ i \in links[d][o]
  /\ hidden' = [hidden EXCEPT ![d][o] = @ \cup {i}]
  /\ links' = [links EXCEPT ![d][o] = @ \ {i}]
  /\ last' = [last EXCEPT ![d][o] = None]
  /\ UNCHANGED <<policyVars, worker, presses, runs, ran>>

\* clearExpiredRecords
ClearExpired(d) ==
  LET o == session[d].org gone == links[d][o] \cap expired IN
  /\ session[d] # None /\ gone # {}
  /\ hidden' = [hidden EXCEPT ![d][o] = @ \cup gone]
  /\ links' = [links EXCEPT ![d][o] = @ \ gone]
  /\ last' = [last EXCEPT ![d][o] = None]
  /\ UNCHANGED <<policyVars, worker, presses, runs, ran>>

\* The application starts again: what was under way on it is gone.
Restart(d) ==
  /\ ForgetRequests(d)
  /\ presses' = [p \in DOMAIN presses |->
       IF presses[p].dev # d THEN presses[p]
       ELSE [presses[p] EXCEPT !.waited = FALSE,
               !.stage = IF @ = "policy" THEN "failed" ELSE @]]
  /\ EndRun(d)
  /\ UNCHANGED <<worker, ran, storage>>

\* The policy is loaded and saved on its own as well.
PolicyStep ==
  /\ \/ \E a \in asks : Serve(a) \/ Receive(a)
     \/ \E u \in Users, o \in Orgs, r \in Roles : ChangeRole(u, o, r)
     \/ \E d \in Devices :
          \/ \E who \in Identity \cup {None} : Become(d, who)
          \/ \E m \in Modes \cup {None} : Request(d, m)
  /\ UNCHANGED <<worker, presses, runs, ran, storage>>

Next ==
  \/ PolicyStep
  \/ \E p \in DOMAIN presses :
       \/ Send(p) \/ Hear(p) \/ LoseAnswer(p)
       \/ Authorize(p) \/ StoreContent(p) \/ StoreIndex(p) \/ Break(p)
  \/ \E i \in Ids : Expire(i)
  \/ \E d \in Devices :
       \/ Publish(d) \/ Restart(d)
       \/ StartRun(d) \/ AskPage(d) \/ ServePage(d) \/ ReceivePage(d) \/ FailRun(d)
       \/ ClearExpired(d) \/ \E i \in Ids : Hide(d, i)

Spec == Init /\ [][Next]_vars

-----------------------------------------------------------------------------
(* Properties. *)

PublicationTypeOK ==
  /\ PolicyTypeOK
  /\ content \in [Ids -> Snapshot \cup {None}]
  /\ index \subseteq Orgs \X Ids /\ expired \subseteq Ids
  /\ presses \in Seq(Press) /\ Len(presses) <= MaxPresses
  /\ runs \in [Devices -> Run] /\ ran \in [Devices -> 0 .. MaxRuns]
  /\ links \in [Devices -> [Orgs -> SUBSET Ids]]
  /\ hidden \in [Devices -> [Orgs -> SUBSET Ids]]
  /\ last \in [Devices -> [Orgs -> Ids \cup {None}]]

\* A published copy carries the calculation its organization had ordered at
\* some moment between the press of the button and now: its mode is the one
\* of the version it names, whatever was saved, signed in or lost meanwhile.
PublishedUnderThePolicy ==
  \A i \in Ids : (content[i] # None /\ content[i].by # None) =>
    /\ content[i].version <= Len(modes[content[i].org])
    /\ content[i].mode = modes[content[i].org][content[i].version]
    /\ \E p \in DOMAIN presses :
         /\ presses[p].id = i /\ presses[p].who = [id |-> content[i].by, org |-> content[i].org]
         /\ presses[p].since <= content[i].version

\* A link a device lists under an organization is a copy that was stored for
\* that organization: no entry is advertised before its content, and no late
\* answer crosses a change of session.
ListedWereStored ==
  /\ \A e \in index : content[e[2]] # None /\ content[e[2]].org = e[1]
  /\ \A d \in Devices, o \in Orgs : \A i \in links[d][o] \cup ({last[d][o]} \ {None}) :
       content[i] # None /\ content[i].org = o

\* A publication the device reports as done is in the register every member
\* of its organization reads.
ReportedIsListed ==
  \A d \in Devices, o \in Orgs : last[d][o] # None => <<o, last[d][o]>> \in index

\* The state has the code's shape; what a device knows of a policy, lists or
\* reports as published is what the server and the worker hold of it.
PublicationInv ==
  PublicationTypeOK /\ KnownWasInForce /\ ListedWereStored /\ ReportedIsListed

\* A reading of the register that ended without an error has shown every
\* entry of the organization that was there when it began, and every copy
\* whose entry was never written unless it expired meanwhile, except what
\* the user hid on this device.
ReadingIsComplete ==
  \A d \in Devices :
    LET r == runs[d] o == r.who.org IN
    r.stage = "complete" =>
      /\ r.listed \subseteq links[d][o] \cup hidden[d][o]
      /\ r.began \subseteq links[d][o] \cup hidden[d][o] \cup expired
=============================================================================
