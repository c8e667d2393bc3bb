------------------------- MODULE PublicationProofs -------------------------
(***************************************************************************)
(* What holds of published proposals for any devices, users, organizations *)
(* and page size.  Every step of Publication is a step of FeaturePolicy,   *)
(* whose invariant PolicyInv says what a device may know of a policy.      *)
(***************************************************************************)
EXTENDS Publication, FiniteSetTheorems, WellFoundedInduction, SequenceTheorems, TLAPS

-----------------------------------------------------------------------------
(* The calculation policy: what a device knows was in force, and never goes *)
(* back.                                                                   *)

(* What was ordered in an organization under version v. *)
WasInForce(o, p) ==
  /\ p \in Policy /\ p.version <= Len(modes[o]) /\ p.mode = modes[o][p.version]

AnswersWereInForce ==
  \A a \in asks : a.stage = "granted" => WasInForce(a.who.org, a.answer)

(* The number of a request is its own, and no later than the device's last. *)
Numbered ==
  /\ \A a \in asks : a.seq <= sequence[a.dev]
  /\ \A a, b \in asks : a.dev = b.dev /\ a.seq = b.seq => a = b

(* The answer to the device's last request is no older than what it knows:
   everything it knows it was told before it asked. *)
LastIsNewest ==
  \A a \in asks :
    LET k == known[a.dev][a.who.org] IN
    (a.seq = sequence[a.dev] /\ a.stage = "granted" /\ k # None)
      => k.version <= a.answer.version

PolicyInv ==
  PolicyTypeOK /\ KnownWasInForce /\ AnswersWereInForce /\ Numbered /\ LastIsNewest

LEMMA PolicyInitially == PolicyInit => PolicyInv
<1> SUFFICES ASSUME PolicyInit PROVE PolicyInv
  OBVIOUS
<1> USE DEF PolicyInit
<1>1. PolicyTypeOK
  <2>1. \A o \in Orgs : \E m \in Modes : modes[o] = <<m>>
    OBVIOUS
  <2>2. \A o \in Orgs : modes[o] \in Seq(Modes) /\ Len(modes[o]) = 1
    <3>. SUFFICES ASSUME NEW o \in Orgs PROVE modes[o] \in Seq(Modes) /\ Len(modes[o]) = 1
      OBVIOUS
    <3>1. PICK m \in Modes : modes[o] = <<m>>
      BY <2>1
    <3>2. <<m>> \in Seq(Modes) /\ Len(<<m>>) = 1
      OBVIOUS
    <3>. QED BY ONLY <3>1, <3>2
  <2>3. modes \in [Orgs -> Seq(Modes)] /\ \A o \in Orgs : Len(modes[o]) \in 1 .. MaxVersion
    <3>1. modes = [o \in Orgs |-> modes[o]]
      OBVIOUS
    <3>2. modes \in [Orgs -> Seq(Modes)]
      BY ONLY <3>1, <2>2
    <3>3. 1 \in 1 .. MaxVersion
      BY FeaturePolicyAssumption
    <3>. QED BY ONLY <2>2, <3>2, <3>3
  <2>. QED BY <2>3, FeaturePolicyAssumption DEF PolicyTypeOK
<1>2. KnownWasInForce
  BY DEF KnownWasInForce
<1>3. AnswersWereInForce /\ Numbered /\ LastIsNewest
  BY DEF AnswersWereInForce, Numbered, LastIsNewest
<1>. QED BY <1>1, <1>2, <1>3 DEF PolicyInv

(* A request with its answer. *)
Answering(a, s, r) == [a EXCEPT !.stage = s, !.answer = r]

LEMMA Answered ==
  ASSUME NEW a \in Ask, NEW s \in {"sent", "granted", "denied"}, NEW r \in Policy \cup {None}
  PROVE  LET b == Answering(a, s, r) IN
         /\ b \in Ask /\ b.dev = a.dev /\ b.seq = a.seq /\ b.who = a.who
         /\ b.stage = s /\ b.answer = r
BY DEF Ask, Answering

(* The versions of an organization are only ever added to. *)
LEMMA ServeTypes ==
  ASSUME PolicyInv, NEW a \in asks, Serve(a)
  PROVE  /\ PolicyTypeOK'
         /\ \A o \in Orgs : /\ Len(modes'[o]) >= Len(modes[o])
                            /\ \A v \in 1 .. Len(modes[o]) : modes'[o][v] = modes[o][v]
         /\ \E b \in Ask :
              /\ asks' = (asks \ {a}) \cup {b}
              /\ b.dev = a.dev /\ b.seq = a.seq /\ b.who = a.who
              /\ b.stage = "granted" =>
                   /\ WasInForce(a.who.org, b.answer)'
                   /\ b.answer.version = Len(modes'[a.who.org])
<1> DEFINE o == a.who.org
<1>0. /\ a \in Ask /\ o \in Orgs
      /\ modes \in [Orgs -> Seq(Modes)] /\ Len(modes[o]) \in 1 .. MaxVersion
      /\ modes[o] \in Seq(Modes)
  BY DEF PolicyInv, PolicyTypeOK, Ask, Identity
<1>1. CASE /\ asks' = (asks \ {a}) \cup {Answering(a, "granted", Current(o))}
           /\ modes' = modes
  <2>1. PICK p \in Policy : p = Current(o) /\ p.version = Len(modes[o])
                            /\ p.mode = modes[o][Len(modes[o])]
    <3>1. modes[o][Len(modes[o])] \in Modes /\ Len(modes[o]) \in Nat \ {0}
      BY <1>0
    <3>2. Current(o) \in Policy
      BY <3>1 DEF Current, Policy
    <3>. QED BY <3>2 DEF Current
  <2>2. PICK b \in Ask :
          /\ b = Answering(a, "granted", p)
          /\ b.dev = a.dev /\ b.seq = a.seq /\ b.who = a.who /\ b.answer = p
    BY <1>0, <2>1, Answered
  <2>3. PolicyTypeOK'
    BY <1>1, <2>1, <2>2 DEF PolicyInv, PolicyTypeOK, Serve
  <2>4. WasInForce(o, b.answer)' /\ b.answer.version = Len(modes'[o])
    BY <1>1, <1>0, <2>1, <2>2 DEF WasInForce
  <2>5. \A q \in Orgs : /\ Len(modes'[q]) >= Len(modes[q])
                         /\ \A v \in 1 .. Len(modes[q]) : modes'[q][v] = modes[q][v]
    <3>1. \A q \in Orgs : modes[q] \in Seq(Modes) /\ Len(modes[q]) \in Nat
      BY <1>0
    <3>. QED BY <1>1, <3>1
  <2>6. asks' = (asks \ {a}) \cup {b}
    BY <1>1, <2>1, <2>2
  <2>. QED BY <2>2, <2>3, <2>4, <2>5, <2>6
<1>2. CASE /\ a.change # None /\ Len(modes[o]) < MaxVersion
           /\ modes' = [modes EXCEPT ![o] = Append(@, a.change.mode)]
           /\ asks' = (asks \ {a}) \cup {Answering(a, "granted",
                        [version |-> Len(modes[o]) + 1, mode |-> a.change.mode])}
  <2>1. a.change.mode \in Modes
    BY <1>0, <1>2 DEF Ask, Policy
  <2>2. PICK p \in Policy :
          /\ p = [version |-> Len(modes[o]) + 1, mode |-> a.change.mode]
          /\ p.version = Len(modes[o]) + 1 /\ p.mode = a.change.mode
    <3>1. Len(modes[o]) + 1 \in Nat \ {0}
      BY <1>0
    <3>2. [version |-> Len(modes[o]) + 1, mode |-> a.change.mode] \in Policy
      BY <2>1, <3>1 DEF Policy
    <3>. QED BY <3>2
  <2>3. PICK b \in Ask :
          /\ b = Answering(a, "granted", p)
          /\ b.dev = a.dev /\ b.seq = a.seq /\ b.who = a.who /\ b.answer = p
    BY <1>0, <2>2, Answered
  <2>. DEFINE t == Append(modes[o], a.change.mode)
  <2>a. /\ t \in Seq(Modes) /\ Len(t) = Len(modes[o]) + 1
        /\ t[Len(modes[o]) + 1] = a.change.mode
        /\ \A v \in 1 .. Len(modes[o]) : t[v] = modes[o][v]
    BY <1>0, <2>1
  <2>4. /\ modes' \in [Orgs -> Seq(Modes)]
        /\ modes'[o] = t
        /\ Len(modes'[o]) = Len(modes[o]) + 1
        /\ modes'[o][Len(modes[o]) + 1] = a.change.mode
        /\ \A v \in 1 .. Len(modes[o]) : modes'[o][v] = modes[o][v]
        /\ \A q \in Orgs \ {o} : modes'[q] = modes[q]
    <3>. HIDE DEF t
    <3>1. modes' = [modes EXCEPT ![o] = t]
      BY <1>2 DEF t
    <3>. QED BY <1>0, <2>a, <3>1
  <2>5. \A q \in Orgs : Len(modes'[q]) \in 1 .. MaxVersion
    BY <1>0, <1>2, <2>4, FeaturePolicyAssumption DEF PolicyInv, PolicyTypeOK
  <2>6. PolicyTypeOK'
    BY <1>2, <2>2, <2>3, <2>4, <2>5 DEF PolicyInv, PolicyTypeOK, Serve
  <2>7. WasInForce(o, b.answer)' /\ b.answer.version = Len(modes'[o])
    BY <1>0, <2>2, <2>3, <2>4 DEF WasInForce
  <2>8. \A q \in Orgs : /\ Len(modes'[q]) >= Len(modes[q])
                         /\ \A v \in 1 .. Len(modes[q]) : modes'[q][v] = modes[q][v]
    <3>1. \A q \in Orgs : modes[q] \in Seq(Modes) /\ Len(modes[q]) \in Nat
      BY <1>0
    <3>. QED BY <2>4, <3>1
  <2>9. asks' = (asks \ {a}) \cup {b}
    BY <1>2, <2>2, <2>3
  <2>. QED BY <2>3, <2>6, <2>7, <2>8, <2>9
<1>3. CASE /\ modes' = modes
           /\ asks' = (asks \ {a}) \cup {Answering(a, "denied", None)}
  <2> DEFINE b == Answering(a, "denied", None)
  <2>1. b \in Ask /\ b.dev = a.dev /\ b.seq = a.seq /\ b.who = a.who /\ b.stage = "denied"
    BY <1>0, Answered
  <2>2. PolicyTypeOK'
    BY <1>3, <2>1 DEF PolicyInv, PolicyTypeOK, Serve
  <2>3. \A q \in Orgs : modes[q] \in Seq(Modes)
    BY <1>0
  <2>. QED BY <1>3, <2>1, <2>2, <2>3
<1>. QED BY <1>1, <1>2, <1>3 DEF Serve, Answering

LEMMA ServePreserves ==
  ASSUME PolicyInv, NEW a \in asks, Serve(a)
  PROVE  PolicyInv' /\ known' = known
<1>1. known' = known /\ sequence' = sequence
  BY DEF Serve
<1>2. PICK b \in Ask :
        /\ asks' = (asks \ {a}) \cup {b}
        /\ b.dev = a.dev /\ b.seq = a.seq /\ b.who = a.who
        /\ b.stage = "granted" => /\ WasInForce(a.who.org, b.answer)'
                                  /\ b.answer.version = Len(modes'[a.who.org])
  BY ServeTypes
<1>3. \A o \in Orgs : /\ Len(modes'[o]) >= Len(modes[o])
                      /\ \A v \in 1 .. Len(modes[o]) : modes'[o][v] = modes[o][v]
  BY ServeTypes
<1>4. \A o \in Orgs : modes[o] \in Seq(Modes) /\ modes'[o] \in Seq(Modes)
                      /\ Len(modes[o]) \in Nat /\ Len(modes'[o]) \in Nat
  BY ServeTypes DEF PolicyInv, PolicyTypeOK
<1>5. \A o \in Orgs, p \in Policy :
        p.version <= Len(modes[o]) /\ p.mode = modes[o][p.version]
          => p.version <= Len(modes'[o]) /\ p.mode = modes'[o][p.version]
  BY <1>3, <1>4 DEF Policy
<1>6. KnownWasInForce'
  <2> SUFFICES ASSUME NEW d \in Devices, NEW o \in Orgs, known[d][o] # None
               PROVE  /\ known[d][o].version <= Len(modes'[o])
                      /\ known[d][o].mode = modes'[o][known[d][o].version]
    BY <1>1 DEF KnownWasInForce
  <2>1. known[d][o] \in Policy
    BY DEF PolicyInv, PolicyTypeOK
  <2>. QED BY <2>1, <1>5 DEF PolicyInv, KnownWasInForce
<1>7. AnswersWereInForce'
  <2> SUFFICES ASSUME NEW c \in asks', c.stage = "granted"
               PROVE  WasInForce(c.who.org, c.answer)'
    BY DEF AnswersWereInForce
  <2>1. CASE c = b
    BY <2>1, <1>2
  <2>2. CASE c \in asks
    <3>1. c.who.org \in Orgs
      BY <2>2 DEF PolicyInv, PolicyTypeOK, Ask, Identity
    <3>2. WasInForce(c.who.org, c.answer)
      BY <2>2 DEF PolicyInv, AnswersWereInForce
    <3>. QED BY <3>1, <3>2, <1>5 DEF WasInForce
  <2>. QED BY <2>1, <2>2, <1>2
<1>8. Numbered'
  BY <1>1, <1>2 DEF PolicyInv, Numbered
<1>9. LastIsNewest'
  <2> SUFFICES ASSUME NEW c \in asks', c.seq = sequence[c.dev], c.stage = "granted",
                      known[c.dev][c.who.org] # None
               PROVE  known[c.dev][c.who.org].version <= c.answer.version
    BY <1>1 DEF LastIsNewest
  <2>1. CASE c = b
    <3>1. c.dev \in Devices /\ c.who.org \in Orgs /\ c.who = a.who
      BY <2>1, <1>2 DEF Ask, Identity
    <3>2. known[c.dev][c.who.org].version <= Len(modes'[c.who.org])
      BY <1>1, <1>6, <3>1 DEF KnownWasInForce
    <3>. QED BY <2>1, <1>2, <3>1, <3>2
  <2>2. CASE c \in asks
    BY <2>2 DEF PolicyInv, LastIsNewest
  <2>. QED BY <2>1, <2>2, <1>2
<1>. QED BY <1>1, <1>6, <1>7, <1>8, <1>9, ServeTypes DEF PolicyInv

LEMMA RoleChangePreserves ==
  ASSUME PolicyInv, NEW u \in Users, NEW o \in Orgs, NEW r \in Roles, ChangeRole(u, o, r)
  PROVE  PolicyInv' /\ known' = known
<1>. USE DEF ChangeRole
<1>1. PolicyTypeOK'
  BY FeaturePolicyAssumption DEF PolicyInv, PolicyTypeOK
<1>2. KnownWasInForce' /\ AnswersWereInForce'
  BY DEF PolicyInv, KnownWasInForce, AnswersWereInForce, WasInForce
<1>3. Numbered' /\ LastIsNewest'
  BY DEF PolicyInv, Numbered, LastIsNewest
<1>. QED BY <1>1, <1>2, <1>3 DEF PolicyInv

LEMMA SessionChangePreserves ==
  ASSUME PolicyInv, NEW d \in Devices, NEW who \in Identity \cup {None}, Become(d, who)
  PROVE  PolicyInv' /\ known' = known
<1>. USE DEF Become
<1>1. PolicyTypeOK'
  BY FeaturePolicyAssumption DEF PolicyInv, PolicyTypeOK
<1>2. KnownWasInForce' /\ AnswersWereInForce'
  BY DEF PolicyInv, KnownWasInForce, AnswersWereInForce, WasInForce
<1>3. Numbered' /\ LastIsNewest'
  BY DEF PolicyInv, Numbered, LastIsNewest
<1>. QED BY <1>1, <1>2, <1>3 DEF PolicyInv

LEMMA ForgettingPreserves ==
  ASSUME PolicyInv, NEW d \in Devices, ForgetRequests(d)
  PROVE  PolicyInv' /\ known' = known
<1>. USE DEF ForgetRequests
<1>1. PolicyTypeOK'
  BY FeaturePolicyAssumption DEF PolicyInv, PolicyTypeOK
<1>2. KnownWasInForce' /\ AnswersWereInForce'
  BY DEF PolicyInv, KnownWasInForce, AnswersWereInForce, WasInForce
<1>3. Numbered' /\ LastIsNewest'
  BY DEF PolicyInv, Numbered, LastIsNewest
<1>. QED BY <1>1, <1>2, <1>3 DEF PolicyInv

LEMMA RequestPreserves ==
  ASSUME PolicyInv, NEW d \in Devices, NEW m \in Modes \cup {None}, Request(d, m)
  PROVE  PolicyInv' /\ known' = known
<1>1. /\ sequence' = [sequence EXCEPT ![d] = @ + 1] /\ sequence[d] < MaxAsks
      /\ UNCHANGED <<modes, role, edicts, session, epoch, known>>
      /\ session[d] # None
  BY DEF Request
<1>2. /\ sequence \in [Devices -> Nat] /\ sequence' \in [Devices -> 0 .. MaxAsks]
      /\ sequence'[d] = sequence[d] + 1
      /\ \A e \in Devices : e # d => sequence'[e] = sequence[e]
      /\ \A e \in Devices : sequence[e] \in Nat /\ sequence[e] <= sequence'[e]
  BY <1>1, FeaturePolicyAssumption DEF PolicyInv, PolicyTypeOK
<1>3. status' \in [Devices -> {"none", "loading", "saving", "ready", "error"}]
  BY DEF Request, PolicyInv, PolicyTypeOK
<1>4. \/ asks' = asks
      \/ \E b \in Ask : /\ asks' = asks \cup {b} /\ b.stage = "sent"
                        /\ b.dev = d /\ b.seq = sequence[d] + 1
  <2> DEFINE Sent(change) ==
        [dev |-> d, seq |-> sequence[d] + 1, epoch |-> epoch[d],
         who |-> session[d], change |-> change, stage |-> "sent", answer |-> None]
  <2>1. ASSUME NEW change \in Policy \cup {None}
        PROVE  Sent(change) \in Ask
    <3>1. session[d] \in Identity /\ epoch[d] \in Nat /\ sequence[d] + 1 \in Nat
      BY <1>1, <1>2, FeaturePolicyAssumption DEF PolicyInv, PolicyTypeOK
    <3>. QED BY <3>1 DEF Ask
  <2>2. CASE m = None /\ asks' = asks \cup {Sent(None)}
    BY <2>1, <2>2
  <2>3. CASE /\ m # None /\ known[d][session[d].org] # None
             /\ asks' = asks \cup {Sent([version |-> known[d][session[d].org].version,
                                         mode |-> m])}
    <3>1. session[d] \in Identity
      BY <1>1 DEF PolicyInv, PolicyTypeOK
    <3>2. known[d][session[d].org] \in Policy
      BY <2>3, <3>1 DEF PolicyInv, PolicyTypeOK, Identity
    <3>3. [version |-> known[d][session[d].org].version, mode |-> m] \in Policy
      BY <2>3, <3>2 DEF Policy
    <3>. QED BY <2>1, <2>3, <3>3
  <2>4. CASE asks' = asks
    BY <2>4
  <2>. QED BY <2>2, <2>3, <2>4 DEF Request
<1>5. \A a \in asks : a \in Ask /\ a.dev \in Devices /\ a.seq \in Nat
                      /\ a.seq <= sequence[a.dev]
  BY DEF PolicyInv, PolicyTypeOK, Ask, Numbered
<1>6. asks' \subseteq Ask
  BY <1>4, <1>5
<1>7. PolicyTypeOK'
  BY <1>1, <1>2, <1>3, <1>6 DEF PolicyInv, PolicyTypeOK
<1>8. KnownWasInForce' /\ AnswersWereInForce'
  BY <1>1, <1>4 DEF PolicyInv, KnownWasInForce, AnswersWereInForce, WasInForce
<1>9. Numbered'
  <2>1. ASSUME NEW a \in asks' PROVE a.seq <= sequence'[a.dev]
    BY <1>2, <1>4, <1>5
  <2>2. ASSUME NEW a \in asks', NEW b \in asks', a.dev = b.dev, a.seq = b.seq PROVE a = b
    BY <2>2, <1>2, <1>4, <1>5 DEF PolicyInv, Numbered
  <2>. QED BY <2>1, <2>2 DEF Numbered
<1>10. LastIsNewest'
  <2> SUFFICES ASSUME NEW a \in asks', a.seq = sequence'[a.dev], a.stage = "granted",
                      known'[a.dev][a.who.org] # None
               PROVE  known'[a.dev][a.who.org].version <= a.answer.version
    BY DEF LastIsNewest
  <2>1. a \in asks
    BY <1>4
  <2>2. a.seq = sequence[a.dev]
    BY <1>2, <1>5, <2>1
  <2>. QED BY <1>1, <2>1, <2>2 DEF PolicyInv, LastIsNewest
<1>. QED BY <1>1, <1>7, <1>8, <1>9, <1>10 DEF PolicyInv

LEMMA ReceivePreserves ==
  ASSUME PolicyInv, NEW a \in asks, Receive(a)
  PROVE  /\ PolicyInv'
         /\ \A d \in Devices, o \in Orgs :
              known[d][o] # None => known'[d][o].version >= known[d][o].version
<1>1. /\ UNCHANGED <<modes, role, edicts, session, epoch, sequence>>
      /\ asks' = asks \ {a}
  BY DEF Receive
<1>2. /\ a \in Ask /\ a.dev \in Devices /\ a.who.org \in Orgs
      /\ known \in [Devices -> [Orgs -> Policy \cup {None}]]
  BY DEF PolicyInv, PolicyTypeOK, Ask, Identity
<1>3. status' \in [Devices -> {"none", "loading", "saving", "ready", "error"}]
  BY DEF Receive, PolicyInv, PolicyTypeOK
<1>4. Numbered'
  BY <1>1 DEF PolicyInv, Numbered
<1>5. AnswersWereInForce'
  BY <1>1 DEF PolicyInv, AnswersWereInForce, WasInForce
<1>6. CASE known' = known
  <2>1. PolicyTypeOK'
    BY <1>1, <1>3, <1>6 DEF PolicyInv, PolicyTypeOK
  <2>2. KnownWasInForce' /\ LastIsNewest'
    BY <1>1, <1>6 DEF PolicyInv, KnownWasInForce, LastIsNewest
  <2>3. \A d \in Devices, o \in Orgs :
          known[d][o] # None => known'[d][o].version >= known[d][o].version
    BY <1>2, <1>6 DEF Policy
  <2>. QED BY <1>4, <1>5, <2>1, <2>2, <2>3 DEF PolicyInv
<1>7. CASE /\ StillCurrent(a) /\ a.stage = "granted"
           /\ known' = [known EXCEPT ![a.dev][a.who.org] = a.answer]
  <2>1. WasInForce(a.who.org, a.answer)
    BY <1>7 DEF PolicyInv, AnswersWereInForce
  <2>2. a.answer \in Policy /\ a.seq = sequence[a.dev]
    BY <1>7, <2>1 DEF WasInForce, StillCurrent
  <2>3. /\ known' \in [Devices -> [Orgs -> Policy \cup {None}]]
        /\ \A d \in Devices, o \in Orgs :
             known'[d][o] = IF d = a.dev /\ o = a.who.org THEN a.answer ELSE known[d][o]
    BY <1>2, <1>7, <2>2
  <2>4. PolicyTypeOK'
    BY <1>1, <1>3, <2>3 DEF PolicyInv, PolicyTypeOK
  <2>5. KnownWasInForce'
    BY <1>1, <2>1, <2>3 DEF PolicyInv, KnownWasInForce, WasInForce
  <2>6. LastIsNewest'
    <3> SUFFICES ASSUME NEW b \in asks \ {a}, b.seq = sequence[b.dev], b.stage = "granted",
                        known'[b.dev][b.who.org] # None
                 PROVE  known'[b.dev][b.who.org].version <= b.answer.version
      BY <1>1 DEF LastIsNewest
    <3>1. b.dev \in Devices /\ b.who.org \in Orgs
      BY DEF PolicyInv, PolicyTypeOK, Ask, Identity
    <3>2. b.dev # a.dev
      BY <2>2 DEF PolicyInv, Numbered
    <3>. QED BY <2>3, <3>1, <3>2 DEF PolicyInv, LastIsNewest
  <2>7. ASSUME NEW d \in Devices, NEW o \in Orgs, known[d][o] # None
        PROVE  known'[d][o].version >= known[d][o].version
    <3>1. known[d][o] \in Policy
      BY <1>2, <2>7
    <3>2. CASE d = a.dev /\ o = a.who.org
      <4>1. known[d][o].version <= a.answer.version
        BY <1>7, <2>2, <2>7, <3>2 DEF PolicyInv, LastIsNewest
      <4>. QED BY <2>2, <2>3, <3>1, <3>2, <4>1 DEF Policy
    <3>3. CASE ~(d = a.dev /\ o = a.who.org)
      BY <2>3, <3>1, <3>3 DEF Policy
    <3>. QED BY <3>2, <3>3
  <2>. QED BY <1>4, <1>5, <2>4, <2>5, <2>6, <2>7 DEF PolicyInv
<1>. QED BY <1>6, <1>7 DEF Receive

NeverBack ==
  \A d \in Devices, o \in Orgs :
    known[d][o] # None => known'[d][o].version >= known[d][o].version

LEMMA PolicyStepPreserves == PolicyInv /\ [PolicyNext]_policyVars => PolicyInv' /\ NeverBack
<1> SUFFICES ASSUME PolicyInv, [PolicyNext]_policyVars PROVE PolicyInv' /\ NeverBack
  OBVIOUS
<1>0. ASSUME known' = known PROVE NeverBack
  <2>1. \A d \in Devices, o \in Orgs : known[d][o] \in Policy \cup {None}
    BY DEF PolicyInv, PolicyTypeOK
  <2>. QED BY <1>0, <2>1 DEF NeverBack, Policy
<1>1. ASSUME NEW a \in asks, Serve(a) PROVE PolicyInv' /\ NeverBack
  BY <1>0, <1>1, ServePreserves
<1>2. ASSUME NEW a \in asks, Receive(a) PROVE PolicyInv' /\ NeverBack
  BY <1>2, ReceivePreserves DEF NeverBack
<1>3. ASSUME NEW u \in Users, NEW o \in Orgs, NEW r \in Roles, ChangeRole(u, o, r)
      PROVE  PolicyInv' /\ NeverBack
  BY <1>0, <1>3, RoleChangePreserves
<1>4. ASSUME NEW d \in Devices, NEW who \in Identity \cup {None}, Become(d, who)
      PROVE  PolicyInv' /\ NeverBack
  BY <1>0, <1>4, SessionChangePreserves
<1>5. ASSUME NEW d \in Devices, NEW m \in Modes \cup {None}, Request(d, m)
      PROVE  PolicyInv' /\ NeverBack
  BY <1>0, <1>5, RequestPreserves
<1>6. ASSUME NEW d \in Devices, ForgetRequests(d) PROVE PolicyInv' /\ NeverBack
  BY <1>0, <1>6, ForgettingPreserves
<1>7. CASE UNCHANGED policyVars
  <2>. USE <1>7 DEF policyVars
  <2>1. PolicyTypeOK' /\ KnownWasInForce' /\ AnswersWereInForce'
    BY DEF PolicyInv, PolicyTypeOK, KnownWasInForce, AnswersWereInForce, WasInForce
  <2>2. Numbered' /\ LastIsNewest'
    BY DEF PolicyInv, Numbered, LastIsNewest
  <2>. QED BY <1>0, <2>1, <2>2 DEF PolicyInv
<1>. QED BY <1>1, <1>2, <1>3, <1>4, <1>5, <1>6, <1>7 DEF PolicyNext

(* The settings of an organization are only ever added to. *)
Grows ==
  \A o \in Orgs : /\ Len(modes'[o]) >= Len(modes[o])
                  /\ \A v \in 1 .. Len(modes[o]) : modes'[o][v] = modes[o][v]

LEMMA UnchangedGrows == PolicyInv /\ modes' = modes => Grows
<1> SUFFICES ASSUME PolicyInv, modes' = modes PROVE Grows
  OBVIOUS
<1>1. \A o \in Orgs : modes[o] \in Seq(Modes) /\ Len(modes[o]) \in Nat
  BY DEF PolicyInv, PolicyTypeOK
<1>. QED BY <1>1 DEF Grows

LEMMA PolicyGrows == PolicyInv /\ [PolicyNext]_policyVars => Grows
<1> SUFFICES ASSUME PolicyInv, [PolicyNext]_policyVars PROVE Grows
  OBVIOUS
<1>1. ASSUME NEW a \in asks, Serve(a) PROVE Grows
  BY <1>1, ServeTypes DEF Grows
<1>2. CASE modes' = modes
  BY <1>2, UnchangedGrows
<1>. QED
  BY <1>1, <1>2
  DEF PolicyNext, Receive, ChangeRole, Become, Request, ForgetRequests, policyVars

LEMMA StaysInForce ==
  ASSUME PolicyInv, PolicyInv', Grows, NEW o \in Orgs, NEW p, WasInForce(o, p)
  PROVE  WasInForce(o, p)'
<1>1. Len(modes[o]) \in Nat /\ Len(modes'[o]) \in Nat
  BY DEF PolicyInv, PolicyTypeOK
<1>2. p \in Policy /\ p.version \in 1 .. Len(modes[o]) /\ p.mode = modes[o][p.version]
  BY <1>1 DEF WasInForce, Policy
<1>. QED BY <1>1, <1>2 DEF Grows, WasInForce

(* The policy a device calculates with was its organization's at the        *)
(* version it names (featureSettingsSlice.ts, organization.ts).             *)
THEOREM PolicyWasInForce == PolicySpec => []KnownWasInForce
<1>1. PolicyInit => PolicyInv
  BY PolicyInitially
<1>2. PolicyInv /\ [PolicyNext]_policyVars => PolicyInv'
  BY PolicyStepPreserves
<1>3. PolicyInv => KnownWasInForce
  BY DEF PolicyInv
<1>. QED BY <1>1, <1>2, <1>3, PTL DEF PolicySpec

(* What a device knows of its organization's policy never goes back,        *)
(* whatever order the answers arrive in (stillCurrent of                    *)
(* featureSettingsSlice.ts).                                                *)
THEOREM PolicyNeverGoesBack == PolicySpec => KnownNeverGoesBack
<1>1. PolicyInit => PolicyInv
  BY PolicyInitially
<1>2. PolicyInv /\ [PolicyNext]_policyVars => PolicyInv'
  BY PolicyStepPreserves
<1>3. PolicyInv /\ [PolicyNext]_policyVars => [NeverBack]_policyVars
  BY PolicyStepPreserves
<1>4. PolicySpec => [][NeverBack]_policyVars
  BY <1>1, <1>2, <1>3, PTL DEF PolicySpec
<1>. QED BY <1>4 DEF KnownNeverGoesBack, NeverBack

-----------------------------------------------------------------------------
(* Proposals: what the store of the worker holds, and what a page shows.   *)

Late == {"stored", "published", "failed"}

(* How far a publication has come: what the worker authorized was in force, *)
(* what it stored is there, what it reported is listed.                     *)
PressOK(x) ==
  /\ x.since <= Len(modes[x.who.org])
  /\ x.stage = "authorized" =>
       WasInForce(x.who.org, x.snapshot) /\ x.since <= x.snapshot.version
  /\ x.stage \in {"stored", "published"} =>
       x.id \in Ids /\ content[x.id] # None /\ content[x.id].org = x.who.org
  /\ x.stage = "published" => <<x.who.org, x.id>> \in index

(* A page holds copies of the organization that reads it. *)
RunOK(r) ==
  /\ r.stage \in {"asked", "answered", "next"} => r.who \in Identity
  /\ \A i \in r.page : content[i] # None /\ content[i].org = r.who.org

(* A copy goes back to a publication that is past its authorization. *)
OriginOK(i) ==
  (content[i] # None /\ content[i].by # None) =>
    /\ WasInForce(content[i].org, [version |-> content[i].version, mode |-> content[i].mode])
    /\ \E p \in DOMAIN presses :
         /\ presses[p].stage \in Late /\ presses[p].id = i
         /\ presses[p].who = [id |-> content[i].by, org |-> content[i].org]
         /\ presses[p].since <= content[i].version

PressesOK == \A p \in DOMAIN presses : PressOK(presses[p])
RunsOK    == \A d \in Devices : RunOK(runs[d])
OriginsOK == \A i \in Ids : OriginOK(i)

Inv ==
  /\ PublicationTypeOK /\ PolicyInv /\ ListedWereStored /\ ReportedIsListed
  /\ PressesOK /\ RunsOK /\ OriginsOK

(* What the worker stored stays, and so does what is listed. *)
WorkerGrows ==
  /\ \A i \in Ids : content[i] # None => content'[i] = content[i]
  /\ index \subseteq index'

-----------------------------------------------------------------------------
LEMMA LastIsThere ==
  ASSUME NEW N \in Nat, NEW S \in SUBSET (0 .. N), S # {}
  PROVE  \E m \in S : \A j \in S : j <= m
<1> DEFINE Less == {ss \in Nat \X Nat : ss[1] < ss[2]}
<1> DEFINE T == {k \in Nat : N - k \in S}
<1>1. IsWellFoundedOn(Less, Nat)
  BY NatLessThanWellFounded DEF OpToRel
<1>2. T \subseteq Nat
  OBVIOUS
<1>3. T # {}
  <2>1. PICK s \in S : TRUE
    OBVIOUS
  <2>2. N - s \in Nat /\ N - (N - s) = s
    OBVIOUS
  <2>. QED BY <2>1, <2>2
<1>4. PICK x \in T : \A y \in T : ~ (<<y, x>> \in Less)
  <2>. HIDE DEF Less, T
  <2>. QED BY ONLY <1>1, <1>2, <1>3, WFMin, Zenon
<1>5. N - x \in S
  BY <1>4
<1>6. ASSUME NEW j \in S PROVE j <= N - x
  <2>1. N - j \in Nat /\ N - (N - j) = j
    OBVIOUS
  <2>2. N - j \in T
    BY <2>1
  <2>3. ~(N - j < x)
    BY <1>4, <2>1, <2>2
  <2>. QED BY <2>3, <1>4
<1>. QED BY <1>5, <1>6

(* The cursor of a page is one of its keys, or where it began. *)
LEMMA CursorIsAKey ==
  ASSUME NEW keys \in SUBSET Ids, NEW from \in 0 .. MaxId
  PROVE  Largest(keys, from) \in 0 .. MaxId
<1>1. keys \cup {from} \subseteq 0 .. MaxId /\ keys \cup {from} # {} /\ MaxId \in Nat
  BY PublicationAssumption DEF Ids
<1>2. PICK m \in keys \cup {from} : \A j \in keys \cup {from} : j <= m
  BY <1>1, LastIsThere
<1>3. Largest(keys, from) \in keys \cup {from}
  BY <1>2 DEF Largest
<1>. QED BY <1>1, <1>3

LEMMA Initially == Init => Inv
<1> SUFFICES ASSUME Init PROVE Inv
  OBVIOUS
<1> USE DEF Init
<1>1. PolicyInv
  BY PolicyInitially
<1>2. \A o \in Orgs : Older(o) \in Snapshot /\ Older(o).by = None
  BY DEF Older, Snapshot, Modes
<1>3. NoRun \in Run
  BY PublicationAssumption DEF NoRun, Run
<1>4. PublicationTypeOK
  <2>1. content \in [Ids -> Snapshot \cup {None}]
    BY <1>2
  <2>2. presses \in Seq(Press) /\ Len(presses) <= MaxPresses
    BY PublicationAssumption
  <2>3. runs \in [Devices -> Run] /\ ran \in [Devices -> 0 .. MaxRuns]
    BY <1>3, PublicationAssumption
  <2>. QED BY <1>1, <2>1, <2>2, <2>3 DEF PublicationTypeOK, PolicyInv
<1>5. ListedWereStored /\ ReportedIsListed
  BY DEF ListedWereStored, ReportedIsListed
<1>6. PressesOK
  BY DEF PressesOK
<1>7. RunsOK
  BY DEF RunsOK, RunOK, NoRun
<1>8. OriginsOK
  BY <1>2 DEF OriginsOK, OriginOK
<1>. QED BY <1>1, <1>4, <1>5, <1>6, <1>7, <1>8 DEF Inv

-----------------------------------------------------------------------------
(* Publications, readings and origins stay as they are while the policies   *)
(* and the worker's copies are only added to.                               *)

LEMMA PressStaysOK ==
  ASSUME Inv, PolicyInv', Grows, WorkerGrows, NEW x \in Press, PressOK(x)
  PROVE  PressOK(x)'
<1>1. x.who.org \in Orgs /\ x.since \in Nat
  BY DEF Press, Identity
<1>2. Len(modes[x.who.org]) \in Nat /\ Len(modes'[x.who.org]) \in Nat
  BY <1>1 DEF Inv, PolicyInv, PolicyTypeOK
<1>3. x.since <= Len(modes'[x.who.org])
  BY <1>1, <1>2 DEF PressOK, Grows
<1>4. x.stage = "authorized" => WasInForce(x.who.org, x.snapshot)'
  BY <1>1, StaysInForce DEF PressOK, Inv
<1>. QED BY <1>3, <1>4 DEF PressOK, WorkerGrows

LEMMA RunStaysOK ==
  ASSUME Inv, WorkerGrows, NEW r \in Run, RunOK(r)
  PROVE  RunOK(r)'
BY DEF RunOK, WorkerGrows, Run

(* A publication goes on: it stays the same one, and is never authorized    *)
(* again.                                                                   *)
Follows(x, q) ==
  /\ q.who = x.who /\ q.since = x.since
  /\ x.stage \in Late => q.stage \in Late /\ q.id = x.id

LEMMA StepFollows ==
  ASSUME Inv, PolicyInv', Grows, WorkerGrows,
         NEW p \in DOMAIN presses, NEW q \in Press, Step(p, q), PressOK(q)',
         Follows(presses[p], q)
  PROVE  /\ presses' \in Seq(Press) /\ Len(presses') = Len(presses)
         /\ PressesOK'
         /\ \A i \in Ids : content'[i] = content[i] => OriginOK(i)'
<1>1. presses \in Seq(Press)
  BY DEF Inv, PublicationTypeOK
<1>2. /\ presses' \in Seq(Press) /\ Len(presses') = Len(presses)
      /\ DOMAIN presses' = DOMAIN presses
      /\ \A r \in DOMAIN presses : presses'[r] = IF r = p THEN q ELSE presses[r]
  BY <1>1 DEF Step
<1>3. PressesOK'
  <2>1. ASSUME NEW r \in DOMAIN presses, NEW y, y = presses'[r] PROVE PressOK(y)'
    <3>1. CASE r = p
      BY <1>2, <2>1, <3>1
    <3>2. CASE r # p
      <4>1. y = presses[r] /\ y \in Press
        BY <1>1, <1>2, <2>1, <3>2
      <4>2. PressOK(y)
        BY <4>1 DEF Inv, PressesOK
      <4>. QED BY <4>1, <4>2, PressStaysOK
    <3>. QED BY <3>1, <3>2
  <2>. QED BY <1>2, <2>1 DEF PressesOK
<1>4. ASSUME NEW i \in Ids, content'[i] = content[i] PROVE OriginOK(i)'
  <2> SUFFICES ASSUME content[i] # None, content[i].by # None
               PROVE  OriginOK(i)'
    BY <1>4 DEF OriginOK
  <2>1. OriginOK(i)
    BY DEF Inv, OriginsOK
  <2>2. PICK c \in Snapshot : c = content[i]
    BY DEF Inv, PublicationTypeOK
  <2>3. c.org \in Orgs /\ WasInForce(c.org, [version |-> c.version, mode |-> c.mode])
    BY <2>1, <2>2 DEF OriginOK, Snapshot
  <2>4. WasInForce(c.org, [version |-> c.version, mode |-> c.mode])'
    BY <2>3, StaysInForce DEF Inv
  <2>5. PICK r \in DOMAIN presses :
          /\ presses[r].stage \in Late /\ presses[r].id = i
          /\ presses[r].who = [id |-> c.by, org |-> c.org]
          /\ presses[r].since <= c.version
    BY <2>1, <2>2 DEF OriginOK
  <2>6. /\ presses'[r].stage \in Late /\ presses'[r].id = i
        /\ presses'[r].who = [id |-> c.by, org |-> c.org]
        /\ presses'[r].since <= c.version
    BY <1>2, <2>5 DEF Follows
  <2>7. content'[i] = c /\ r \in DOMAIN presses'
    BY <1>2, <1>4, <2>2
  <2>. QED BY <2>4, <2>6, <2>7 DEF OriginOK
<1>. QED BY <1>2, <1>3, <1>4
-----------------------------------------------------------------------------
(* The parts of a step that leave everything but the publications alone.   *)

LEMMA StayingIsGrowing ==
  ASSUME Inv, UNCHANGED policyVars
  PROVE  PolicyInv' /\ Grows /\ PolicyTypeOK'
<1>1. modes' = modes /\ [PolicyNext]_policyVars
  BY DEF policyVars
<1>. QED BY <1>1, PolicyStepPreserves, UnchangedGrows DEF Inv, PolicyInv

LEMMA PressStep ==
  ASSUME Inv, UNCHANGED <<policyVars, content, expired, runs, ran>>,
         index \subseteq index', index' \subseteq Orgs \X Ids,
         NEW p \in DOMAIN presses, NEW q \in Press, Step(p, q), PressOK(q)',
         Follows(presses[p], q)
  PROVE  /\ PolicyInv' /\ PressesOK' /\ RunsOK' /\ OriginsOK'
         /\ UNCHANGED storage => PublicationTypeOK'
         /\ presses' \in Seq(Press) /\ Len(presses') <= MaxPresses
<1>1. PolicyInv' /\ Grows /\ WorkerGrows
  BY StayingIsGrowing DEF WorkerGrows
<1>2. /\ presses' \in Seq(Press) /\ Len(presses') = Len(presses)
      /\ PressesOK' /\ \A i \in Ids : content'[i] = content[i] => OriginOK(i)'
  BY <1>1, StepFollows
<1>3. RunsOK'
  BY DEF Inv, RunsOK, RunOK
<1>4. OriginsOK'
  BY <1>2 DEF OriginsOK
<1>5. UNCHANGED storage => PublicationTypeOK'
  BY <1>2, StayingIsGrowing DEF Inv, PublicationTypeOK, storage
<1>. QED BY <1>1, <1>2, <1>3, <1>4, <1>5 DEF Inv, PublicationTypeOK

(* A publication moves on and nothing else changes. *)
LEMMA PressAlone ==
  ASSUME Inv, UNCHANGED <<policyVars, worker, runs, ran, storage>>,
         NEW p \in DOMAIN presses, NEW q \in Press, Step(p, q), PressOK(q),
         Follows(presses[p], q)
  PROVE  Inv'
<1>1. UNCHANGED <<content, index, expired>> /\ index' \subseteq Orgs \X Ids
  BY DEF worker, Inv, PublicationTypeOK
<1>2. PressOK(q)'
  BY <1>1 DEF PressOK, WasInForce, policyVars
<1>3. /\ PolicyInv' /\ PressesOK' /\ RunsOK' /\ OriginsOK' /\ PublicationTypeOK'
  BY <1>1, <1>2, PressStep
<1>4. ListedWereStored' /\ ReportedIsListed'
  BY <1>1 DEF Inv, ListedWereStored, ReportedIsListed, storage
<1>. QED BY <1>3, <1>4 DEF Inv

LEMMA SendPreserves ==
  ASSUME Inv, NEW p \in DOMAIN presses, Send(p) PROVE Inv'
<1> DEFINE x == presses[p]
<1>1. x \in Press /\ PressOK(x)
  BY DEF Inv, PublicationTypeOK, PressesOK
<1>2. PICK q \in Press :
        /\ Step(p, q) /\ q.who = x.who /\ q.since = x.since /\ x.stage = "policy"
        /\ q.stage \in {"sent", "failed"}
  <2> DEFINE policy == known[x.dev][x.who.org]
             q1 == [x EXCEPT !.stage = "sent", !.snapshot = policy]
             q2 == [x EXCEPT !.stage = "failed", !.waited = FALSE]
  <2>1. x.stage = "policy" /\ ((Step(p, q1) /\ policy # None) \/ Step(p, q2))
    BY DEF Send
  <2>2. policy \in Policy \cup {None}
    BY <1>1 DEF Inv, PolicyInv, PolicyTypeOK, Press, Identity
  <2>3. q1 \in Press /\ q1.who = x.who /\ q1.since = x.since /\ q1.stage = "sent"
    BY <1>1, <2>2 DEF Press
  <2>4. q2 \in Press /\ q2.who = x.who /\ q2.since = x.since /\ q2.stage = "failed"
    BY <1>1 DEF Press
  <2>. HIDE DEF q1, q2
  <2>. QED BY <2>1, <2>3, <2>4
<1>3. PressOK(q) /\ Follows(x, q)
  BY <1>1, <1>2 DEF PressOK, Follows, Late
<1>. QED BY <1>2, <1>3, PressAlone DEF Send

LEMMA LoseAnswerPreserves ==
  ASSUME Inv, NEW p \in DOMAIN presses, LoseAnswer(p) PROVE Inv'
<1> DEFINE x == presses[p]
           q == [x EXCEPT !.waited = FALSE]
<1>1. x \in Press /\ PressOK(x)
  BY DEF Inv, PublicationTypeOK, PressesOK
<1>2. /\ q \in Press /\ q.who = x.who /\ q.since = x.since /\ q.stage = x.stage
      /\ q.id = x.id /\ q.snapshot = x.snapshot
  BY <1>1 DEF Press
<1>3. Step(p, q)
  BY DEF LoseAnswer
<1>. HIDE DEF q
<1>4. PressOK(q) /\ Follows(x, q)
  BY <1>1, <1>2 DEF PressOK, Follows
<1>. QED BY <1>2, <1>3, <1>4, PressAlone DEF LoseAnswer

LEMMA BreakPreserves ==
  ASSUME Inv, NEW p \in DOMAIN presses, Break(p) PROVE Inv'
<1> DEFINE x == presses[p]
           q == [x EXCEPT !.stage = "failed"]
<1>1. x \in Press /\ PressOK(x)
  BY DEF Inv, PublicationTypeOK, PressesOK
<1>2. /\ q \in Press /\ q.who = x.who /\ q.since = x.since /\ q.stage = "failed"
      /\ q.id = x.id
  BY <1>1 DEF Press
<1>3. Step(p, q)
  BY DEF Break
<1>. HIDE DEF q
<1>4. PressOK(q) /\ Follows(x, q)
  BY <1>1, <1>2 DEF PressOK, Follows, Late
<1>. QED BY <1>2, <1>3, <1>4, PressAlone DEF Break

LEMMA AuthorizePreserves ==
  ASSUME Inv, NEW p \in DOMAIN presses, Authorize(p) PROVE Inv'
<1> DEFINE x == presses[p]
           q == [x EXCEPT !.stage = IF Authorized(x) THEN "authorized" ELSE "failed"]
<1>1. x \in Press /\ PressOK(x) /\ x.stage = "sent" /\ x.who.org \in Orgs
  <2>1. x \in Press /\ PressOK(x) /\ x.stage = "sent"
    BY DEF Inv, PublicationTypeOK, PressesOK, Authorize
  <2>. QED BY <2>1 DEF Press, Identity
<1>2. /\ q \in Press /\ q.who = x.who /\ q.since = x.since /\ q.snapshot = x.snapshot
      /\ q.stage = IF Authorized(x) THEN "authorized" ELSE "failed"
  BY <1>1 DEF Press
<1>3. Step(p, q)
  BY DEF Authorize
<1>. HIDE DEF q
<1>4. Authorized(x) => WasInForce(x.who.org, x.snapshot) /\ x.since <= x.snapshot.version
  <2> SUFFICES ASSUME x.snapshot = Current(x.who.org)
               PROVE  WasInForce(x.who.org, x.snapshot) /\ x.since <= x.snapshot.version
    BY DEF Authorized
  <2> DEFINE m == modes[x.who.org]
  <2>1. m \in Seq(Modes) /\ Len(m) \in Nat \ {0}
    BY <1>1 DEF Inv, PolicyInv, PolicyTypeOK
  <2>2. m[Len(m)] \in Modes
    BY <2>1
  <2>3. Current(x.who.org) \in Policy
    BY <2>1, <2>2 DEF Current, Policy
  <2>. QED BY <1>1, <2>1, <2>3 DEF Current, WasInForce, PressOK
<1>5. PressOK(q) /\ Follows(x, q)
  BY <1>1, <1>2, <1>4 DEF PressOK, Follows, Late
<1>. QED BY <1>2, <1>3, <1>5, PressAlone DEF Authorize
-----------------------------------------------------------------------------
LEMMA StoreIndexPreserves ==
  ASSUME Inv, NEW p \in DOMAIN presses, StoreIndex(p) PROVE Inv'
<1> DEFINE x == presses[p]
<1>1. x \in Press /\ PressOK(x) /\ x.stage = "stored"
  BY DEF Inv, PublicationTypeOK, PressesOK, StoreIndex
<1>2. PICK q \in Press :
        /\ Step(p, q) /\ q.who = x.who /\ q.since = x.since
        /\ q.stage = "published" /\ q.id = x.id
  <2> DEFINE q1 == [x EXCEPT !.stage = "published"]
  <2>1. /\ q1 \in Press /\ q1.who = x.who /\ q1.since = x.since
        /\ q1.stage = "published" /\ q1.id = x.id
    BY <1>1 DEF Press
  <2>2. Step(p, q1)
    BY DEF StoreIndex
  <2>. HIDE DEF q1
  <2>. QED BY <2>1, <2>2
<1>3. /\ index' = index \cup {<<x.who.org, x.id>>}
      /\ UNCHANGED <<policyVars, content, expired, runs, ran, storage>>
  BY DEF StoreIndex
<1>4. /\ x.who.org \in Orgs /\ x.id \in Ids
      /\ content[x.id] # None /\ content[x.id].org = x.who.org
  BY <1>1 DEF PressOK, Press, Identity
<1>5. index \subseteq index' /\ index' \subseteq Orgs \X Ids
  BY <1>3, <1>4 DEF Inv, PublicationTypeOK
<1>6. PressOK(q)'
  BY <1>1, <1>2, <1>3, <1>4 DEF PressOK, policyVars
<1>7. Follows(x, q)
  BY <1>2 DEF Follows, Late
<1>8. PolicyInv' /\ PressesOK' /\ RunsOK' /\ OriginsOK' /\ PublicationTypeOK'
  BY <1>2, <1>3, <1>5, <1>6, <1>7, PressStep
<1>9. ListedWereStored'
  <2>1. ASSUME NEW e \in index' PROVE content[e[2]] # None /\ content[e[2]].org = e[1]
    BY <1>3, <1>4, <2>1 DEF Inv, ListedWereStored
  <2>. QED BY <1>3, <2>1 DEF Inv, ListedWereStored, storage
<1>10. ReportedIsListed'
  BY <1>3 DEF Inv, ReportedIsListed, storage
<1>. QED BY <1>8, <1>9, <1>10 DEF Inv

LEMMA HearPreserves ==
  ASSUME Inv, NEW p \in DOMAIN presses, Hear(p) PROVE Inv'
<1> DEFINE x == presses[p]
           d == x.dev
           o == x.who.org
<1>1. x \in Press /\ PressOK(x)
  BY DEF Inv, PublicationTypeOK, PressesOK
<1>2. PICK q \in Press :
        /\ Step(p, q) /\ q.who = x.who /\ q.since = x.since /\ q.stage = x.stage
        /\ q.id = x.id /\ q.snapshot = x.snapshot
  <2> DEFINE q1 == [x EXCEPT !.waited = FALSE]
  <2>1. /\ q1 \in Press /\ q1.who = x.who /\ q1.since = x.since /\ q1.stage = x.stage
        /\ q1.id = x.id /\ q1.snapshot = x.snapshot
    BY <1>1 DEF Press
  <2>2. Step(p, q1)
    BY DEF Hear
  <2>. HIDE DEF q1
  <2>. QED BY <2>1, <2>2
<1>3. UNCHANGED <<policyVars, worker, runs, ran, hidden>>
  BY DEF Hear
<1>4. UNCHANGED <<content, index, expired>> /\ index' \subseteq Orgs \X Ids
  BY <1>3 DEF worker, Inv, PublicationTypeOK
<1>5. PressOK(q)'
  BY <1>1, <1>2, <1>3, <1>4 DEF PressOK, WasInForce, policyVars
<1>6. Follows(x, q)
  BY <1>2 DEF Follows
<1>7. /\ PolicyInv' /\ PressesOK' /\ RunsOK' /\ OriginsOK'
      /\ UNCHANGED storage => PublicationTypeOK'
      /\ presses' \in Seq(Press) /\ Len(presses') <= MaxPresses
  BY <1>2, <1>3, <1>4, <1>5, <1>6, PressStep
<1>8. CASE UNCHANGED <<links, last>>
  BY <1>3, <1>4, <1>7, <1>8 DEF Inv, ListedWereStored, ReportedIsListed, storage
<1>9. CASE /\ x.stage = "published"
           /\ last' = [last EXCEPT ![d][o] = x.id]
           /\ links' = [links EXCEPT ![d][o] = @ \cup ({x.id} \ hidden[d][o])]
  <2>1. /\ d \in Devices /\ o \in Orgs /\ x.id \in Ids
        /\ content[x.id] # None /\ content[x.id].org = o /\ <<o, x.id>> \in index
    BY <1>1, <1>9 DEF PressOK, Press, Identity
  <2>2. /\ last' \in [Devices -> [Orgs -> Ids \cup {None}]]
        /\ \A e \in Devices, r \in Orgs :
             last'[e][r] = IF e = d /\ r = o THEN x.id ELSE last[e][r]
    BY <1>9, <2>1 DEF Inv, PublicationTypeOK
  <2>3. /\ links' \in [Devices -> [Orgs -> SUBSET Ids]]
        /\ \A e \in Devices, r \in Orgs :
             links'[e][r] \subseteq links[e][r] \cup (IF e = d /\ r = o THEN {x.id} ELSE {})
    BY <1>9, <2>1 DEF Inv, PublicationTypeOK
  <2>4. PublicationTypeOK'
    BY <1>3, <1>4, <1>7, <2>2, <2>3, StayingIsGrowing DEF Inv, PublicationTypeOK
  <2>5. ListedWereStored'
    BY <1>4, <2>1, <2>2, <2>3 DEF Inv, ListedWereStored
  <2>6. ReportedIsListed'
    BY <1>4, <2>1, <2>2 DEF Inv, ReportedIsListed
  <2>. QED BY <1>7, <2>4, <2>5, <2>6 DEF Inv
<1>. QED BY <1>8, <1>9 DEF Hear

LEMMA StoreContentPreserves ==
  ASSUME Inv, NEW p \in DOMAIN presses, StoreContent(p) PROVE Inv'
<1> DEFINE x == presses[p]
<1>1. x \in Press /\ PressOK(x) /\ x.stage = "authorized"
  BY DEF Inv, PublicationTypeOK, PressesOK, StoreContent
<1>2. /\ x.who \in Identity /\ x.who.org \in Orgs /\ x.who.id \in Users
      /\ x.snapshot \in Policy /\ WasInForce(x.who.org, x.snapshot)
      /\ x.since <= x.snapshot.version
  BY <1>1 DEF PressOK, Press, Identity, WasInForce
<1>3. PICK i \in Ids :
        /\ content[i] = None
        /\ content' = [content EXCEPT ![i] =
             [org |-> x.who.org, by |-> x.who.id,
              version |-> x.snapshot.version, mode |-> x.snapshot.mode]]
        /\ Step(p, [x EXCEPT !.stage = "stored", !.id = i])
  BY DEF StoreContent
<1>4. UNCHANGED <<policyVars, index, expired, runs, ran, storage>>
  BY DEF StoreContent
<1>5. PICK c \in Snapshot :
        /\ c = [org |-> x.who.org, by |-> x.who.id,
                version |-> x.snapshot.version, mode |-> x.snapshot.mode]
        /\ c.org = x.who.org /\ c.by = x.who.id
        /\ c.version = x.snapshot.version /\ c.mode = x.snapshot.mode
  <2>1. [org |-> x.who.org, by |-> x.who.id,
         version |-> x.snapshot.version, mode |-> x.snapshot.mode] \in Snapshot
    BY <1>2 DEF Snapshot, Policy
  <2>. QED BY <2>1
<1>6. PICK q \in Press :
        /\ Step(p, q) /\ q.who = x.who /\ q.since = x.since
        /\ q.stage = "stored" /\ q.id = i
  <2>1. LET q == [x EXCEPT !.stage = "stored", !.id = i] IN
        q \in Press /\ q.who = x.who /\ q.since = x.since /\ q.stage = "stored" /\ q.id = i
    BY <1>1 DEF Press
  <2>. QED BY <1>3, <2>1
<1>7. /\ content' \in [Ids -> Snapshot \cup {None}]
      /\ \A j \in Ids : content'[j] = IF j = i THEN c ELSE content[j]
  BY <1>3, <1>5 DEF Inv, PublicationTypeOK
<1>8. PolicyInv' /\ Grows /\ PolicyTypeOK'
  BY <1>4, StayingIsGrowing
<1>9. WorkerGrows
  BY <1>3, <1>4, <1>7 DEF WorkerGrows
<1>10. c # None
  BY CopiesAssumption
<1>11. PressOK(q)'
  <2>1. q.who.org \in Orgs /\ q.since \in Nat /\ q.since = x.since
    BY <1>6 DEF Press, Identity
  <2>2. q.since <= Len(modes'[q.who.org])
    BY <1>1, <1>4, <1>6 DEF PressOK, policyVars
  <2>3. q.id \in Ids /\ content'[q.id] # None /\ content'[q.id].org = q.who.org
    BY <1>5, <1>6, <1>7, <1>10
  <2>. QED BY <1>6, <2>2, <2>3 DEF PressOK
<1>12. Follows(x, q)
  BY <1>1, <1>6 DEF Follows, Late
<1>13. /\ presses' \in Seq(Press) /\ Len(presses') = Len(presses)
       /\ PressesOK' /\ \A j \in Ids : content'[j] = content[j] => OriginOK(j)'
  BY <1>6, <1>8, <1>9, <1>11, <1>12, StepFollows
<1>14. OriginOK(i)'
  <2>1. PICK y : y = content'[i]
    OBVIOUS
  <2>2. y = c
    BY <1>7, <2>1
  <2>3. WasInForce(c.org, [version |-> c.version, mode |-> c.mode])'
    BY <1>2, <1>4, <1>5 DEF WasInForce, policyVars, Policy
  <2>4. p \in DOMAIN presses' /\ presses'[p] = q
    BY <1>6 DEF Step, Inv, PublicationTypeOK
  <2>5. q.who = [id |-> c.by, org |-> c.org]
    BY <1>2, <1>5, <1>6 DEF Identity
  <2>6. q.stage \in Late /\ q.id = i /\ q.since <= c.version
    BY <1>2, <1>5, <1>6 DEF Late
  <2>. QED BY <2>1, <2>2, <2>3, <2>4, <2>5, <2>6 DEF OriginOK
<1>15. OriginsOK'
  BY <1>7, <1>13, <1>14 DEF OriginsOK
<1>16. RunsOK'
  BY <1>4, <1>9, RunStaysOK DEF Inv, PublicationTypeOK, RunsOK
<1>17. ListedWereStored' /\ ReportedIsListed'
  BY <1>4, <1>9 DEF Inv, PublicationTypeOK, ListedWereStored, ReportedIsListed, WorkerGrows, storage
<1>18. PublicationTypeOK'
  BY <1>4, <1>7, <1>8, <1>13 DEF Inv, PublicationTypeOK, storage
<1>. QED BY <1>8, <1>13, <1>15, <1>16, <1>17, <1>18 DEF Inv

-----------------------------------------------------------------------------
(* The other steps of the worker and of the devices. *)

LEMMA ExpirePreserves ==
  ASSUME Inv, NEW i \in Ids, Expire(i) PROVE Inv'
<1>1. /\ UNCHANGED <<policyVars, content, index, presses, runs, ran, storage>>
      /\ expired' = expired \cup {i}
  BY DEF Expire
<1>2. PolicyInv' /\ Grows /\ PolicyTypeOK'
  BY <1>1, StayingIsGrowing
<1>3. PublicationTypeOK'
  BY <1>1, <1>2 DEF Inv, PublicationTypeOK, storage
<1>4. ListedWereStored' /\ ReportedIsListed'
  BY <1>1 DEF Inv, ListedWereStored, ReportedIsListed, storage
<1>5. PressesOK' /\ RunsOK' /\ OriginsOK'
  BY <1>1 DEF Inv, PressesOK, PressOK, RunsOK, RunOK, OriginsOK, OriginOK, WasInForce, policyVars
<1>. QED BY <1>2, <1>3, <1>4, <1>5 DEF Inv

(* The policies change and nothing else. *)
LEMMA PolicyAlone ==
  ASSUME Inv, PolicyNext, UNCHANGED <<worker, presses, runs, ran, storage>>
  PROVE  Inv'
<1>1. PolicyInv' /\ Grows /\ PolicyTypeOK'
  BY PolicyStepPreserves, PolicyGrows DEF Inv, PolicyInv
<1>2. UNCHANGED <<content, index, expired, presses, runs, ran, links, hidden, last>>
  BY DEF worker, storage
<1>3. WorkerGrows
  BY <1>2 DEF WorkerGrows
<1>4. PublicationTypeOK'
  BY <1>1, <1>2 DEF Inv, PublicationTypeOK
<1>5. ListedWereStored' /\ ReportedIsListed'
  BY <1>2 DEF Inv, ListedWereStored, ReportedIsListed
<1>6. PressesOK'
  BY <1>1, <1>2, <1>3, PressStaysOK DEF Inv, PublicationTypeOK, PressesOK
<1>7. RunsOK'
  BY <1>2, <1>3, RunStaysOK DEF Inv, PublicationTypeOK, RunsOK
<1>8. ASSUME NEW i \in Ids, content[i] # None, content[i].by # None PROVE OriginOK(i)'
  <2>1. PICK c \in Snapshot : c = content[i]
    BY <1>8 DEF Inv, PublicationTypeOK
  <2>2. c.org \in Orgs /\ WasInForce(c.org, [version |-> c.version, mode |-> c.mode])
    BY <1>8, <2>1 DEF Inv, OriginsOK, OriginOK, Snapshot
  <2>3. WasInForce(c.org, [version |-> c.version, mode |-> c.mode])'
    BY <1>1, <2>2, StaysInForce DEF Inv
  <2>4. \E r \in DOMAIN presses :
          /\ presses[r].stage \in Late /\ presses[r].id = i
          /\ presses[r].who = [id |-> c.by, org |-> c.org]
          /\ presses[r].since <= c.version
    BY <1>8, <2>1 DEF Inv, OriginsOK, OriginOK
  <2>. QED BY <1>2, <2>1, <2>3, <2>4 DEF OriginOK
<1>9. OriginsOK'
  BY <1>2, <1>8 DEF OriginsOK, OriginOK
<1>. QED BY <1>1, <1>4, <1>5, <1>6, <1>7, <1>9 DEF Inv

LEMMA PolicyStepKeeps ==
  ASSUME Inv, PolicyStep PROVE Inv'
<1>1. PolicyNext
  BY DEF PolicyStep, PolicyNext
<1>. QED BY <1>1, PolicyAlone DEF PolicyStep

LEMMA PublishPreserves ==
  ASSUME Inv, NEW d \in Devices, Publish(d) PROVE Inv'
<1>1. Request(d, None) /\ UNCHANGED <<worker, runs, ran, storage>> /\ Len(presses) < MaxPresses
  BY DEF Publish
<1>2. PolicyNext
  BY <1>1 DEF PolicyNext
<1>3. PolicyInv' /\ Grows /\ PolicyTypeOK'
  BY <1>2, PolicyStepPreserves, PolicyGrows DEF Inv, PolicyInv
<1>4. PICK q \in Press :
        /\ presses' = Append(presses, q) /\ q.stage = "policy"
        /\ q.since = Len(modes[q.who.org])
  <2> DEFINE n == Len(modes[session[d].org])
             q1 == [dev |-> d, epoch |-> epoch[d], who |-> session[d],
                    asked |-> sequence[d] + 1, since |-> n, snapshot |-> None,
                    stage |-> "policy", id |-> None, waited |-> TRUE]
  <2>1. session[d] \in Identity /\ epoch[d] \in Nat /\ sequence[d] + 1 \in Nat
    BY <1>1, FeaturePolicyAssumption DEF Request, Inv, PolicyInv, PolicyTypeOK
  <2>2. session[d].org \in Orgs
    BY <2>1 DEF Identity
  <2>3. n \in Nat
    BY <2>2 DEF Inv, PolicyInv, PolicyTypeOK
  <2>4. q1 \in Press /\ q1.stage = "policy" /\ q1.since = n /\ q1.who = session[d]
    BY <2>1, <2>3 DEF Press
  <2>5. presses' = Append(presses, q1)
    BY DEF Publish
  <2>. HIDE DEF q1
  <2>. QED BY <2>4, <2>5
<1>5. /\ presses \in Seq(Press) /\ presses' \in Seq(Press)
      /\ Len(presses') = Len(presses) + 1 /\ Len(presses) \in Nat
      /\ \A r \in DOMAIN presses : r \in DOMAIN presses' /\ presses'[r] = presses[r]
      /\ \A r \in DOMAIN presses' : r \in DOMAIN presses \/ presses'[r] = q
  BY <1>4 DEF Inv, PublicationTypeOK
<1>6. UNCHANGED <<content, index, expired, runs, ran, links, hidden, last>> /\ modes' = modes
  BY <1>1 DEF worker, storage, Request
<1>7. WorkerGrows
  BY <1>6 DEF WorkerGrows
<1>8. PressOK(q)'
  <2>1. q.who.org \in Orgs /\ q.since <= Len(modes'[q.who.org])
    BY <1>4, <1>6 DEF Press, Identity, Inv, PolicyInv, PolicyTypeOK
  <2>. QED BY <1>4, <2>1 DEF PressOK
<1>9. PressesOK'
  <2>1. ASSUME NEW r \in DOMAIN presses', NEW y, y = presses'[r] PROVE PressOK(y)'
    <3>1. CASE y = q
      BY <1>8, <3>1
    <3>2. CASE r \in DOMAIN presses /\ y = presses[r]
      <4>1. y \in Press /\ PressOK(y)
        BY <1>5, <3>2 DEF Inv, PressesOK
      <4>. QED BY <1>3, <1>7, <4>1, PressStaysOK
    <3>. QED BY <1>5, <2>1, <3>1, <3>2
  <2>. QED BY <2>1 DEF PressesOK
<1>10. RunsOK'
  BY <1>6, <1>7, RunStaysOK DEF Inv, PublicationTypeOK, RunsOK
<1>11. ASSUME NEW i \in Ids, content[i] # None, content[i].by # None PROVE OriginOK(i)'
  BY <1>5, <1>6, <1>11 DEF Inv, OriginsOK, OriginOK, WasInForce
<1>12. OriginsOK'
  BY <1>6, <1>11 DEF OriginsOK, OriginOK
<1>13. PublicationTypeOK'
  BY <1>1, <1>3, <1>5, <1>6, PublicationAssumption DEF Inv, PublicationTypeOK
<1>14. ListedWereStored' /\ ReportedIsListed'
  BY <1>6 DEF Inv, ListedWereStored, ReportedIsListed
<1>. QED BY <1>3, <1>9, <1>10, <1>12, <1>13, <1>14 DEF Inv

(* A reading goes on, perhaps with new entries in the register. *)
LEMMA RunStep ==
  ASSUME Inv, UNCHANGED <<policyVars, content, expired, presses>>,
         index \subseteq index', \A e \in index' \ index :
           e \in Orgs \X Ids /\ content[e[2]] # None /\ content[e[2]].org = e[1],
         ran' \in [Devices -> 0 .. MaxRuns],
         NEW d \in Devices, NEW r \in Run, RunOK(r), runs' = [runs EXCEPT ![d] = r]
  PROVE  /\ PolicyInv' /\ PressesOK' /\ RunsOK' /\ OriginsOK'
         /\ UNCHANGED storage => Inv'
         /\ (/\ last' = last /\ hidden' = hidden
             /\ links' \in [Devices -> [Orgs -> SUBSET Ids]]
             /\ \A e \in Devices, o \in Orgs : \A i \in links'[e][o] \ links[e][o] :
                  content[i] # None /\ content[i].org = o) => Inv'
<1>1. PolicyInv' /\ Grows /\ PolicyTypeOK' /\ WorkerGrows
  BY StayingIsGrowing DEF WorkerGrows
<1>2. PressesOK'
  BY <1>1, PressStaysOK DEF Inv, PublicationTypeOK, PressesOK
<1>3. /\ runs' \in [Devices -> Run]
      /\ \A e \in Devices : runs'[e] = IF e = d THEN r ELSE runs[e]
  BY DEF Inv, PublicationTypeOK
<1>4. RunsOK'
  <2>1. ASSUME NEW e \in Devices, NEW y, y = runs'[e] PROVE RunOK(y)'
    <3>1. y \in Run /\ RunOK(y)
      BY <1>3, <2>1 DEF Inv, PublicationTypeOK, RunsOK
    <3>. QED BY <1>1, <3>1, RunStaysOK
  <2>. QED BY <2>1 DEF RunsOK
<1>5. OriginsOK'
  BY DEF Inv, OriginsOK, OriginOK, WasInForce, policyVars
<1>6. index' \subseteq Orgs \X Ids
  BY DEF Inv, PublicationTypeOK
<1>7. \A e \in index' : content[e[2]] # None /\ content[e[2]].org = e[1]
  BY DEF Inv, ListedWereStored
<1>8. ASSUME last' = last, hidden' = hidden, links' \in [Devices -> [Orgs -> SUBSET Ids]],
             \A e \in Devices, o \in Orgs : \A i \in links'[e][o] \ links[e][o] :
               content[i] # None /\ content[i].org = o
      PROVE  Inv'
  <2>1. PublicationTypeOK'
    BY <1>1, <1>3, <1>6, <1>8 DEF Inv, PublicationTypeOK
  <2>2. ListedWereStored' /\ ReportedIsListed'
    BY <1>7, <1>8 DEF Inv, ListedWereStored, ReportedIsListed
  <2>. QED BY <1>1, <1>2, <1>4, <1>5, <2>1, <2>2 DEF Inv
<1>9. ASSUME UNCHANGED storage PROVE Inv'
  BY <1>8, <1>9 DEF storage, Inv, PublicationTypeOK
<1>. QED BY <1>1, <1>2, <1>4, <1>5, <1>8, <1>9

LEMMA NoRunIsOK == NoRun \in Run /\ RunOK(NoRun)
BY PublicationAssumption DEF NoRun, Run, RunOK

LEMMA StartRunPreserves ==
  ASSUME Inv, NEW d \in Devices, StartRun(d) PROVE Inv'
<1> DEFINE r == [NoRun EXCEPT !.stage = "next", !.who = session[d], !.epoch = epoch[d],
                   !.listed = Indexed(session[d].org),
                   !.began = {i \in Ids : Alive(i) /\ content[i].org = session[d].org}]
<1>1. session[d] \in Identity /\ epoch[d] \in Nat
  BY FeaturePolicyAssumption DEF StartRun, Inv, PolicyInv, PolicyTypeOK
<1>2. r \in Run /\ r.stage = "next" /\ r.who = session[d] /\ r.page = {}
  <2>1. Indexed(session[d].org) \subseteq Ids
    BY DEF Indexed
  <2>. QED BY <1>1, <2>1, NoRunIsOK DEF NoRun, Run
<1>3. runs' = [runs EXCEPT ![d] = r]
  BY DEF StartRun
<1>. HIDE DEF r
<1>4. RunOK(r)
  BY <1>1, <1>2 DEF RunOK
<1>5. UNCHANGED <<policyVars, worker, presses, storage>> /\ ran' = [ran EXCEPT ![d] = @ + 1]
      /\ ran[d] < MaxRuns
  BY DEF StartRun
<1>6. ran' \in [Devices -> 0 .. MaxRuns]
  BY <1>5, PublicationAssumption DEF Inv, PublicationTypeOK
<1>7. UNCHANGED <<content, index, expired>>
  BY <1>5 DEF worker
<1>. QED BY <1>2, <1>3, <1>4, <1>5, <1>6, <1>7, RunStep

LEMMA EndRunPreserves ==
  ASSUME Inv, NEW d \in Devices, EndRun(d),
         UNCHANGED <<policyVars, worker, presses, ran, storage>>
  PROVE  Inv'
<1>1. UNCHANGED <<content, index, expired>>
  BY DEF worker
<1>2. runs' = [runs EXCEPT ![d] = NoRun]
  BY DEF EndRun
<1>. QED BY <1>1, <1>2, NoRunIsOK, RunStep DEF Inv, PublicationTypeOK

LEMMA AskPagePreserves ==
  ASSUME Inv, NEW d \in Devices, AskPage(d) PROVE Inv'
<1> DEFINE r == [runs[d] EXCEPT !.stage = "asked"]
<1>1. UNCHANGED <<policyVars, worker, presses, ran, storage>>
  BY DEF AskPage
<1>2. CASE EndRun(d)
  BY <1>1, <1>2, EndRunPreserves
<1>3. CASE runs' = [runs EXCEPT ![d].stage = "asked"] /\ runs[d].stage = "next"
  <2>1. runs[d] \in Run /\ RunOK(runs[d])
    BY DEF Inv, PublicationTypeOK, RunsOK
  <2>2. r \in Run /\ r.who = runs[d].who /\ r.page = runs[d].page
    BY <2>1 DEF Run
  <2>3. runs' = [runs EXCEPT ![d] = r]
    BY <1>3
  <2>. HIDE DEF r
  <2>4. RunOK(r)
    BY <1>3, <2>1, <2>2 DEF RunOK
  <2>5. UNCHANGED <<content, index, expired>>
    BY <1>1 DEF worker
  <2>. QED BY <1>1, <2>2, <2>3, <2>4, <2>5, RunStep DEF Inv, PublicationTypeOK
<1>. QED BY <1>2, <1>3 DEF AskPage

LEMMA FailRunPreserves ==
  ASSUME Inv, NEW d \in Devices, FailRun(d) PROVE Inv'
BY EndRunPreserves DEF FailRun

LEMMA ServePagePreserves ==
  ASSUME Inv, NEW d \in Devices, ServePage(d) PROVE Inv'
<1>1. runs[d] \in Run /\ RunOK(runs[d]) /\ runs[d].stage = "asked"
  BY DEF Inv, PublicationTypeOK, RunsOK, ServePage
<1>2. PICK o \in Orgs : o = runs[d].who.org
  BY <1>1 DEF RunOK, Identity
<1>3. PICK keys \in SUBSET Ids :
        /\ \A i \in keys : content[i] # None
        /\ LET page == FirstOf(keys, runs[d].cursor) own == Own(o, page) IN
           /\ runs' = [runs EXCEPT ![d] =
                [runs[d] EXCEPT !.stage = "answered", !.page = own,
                   !.cursor = Largest(page, runs[d].cursor),
                   !.more = \E i \in keys : i > Largest(page, runs[d].cursor)]]
           /\ index' = IF runs[d].route = "recover" THEN index \cup ({o} \X own) ELSE index
  <2> DEFINE k == IF runs[d].route = "recover" THEN {i \in Ids : Alive(i)} ELSE Indexed(o)
  <2>1. k \in SUBSET Ids /\ \A i \in k : content[i] # None
    BY <1>2 DEF Alive, Indexed, Inv, ListedWereStored
  <2>2. LET page == FirstOf(k, runs[d].cursor) own == Own(o, page) IN
        /\ runs' = [runs EXCEPT ![d] =
             [runs[d] EXCEPT !.stage = "answered", !.page = own,
                !.cursor = Largest(page, runs[d].cursor),
                !.more = \E i \in k : i > Largest(page, runs[d].cursor)]]
        /\ index' = IF runs[d].route = "recover" THEN index \cup ({o} \X own) ELSE index
    BY <1>2 DEF ServePage
  <2>. HIDE DEF k
  <2>. QED BY <2>1, <2>2
<1>4. PICK own \in SUBSET Ids, page \in SUBSET Ids :
        /\ own = Own(o, page) /\ page = FirstOf(keys, runs[d].cursor)
        /\ \A i \in own : content[i] # None /\ content[i].org = o
  <2> DEFINE page1 == FirstOf(keys, runs[d].cursor)
             own1 == Own(o, page1)
  <2>1. page1 \in SUBSET Ids /\ page1 \subseteq keys
    BY DEF FirstOf
  <2>. HIDE DEF page1
  <2>2. own1 \in SUBSET Ids /\ \A i \in own1 : content[i] # None /\ content[i].org = o
    BY <1>3, <2>1 DEF Own
  <2>. HIDE DEF own1
  <2>3. own1 = Own(o, page1) /\ page1 = FirstOf(keys, runs[d].cursor)
    BY DEF own1, page1
  <2>. QED BY <2>1, <2>2, <2>3
<1>5. Largest(page, runs[d].cursor) \in 0 .. MaxId
  BY <1>1, CursorIsAKey DEF Run
<1>6. PICK r \in Run : /\ runs' = [runs EXCEPT ![d] = r]
                       /\ r.stage = "answered" /\ r.page = own /\ r.who = runs[d].who
  <2> DEFINE more == \E i \in keys : i > Largest(page, runs[d].cursor)
             r1 == [runs[d] EXCEPT !.stage = "answered", !.page = own,
                      !.cursor = Largest(page, runs[d].cursor), !.more = more]
  <2>1. more \in BOOLEAN
    OBVIOUS
  <2>2. runs' = [runs EXCEPT ![d] = r1]
    BY <1>3, <1>4
  <2>. HIDE DEF more
  <2>3. r1 \in Run /\ r1.stage = "answered" /\ r1.page = own /\ r1.who = runs[d].who
    BY <1>1, <1>4, <1>5, <2>1 DEF Run
  <2>. HIDE DEF r1
  <2>. QED BY <2>2, <2>3
<1>7. RunOK(r)
  BY <1>1, <1>2, <1>4, <1>6 DEF RunOK
<1>8. UNCHANGED <<policyVars, content, expired, presses, ran, storage>>
  BY DEF ServePage
<1>9. /\ index \subseteq index'
      /\ \A e \in index' \ index :
           e \in Orgs \X Ids /\ content[e[2]] # None /\ content[e[2]].org = e[1]
  BY <1>3, <1>4
<1>. QED BY <1>6, <1>7, <1>8, <1>9, RunStep DEF Inv, PublicationTypeOK

LEMMA Resumed ==
  ASSUME NEW x \in Run
  PROVE  LET r1 == [x EXCEPT !.stage = "next", !.page = {}, !.more = FALSE,
                      !.route = IF x.more THEN @ ELSE "history",
                      !.cursor = IF x.more THEN @ ELSE 0]
             r2 == [x EXCEPT !.stage = "complete", !.page = {}, !.cursor = 0]
         IN  /\ r1 \in Run /\ r1.page = {} /\ r1.who = x.who
             /\ r2 \in Run /\ r2.page = {} /\ r2.who = x.who
<1>1. 0 \in 0 .. MaxId
  BY PublicationAssumption
<1>2. PICK route \in {"recover", "history"} : route = IF x.more THEN x.route ELSE "history"
  BY DEF Run
<1>3. PICK cursor \in 0 .. MaxId : cursor = IF x.more THEN x.cursor ELSE 0
  BY <1>1 DEF Run
<1>4. PICK none \in SUBSET Ids : none = {}
  OBVIOUS
<1>5. LET r == [x EXCEPT !.stage = "next", !.page = none, !.more = FALSE,
                  !.route = route, !.cursor = cursor]
      IN  r \in Run /\ r.page = none /\ r.who = x.who
  BY DEF Run
<1>6. PICK start \in 0 .. MaxId : start = 0
  BY <1>1
<1>7. LET r == [x EXCEPT !.stage = "complete", !.page = none, !.cursor = start]
      IN  r \in Run /\ r.page = none /\ r.who = x.who
  BY DEF Run
<1>. QED BY <1>2, <1>3, <1>4, <1>5, <1>6, <1>7

LEMMA ReceivePagePreserves ==
  ASSUME Inv, NEW d \in Devices, ReceivePage(d) PROVE Inv'
<1>1. UNCHANGED <<policyVars, worker, presses, ran, hidden, last>>
  BY DEF ReceivePage
<1>2. UNCHANGED <<content, index, expired>>
  BY <1>1 DEF worker
<1>3. CASE EndRun(d) /\ UNCHANGED links
  BY <1>1, <1>3, EndRunPreserves DEF storage
<1>4. CASE ContextIsCurrent(d, runs[d])
  <2> DEFINE x == runs[d]
  <2>1. x \in Run /\ RunOK(x) /\ x.stage = "answered"
    BY DEF Inv, PublicationTypeOK, RunsOK, ReceivePage
  <2>2. PICK o : o = x.who.org
    OBVIOUS
  <2>3. x.who \in Identity /\ o \in Orgs
    BY <1>4, <2>1, <2>2 DEF RunOK, Identity
  <2>4. links' = [links EXCEPT ![d][o] = @ \cup (x.page \ hidden[d][o])]
    BY <1>4, <2>2 DEF ReceivePage
  <2>5. /\ links' \in [Devices -> [Orgs -> SUBSET Ids]]
        /\ \A e \in Devices, t \in Orgs : \A i \in links'[e][t] \ links[e][t] :
             content[i] # None /\ content[i].org = t
    BY <2>1, <2>2, <2>3, <2>4 DEF Inv, PublicationTypeOK, Run, RunOK
  <2>6. PICK r \in Run : /\ runs' = [runs EXCEPT ![d] = r]
                         /\ r.page = {} /\ r.who = x.who
    <3> DEFINE r1 == [x EXCEPT !.stage = "next", !.page = {}, !.more = FALSE,
                        !.route = IF x.more THEN @ ELSE "history",
                        !.cursor = IF x.more THEN @ ELSE 0]
               r2 == [x EXCEPT !.stage = "complete", !.page = {}, !.cursor = 0]
    <3>1. runs' = [runs EXCEPT ![d] = r1] \/ runs' = [runs EXCEPT ![d] = r2]
      BY <1>4 DEF ReceivePage
    <3>. HIDE DEF x
    <3>2. r1 \in Run /\ r1.page = {} /\ r1.who = x.who
      BY <2>1, Resumed
    <3>3. r2 \in Run /\ r2.page = {} /\ r2.who = x.who
      BY <2>1, Resumed
    <3>. HIDE DEF r1, r2
    <3>. QED BY <3>1, <3>2, <3>3
  <2>7. RunOK(r)
    BY <2>3, <2>6 DEF RunOK
  <2>. QED BY <1>1, <1>2, <2>5, <2>6, <2>7, RunStep DEF Inv, PublicationTypeOK
<1>. QED BY <1>3, <1>4 DEF ReceivePage

(* The register of a device loses links, and nothing else changes. *)
LEMMA Forgets ==
  ASSUME Inv, UNCHANGED <<policyVars, worker, presses, runs, ran>>,
         hidden' \in [Devices -> [Orgs -> SUBSET Ids]],
         NEW d \in Devices, NEW o \in Orgs, NEW gone,
         links' = [links EXCEPT ![d][o] = @ \ gone],
         last' = [last EXCEPT ![d][o] = None]
  PROVE  Inv'
<1>1. PolicyInv' /\ Grows /\ PolicyTypeOK'
  BY StayingIsGrowing
<1>2. UNCHANGED <<content, index, expired>>
  BY DEF worker
<1>3. /\ links' \in [Devices -> [Orgs -> SUBSET Ids]]
      /\ \A e \in Devices, t \in Orgs : links'[e][t] \subseteq links[e][t]
  BY DEF Inv, PublicationTypeOK
<1>4. /\ last' \in [Devices -> [Orgs -> Ids \cup {None}]]
      /\ \A e \in Devices, t \in Orgs : last'[e][t] \in {last[e][t], None}
  BY DEF Inv, PublicationTypeOK
<1>5. PublicationTypeOK'
  BY <1>1, <1>2, <1>3, <1>4 DEF Inv, PublicationTypeOK
<1>6. ListedWereStored'
  BY <1>2, <1>3, <1>4 DEF Inv, ListedWereStored
<1>7. ReportedIsListed'
  BY <1>2, <1>4 DEF Inv, ReportedIsListed
<1>8. PressesOK' /\ RunsOK' /\ OriginsOK'
  BY <1>2 DEF Inv, PressesOK, PressOK, RunsOK, RunOK, OriginsOK, OriginOK, WasInForce, policyVars
<1>. QED BY <1>1, <1>5, <1>6, <1>7, <1>8 DEF Inv

LEMMA OwnOrg ==
  ASSUME Inv, NEW d \in Devices, session[d] # None PROVE session[d].org \in Orgs
BY DEF Inv, PolicyInv, PolicyTypeOK, Identity

LEMMA HidePreserves ==
  ASSUME Inv, NEW d \in Devices, NEW i \in Ids, Hide(d, i) PROVE Inv'
<1>1. PICK o \in Orgs : o = session[d].org
  BY OwnOrg DEF Hide
<1>2. /\ hidden' = [hidden EXCEPT ![d][o] = @ \cup {i}]
      /\ links' = [links EXCEPT ![d][o] = @ \ {i}]
      /\ last' = [last EXCEPT ![d][o] = None]
      /\ UNCHANGED <<policyVars, worker, presses, runs, ran>>
  BY <1>1 DEF Hide
<1>3. hidden' \in [Devices -> [Orgs -> SUBSET Ids]]
  BY <1>2 DEF Inv, PublicationTypeOK
<1>. QED BY <1>2, <1>3, Forgets

LEMMA ClearExpiredPreserves ==
  ASSUME Inv, NEW d \in Devices, ClearExpired(d) PROVE Inv'
<1>1. PICK o \in Orgs : o = session[d].org
  BY OwnOrg DEF ClearExpired
<1>2. PICK gone \in SUBSET Ids : gone = links[d][o] \cap expired
  BY DEF Inv, PublicationTypeOK
<1>3. /\ hidden' = [hidden EXCEPT ![d][o] = @ \cup gone]
      /\ links' = [links EXCEPT ![d][o] = @ \ gone]
      /\ last' = [last EXCEPT ![d][o] = None]
      /\ UNCHANGED <<policyVars, worker, presses, runs, ran>>
  BY <1>1, <1>2 DEF ClearExpired
<1>4. hidden' \in [Devices -> [Orgs -> SUBSET Ids]]
  BY <1>2, <1>3 DEF Inv, PublicationTypeOK
<1>. QED BY <1>3, <1>4, Forgets

(* What is left of a publication when its device starts again. *)
Abandoned(x) ==
  [x EXCEPT !.waited = FALSE, !.stage = IF @ = "policy" THEN "failed" ELSE @]

LEMMA AbandonedIsOK ==
  ASSUME NEW x \in Press
  PROVE  /\ Abandoned(x) \in Press
         /\ Abandoned(x).who = x.who /\ Abandoned(x).since = x.since
         /\ Abandoned(x).id = x.id /\ Abandoned(x).snapshot = x.snapshot
         /\ Abandoned(x).stage = IF x.stage = "policy" THEN "failed" ELSE x.stage
<1>1. PICK stage \in {"policy", "sent", "authorized", "stored", "published", "failed"} :
        stage = IF x.stage = "policy" THEN "failed" ELSE x.stage
  BY DEF Press
<1>2. Abandoned(x) = [x EXCEPT !.waited = FALSE, !.stage = stage]
  BY <1>1 DEF Abandoned
<1>. QED BY <1>1, <1>2 DEF Press

LEMMA RestartPreserves ==
  ASSUME Inv, NEW d \in Devices, Restart(d) PROVE Inv'
<1>1. /\ ForgetRequests(d) /\ EndRun(d) /\ UNCHANGED <<worker, ran, storage>>
      /\ presses' = [p \in DOMAIN presses |->
           IF presses[p].dev # d THEN presses[p] ELSE Abandoned(presses[p])]
  BY DEF Restart, Abandoned
<1>2. PolicyNext
  BY <1>1 DEF PolicyNext
<1>3. PolicyInv' /\ Grows /\ PolicyTypeOK'
  BY <1>2, PolicyStepPreserves, PolicyGrows DEF Inv, PolicyInv
<1>4. UNCHANGED <<content, index, expired, ran, links, hidden, last, modes>>
  BY <1>1 DEF worker, storage, ForgetRequests
<1>5. WorkerGrows
  BY <1>4 DEF WorkerGrows
<1>6. /\ presses \in Seq(Press) /\ presses' \in Seq(Press) /\ Len(presses') = Len(presses)
      /\ DOMAIN presses' = DOMAIN presses
  BY <1>1, AbandonedIsOK DEF Inv, PublicationTypeOK
<1>7. ASSUME NEW r \in DOMAIN presses
      PROVE  /\ presses[r] \in Press
             /\ presses'[r] \in {presses[r], Abandoned(presses[r])}
  BY <1>1, <1>6
<1>8. PressesOK'
  <2>1. ASSUME NEW r \in DOMAIN presses, NEW y, y = presses'[r] PROVE PressOK(y)'
    <3>1. PICK x \in Press : x = presses[r] /\ PressOK(x)
      BY <1>7 DEF Inv, PressesOK
    <3>2. y = x \/ y = Abandoned(x)
      BY <1>7, <2>1, <3>1
    <3>3. y \in Press /\ PressOK(y)
      BY <3>1, <3>2, AbandonedIsOK DEF PressOK
    <3>. QED BY <1>3, <1>5, <3>3, PressStaysOK
  <2>. QED BY <1>6, <2>1 DEF PressesOK
<1>9. ASSUME NEW i \in Ids, content[i] # None, content[i].by # None PROVE OriginOK(i)'
  <2>1. WasInForce(content[i].org, [version |-> content[i].version, mode |-> content[i].mode])
    BY <1>9 DEF Inv, OriginsOK, OriginOK
  <2>2. PICK r \in DOMAIN presses :
          /\ presses[r].stage \in Late /\ presses[r].id = i
          /\ presses[r].who = [id |-> content[i].by, org |-> content[i].org]
          /\ presses[r].since <= content[i].version
    BY <1>9 DEF Inv, OriginsOK, OriginOK
  <2>3. /\ presses'[r].stage \in Late /\ presses'[r].id = i
        /\ presses'[r].who = [id |-> content[i].by, org |-> content[i].org]
        /\ presses'[r].since <= content[i].version
    BY <1>7, <2>2, AbandonedIsOK DEF Late
  <2>. QED BY <1>4, <1>6, <2>1, <2>3 DEF OriginOK, WasInForce
<1>10. OriginsOK'
  BY <1>4, <1>9 DEF OriginsOK, OriginOK
<1>11. /\ runs' \in [Devices -> Run]
       /\ \A e \in Devices : runs'[e] = IF e = d THEN NoRun ELSE runs[e]
  BY <1>1, NoRunIsOK DEF EndRun, Inv, PublicationTypeOK
<1>12. RunsOK'
  <2>1. ASSUME NEW e \in Devices, NEW y, y = runs'[e] PROVE RunOK(y)'
    <3>1. y \in Run /\ RunOK(y)
      BY <1>11, <2>1, NoRunIsOK DEF Inv, PublicationTypeOK, RunsOK
    <3>. QED BY <1>5, <3>1, RunStaysOK
  <2>. QED BY <2>1 DEF RunsOK
<1>13. PublicationTypeOK'
  BY <1>3, <1>4, <1>6, <1>11 DEF Inv, PublicationTypeOK
<1>14. ListedWereStored' /\ ReportedIsListed'
  BY <1>4 DEF Inv, ListedWereStored, ReportedIsListed
<1>. QED BY <1>3, <1>8, <1>10, <1>12, <1>13, <1>14 DEF Inv

-----------------------------------------------------------------------------
LEMMA StepPreserves == Inv /\ [Next]_vars => Inv'
<1> SUFFICES ASSUME Inv, [Next]_vars PROVE Inv'
  OBVIOUS
<1>1. CASE PolicyStep
  BY <1>1, PolicyStepKeeps
<1>2. ASSUME NEW p \in DOMAIN presses,
             \/ Send(p) \/ Hear(p) \/ LoseAnswer(p)
             \/ Authorize(p) \/ StoreContent(p) \/ StoreIndex(p) \/ Break(p)
      PROVE  Inv'
  BY <1>2, SendPreserves, HearPreserves, LoseAnswerPreserves, AuthorizePreserves,
     StoreContentPreserves, StoreIndexPreserves, BreakPreserves
<1>3. ASSUME NEW i \in Ids, Expire(i) PROVE Inv'
  BY <1>3, ExpirePreserves
<1>4. ASSUME NEW d \in Devices,
             \/ Publish(d) \/ Restart(d) \/ StartRun(d) \/ AskPage(d)
             \/ ServePage(d) \/ ReceivePage(d) \/ FailRun(d) \/ ClearExpired(d)
      PROVE  Inv'
  BY <1>4, PublishPreserves, RestartPreserves, StartRunPreserves, AskPagePreserves,
     ServePagePreserves, ReceivePagePreserves, FailRunPreserves, ClearExpiredPreserves
<1>5. ASSUME NEW d \in Devices, NEW i \in Ids, Hide(d, i) PROVE Inv'
  BY <1>5, HidePreserves
<1>6. CASE UNCHANGED vars
  <2>1. UNCHANGED <<policyVars, worker, presses, runs, ran, storage>>
    BY <1>6 DEF vars
  <2>2. PolicyInv' /\ Grows /\ PolicyTypeOK'
    BY <2>1, StayingIsGrowing
  <2>3. UNCHANGED <<content, index, expired, links, hidden, last>>
    BY <2>1 DEF worker, storage
  <2>4. PublicationTypeOK' /\ ListedWereStored' /\ ReportedIsListed'
    BY <2>1, <2>2, <2>3 DEF Inv, PublicationTypeOK, ListedWereStored, ReportedIsListed
  <2>5. PressesOK' /\ RunsOK' /\ OriginsOK'
    BY <2>1, <2>3
    DEF Inv, PressesOK, PressOK, RunsOK, RunOK, OriginsOK, OriginOK, WasInForce, policyVars
  <2>. QED BY <2>2, <2>4, <2>5 DEF Inv
<1>. QED BY <1>1, <1>2, <1>3, <1>4, <1>5, <1>6 DEF Next

(* A step of the publications changes a policy only as FeaturePolicy does. *)
LEMMA StepIsPolicyStep == [Next]_vars => [PolicyNext]_policyVars
<1> SUFFICES ASSUME [Next]_vars PROVE [PolicyNext]_policyVars
  OBVIOUS
<1>1. CASE PolicyStep
  BY <1>1 DEF PolicyStep, PolicyNext
<1>2. ASSUME NEW d \in Devices, Publish(d) \/ Restart(d) PROVE PolicyNext
  BY <1>2 DEF Publish, Restart, PolicyNext
<1>3. CASE UNCHANGED policyVars
  BY <1>3
<1>. QED
  BY <1>1, <1>2, <1>3
  DEF Next, vars, Send, Hear, LoseAnswer, Authorize, StoreContent, StoreIndex, Break,
      Expire, StartRun, AskPage, ServePage, ReceivePage, FailRun, ClearExpired, Hide

(* What the worker and the devices do with published proposals implements   *)
(* the calculation policy on its own: shareProposal and the register touch  *)
(* it only through the store's load (shareProposalService.ts).              *)
THEOREM PublicationKeepsPolicy == Spec => PolicySpec
<1>1. Init => PolicyInit
  BY DEF Init
<1>. QED BY <1>1, StepIsPolicyStep, PTL DEF Spec, PolicySpec

THEOREM InvAlways == Spec => []Inv
BY Initially, StepPreserves, PTL DEF Spec

(* What a device knows of a policy was in force, what it lists was stored   *)
(* for its organization, and what it reports as published is in the         *)
(* register every member reads (shareProposalService.ts, index.ts and       *)
(* proposalRepository.ts of share-viewer).                                  *)
THEOREM PublicationCorrect == Spec => []PublicationInv
<1>1. Inv => PublicationInv
  BY DEF Inv, PolicyInv, PublicationInv
<1>. QED BY <1>1, InvAlways, PTL

(* A published copy carries the calculation its organization had ordered at *)
(* a moment between the press of the button and the publication             *)
(* (publicationAuthorization.ts, storeProposal).                            *)
THEOREM CopiesFollowThePolicy == Spec => []PublishedUnderThePolicy
<1>1. Inv => PublishedUnderThePolicy
  BY DEF Inv, OriginsOK, OriginOK, WasInForce, PublishedUnderThePolicy
<1>. QED BY <1>1, InvAlways, PTL

(* Whatever is published meanwhile, a device's policy never goes back.      *)
THEOREM PolicyNeverGoesBackHere == Spec => KnownNeverGoesBack
BY PublicationKeepsPolicy, PolicyNeverGoesBack

-----------------------------------------------------------------------------
(* The register, page by page.                                              *)

Shown(d, o) == links[d][o] \cup hidden[d][o]

(* What the route a reading is on has to find, and what it may miss.        *)
Sought(r)  == IF r.route = "recover" THEN r.began ELSE r.listed
Excused(r) == IF r.route = "recover" THEN expired ELSE {}

(* What was to be found is shown or on the page just answered, or comes     *)
(* after the cursor; and when nothing more comes, nothing is left there.    *)
ReadOK(d, r) ==
  r.stage # "idle" =>
    /\ r.who \in Identity
    /\ r.listed \subseteq Indexed(r.who.org)
    /\ \A i \in r.began : content[i] # None /\ content[i].org = r.who.org
    /\ r.route = "history" => r.began \subseteq Shown(d, r.who.org) \cup expired
    /\ r.stage \in {"next", "asked"} => r.page = {}
    /\ r.stage = "complete" => r.route = "history" /\ r.listed \subseteq Shown(d, r.who.org)
    /\ r.stage # "complete" => \A i \in Sought(r) :
         i \in Shown(d, r.who.org) \cup Excused(r) \cup r.page \/ i > r.cursor
    /\ r.stage = "answered" /\ ~r.more =>
         \A i \in Sought(r) : i > r.cursor => i \in Excused(r)

ReadsOK == \A d \in Devices : ReadOK(d, runs[d])

(* What is shown or hidden on a device stays so, and what expired.          *)
ShownGrows ==
  /\ expired \subseteq expired'
  /\ \A d \in Devices, o \in Orgs : Shown(d, o) \subseteq Shown(d, o)'

LEMMA ReadStays ==
  ASSUME Inv, WorkerGrows, ShownGrows, NEW d \in Devices, NEW r \in Run, ReadOK(d, r)
  PROVE  ReadOK(d, r)'
<1>. SUFFICES ASSUME r.stage # "idle" PROVE ReadOK(d, r)'
  BY DEF ReadOK
<1>1. r.who.org \in Orgs
  BY DEF ReadOK, Identity
<1>2. Shown(d, r.who.org) \subseteq Shown(d, r.who.org)' /\ expired \subseteq expired'
  BY <1>1 DEF ShownGrows
<1>3. Indexed(r.who.org) \subseteq Indexed(r.who.org)'
  BY DEF Indexed, WorkerGrows
<1>4. Excused(r) \subseteq Excused(r)' /\ Sought(r)' = Sought(r)
  BY <1>2 DEF Excused, Sought
<1>5. \A i \in r.began : content'[i] # None /\ content'[i].org = r.who.org
  BY DEF ReadOK, WorkerGrows, Run
<1>. QED BY <1>2, <1>3, <1>4, <1>5 DEF ReadOK

LEMMA ReadStep ==
  ASSUME Inv, ReadsOK, WorkerGrows, ShownGrows,
         \A d \in Devices : runs'[d] = runs[d] \/ \E r : r = runs'[d] /\ ReadOK(d, r)'
  PROVE  ReadsOK'
<1>. SUFFICES ASSUME NEW d \in Devices PROVE ReadOK(d, runs[d])'
  BY DEF ReadsOK
<1>1. PICK r : r = runs'[d] /\ ReadOK(d, r)'
  <2>1. PICK x \in Run : x = runs[d]
    BY DEF Inv, PublicationTypeOK
  <2>2. ReadOK(d, x)'
    BY <2>1, ReadStays DEF ReadsOK
  <2>. QED BY <2>1, <2>2
<1>. QED BY <1>1 DEF ReadOK

(* A page leaves out no key up to its cursor.                               *)
LEMMA PageIsDense ==
  ASSUME NEW keys \in SUBSET Ids, NEW from \in 0 .. MaxId,
         NEW i \in keys, i > from, i <= Largest(FirstOf(keys, from), from)
  PROVE  i \in FirstOf(keys, from)
<1> DEFINE page == FirstOf(keys, from)
           upto(k) == {j \in keys : j > from /\ j <= k}
<1>1. page \subseteq keys /\ page \in SUBSET Ids
  BY DEF FirstOf
<1>2. page \cup {from} \subseteq 0 .. MaxId /\ page \cup {from} # {} /\ MaxId \in Nat
  BY <1>1, PublicationAssumption DEF Ids
<1>. HIDE DEF page
<1>3. PICK m \in page \cup {from} : \A j \in page \cup {from} : j <= m
  BY <1>2, LastIsThere
<1>4. PICK l \in page \cup {from} : l = Largest(page, from)
  BY <1>3 DEF Largest
<1>5. i \in Nat /\ from \in Nat /\ i > from /\ i <= l
  BY <1>4, PublicationAssumption DEF Ids, page
<1>6. l \in page
  BY <1>5
<1>7. Cardinality(upto(l)) <= PageSize /\ l \in Nat
  BY <1>1, <1>6 DEF page, FirstOf, Ids
<1>8. upto(i) \subseteq upto(l)
  <2>1. \A j \in keys : j \in Nat
    BY PublicationAssumption DEF Ids
  <2>2. ASSUME NEW j \in keys, j <= i PROVE j <= l
    BY <1>5, <1>7, <2>1, <2>2
  <2>. QED BY <2>2, Zenon
<1>9. IsFiniteSet(upto(l))
  <2>1. IsFiniteSet(1 .. MaxId)
    BY PublicationAssumption, FS_Interval
  <2>2. upto(l) \subseteq 1 .. MaxId
    BY DEF Ids
  <2>. QED BY <2>1, <2>2, FS_Subset
<1>10. Cardinality(upto(i)) <= Cardinality(upto(l)) /\ Cardinality(upto(i)) \in Nat
       /\ Cardinality(upto(l)) \in Nat
  BY <1>8, <1>9, FS_Subset, FS_CardinalityType
<1>11. Cardinality(upto(i)) <= PageSize
  BY <1>7, <1>10, PublicationAssumption
<1>. QED BY <1>5, <1>11 DEF page, FirstOf

(* The worker and the devices only add to what there is and what is shown.  *)
LEMMA StepAdds ==
  ASSUME Inv, [Next]_vars PROVE WorkerGrows /\ ShownGrows
<1>1. CASE UNCHANGED <<worker, links, hidden>>
  BY <1>1 DEF worker, WorkerGrows, ShownGrows, Shown
<1>2. CASE UNCHANGED <<worker, hidden>> /\ \A d \in Devices, o \in Orgs : links[d][o] \subseteq links'[d][o]
  BY <1>2 DEF worker, WorkerGrows, ShownGrows, Shown
<1>3. CASE PolicyStep \/ UNCHANGED vars
  BY <1>1, <1>3 DEF PolicyStep, vars, storage
<1>4. ASSUME NEW p \in DOMAIN presses, Send(p) \/ LoseAnswer(p) \/ Authorize(p) \/ Break(p)
      PROVE  UNCHANGED <<worker, links, hidden>>
  BY <1>4 DEF Send, LoseAnswer, Authorize, Break, storage
<1>5. ASSUME NEW d, NEW o, NEW more, links' = [links EXCEPT ![d][o] = @ \cup more]
       PROVE  \A e \in Devices, t \in Orgs : links[e][t] \subseteq links'[e][t]
  <2>. SUFFICES ASSUME NEW e \in Devices, NEW t \in Orgs PROVE links[e][t] \subseteq links'[e][t]
    OBVIOUS
  <2>1. links \in [Devices -> [Orgs -> SUBSET Ids]]
    BY DEF Inv, PublicationTypeOK
  <2>2. CASE e = d
    BY <1>5, <2>1, <2>2
  <2>3. CASE e # d
    BY <1>5, <2>1, <2>3
  <2>. QED BY <2>2, <2>3
<1>6. ASSUME NEW p \in DOMAIN presses, Hear(p)
      PROVE  UNCHANGED <<worker, hidden>>
             /\ \A d \in Devices, o \in Orgs : links[d][o] \subseteq links'[d][o]
  <2>1. PICK x : x = presses[p]
    OBVIOUS
  <2>2. \/ UNCHANGED links
        \/ links' = [links EXCEPT ![x.dev][x.who.org] = @ \cup ({x.id} \ hidden[x.dev][x.who.org])]
    BY <1>6, <2>1 DEF Hear
  <2>3. \A d \in Devices, o \in Orgs : links[d][o] \subseteq links'[d][o]
    BY <1>5, <2>2
  <2>. QED BY <1>6, <2>3 DEF Hear
<1>7. ASSUME NEW p \in DOMAIN presses, StoreContent(p) PROVE WorkerGrows /\ ShownGrows
  <2>1. UNCHANGED <<index, expired, links, hidden>>
    BY <1>7 DEF StoreContent, storage
  <2>2. \A i \in Ids : content[i] # None => content'[i] = content[i]
    BY <1>7 DEF StoreContent, Inv, PublicationTypeOK
  <2>. QED BY <2>1, <2>2 DEF WorkerGrows, ShownGrows, Shown
<1>8. ASSUME NEW p \in DOMAIN presses, StoreIndex(p) PROVE WorkerGrows /\ ShownGrows
  BY <1>8 DEF StoreIndex, storage, WorkerGrows, ShownGrows, Shown
<1>9. ASSUME NEW i \in Ids, Expire(i) PROVE WorkerGrows /\ ShownGrows
  BY <1>9 DEF Expire, storage, WorkerGrows, ShownGrows, Shown
<1>10. ASSUME NEW d \in Devices, Publish(d) \/ Restart(d) \/ StartRun(d) \/ AskPage(d) \/ FailRun(d)
      PROVE  UNCHANGED <<worker, links, hidden>>
  BY <1>10 DEF Publish, Restart, StartRun, AskPage, FailRun, storage
<1>11. ASSUME NEW d \in Devices, ServePage(d) PROVE WorkerGrows /\ ShownGrows
  BY <1>11 DEF ServePage, storage, WorkerGrows, ShownGrows, Shown
<1>12. ASSUME NEW d \in Devices, ReceivePage(d)
       PROVE  UNCHANGED <<worker, hidden>>
              /\ \A e \in Devices, o \in Orgs : links[e][o] \subseteq links'[e][o]
  <2>1. PICK r : r = runs[d]
    OBVIOUS
  <2>2. \/ UNCHANGED links
        \/ links' = [links EXCEPT ![d][r.who.org] = @ \cup (r.page \ hidden[d][r.who.org])]
    BY <1>12, <2>1 DEF ReceivePage
  <2>3. \A e \in Devices, o \in Orgs : links[e][o] \subseteq links'[e][o]
    BY <1>5, <2>2
  <2>. QED BY <1>12, <2>3 DEF ReceivePage
<1>13. ASSUME NEW d \in Devices, NEW o \in Orgs, NEW gone,
              hidden' = [hidden EXCEPT ![d][o] = @ \cup gone],
              links' = [links EXCEPT ![d][o] = @ \ gone], UNCHANGED worker
       PROVE  WorkerGrows /\ ShownGrows
  BY <1>13 DEF worker, WorkerGrows, ShownGrows, Shown, Inv, PublicationTypeOK
<1>14. ASSUME NEW d \in Devices, ClearExpired(d) \/ \E i \in Ids : Hide(d, i)
       PROVE  WorkerGrows /\ ShownGrows
  <2>1. PICK o : o = session[d].org
    OBVIOUS
  <2>2. o \in Orgs /\ UNCHANGED worker
    BY <1>14, <2>1, OwnOrg DEF ClearExpired, Hide
  <2>3. PICK gone : /\ hidden' = [hidden EXCEPT ![d][o] = @ \cup gone]
                    /\ links' = [links EXCEPT ![d][o] = @ \ gone]
    <3>1. CASE ClearExpired(d)
      BY <2>1, <3>1 DEF ClearExpired
    <3>2. ASSUME NEW i \in Ids, Hide(d, i)
          PROVE  /\ hidden' = [hidden EXCEPT ![d][o] = @ \cup {i}]
                 /\ links' = [links EXCEPT ![d][o] = @ \ {i}]
      BY <2>1, <3>2 DEF Hide
    <3>. QED BY <1>14, <3>1, <3>2
  <2>. QED BY <1>13, <2>2, <2>3
<1>. QED BY <1>1, <1>2, <1>3, <1>4, <1>6, <1>7, <1>8, <1>9, <1>10, <1>11, <1>12, <1>14 DEF Next

LEMMA NothingReadYet == \A d \in Devices : ReadOK(d, NoRun)
BY DEF ReadOK, NoRun

LEMMA StartRunReads ==
  ASSUME Inv, ReadsOK, NEW d \in Devices, StartRun(d), WorkerGrows, ShownGrows PROVE ReadsOK'
<1>1. PICK who \in Identity : who = session[d]
  BY FeaturePolicyAssumption DEF StartRun, Inv, PolicyInv, PolicyTypeOK
<1>2. PICK r : /\ r = [NoRun EXCEPT !.stage = "next", !.who = who, !.epoch = epoch[d],
                         !.listed = Indexed(who.org),
                         !.began = {i \in Ids : Alive(i) /\ content[i].org = who.org}]
               /\ runs' = [runs EXCEPT ![d] = r]
  BY <1>1 DEF StartRun
<1>3. /\ r.stage = "next" /\ r.who = who /\ r.listed = Indexed(who.org) /\ r.page = {}
      /\ r.began = {i \in Ids : Alive(i) /\ content[i].org = who.org}
      /\ r.route = "recover" /\ r.cursor = 0
  BY <1>2 DEF NoRun
<1>4. UNCHANGED <<content, index, expired, links, hidden>>
  BY DEF StartRun, worker, storage
<1>5. \A i \in r.began : i > 0 /\ content[i] # None
  BY <1>3 DEF Ids, Alive
<1>6. ReadOK(d, r)'
  BY <1>3, <1>4, <1>5 DEF ReadOK, Sought, Indexed
<1>7. \A e \in Devices : runs'[e] = IF e = d THEN r ELSE runs[e]
  BY <1>2 DEF Inv, PublicationTypeOK
<1>. QED BY <1>6, <1>7, ReadStep

LEMMA EndRunReads ==
  ASSUME Inv, ReadsOK, NEW d \in Devices, EndRun(d), WorkerGrows, ShownGrows PROVE ReadsOK'
<1>1. \A e \in Devices : runs'[e] = IF e = d THEN NoRun ELSE runs[e]
  BY DEF EndRun, Inv, PublicationTypeOK
<1>2. ReadOK(d, NoRun)'
  BY DEF ReadOK, NoRun
<1>. QED BY <1>1, <1>2, ReadStep

LEMMA AskPageReads ==
  ASSUME Inv, ReadsOK, NEW d \in Devices, AskPage(d), WorkerGrows, ShownGrows PROVE ReadsOK'
<1>1. CASE EndRun(d)
  BY <1>1, EndRunReads
<1>2. CASE runs' = [runs EXCEPT ![d].stage = "asked"] /\ runs[d].stage = "next"
  <2>1. PICK x \in Run : x = runs[d] /\ ReadOK(d, x)'
    BY ReadStays DEF Inv, PublicationTypeOK, ReadsOK
  <2>2. PICK r : r = [x EXCEPT !.stage = "asked"]
    OBVIOUS
  <2>3. /\ r.stage = "asked" /\ r.who = x.who /\ r.listed = x.listed /\ r.page = x.page
        /\ r.began = x.began /\ r.route = x.route /\ r.cursor = x.cursor
    BY <2>2 DEF Run
  <2>4. ReadOK(d, r)'
    BY <1>2, <2>1, <2>3 DEF ReadOK, Sought, Excused
  <2>5. \A e \in Devices : runs'[e] = IF e = d THEN r ELSE runs[e]
    BY <1>2, <2>1, <2>2 DEF Inv, PublicationTypeOK
  <2>. QED BY <2>4, <2>5, ReadStep
<1>. QED BY <1>1, <1>2 DEF AskPage

LEMMA ServePageReads ==
  ASSUME Inv, ReadsOK, NEW d \in Devices, ServePage(d), WorkerGrows, ShownGrows PROVE ReadsOK'
<1>1. PICK x \in Run : x = runs[d] /\ ReadOK(d, x) /\ x.stage = "asked"
  BY DEF Inv, PublicationTypeOK, ReadsOK, ServePage
<1>2. PICK o \in Orgs : o = x.who.org
  BY <1>1 DEF ReadOK, Identity
<1>3. PICK keys \in SUBSET Ids :
        keys = IF x.route = "recover" THEN {i \in Ids : Alive(i)} ELSE Indexed(o)
  BY DEF Indexed
<1>4. PICK page \in SUBSET Ids : page = FirstOf(keys, x.cursor)
  BY DEF FirstOf
<1>5. PICK cursor \in 0 .. MaxId : cursor = Largest(page, x.cursor)
  BY CursorIsAKey DEF Run
<1>6. PICK own \in SUBSET Ids : own = Own(o, page)
  BY DEF Own
<1>7. PICK r : /\ r = [x EXCEPT !.stage = "answered", !.page = own, !.cursor = cursor,
                         !.more = \E i \in keys : i > cursor]
               /\ runs' = [runs EXCEPT ![d] = r]
  BY <1>1, <1>2, <1>3, <1>4, <1>5, <1>6 DEF ServePage
<1>8. /\ r.stage = "answered" /\ r.who = x.who /\ r.listed = x.listed /\ r.page = own
      /\ r.began = x.began /\ r.route = x.route /\ r.cursor = cursor
      /\ r.more <=> \E i \in keys : i > cursor
  BY <1>7 DEF Run
<1>9. UNCHANGED <<content, expired, links, hidden>>
  BY DEF ServePage, storage
<1>10. Sought(r) = Sought(x) /\ Excused(r)' = Excused(x)
  BY <1>8, <1>9 DEF Sought, Excused
<1>11. ASSUME NEW i \in Sought(x)
       PROVE  i \in Ids /\ content[i].org = o /\ (i \in keys \/ i \in Excused(x))
  <2>1. CASE x.route = "recover"
    BY <1>1, <1>2, <1>3, <1>11, <2>1 DEF Sought, Excused, ReadOK, Alive, Run
  <2>2. CASE x.route # "recover"
    <3>1. i \in Indexed(o)
      BY <1>1, <1>2, <1>11, <2>2 DEF Sought, ReadOK
    <3>2. i \in Ids /\ content[i].org = o
      BY <3>1 DEF Indexed, Inv, ListedWereStored
    <3>. QED BY <1>3, <2>2, <3>1, <3>2
  <2>. QED BY <2>1, <2>2
<1>12. ASSUME NEW i \in Sought(x)
       PROVE  i \in Shown(d, o) \cup Excused(x) \cup own \/ i > cursor
  <2>1. i \in Shown(d, o) \cup Excused(x) \/ i > x.cursor
    BY <1>1, <1>2, <1>12 DEF ReadOK
  <2>2. i \in Ids /\ content[i].org = o /\ (i \in keys \/ i \in Excused(x))
    BY <1>11, <1>12
  <2>3. CASE i \in keys /\ i > x.cursor /\ ~(i > cursor)
    <3>1. x.cursor \in 0 .. MaxId /\ i <= cursor
      BY <2>2, <2>3, PublicationAssumption DEF Run, Ids
    <3>2. i \in page
      BY <1>4, <1>5, <2>3, <3>1, PageIsDense
    <3>. QED BY <1>6, <2>2, <3>2 DEF Own
  <2>. QED BY <2>1, <2>2, <2>3
<1>13. ~r.more => \A i \in Sought(x) : i > cursor => i \in Excused(x)
  BY <1>8, <1>11
<1>14. ReadOK(d, x)'
  BY <1>1, ReadStays
<1>15. Shown(d, o)' = Shown(d, o)
  BY <1>9 DEF Shown
<1>16. ReadOK(d, r)'
  BY <1>1, <1>2, <1>8, <1>10, <1>12, <1>13, <1>14, <1>15 DEF ReadOK, Sought
<1>17. \A e \in Devices : runs'[e] = IF e = d THEN r ELSE runs[e]
  BY <1>7 DEF Inv, PublicationTypeOK
<1>. QED BY <1>16, <1>17, ReadStep

LEMMA ReceivePageReads ==
  ASSUME Inv, ReadsOK, NEW d \in Devices, ReceivePage(d), WorkerGrows, ShownGrows PROVE ReadsOK'
<1>1. CASE EndRun(d)
  BY <1>1, EndRunReads
<1>2. CASE ContextIsCurrent(d, runs[d])
  <2>1. PICK x \in Run : /\ x = runs[d] /\ x.stage = "answered"
                         /\ ReadOK(d, x) /\ ReadOK(d, x)'
    BY ReadStays DEF Inv, PublicationTypeOK, ReadsOK, ReceivePage
  <2>2. PICK o \in Orgs : o = x.who.org
    BY <2>1 DEF ReadOK, Identity
  <2>3. x.page \subseteq Shown(d, o)'
    BY <1>2, <2>1, <2>2 DEF ReceivePage, Shown, Inv, PublicationTypeOK
  <2>4. \A i \in Sought(x) :
          /\ i \in Shown(d, o)' \cup Excused(x)' \/ i > x.cursor
          /\ ~x.more => i \in Shown(d, o)' \cup Excused(x)'
    BY <2>1, <2>2, <2>3 DEF ReadOK, Sought
  <2>5. CASE x.more
    <3>1. PICK r : /\ r = [x EXCEPT !.stage = "next", !.page = {}, !.more = FALSE]
                   /\ runs' = [runs EXCEPT ![d] = r]
      BY <1>2, <2>1, <2>5 DEF ReceivePage, Run
    <3>2. /\ r.stage = "next" /\ r.who = x.who /\ r.listed = x.listed /\ r.page = {}
          /\ r.began = x.began /\ r.route = x.route /\ r.cursor = x.cursor
      BY <3>1 DEF Run
    <3>3. ReadOK(d, r)'
      BY <2>1, <2>2, <2>4, <3>2 DEF ReadOK, Sought, Excused
    <3>4. \A e \in Devices : runs'[e] = IF e = d THEN r ELSE runs[e]
      BY <3>1 DEF Inv, PublicationTypeOK
    <3>. QED BY <3>3, <3>4, ReadStep
  <2>6. CASE ~x.more /\ x.route = "recover"
    <3>1. PICK r : /\ r = [x EXCEPT !.stage = "next", !.page = {}, !.more = FALSE,
                             !.route = "history", !.cursor = 0]
                   /\ runs' = [runs EXCEPT ![d] = r]
      BY <1>2, <2>1, <2>6 DEF ReceivePage
    <3>2. /\ r.stage = "next" /\ r.who = x.who /\ r.listed = x.listed /\ r.page = {}
          /\ r.began = x.began /\ r.route = "history" /\ r.cursor = 0
      BY <3>1 DEF Run
    <3>3. r.began \subseteq Shown(d, o)' \cup expired'
      BY <2>4, <2>6, <3>2 DEF Sought, Excused
    <3>4. \A i \in Sought(r) : i > 0
      BY <2>1, <3>2 DEF Sought, Run, Ids
    <3>5. ReadOK(d, r)'
      BY <2>1, <2>2, <3>2, <3>3, <3>4 DEF ReadOK, Sought
    <3>6. \A e \in Devices : runs'[e] = IF e = d THEN r ELSE runs[e]
      BY <3>1 DEF Inv, PublicationTypeOK
    <3>. QED BY <3>5, <3>6, ReadStep
  <2>7. CASE ~x.more /\ x.route = "history"
    <3>1. PICK r : /\ r = [x EXCEPT !.stage = "complete", !.page = {}, !.cursor = 0]
                   /\ runs' = [runs EXCEPT ![d] = r]
      BY <1>2, <2>1, <2>7 DEF ReceivePage
    <3>2. /\ r.stage = "complete" /\ r.who = x.who /\ r.listed = x.listed /\ r.page = {}
          /\ r.began = x.began /\ r.route = x.route
      BY <3>1 DEF Run
    <3>3. r.listed \subseteq Shown(d, o)'
      BY <2>4, <2>7, <3>2 DEF Sought, Excused
    <3>4. ReadOK(d, r)'
      BY <2>1, <2>2, <2>7, <3>2, <3>3 DEF ReadOK
    <3>5. \A e \in Devices : runs'[e] = IF e = d THEN r ELSE runs[e]
      BY <3>1 DEF Inv, PublicationTypeOK
    <3>. QED BY <3>4, <3>5, ReadStep
  <2>. QED BY <2>1, <2>5, <2>6, <2>7 DEF Run
<1>. QED BY <1>1, <1>2 DEF ReceivePage

LEMMA ReadsPreserved == Inv /\ ReadsOK /\ [Next]_vars => ReadsOK'
<1>. SUFFICES ASSUME Inv, ReadsOK, [Next]_vars PROVE ReadsOK'
  OBVIOUS
<1>1. WorkerGrows /\ ShownGrows
  BY StepAdds
<1>2. CASE UNCHANGED runs
  BY <1>1, <1>2, ReadStep
<1>3. ASSUME NEW d \in Devices, StartRun(d) \/ AskPage(d) \/ ServePage(d) \/ ReceivePage(d) PROVE ReadsOK'
  BY <1>1, <1>3, StartRunReads, AskPageReads, ServePageReads, ReceivePageReads
<1>4. ASSUME NEW d \in Devices, FailRun(d) \/ Restart(d) PROVE ReadsOK'
  BY <1>1, <1>4, EndRunReads DEF FailRun, Restart
<1>5. ASSUME NEW p \in DOMAIN presses,
             \/ Send(p) \/ Hear(p) \/ LoseAnswer(p)
             \/ Authorize(p) \/ StoreContent(p) \/ StoreIndex(p) \/ Break(p)
      PROVE  UNCHANGED runs
  BY <1>5 DEF Send, Hear, LoseAnswer, Authorize, StoreContent, StoreIndex, Break
<1>6. ASSUME NEW d \in Devices, Publish(d) \/ ClearExpired(d) \/ \E i \in Ids : Hide(d, i)
      PROVE  UNCHANGED runs
  BY <1>6 DEF Publish, ClearExpired, Hide
<1>7. ASSUME PolicyStep \/ \E i \in Ids : Expire(i) PROVE UNCHANGED runs
  BY <1>7 DEF PolicyStep, Expire
<1>. QED BY <1>2, <1>3, <1>4, <1>5, <1>6, <1>7 DEF Next, vars

(* A reading of the register that ended without an error has shown every    *)
(* copy that was there when it began, whatever was published, hidden or     *)
(* expired between its pages (syncSharedHistory of shareProposalService.ts, *)
(* history and history-recover of proposalRepository.ts).                   *)
THEOREM ReadingsMissNothing == Spec => []ReadingIsComplete
<1>1. Init => ReadsOK
  BY NothingReadYet DEF Init, ReadsOK
<1>2. ReadsOK => ReadingIsComplete
  BY DEF ReadsOK, ReadOK, ReadingIsComplete, Shown
<1>. QED BY <1>1, <1>2, ReadsPreserved, InvAlways, PTL DEF Spec
=============================================================================
