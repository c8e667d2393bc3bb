-------------------------- MODULE AssistantProofs --------------------------
(***************************************************************************)
(* What holds of an agent's call on both sides of the window.              *)
(*                                                                         *)
(* The bridge, for any clients, tools and number of calls, reloads and     *)
(* switches: an answer ends the call it answers, and the endpoint comes to *)
(* be as it was last asked to be.                                          *)
(*                                                                         *)
(* The tools, for any users, proposals, calls and lengths of the queue and *)
(* the activity: a change is made once, where it was asked for, as allowed *)
(* at that moment, and its undo takes back no other work.                  *)
(***************************************************************************)
EXTENDS McpBridge, AgentTools, TLAPS

-----------------------------------------------------------------------------
(* The bridge. *)

Ended == {"ok", "denied"}

(* A call that was asked waits in the bridge; an answer names its call.     *)
CallOK(c) ==
  LET q == calls[c] IN
  /\ q.stage # "idle" => q.n \in 1..MaxCalls
  /\ q.stage = "asked" => IdOf(c) \in waiting
  /\ q.stage = "done" /\ q.end \in Ended => q.of = IdOf(c)

CallsOK ==
  /\ calls \in [Clients -> Call] /\ waiting \subseteq Id
  /\ \A c \in Clients : CallOK(c)

ChannelsOK ==
  /\ snapshot # None => snapshot \subseteq Tools
  /\ toDocument \in Seq(Id) /\ toMain \in Seq(Message)
  /\ window \in {"loading", "live", "leaving", "crashed", "closed"}
  /\ announced # None => announced \subseteq Tools
  /\ allowed \subseteq Tools /\ running \subseteq Id

Configured ==
  /\ config \in Config /\ file = config /\ config.token <= switches
  /\ switches \in 0..MaxSwitches

(* What was asked last is the last in the queue, or what the configuration  *)
(* says.                                                                    *)
LastAsked ==
  /\ queue \in Seq(BOOLEAN) /\ asked \in BOOLEAN
  /\ queue = <<>> => (asked <=> config.enabled)
  /\ queue # <<>> => (asked <=> queue[Len(queue)])

(* The server follows the configuration once no task is under way.          *)
Follows ==
  /\ server \in {"off", "binding", "on", "closing"} /\ failed \in BOOLEAN
  /\ task \in {"none", "start", "stop", "close"}
  /\ server = "closing" <=> task = "close"
  /\ task = "start" => config.enabled
  /\ task \in {"stop", "close"} => ~config.enabled /\ ~failed
  /\ task \in {"none", "start"} =>
       \/ server = "binding" /\ config.enabled
       \/ server = "on" /\ config.enabled /\ ~failed
       \/ server = "off" /\ (failed <=> config.enabled)

SwitchOK == Configured /\ LastAsked /\ Follows

Inv == CallsOK /\ ChannelsOK /\ SwitchOK

-----------------------------------------------------------------------------
LEMMA BoundsAreNaturals ==
  MaxCalls \in Nat /\ MaxChanges \in Nat /\ MaxLosses \in Nat /\ MaxSwitches \in Nat
BY McpAssumption

LEMMA Initially == Init => Inv
<1> SUFFICES ASSUME Init PROVE Inv
  OBVIOUS
<1>1. CallsOK
  BY BoundsAreNaturals DEF Init, CallsOK, CallOK, Call, Ended
<1>2. ChannelsOK
  <2>1. toDocument \in Seq(Id) /\ toMain \in Seq(Message) /\ running \subseteq Id
    BY DEF Init
  <2>2. snapshot = None /\ announced = None /\ allowed \subseteq Tools
    BY DEF Init
  <2>. QED BY <2>1, <2>2 DEF Init, ChannelsOK
<1>3. Configured /\ config.enabled \in BOOLEAN
  BY BoundsAreNaturals DEF Init, Configured, Config
<1>4. LastAsked
  BY <1>3 DEF Init, LastAsked
<1>5. Follows
  BY <1>3 DEF Init, Follows
<1>. QED BY <1>1, <1>2, <1>3, <1>4, <1>5 DEF Inv, SwitchOK

-----------------------------------------------------------------------------
(* The calls. *)

LEMMA OneCall ==
  ASSUME CallsOK, NEW c \in Clients, NEW n \in Call, calls' = [calls EXCEPT ![c] = n],
         waiting' \subseteq Id, CallOK(c)',
         \A d \in Clients \ {c} : IdOf(d) \in waiting => IdOf(d) \in waiting'
  PROVE  CallsOK'
<1>1. /\ calls' \in [Clients -> Call] /\ calls'[c] = n
      /\ \A d \in Clients \ {c} : calls'[d] = calls[d]
  BY DEF CallsOK
<1>2. ASSUME NEW d \in Clients \ {c} PROVE CallOK(d)'
  BY <1>1 DEF CallsOK, CallOK, IdOf
<1>. QED BY <1>1, <1>2 DEF CallsOK

LEMMA EndedIs ==
  ASSUME calls \in [Clients -> Call], NEW c \in Clients, NEW how \in Ends, NEW of \in Id \cup {None}
  PROVE  \E n \in Call :
           /\ End(c, how, of) = [calls EXCEPT ![c] = n]
           /\ n.stage = "done" /\ n.n = calls[c].n /\ n.end = how /\ n.of = of
<1>1. calls[c] \in Call
  OBVIOUS
<1>2. PICK n : n = [calls[c] EXCEPT !.stage = "done", !.end = how, !.of = of]
  OBVIOUS
<1>3. n \in Call /\ n.stage = "done" /\ n.n = calls[c].n /\ n.end = how /\ n.of = of
  BY <1>1, <1>2 DEF Call
<1>4. End(c, how, of) = [calls EXCEPT ![c] = n]
  BY <1>2 DEF End
<1>. QED BY <1>3, <1>4

LEMMA EndKeeps ==
  ASSUME CallsOK, NEW c \in Clients, NEW how \in Ends, NEW of \in Id \cup {None},
         calls[c].stage # "idle", how \in Ended => of = IdOf(c),
         calls' = End(c, how, of), waiting' \subseteq waiting,
         \A d \in Clients \ {c} : IdOf(d) \in waiting => IdOf(d) \in waiting'
  PROVE  CallsOK'
<1>1. PICK n \in Call :
        /\ calls' = [calls EXCEPT ![c] = n]
        /\ n.stage = "done" /\ n.n = calls[c].n /\ n.end = how /\ n.of = of
  BY EndedIs DEF CallsOK
<1>2. calls'[c] = n
  BY <1>1 DEF CallsOK
<1>3. CallOK(c)'
  BY <1>1, <1>2 DEF CallsOK, CallOK, IdOf
<1>. QED BY <1>1, <1>3, OneCall DEF CallsOK

LEMMA AskKeeps ==
  ASSUME CallsOK, Configured, NEW c \in Clients, NEW tool \in Tools, Ask(c, tool)
  PROVE  CallsOK'
<1>1. PICK n : n = [n |-> calls[c].n + 1, tool |-> tool, token |-> file.token, of |-> None,
                    stage |-> IF file.enabled THEN "sent" ELSE "done",
                    end |-> IF file.enabled THEN None ELSE "disabled"]
  OBVIOUS
<1>2. calls' = [calls EXCEPT ![c] = n] /\ waiting' = waiting /\ calls[c].n < MaxCalls
  BY <1>1 DEF Ask, bridge
<1>3. calls[c].n + 1 \in 1..MaxCalls
  BY <1>2, BoundsAreNaturals DEF CallsOK, Call
<1>4. file.token \in 0..MaxSwitches
  BY DEF Configured, Config
<1>5. n.n \in 1..MaxCalls /\ n.stage \in {"sent", "done"} /\ n.end \in {None, "disabled"}
      /\ (n.stage = "done" => n.end = "disabled")
  BY <1>1, <1>3
<1>6. n \in Call
  BY <1>1, <1>3, <1>4, BoundsAreNaturals DEF Call, Ends
<1>7. calls'[c] = n
  BY <1>2 DEF CallsOK
<1>8. CallOK(c)'
  BY <1>5, <1>7 DEF CallOK, Ended
<1>. QED BY <1>2, <1>6, <1>8, OneCall DEF CallsOK

LEMMA StageIs ==
  ASSUME calls \in [Clients -> Call], NEW c \in Clients, NEW stage \in {"reading", "asked"}
  PROVE  \E n \in Call : /\ [calls EXCEPT ![c].stage = stage] = [calls EXCEPT ![c] = n]
                         /\ n.stage = stage /\ n.n = calls[c].n
<1>1. calls[c] \in Call
  OBVIOUS
<1>2. PICK n : n = [calls[c] EXCEPT !.stage = stage]
  OBVIOUS
<1>3. n \in Call /\ n.stage = stage /\ n.n = calls[c].n
  BY <1>1, <1>2 DEF Call
<1>. QED BY <1>2, <1>3

LEMMA ArriveKeeps ==
  ASSUME CallsOK, NEW c \in Clients, Arrive(c)
  PROVE  CallsOK'
<1>1. calls[c].stage = "sent" /\ waiting' = waiting
  BY DEF Arrive, bridge
<1>2. CASE \E how \in {"unreachable", "refused"} : calls' = End(c, how, None)
  BY <1>1, <1>2, EndKeeps DEF Ended, Ends
<1>3. CASE calls' = [calls EXCEPT ![c].stage = "reading"]
  <2>1. PICK n \in Call : /\ calls' = [calls EXCEPT ![c] = n]
                          /\ n.stage = "reading" /\ n.n = calls[c].n
    BY <1>3, StageIs DEF CallsOK
  <2>2. calls'[c] = n
    BY <2>1 DEF CallsOK
  <2>3. CallOK(c)'
    BY <1>1, <2>1, <2>2 DEF CallsOK, CallOK
  <2>. QED BY <1>1, <2>1, <2>3, OneCall DEF CallsOK
<1>. QED BY <1>2, <1>3 DEF Arrive

LEMMA InvokeKeeps ==
  ASSUME CallsOK, NEW c \in Clients, Invoke(c)
  PROVE  CallsOK'
<1>1. calls[c].stage = "reading" /\ IdOf(c) \in Id
  BY DEF Invoke, CallsOK, CallOK, IdOf, Id
<1>2. CASE \E how \in {"notReady", "unavailable"} : calls' = End(c, how, None) /\ waiting' = waiting
  BY <1>1, <1>2, EndKeeps DEF Ended, Ends
<1>3. CASE calls' = [calls EXCEPT ![c].stage = "asked"] /\ waiting' = waiting \cup {IdOf(c)}
  <2>1. PICK n \in Call : /\ calls' = [calls EXCEPT ![c] = n]
                          /\ n.stage = "asked" /\ n.n = calls[c].n
    BY <1>3, StageIs DEF CallsOK
  <2>2. calls'[c] = n
    BY <2>1 DEF CallsOK
  <2>3. CallOK(c)'
    BY <1>1, <1>3, <2>1, <2>2 DEF CallsOK, CallOK, IdOf
  <2>. QED BY <1>1, <1>3, <2>1, <2>3, OneCall DEF CallsOK
<1>. QED BY <1>2, <1>3 DEF Invoke

LEMMA IdsAreUnique ==
  ASSUME NEW id \in Id, NEW c \in Clients
  PROVE  CallOf(id) \in Clients /\ (IdOf(c) = id => c = CallOf(id) /\ calls[c].n = id[2])
         /\ (calls[CallOf(id)].n = id[2] => IdOf(CallOf(id)) = id)
BY DEF Id, CallOf, IdOf

(* A call that stops waiting ends, if it is still the one its client makes. *)
LEMMA LeaveKeeps ==
  ASSUME CallsOK, NEW id \in Id, waiting' = waiting \ {id}, NEW how \in Ends,
         NEW of \in {id, None}, how \in Ended => of = id,
         calls' = (IF id \in waiting /\ Current(id) THEN End(CallOf(id), how, of) ELSE calls)
  PROVE  CallsOK'
<1>1. CallOf(id) \in Clients /\ waiting' \subseteq waiting
  BY DEF Id, CallOf
<1>2. \A d \in Clients \ {CallOf(id)} : IdOf(d) \in waiting => IdOf(d) \in waiting'
  BY IdsAreUnique
<1>3. CASE id \in waiting /\ Current(id)
  <2>1. calls[CallOf(id)].stage = "asked" /\ IdOf(CallOf(id)) = id
    BY <1>1, <1>3, IdsAreUnique DEF Current
  <2>. QED BY <1>1, <1>2, <1>3, <2>1, EndKeeps
<1>4. CASE ~(id \in waiting /\ Current(id))
  <2>1. ASSUME NEW c \in Clients PROVE CallOK(c)'
    <3>1. calls[c].stage = "asked" => IdOf(c) \in waiting /\ IdOf(c) # id
      BY <1>4, IdsAreUnique DEF CallsOK, CallOK, Current
    <3>. QED BY <1>4, <3>1 DEF CallsOK, CallOK, IdOf
  <2>. QED BY <1>1, <1>4, <2>1 DEF CallsOK
<1>. QED BY <1>3, <1>4

LEMMA TimeoutKeeps ==
  ASSUME CallsOK, NEW id \in Id, Timeout(id)
  PROVE  CallsOK'
BY LeaveKeeps DEF Timeout, TimedOut, LeftAfter, Ended, Ends

LEMMA ReceiveKeeps ==
  ASSUME CallsOK, ChannelsOK, Receive
  PROVE  CallsOK'
<1>1. PICK m : m = Head(toMain)
  OBVIOUS
<1>2. m \in Message
  BY <1>1 DEF Receive, ChannelsOK
<1>3. CASE m.kind = "ready"
  BY <1>1, <1>3 DEF Receive, CallsOK, CallOK, IdOf
<1>4. CASE m.kind # "ready"
  <2>1. m.id \in Id /\ m.end \in Ended
    BY <1>2, <1>4 DEF Message, Ended
  <2>2. calls' = Settled(m.id, m.end) /\ waiting' = waiting \ {m.id}
    BY <1>1, <1>4 DEF Receive, LeftAfter
  <2>. QED BY <2>1, <2>2, LeaveKeeps DEF Settled, Ended, Ends
<1>. QED BY <1>3, <1>4

(* Several calls end at once; none that is left waits for what is gone.     *)
LEMMA ManyEnd ==
  ASSUME CallsOK, NEW who \in SUBSET Clients, NEW how \in {"unreachable", "unavailable"},
         calls' = [c \in Clients |-> IF c \in who
                     THEN [calls[c] EXCEPT !.stage = "done", !.end = how] ELSE calls[c]],
         waiting' \subseteq waiting,
         \A c \in who : calls[c].stage # "idle",
         \A c \in Clients \ who : calls[c].stage = "asked" => IdOf(c) \in waiting'
  PROVE  CallsOK'
<1>1. ASSUME NEW c \in Clients PROVE calls'[c] \in Call /\ CallOK(c)'
  <2>1. calls[c] \in Call
    BY DEF CallsOK
  <2>2. CASE c \in who
    <3>1. PICK n : n = [calls[c] EXCEPT !.stage = "done", !.end = how]
      OBVIOUS
    <3>2. n \in Call /\ n.stage = "done" /\ n.end = how /\ n.n = calls[c].n
      BY <2>1, <3>1 DEF Call, Ends
    <3>3. calls'[c] = n
      BY <2>2, <3>1
    <3>. QED BY <2>2, <3>2, <3>3 DEF CallsOK, CallOK, Ended
  <2>3. CASE c \notin who
    BY <2>1, <2>3 DEF CallsOK, CallOK, IdOf
  <2>. QED BY <2>2, <2>3
<1>2. calls' \in [Clients -> Call]
  <2>1. calls' = [c \in Clients |-> calls'[c]]
    OBVIOUS
  <2>. QED BY <1>1, <2>1
<1>. QED BY <1>1, <1>2 DEF CallsOK

LEMMA GoneKeeps ==
  ASSUME CallsOK, RendererGone
  PROVE  CallsOK'
<1>1. PICK who \in SUBSET Clients : who = {c \in Clients : IdOf(c) \in waiting /\ Current(IdOf(c))}
  OBVIOUS
<1>2. \A c \in Clients : IdOf(c)[1] = c /\ IdOf(c)[2] = calls[c].n
  BY DEF IdOf
<1>3. \A c \in who : calls[c].stage # "idle"
  BY <1>1, <1>2 DEF Current, CallOf
<1>4. \A c \in Clients \ who : calls[c].stage # "asked"
  BY <1>1, <1>2 DEF Current, CallOf, CallsOK, CallOK
<1>5. calls' = [c \in Clients |-> IF c \in who
                  THEN [calls[c] EXCEPT !.stage = "done", !.end = "unavailable"] ELSE calls[c]]
  BY <1>1 DEF RendererGone, Rejected
<1>. QED BY <1>3, <1>4, <1>5, ManyEnd DEF RendererGone

LEMMA DroppedKeeps ==
  ASSUME CallsOK, calls' = Dropped(AtServer), waiting' \subseteq waiting
  PROVE  CallsOK'
<1>1. PICK who \in SUBSET Clients : who = AtServer
  BY DEF AtServer
<1>2. \A c \in who : calls[c].stage # "idle"
  BY <1>1 DEF AtServer
<1>3. \A c \in Clients \ who : calls[c].stage # "asked"
  BY <1>1 DEF AtServer
<1>. QED BY <1>1, <1>2, <1>3, ManyEnd DEF Dropped

-----------------------------------------------------------------------------
(* The messages and the switches. *)

LEMMA SentIsLast ==
  ASSUME NEW S, NEW q \in Seq(S), NEW x \in S
  PROVE  LET s == Append(q, x) IN s \in Seq(S) /\ s # <<>> /\ s[Len(s)] = x
OBVIOUS

LEMMA TailKeepsLast ==
  ASSUME NEW S, NEW q \in Seq(S), q # <<>>
  PROVE  /\ Tail(q) \in Seq(S) /\ Head(q) \in S
         /\ Tail(q) = <<>> => q[Len(q)] = Head(q)
         /\ Tail(q) # <<>> => Tail(q)[Len(Tail(q))] = q[Len(q)]
<1>1. /\ Tail(q) \in Seq(S) /\ Head(q) \in S /\ Len(q) \in Nat \ {0}
      /\ Len(Tail(q)) = Len(q) - 1
  OBVIOUS
<1>2. \A n \in 1..Len(q) - 1 : Tail(q)[n] = q[n + 1]
  OBVIOUS
<1>3. Tail(q) = <<>> => Len(q) = 1
  BY <1>1
<1>4. Tail(q) # <<>> => Len(q) - 1 \in 1..Len(q) - 1
  BY <1>1
<1>. QED BY <1>1, <1>2, <1>3, <1>4

LEMMA ReadyIsAMessage ==
  ASSUME NEW tools \in SUBSET Tools PROVE [kind |-> "ready", tools |-> tools] \in Message
BY DEF Message

LEMMA RespondIsAMessage ==
  ASSUME NEW id \in Id, NEW end \in Ended PROVE [kind |-> "respond", id |-> id, end |-> end] \in Message
BY DEF Message, Ended

(* The document announces, or says nothing.                                 *)
Announces(tools) ==
  \/ UNCHANGED <<announced, toMain>>
  \/ announced' = tools /\ toMain' = Append(toMain, [kind |-> "ready", tools |-> tools])

LEMMA AnnounceKeeps ==
  ASSUME ChannelsOK, NEW tools \in SUBSET Tools, Announces(tools)
  PROVE  toMain' \in Seq(Message) /\ (announced' # None => announced' \subseteq Tools)
<1>1. PICK m : m = [kind |-> "ready", tools |-> tools]
  OBVIOUS
<1>2. m \in Message
  BY <1>1, ReadyIsAMessage
<1>. QED BY <1>1, <1>2 DEF ChannelsOK, Announces

LEMMA ChannelsKept ==
  ASSUME CallsOK, ChannelsOK, Next
  PROVE  ChannelsOK'
<1>. USE DEF bridge, channels, document, endpoint, bounds
<1>1. ASSUME NEW c \in Clients, NEW t \in Tools, Ask(c, t) PROVE ChannelsOK'
  BY <1>1 DEF Ask, ChannelsOK
<1>2. ASSUME NEW s \in SUBSET Tools, ChangePolicy(s) PROVE ChannelsOK'
  <2>1. Announces(s) /\ allowed' = s /\ UNCHANGED <<snapshot, toDocument, window, running>>
    BY <1>2 DEF ChangePolicy, Announces
  <2>. QED BY <2>1, AnnounceKeeps DEF ChannelsOK
<1>3. CASE StartReload
  BY <1>3 DEF StartReload, RendererGone, ChannelsOK
<1>4. CASE CrashWindow \/ CloseWindow \/ CommitReload \/ Restart
  <2>1. /\ announced' = None /\ running' = {} /\ toDocument' = <<>> /\ UNCHANGED allowed
        /\ snapshot' \in {snapshot, None} /\ (toMain' = toMain \/ toMain' = <<>>)
        /\ window' \in {"loading", "crashed", "closed"}
    BY <1>4 DEF CrashWindow, CloseWindow, CommitReload, Restart, RendererGone, RendererIdle, NoDocument
  <2>2. toMain' \in Seq(Message)
    <3>1. <<>> \in Seq(Message) /\ toMain \in Seq(Message)
      BY DEF ChannelsOK
    <3>. QED BY <2>1, <3>1
  <2>3. toDocument' \in Seq(Id)
    BY <2>1
  <2>4. running' \subseteq Id
    BY <2>1
  <2>. QED BY <2>1, <2>2, <2>3, <2>4 DEF ChannelsOK
<1>5. ASSUME NEW on \in BOOLEAN, SetEnabled(on) PROVE ChannelsOK'
  BY <1>5 DEF SetEnabled, ChannelsOK
<1>6. CASE RegenerateToken
  BY <1>6 DEF RegenerateToken, ChannelsOK
<1>7. ASSUME NEW c \in Clients, Arrive(c) PROVE ChannelsOK'
  BY <1>7 DEF Arrive, ChannelsOK
<1>8. ASSUME NEW c \in Clients, Invoke(c) PROVE ChannelsOK'
  <2>1. IdOf(c) \in Id
    BY <1>8 DEF Invoke, CallsOK, CallOK, IdOf, Id
  <2>. QED BY <1>8, <2>1 DEF Invoke, ChannelsOK
<1>9. ASSUME NEW id \in Id, Timeout(id) PROVE ChannelsOK'
  BY <1>9 DEF Timeout, ChannelsOK
<1>10. ASSUME NEW id \in Id, FinishCall(id) PROVE ChannelsOK'
  <2>1. PICK m : m = [kind |-> "respond", id |-> id, end |-> "ok"]
    OBVIOUS
  <2>2. m \in Message
    BY <2>1, RespondIsAMessage DEF Ended
  <2>. QED BY <1>10, <2>1, <2>2 DEF FinishCall, ChannelsOK
<1>11. CASE RunCall
  <2>1. PICK id : id = Head(toDocument)
    OBVIOUS
  <2>2. id \in Id /\ toDocument' \in Seq(Id)
    BY <1>11, <2>1 DEF RunCall, ChannelsOK
  <2>3. PICK m : m = [kind |-> "respond", id |-> id, end |-> "denied"]
    OBVIOUS
  <2>4. m \in Message
    BY <2>2, <2>3, RespondIsAMessage DEF Ended
  <2>5. /\ UNCHANGED <<snapshot, window, announced, allowed>>
        /\ \/ toMain' = Append(toMain, m) /\ running' = running
           \/ toMain' = toMain /\ running' = running \cup {id}
    BY <1>11, <2>1, <2>3 DEF RunCall
  <2>. QED BY <2>2, <2>4, <2>5 DEF ChannelsOK
<1>12. CASE Receive
  <2>1. PICK m : m = Head(toMain)
    OBVIOUS
  <2>2. m \in Message /\ toMain' \in Seq(Message)
    BY <1>12, <2>1 DEF Receive, ChannelsOK
  <2>3. m.kind = "ready" => m.tools \subseteq Tools
    BY <2>2 DEF Message
  <2>. QED BY <1>12, <2>1, <2>2, <2>3 DEF Receive, ChannelsOK
<1>13. CASE OpenWindow
  BY <1>13 DEF OpenWindow, ChannelsOK
<1>14. CASE Mount
  <2>1. Announces(allowed) /\ window' = "live" /\ UNCHANGED <<snapshot, toDocument, allowed, running>>
    BY <1>14 DEF Mount, Announces
  <2>. QED BY <2>1, AnnounceKeeps DEF ChannelsOK
<1>15. CASE Endpoint
  BY <1>15 DEF Endpoint, BeginTask, Bind, EndStart, BeginStop, EndStop, ChannelsOK
<1>. QED BY <1>1, <1>2, <1>3, <1>4, <1>5, <1>6, <1>7, <1>8, <1>9, <1>10, <1>11, <1>12, <1>13,
            <1>14, <1>15 DEF Next, Settle, Window

(* Nothing of the switch changes but in the steps of the controller.        *)
LEMMA SwitchKept ==
  ASSUME SwitchOK, UNCHANGED <<config, file, server, queue, task, failed, asked, switches>>
  PROVE  SwitchOK'
BY DEF SwitchOK, Configured, LastAsked, Follows

LEMMA SetEnabledKeeps ==
  ASSUME SwitchOK, NEW on \in BOOLEAN, SetEnabled(on)
  PROVE  SwitchOK'
<1>1. Configured'
  <2>1. switches' = switches + 1 /\ switches < MaxSwitches /\ UNCHANGED <<config, file>>
    BY DEF SetEnabled
  <2>. QED BY <2>1, BoundsAreNaturals DEF SwitchOK, Configured, Config
<1>2. LastAsked'
  <2>1. queue \in Seq(BOOLEAN) /\ queue' = Append(queue, on) /\ asked' = on
    BY DEF SetEnabled, SwitchOK, LastAsked
  <2>2. queue' \in Seq(BOOLEAN) /\ queue' # <<>> /\ queue'[Len(queue')] = on
    BY <2>1, SentIsLast
  <2>. QED BY <2>1, <2>2 DEF LastAsked
<1>3. Follows'
  BY DEF SetEnabled, SwitchOK, Follows
<1>. QED BY <1>1, <1>2, <1>3 DEF SwitchOK

LEMMA RegenerateKeeps ==
  ASSUME SwitchOK, RegenerateToken
  PROVE  SwitchOK'
<1>1. PICK new : new = [config EXCEPT !.token = @ + 1]
  OBVIOUS
<1>2. config' = new /\ file' = new /\ switches' = switches + 1 /\ switches < MaxSwitches
  BY <1>1 DEF RegenerateToken, Save
<1>3. config.token + 1 \in 0..MaxSwitches /\ config.token + 1 <= switches + 1
  BY <1>2, BoundsAreNaturals DEF SwitchOK, Configured, Config
<1>4. new \in Config /\ new.enabled = config.enabled /\ new.token = config.token + 1
  BY <1>1, <1>3 DEF SwitchOK, Configured, Config
<1>5. Configured'
  BY <1>2, <1>3, <1>4, BoundsAreNaturals DEF SwitchOK, Configured
<1>6. LastAsked' /\ Follows'
  BY <1>2, <1>4 DEF RegenerateToken, SwitchOK, LastAsked, Follows
<1>. QED BY <1>5, <1>6 DEF SwitchOK

LEMMA BeginTaskKeeps ==
  ASSUME SwitchOK, BeginTask
  PROVE  SwitchOK'
<1>1. PICK on : on = Head(queue)
  OBVIOUS
<1>2. queue \in Seq(BOOLEAN) /\ queue # <<>> /\ queue' = Tail(queue) /\ asked' = asked
  BY DEF BeginTask, SwitchOK, LastAsked
<1>3. on \in BOOLEAN /\ queue' \in Seq(BOOLEAN)
  BY <1>1, <1>2, TailKeepsLast
<1>4. PICK new : new = [config EXCEPT !.enabled = on]
  OBVIOUS
<1>5. new \in Config /\ new.enabled = on /\ new.token = config.token
  BY <1>3, <1>4 DEF SwitchOK, Configured, Config
<1>6. config' = new /\ file' = new /\ switches' = switches
  BY <1>1, <1>4 DEF BeginTask, Save, bounds
<1>7. Configured'
  BY <1>5, <1>6 DEF SwitchOK, Configured
<1>8. LastAsked'
  <2>1. asked \in BOOLEAN /\ (asked <=> queue[Len(queue)])
    BY <1>2 DEF SwitchOK, LastAsked
  <2>2. CASE queue' = <<>>
    <3>1. queue[Len(queue)] = on
      BY <1>1, <1>2, <2>2, TailKeepsLast
    <3>. QED BY <1>2, <1>3, <1>5, <1>6, <2>1, <2>2, <3>1 DEF LastAsked
  <2>3. CASE queue' # <<>>
    <3>1. queue'[Len(queue')] = queue[Len(queue)]
      BY <1>2, <2>3, TailKeepsLast
    <3>. QED BY <1>2, <1>3, <2>1, <2>3, <3>1 DEF LastAsked
  <2>. QED BY <2>2, <2>3
<1>9. Follows'
  <2>1. /\ task = "none" /\ failed' = FALSE
        /\ \/ on /\ task' = "start" /\ server' = IF server = "off" THEN "binding" ELSE server
           \/ ~on /\ task' = "stop" /\ server' = server
    BY <1>1 DEF BeginTask
  <2>. QED BY <1>3, <1>5, <1>6, <2>1 DEF SwitchOK, Follows
<1>. QED BY <1>7, <1>8, <1>9 DEF SwitchOK

LEMMA RestartKeeps ==
  ASSUME SwitchOK, Restart
  PROVE  SwitchOK'
<1>1. /\ config' = config /\ file' = file /\ file = config /\ config \in Config /\ switches' = switches
      /\ queue' = <<>> /\ task' = "none" /\ failed' = FALSE /\ asked' = config.enabled
      /\ server' = IF config.enabled THEN "binding" ELSE "off"
  BY DEF Restart, SwitchOK, Configured
<1>2. config.enabled \in BOOLEAN /\ queue' \in Seq(BOOLEAN)
  BY <1>1 DEF Config
<1>3. Configured'
  BY <1>1 DEF SwitchOK, Configured
<1>4. LastAsked'
  BY <1>1, <1>2 DEF LastAsked
<1>5. Follows'
  BY <1>1, <1>2 DEF Follows
<1>. QED BY <1>3, <1>4, <1>5 DEF SwitchOK

LEMMA EndpointKeeps ==
  ASSUME SwitchOK, Bind \/ EndStart \/ BeginStop \/ EndStop
  PROVE  SwitchOK'
<1>1. UNCHANGED <<config, file, queue, asked, switches>>
  BY DEF Bind, EndStart, BeginStop, EndStop, bounds
<1>2. config.enabled \in BOOLEAN
  BY DEF SwitchOK, Configured, Config
<1>3. Configured' /\ LastAsked'
  BY <1>1 DEF SwitchOK, Configured, LastAsked
<1>4. ASSUME Bind PROVE Follows'
  BY <1>1, <1>2, <1>4 DEF Bind, SwitchOK, Follows
<1>5. ASSUME EndStart \/ BeginStop \/ EndStop PROVE Follows'
  BY <1>1, <1>2, <1>5 DEF EndStart, BeginStop, EndStop, StopMayGoOn, SwitchOK, Follows
<1>6. Follows'
  BY <1>4, <1>5
<1>. QED BY <1>3, <1>6 DEF SwitchOK

-----------------------------------------------------------------------------
LEMMA CallsKept ==
  ASSUME CallsOK, ChannelsOK, SwitchOK, Next
  PROVE  CallsOK'
<1>. USE DEF bridge, channels, document, endpoint, bounds
<1>1. ASSUME UNCHANGED <<calls, waiting>> PROVE CallsOK'
  BY <1>1 DEF CallsOK, CallOK, IdOf
<1>2. ASSUME NEW c \in Clients, NEW t \in Tools, Ask(c, t) PROVE CallsOK'
  BY <1>2, AskKeeps DEF SwitchOK
<1>3. CASE StartReload \/ CrashWindow \/ CloseWindow
  BY <1>3, GoneKeeps DEF StartReload, CrashWindow, CloseWindow
<1>4. CASE CommitReload
  BY <1>1, <1>4, GoneKeeps DEF CommitReload, RendererIdle
<1>5. CASE Restart
  BY <1>5, DroppedKeeps DEF Restart, CallsOK
<1>6. CASE BeginStop
  BY <1>1, <1>6, DroppedKeeps DEF BeginStop
<1>7. ASSUME NEW c \in Clients, Arrive(c) \/ Invoke(c) PROVE CallsOK'
  BY <1>7, ArriveKeeps, InvokeKeeps
<1>8. ASSUME NEW id \in Id, Timeout(id) PROVE CallsOK'
  BY <1>8, TimeoutKeeps
<1>9. CASE Receive
  BY <1>9, ReceiveKeeps
<1>10. CASE RunCall \/ OpenWindow \/ Mount \/ BeginTask \/ Bind \/ EndStart \/ EndStop \/ RegenerateToken
  BY <1>1, <1>10 DEF RunCall, OpenWindow, Mount, BeginTask, Bind, EndStart, EndStop, RegenerateToken
<1>11. ASSUME NEW id \in Id, FinishCall(id) PROVE CallsOK'
  BY <1>1, <1>11 DEF FinishCall
<1>12. ASSUME NEW s \in SUBSET Tools, ChangePolicy(s) PROVE CallsOK'
  BY <1>1, <1>12 DEF ChangePolicy
<1>13. ASSUME NEW on \in BOOLEAN, SetEnabled(on) PROVE CallsOK'
  BY <1>1, <1>13 DEF SetEnabled
<1>. QED BY <1>2, <1>3, <1>4, <1>5, <1>6, <1>7, <1>8, <1>9, <1>10, <1>11, <1>12, <1>13
         DEF Next, Settle, Window, Endpoint

LEMMA SwitchStep ==
  ASSUME SwitchOK, Next
  PROVE  SwitchOK'
<1>. USE DEF endpoint, bounds
<1>1. ASSUME NEW c \in Clients, NEW t \in Tools, Ask(c, t) PROVE SwitchOK'
  BY <1>1, SwitchKept DEF Ask
<1>2. ASSUME NEW s \in SUBSET Tools, ChangePolicy(s) PROVE SwitchOK'
  BY <1>2, SwitchKept DEF ChangePolicy
<1>3. CASE StartReload \/ CrashWindow \/ CloseWindow \/ CommitReload \/ OpenWindow \/ Mount
  BY <1>3, SwitchKept DEF StartReload, CrashWindow, CloseWindow, CommitReload, OpenWindow, Mount
<1>4. CASE Restart \/ RegenerateToken
  BY <1>4, RestartKeeps, RegenerateKeeps
<1>5. ASSUME NEW on \in BOOLEAN, SetEnabled(on) PROVE SwitchOK'
  BY <1>5, SetEnabledKeeps
<1>6. ASSUME NEW c \in Clients, Arrive(c) \/ Invoke(c) PROVE SwitchOK'
  BY <1>6, SwitchKept DEF Arrive, Invoke
<1>7. ASSUME NEW id \in Id, Timeout(id) \/ FinishCall(id) PROVE SwitchOK'
  BY <1>7, SwitchKept DEF Timeout, FinishCall
<1>8. CASE RunCall \/ Receive
  BY <1>8, SwitchKept DEF RunCall, Receive
<1>9. CASE Endpoint
  BY <1>9, BeginTaskKeeps, EndpointKeeps DEF Endpoint
<1>. QED BY <1>1, <1>2, <1>3, <1>4, <1>5, <1>6, <1>7, <1>8, <1>9 DEF Next, Settle, Window

LEMMA StepKeeps == Inv /\ [Next]_vars => Inv'
<1> SUFFICES ASSUME Inv, [Next]_vars PROVE Inv'
  OBVIOUS
<1>1. CASE Next
  BY <1>1, CallsKept, ChannelsKept, SwitchStep DEF Inv
<1>2. CASE UNCHANGED vars
  <2>1. SwitchOK'
    BY <1>2, SwitchKept DEF vars, Inv
  <2>2. CallsOK' /\ ChannelsOK'
    BY <1>2 DEF vars, Inv, CallsOK, CallOK, IdOf, ChannelsOK
  <2>. QED BY <2>1, <2>2 DEF Inv
<1>. QED BY <1>1, <1>2

LEMMA Always == Spec => []Inv
BY Initially, StepKeeps, PTL DEF Spec

(* For any clients, tools and bounds: an answer ends the call it answers,   *)
(* whatever timed out, reloaded or was cut off before it came, and a call   *)
(* is asked only while the bridge waits for it.                             *)
THEOREM AnswersReachTheirCalls == Spec => []BridgeInv
<1>1. ASSUME Inv PROVE BridgeInv
  <2>1. snapshot \in (SUBSET Tools) \cup {None} /\ announced \in (SUBSET Tools) \cup {None}
    BY <1>1 DEF Inv, ChannelsOK
  <2>2. McpTypeOK
    BY <1>1, <2>1 DEF Inv, McpTypeOK, CallsOK, CallOK, ChannelsOK, SwitchOK, Configured, LastAsked, Follows
  <2>3. AnswerIsOwn
    BY <1>1 DEF Inv, AnswerIsOwn, CallsOK, CallOK, Ended
  <2>. QED BY <2>2, <2>3 DEF BridgeInv
<1>. QED BY <1>1, Always, PTL

(* However many switches overlap, restarts and taken ports included: when   *)
(* nothing is being switched any more, the endpoint and mcp.json are as the *)
(* user asked last.                                                         *)
THEOREM SwitchesEndAsAsked == Spec => []EndsAsAsked
<1>1. ASSUME Inv PROVE EndsAsAsked
  <2>1. file = config /\ config.enabled \in BOOLEAN
    BY <1>1 DEF Inv, SwitchOK, Configured, Config
  <2>2. ASSUME queue = <<>>, task = "none", server # "binding"
        PROVE  config.enabled = asked /\ server = (IF asked /\ ~failed THEN "on" ELSE "off")
    <3>1. asked \in BOOLEAN /\ (asked <=> config.enabled)
      BY <1>1, <2>2 DEF Inv, SwitchOK, LastAsked
    <3>. QED BY <1>1, <2>1, <2>2, <3>1 DEF Inv, SwitchOK, Follows
  <2>. QED BY <2>1, <2>2 DEF EndsAsAsked
<1>. QED BY <1>1, Always, PTL

-----------------------------------------------------------------------------
(* The tools.  The inductive invariant: the shapes, and where the plan of a   *)
(* call can be.                                                              *)

Statuses == {"pending", "applied", "rejected", "expired", "failed"}
Action   == [plan: Plans, status: Statuses, late: BOOLEAN]
Activity == [id: 1..MaxStamp, tool: ToolNames, kind: Kinds, source: Sources, doc: Docs,
             before: 0..MaxStamp, after: 1..MaxStamp, status: {"applied", "undone"},
             asked: Owners]
Working  == {NoCall} \cup [at: {"asked"}, owner: Owners] \cup [at: {"preparing"}, plan: Plans]

PlaceOK ==
  /\ policy \in [{"internal", "external"} -> [Kinds -> Levels]]
  /\ session \in Session /\ scope \in Scopes
  /\ gen \in 0..turns /\ turns \in 0..MaxTurns

ProposalsOK ==
  projects \in [Scopes -> [Docs -> Project]] /\ open \in [Scopes -> Docs \cup {Null}]

ListsOK ==
  /\ pending \in Seq(Action) /\ Len(pending) <= MaxPending
  /\ activity \in [Scopes -> Seq(Activity)]
  /\ \A s \in Scopes : Len(activity[s]) <= MaxActivity
  /\ underway \in [Calls -> Working]
  /\ stamp \in 0..MaxStamp

(* The plan of a call was applied, in some workspace.                        *)
Applied(id) == \E s \in Scopes : \E i \in DOMAIN activity[s] : activity[s][i].id = id

(* The plan waits for the user, whatever became of it.                       *)
Waits(id) == \E i \in DOMAIN pending : pending[i].plan.id = id

Sorted(p) == p.kind = Tool[p.tool].kind /\ p.id <= stamp

(* A call that prepares its plan is alone with it.                           *)
UnderwayOK ==
  \A c \in Calls : underway[c].at = "preparing" =>
    /\ Sorted(underway[c].plan)
    /\ ~Applied(underway[c].plan.id) /\ ~Waits(underway[c].plan.id)
    /\ \A k \in Calls : underway[k].at = "preparing" /\ underway[k].plan.id = underway[c].plan.id => k = c

(* What waits was asked in the workspace on display, and was not applied.    *)
WaitingOK ==
  \A i \in DOMAIN pending :
    /\ Sorted(pending[i].plan) /\ pending[i].plan.owner.scope = scope
    /\ pending[i].status = "pending" => ~Applied(pending[i].plan.id)
    /\ \A j \in DOMAIN pending : pending[j].plan.id = pending[i].plan.id => j = i

AppliedOK ==
  \A s \in Scopes : \A i \in DOMAIN activity[s] :
    /\ activity[s][i].id <= stamp /\ activity[s][i].after = activity[s][i].id
    /\ activity[s][i].asked.scope = s
    /\ \A j \in DOMAIN activity[s] : activity[s][j].id = activity[s][i].id => j = i

ToolsInv == PlaceOK /\ ProposalsOK /\ ListsOK /\ UnderwayOK /\ WaitingOK /\ AppliedOK

-----------------------------------------------------------------------------
(* Lists, newest first. *)

(* t is e and then q, without what is over most.                             *)
AtMost(t, S, e, q, most) ==
  /\ t \in Seq(S) /\ Len(t) <= most
  /\ 1 \in DOMAIN t /\ t[1] = e
  /\ \A i \in DOMAIN t : i # 1 => i - 1 \in DOMAIN q /\ t[i] = q[i - 1]

LEMMA NewestIs ==
  ASSUME NEW S, NEW q \in Seq(S), NEW e \in S, NEW most \in Nat \ {0}
  PROVE  AtMost(Newest(<<e>> \o q, most), S, e, q, most)
<1>. DEFINE t == Newest(<<e>> \o q, most)
<1>1. PICK r : r = <<e>> \o q
  OBVIOUS
<1>2. /\ r \in Seq(S) /\ Len(r) = Len(q) + 1 /\ r[1] = e
      /\ \A i \in 2..Len(r) : r[i] = q[i - 1]
  BY <1>1
<1>3. PICK n \in Nat : n = (IF Len(r) < most THEN Len(r) ELSE most) /\ n \in 1..Len(r) /\ n <= most
  BY <1>2
<1>4. PICK u : u = SubSeq(r, 1, n)
  OBVIOUS
<1>5. t = u
  BY <1>1, <1>3, <1>4 DEF Newest
<1>6. u \in Seq(S) /\ Len(u) = n /\ \A i \in 1..n : u[i] = r[i]
  BY <1>2, <1>3, <1>4
<1>7. DOMAIN u = 1..n /\ DOMAIN q = 1..Len(q)
  BY <1>6
<1>8. \A i \in 2..n : i - 1 \in 1..Len(q) /\ u[i] = q[i - 1]
  BY <1>2, <1>3, <1>6
<1>9. 1 \in 1..n /\ u[1] = e /\ \A i \in 1..n : i # 1 => i \in 2..n
  BY <1>2, <1>3, <1>6
<1>. QED BY <1>3, <1>5, <1>6, <1>7, <1>8, <1>9 DEF AtMost

LEMMA AgentBounds ==
  /\ MaxPending \in Nat \ {0} /\ MaxActivity \in Nat \ {0} /\ MaxStamp \in Nat /\ MaxTurns \in Nat
  /\ Null \notin Users \cup Docs /\ Seen \subseteq Docs
BY AgentAssumption

LEMMA SortsOfTools ==
  ASSUME NEW t \in ToolNames
  PROVE  /\ Tool[t].kind \in Kinds
         /\ Tool[t].part \in {"content", "status", "none"}
         /\ Tool[t].undo \in {"fields", "trash", "restore", "none"}
         /\ Tool[t].part = "none" <=> t \in {"create_proposal", "move_proposal_to_trash"}
         /\ Tool[t].undo = "fields" => Tool[t].part # "none"
         /\ t \in Exempt => Tool[t].kind = "guarded"
         /\ t \in {"create_proposal", "apply_proposal_draft"} => Tool[t].native
<1>1. ToolNames = {"set_document_text", "attach_file_to_proposal", "apply_proposal_draft",
                   "set_proposal_status", "propose_project_update", "propose_project_prices",
                   "add_commercial_report", "create_proposal", "move_proposal_to_trash"}
  BY DEF ToolNames, Tool
<1>2. /\ \A x \in {"set_document_text", "attach_file_to_proposal", "apply_proposal_draft"} :
           Tool[x] = [kind |-> "draft", native |-> TRUE, undo |-> "fields", part |-> "content"]
      /\ Tool["set_proposal_status"]
           = [kind |-> "guarded", native |-> TRUE, undo |-> "fields", part |-> "status"]
      /\ Tool["propose_project_update"]
           = [kind |-> "draft", native |-> FALSE, undo |-> "fields", part |-> "content"]
      /\ Tool["propose_project_prices"]
           = [kind |-> "guarded", native |-> FALSE, undo |-> "fields", part |-> "content"]
  BY DEF Tool
<1>3. /\ Tool["add_commercial_report"]
           = [kind |-> "guarded", native |-> TRUE, undo |-> "none", part |-> "status"]
      /\ Tool["create_proposal"] = [kind |-> "draft", native |-> TRUE, undo |-> "trash", part |-> "none"]
      /\ Tool["move_proposal_to_trash"]
           = [kind |-> "guarded", native |-> TRUE, undo |-> "restore", part |-> "none"]
  BY DEF Tool
<1>. QED BY <1>1, <1>2, <1>3 DEF Kinds, Exempt

LEMMA ToolsInitially == AgentInit => ToolsInv
<1> SUFFICES ASSUME AgentInit PROVE ToolsInv
  OBVIOUS
<1>1. PlaceOK
  BY AgentBounds DEF AgentInit, PlaceOK, Kinds, Levels, Session, Scopes
<1>2. ProposalsOK
  <2>1. \A d \in Docs : [Absent EXCEPT !.there = d \in Seen] \in Project
    <3>0. Absent \in Project
      BY AgentBounds DEF Absent, Project
    <3>1. PICK a \in Project : a = Absent
      BY <3>0
    <3>2. [a EXCEPT !.there = TRUE] \in Project /\ [a EXCEPT !.there = FALSE] \in Project
      BY DEF Project
    <3>3. ASSUME NEW d \in Docs, d \in Seen
          PROVE  [a EXCEPT !.there = d \in Seen] = [a EXCEPT !.there = TRUE]
      BY <3>3
    <3>4. ASSUME NEW d \in Docs, d \notin Seen
          PROVE  [a EXCEPT !.there = d \in Seen] = [a EXCEPT !.there = FALSE]
      <4>1. (d \in Seen) = FALSE
        BY <3>4
      <4>. QED BY <4>1, Zenon
    <3>. QED BY <3>1, <3>2, <3>3, <3>4
  <2>. QED BY <2>1 DEF AgentInit, ProposalsOK
<1>3. ListsOK
  BY AgentBounds DEF AgentInit, ListsOK, Working
<1>4. UnderwayOK /\ WaitingOK /\ AppliedOK
  BY DEF AgentInit, UnderwayOK, WaitingOK, AppliedOK, NoCall
<1>. QED BY <1>1, <1>2, <1>3, <1>4 DEF ToolsInv

-----------------------------------------------------------------------------
(* A plan is applied. *)

LEMMA ProjectWritten ==
  ASSUME NEW q \in Project, NEW part \in {"content", "status"}, NEW v \in 0..MaxStamp
  PROVE  /\ Written(q, part, v) \in Project
         /\ part = "content" => Written(q, part, v).content = v /\ Written(q, part, v).status = q.status
         /\ part = "status" => Written(q, part, v).status = v /\ Written(q, part, v).content = q.content
BY DEF Written, Project

LEMMA TrashKeeps ==
  ASSUME ProposalsOK, scope \in Scopes, NEW d \in Docs, MoveToTrash(d)
  PROVE  /\ projects' \in [Scopes -> [Docs -> Project]]
         /\ open' \in [Scopes -> Docs \cup {Null}]
         /\ \A s \in Scopes, x \in Docs :
              projects'[s][x].content = projects[s][x].content
              /\ projects'[s][x].status = projects[s][x].status
         /\ \A s \in Scopes, x \in Docs : s # scope \/ x # d => projects'[s][x] = projects[s][x]
<1>1. PICK h \in Project : h = Here(d)
  BY DEF Here, ProposalsOK
<1>2. PICK q \in Project : /\ q = [Here(d) EXCEPT !.deleted = TRUE, !.conflict = FALSE]
                          /\ q.content = Here(d).content /\ q.status = Here(d).status
  <2>1. PICK q : q = [h EXCEPT !.deleted = TRUE, !.conflict = FALSE]
    OBVIOUS
  <2>2. q \in Project /\ q.content = h.content /\ q.status = h.status
    BY <2>1 DEF Project
  <2>. QED BY <1>1, <2>1, <2>2
<1>3. projects' = [projects EXCEPT ![scope][d] = q]
  BY <1>2 DEF MoveToTrash, Put
<1>4. open' \in [Scopes -> Docs \cup {Null}]
  <2>1. PICK left : /\ left \subseteq Docs
                    /\ \/ open' = open
                       \/ open' = [open EXCEPT ![scope] = Null]
                       \/ \E x \in left : open' = [open EXCEPT ![scope] = x]
    BY DEF MoveToTrash, OpenAfterTrash
  <2>. QED BY <2>1 DEF ProposalsOK
<1>. QED BY <1>2, <1>3, <1>4 DEF ProposalsOK, Here

LEMMA RestoreKeeps ==
  ASSUME ProposalsOK, scope \in Scopes, NEW d \in Docs, RestoreProject(d)
  PROVE  /\ projects' \in [Scopes -> [Docs -> Project]]
         /\ open' \in [Scopes -> Docs \cup {Null}]
         /\ \A s \in Scopes, x \in Docs :
              projects'[s][x].content = projects[s][x].content
              /\ projects'[s][x].status = projects[s][x].status
         /\ \A s \in Scopes, x \in Docs : s # scope \/ x # d => projects'[s][x] = projects[s][x]
<1>1. PICK h \in Project : h = Here(d)
  BY DEF Here, ProposalsOK
<1>2. PICK q \in Project : /\ q = [Here(d) EXCEPT !.deleted = FALSE, !.conflict = FALSE]
                          /\ q.content = Here(d).content /\ q.status = Here(d).status
  <2>1. PICK q : q = [h EXCEPT !.deleted = FALSE, !.conflict = FALSE]
    OBVIOUS
  <2>2. q \in Project /\ q.content = h.content /\ q.status = h.status
    BY <2>1 DEF Project
  <2>. QED BY <1>1, <2>1, <2>2
<1>3. projects' = [projects EXCEPT ![scope][d] = q]
  BY <1>2 DEF RestoreProject, Put
<1>. QED BY <1>2, <1>3 DEF ProposalsOK, Here, RestoreProject

(* One proposal is put. *)
LEMMA PutKeeps ==
  ASSUME ProposalsOK, scope \in Scopes, NEW d \in Docs, NEW q \in Project, Put(d, q)
  PROVE  /\ projects' \in [Scopes -> [Docs -> Project]]
         /\ projects'[scope][d] = q
         /\ \A s \in Scopes, x \in Docs : s # scope \/ x # d => projects'[s][x] = projects[s][x]
BY DEF Put, ProposalsOK

(* The newest of the activity of the workspace on display.                    *)
Recorded(e) ==
  /\ \A s \in Scopes \ {scope} : activity'[s] = activity[s]
  /\ 1 \in DOMAIN activity'[scope] /\ activity'[scope][1] = e
  /\ \A i \in DOMAIN activity'[scope] : i # 1 =>
       i - 1 \in DOMAIN activity[scope] /\ activity'[scope][i] = activity[scope][i - 1]

LEMMA ApplyIs ==
  ASSUME PlaceOK, ProposalsOK, ListsOK, NEW p \in Plans, Apply(p)
  PROVE  /\ ProposalsOK'
         /\ activity' \in [Scopes -> Seq(Activity)]
         /\ \A s \in Scopes : Len(activity'[s]) <= MaxActivity
         /\ \E e \in Activity : /\ Recorded(e) /\ e.id = p.id /\ e.after = p.id /\ e.tool = p.tool
                                /\ e.kind = p.kind /\ e.source = p.source /\ e.asked = p.owner
<1>1. p.id \in 1..MaxStamp /\ p.id \in 0..MaxStamp /\ p.tool \in ToolNames /\ p.doc \in Docs
  BY AgentBounds DEF Plans
<1>2. scope \in Scopes
  BY DEF PlaceOK
<1>3. Targets(p) \subseteq Docs
  BY <1>1, <1>2 DEF Targets, ProposalsOK
<1>4. PICK d \in Docs :
        /\ \/ /\ p.tool = "create_proposal" /\ open' = open
              /\ Put(d, [Absent EXCEPT !.there = TRUE, !.content = p.id, !.status = p.id])
           \/ p.tool = "move_proposal_to_trash" /\ MoveToTrash(d)
           \/ /\ Tool[p.tool].part # "none" /\ open' = open
              /\ Put(d, Written(Here(d), Tool[p.tool].part, p.id))
        /\ Record(Entry(p, d, IF Tool[p.tool].part = "status" THEN Here(d).status ELSE Here(d).content))
  BY <1>1, <1>3, SortsOfTools DEF Apply
<1>5. Here(d) \in Project
  BY <1>2 DEF Here, ProposalsOK
<1>6. ProposalsOK'
  <2>1. [Absent EXCEPT !.there = TRUE, !.content = p.id, !.status = p.id] \in Project
    BY <1>1 DEF Absent, Project
  <2>2. Tool[p.tool].part # "none" => Written(Here(d), Tool[p.tool].part, p.id) \in Project
    BY <1>1, <1>5, SortsOfTools, ProjectWritten
  <2>. QED BY <1>2, <1>4, <2>1, <2>2, PutKeeps, TrashKeeps DEF ProposalsOK
<1>7. PICK b \in 0..MaxStamp : Record(Entry(p, d, b))
  BY <1>4, <1>5 DEF Project
<1>8. PICK e \in Activity : /\ Record(e) /\ e.id = p.id /\ e.after = p.id /\ e.tool = p.tool
                            /\ e.kind = p.kind /\ e.source = p.source /\ e.asked = p.owner
  BY <1>1, <1>7 DEF Entry, Activity, Plans
<1>9. PICK t : /\ activity' = [activity EXCEPT ![scope] = t]
               /\ AtMost(t, Activity, e, activity[scope], MaxActivity)
  <2>1. activity' = [activity EXCEPT ![scope] = Newest(<<e>> \o activity[scope], MaxActivity)]
    BY <1>8 DEF Record
  <2>2. activity[scope] \in Seq(Activity)
    BY <1>2 DEF ListsOK
  <2>3. AtMost(Newest(<<e>> \o activity[scope], MaxActivity), Activity, e, activity[scope], MaxActivity)
    BY <2>2, NewestIs, AgentBounds, Zenon
  <2>. QED BY <2>1, <2>3
<1>10. activity'[scope] = t /\ \A s \in Scopes \ {scope} : activity'[s] = activity[s]
  BY <1>2, <1>9 DEF ListsOK
<1>. QED BY <1>2, <1>6, <1>8, <1>9, <1>10 DEF ListsOK, Recorded, AtMost

-----------------------------------------------------------------------------
(* A plan is settled. *)

LEMMA OwnerIs == PlaceOK => Owner \in Owners /\ Owner.scope = scope
BY AgentBounds DEF PlaceOK, Owner, Owners, Session

LEMMA WorkingIs ==
  ASSUME ListsOK, NEW c \in Calls
  PROVE  /\ underway[c].at = "preparing" => underway[c].plan \in Plans
         /\ underway[c].at = "asked" => underway[c].owner \in Owners
         /\ underway[c].at \in {"none", "asked", "preparing"}
BY DEF ListsOK, Working, NoCall

LEMMA PendingIs ==
  ASSUME ListsOK, NEW i \in DOMAIN pending
  PROVE  pending[i] \in Action /\ pending[i].plan \in Plans /\ pending[i].plan.id \in 1..MaxStamp
<1>1. pending[i] \in Action
  BY DEF ListsOK
<1>2. \A a \in Action : a.plan \in Plans
  BY DEF Action
<1>3. \A p \in Plans : p.id \in 1..MaxStamp
  BY DEF Plans
<1>. QED BY <1>1, <1>2, <1>3

LEMMA SortedStays ==
  ASSUME ToolsInv, stamp' \in 0..MaxStamp, stamp <= stamp', NEW i \in DOMAIN pending
  PROVE  Sorted(pending[i].plan) /\ pending[i].plan.id <= stamp'
<1>1. pending[i].plan.id \in 1..MaxStamp
  BY PendingIs DEF ToolsInv
<1>. QED BY <1>1, AgentBounds DEF ToolsInv, ListsOK, WaitingOK, Sorted

(* Of the plans up to the stamp after a step, one was applied by it.          *)
LEMMA ApplyKeeps ==
  ASSUME ToolsInv, stamp' \in 0..MaxStamp, stamp <= stamp', scope' = scope,
         NEW p \in Plans, p.id <= stamp', p.owner.scope = scope, ~Applied(p.id), Apply(p)
  PROVE  /\ ProposalsOK' /\ AppliedOK'
         /\ activity' \in [Scopes -> Seq(Activity)]
         /\ \A s \in Scopes : Len(activity'[s]) <= MaxActivity
         /\ \A id : Applied(id)' => Applied(id) \/ id = p.id
<1>1. /\ PlaceOK /\ ProposalsOK /\ ListsOK /\ AppliedOK
      /\ scope \in Scopes
  BY DEF ToolsInv, PlaceOK
<1>2. /\ ProposalsOK' /\ activity' \in [Scopes -> Seq(Activity)]
      /\ \A s \in Scopes : Len(activity'[s]) <= MaxActivity
  BY <1>1, ApplyIs
<1>3. PICK e \in Activity : Recorded(e) /\ e.id = p.id /\ e.after = p.id /\ e.asked = p.owner
  BY <1>1, ApplyIs
<1>4. ASSUME NEW s \in Scopes, NEW i \in DOMAIN activity'[s]
      PROVE  \/ s = scope /\ i = 1 /\ activity'[s][i] = e
             \/ s # scope /\ i \in DOMAIN activity[s] /\ activity'[s][i] = activity[s][i]
             \/ /\ s = scope /\ i # 1
                /\ i - 1 \in DOMAIN activity[s] /\ activity'[s][i] = activity[s][i - 1]
  BY <1>3 DEF Recorded
<1>5. \A id : Applied(id)' => Applied(id) \/ id = p.id
  BY <1>3, <1>4 DEF Applied
<1>6. AppliedOK'
  <2> SUFFICES ASSUME NEW s \in Scopes, NEW i \in DOMAIN activity'[s]
               PROVE  /\ activity'[s][i].id <= stamp' /\ activity'[s][i].after = activity'[s][i].id
                      /\ activity'[s][i].asked.scope = s
                      /\ \A j \in DOMAIN activity'[s] : activity'[s][j].id = activity'[s][i].id => j = i
    BY DEF AppliedOK
  <2>0. DOMAIN activity'[s] = 1..Len(activity'[s]) /\ Len(activity'[s]) \in Nat
    BY <1>2
  <2>1. \A k \in DOMAIN activity[s] : activity[s][k] \in Activity /\ activity[s][k].id # p.id
    BY <1>1 DEF Applied, ListsOK
  <2>2. /\ activity'[s][i].id <= stamp' /\ activity'[s][i].after = activity'[s][i].id
        /\ activity'[s][i].asked.scope = s
    <3>1. \A k \in DOMAIN activity[s] : activity[s][k].id <= stamp'
      BY <1>1, <2>1, AgentBounds DEF AppliedOK, ListsOK, Activity
    <3>. QED BY <1>1, <1>3, <1>4, <3>1 DEF AppliedOK
  <2>3. ASSUME NEW j \in DOMAIN activity'[s], activity'[s][j].id = activity'[s][i].id
        PROVE  j = i
    <3>1. CASE s # scope
      BY <1>1, <1>4, <2>3, <3>1 DEF AppliedOK
    <3>2. CASE s = scope /\ i = 1
      BY <1>3, <1>4, <2>1, <2>3, <3>2
    <3>3. CASE s = scope /\ j = 1
      BY <1>3, <1>4, <2>1, <2>3, <3>3
    <3>4. CASE s = scope /\ i # 1 /\ j # 1
      <4>1. activity[s][i - 1].id = activity[s][j - 1].id
            /\ i - 1 \in DOMAIN activity[s] /\ j - 1 \in DOMAIN activity[s]
        BY <1>4, <2>3, <3>4
      <4>2. i - 1 = j - 1
        BY <1>1, <4>1 DEF AppliedOK
      <4>. QED BY <2>0, <4>2
    <3>. QED BY <3>1, <3>2, <3>3, <3>4
  <2>. QED BY <2>2, <2>3
<1>. QED BY <1>2, <1>5, <1>6

LEMMA QueueKeeps ==
  ASSUME ToolsInv, stamp' \in 0..MaxStamp, stamp <= stamp', scope' = scope, activity' = activity,
         NEW p \in Plans, Sorted(p)', p.owner.scope = scope, ~Applied(p.id), ~Waits(p.id), Queue(p)
  PROVE  /\ pending' \in Seq(Action) /\ Len(pending') <= MaxPending /\ WaitingOK'
         /\ \A id : Waits(id)' => Waits(id) \/ id = p.id
<1>. DEFINE a == [plan |-> p, status |-> "pending", late |-> FALSE]
<1>1. PICK e \in Action : e = a
  BY DEF Action, Statuses
<1>2. e.plan = p /\ e.status = "pending"
  BY <1>1
<1>3. AtMost(pending', Action, e, pending, MaxPending)
  <2>1. pending' = Newest(<<e>> \o pending, MaxPending)
    BY <1>1 DEF Queue
  <2>2. pending \in Seq(Action)
    BY DEF ToolsInv, ListsOK
  <2>3. AtMost(Newest(<<e>> \o pending, MaxPending), Action, e, pending, MaxPending)
    BY <2>2, NewestIs, AgentBounds, Zenon
  <2>. QED BY <2>1, <2>3
<1>4. /\ pending' \in Seq(Action) /\ Len(pending') <= MaxPending
      /\ \A i \in DOMAIN pending' : \/ i = 1 /\ pending'[i] = e
                                    \/ i # 1 /\ i - 1 \in DOMAIN pending /\ pending'[i] = pending[i - 1]
  BY <1>3 DEF AtMost
<1>5. \A id : Waits(id)' => Waits(id) \/ id = p.id
  BY <1>2, <1>4 DEF Waits
<1>6. WaitingOK'
  <2> SUFFICES ASSUME NEW i \in DOMAIN pending'
               PROVE  /\ pending'[i].plan.kind = Tool[pending'[i].plan.tool].kind
                      /\ pending'[i].plan.id <= stamp' /\ pending'[i].plan.owner.scope = scope
                      /\ pending'[i].status = "pending" => ~Applied(pending'[i].plan.id)
                      /\ \A j \in DOMAIN pending' : pending'[j].plan.id = pending'[i].plan.id => j = i
    BY DEF WaitingOK, Applied, Sorted
  <2>0. DOMAIN pending' = 1..Len(pending') /\ Len(pending') \in Nat
    BY <1>4
  <2>1. \A k \in DOMAIN pending : pending[k].plan.id # p.id
    BY DEF Waits
  <2>2. \A k \in DOMAIN pending :
          /\ pending[k].plan.kind = Tool[pending[k].plan.tool].kind
          /\ pending[k].plan.id <= stamp' /\ pending[k].plan.owner.scope = scope
          /\ pending[k].status = "pending" => ~Applied(pending[k].plan.id)
    BY SortedStays DEF ToolsInv, WaitingOK, Sorted
  <2>3. ASSUME NEW j \in DOMAIN pending', pending'[j].plan.id = pending'[i].plan.id
        PROVE  j = i
    <3>1. CASE i = 1 \/ j = 1
      BY <1>2, <1>4, <2>1, <2>3, <3>1
    <3>2. CASE i # 1 /\ j # 1
      <4>1. /\ pending[i - 1].plan.id = pending[j - 1].plan.id
            /\ i - 1 \in DOMAIN pending /\ j - 1 \in DOMAIN pending
        BY <1>4, <2>3, <3>2
      <4>2. i - 1 = j - 1
        BY <4>1 DEF ToolsInv, WaitingOK
      <4>. QED BY <2>0, <4>2
    <3>. QED BY <3>1, <3>2
  <2>. QED BY <1>2, <1>4, <2>2, <2>3 DEF Sorted
<1>. QED BY <1>4, <1>5, <1>6

LEMMA SettleKeeps ==
  ASSUME ToolsInv, stamp' \in 0..MaxStamp, stamp <= stamp', UNCHANGED place,
         NEW p \in Plans, Sorted(p)', p.owner.scope = scope, ~Applied(p.id), ~Waits(p.id), SettlePlan(p)
  PROVE  /\ ProposalsOK' /\ WaitingOK' /\ AppliedOK'
         /\ pending' \in Seq(Action) /\ Len(pending') <= MaxPending
         /\ activity' \in [Scopes -> Seq(Activity)]
         /\ \A s \in Scopes : Len(activity'[s]) <= MaxActivity
         /\ \A id : (Applied(id)' => Applied(id) \/ id = p.id) /\ (Waits(id)' => Waits(id) \/ id = p.id)
<1>0. scope' = scope /\ p.id <= stamp' /\ scope \in Scopes
  BY DEF place, Sorted, ToolsInv, PlaceOK
<1>1. CASE GoesAhead(p) /\ Applicable(p)
  <2>1. pending' = pending /\ Apply(p)
    BY <1>1 DEF SettlePlan
  <2>2. /\ ProposalsOK' /\ AppliedOK'
        /\ activity' \in [Scopes -> Seq(Activity)]
        /\ \A s \in Scopes : Len(activity'[s]) <= MaxActivity
        /\ \A id : Applied(id)' => Applied(id) \/ id = p.id
    BY <1>0, <2>1, ApplyKeeps
  <2>3. WaitingOK'
    <3> SUFFICES ASSUME NEW i \in DOMAIN pending
                 PROVE  /\ Sorted(pending[i].plan) /\ pending[i].plan.id <= stamp'
                        /\ pending[i].plan.owner.scope = scope
                        /\ pending[i].status = "pending" => \A id : id = pending[i].plan.id => ~Applied(id)'
                        /\ \A j \in DOMAIN pending : pending[j].plan.id = pending[i].plan.id => j = i
      BY <1>0, <2>1 DEF WaitingOK, Applied, Sorted
    <3>1. pending[i].plan.id # p.id
      BY DEF Waits
    <3>. QED BY <2>2, <3>1, SortedStays DEF ToolsInv, WaitingOK
  <2>. QED BY <2>1, <2>2, <2>3 DEF ToolsInv, ListsOK, Waits
<1>2. CASE GoesAhead(p) /\ ~Applicable(p)
  <2>1. UNCHANGED <<projects, open, activity, pending>>
    BY <1>2 DEF SettlePlan
  <2>2. AppliedOK'
    <3> SUFFICES ASSUME NEW s \in Scopes, NEW i \in DOMAIN activity[s] PROVE activity[s][i].id <= stamp'
      BY <2>1 DEF ToolsInv, AppliedOK
    <3>1. activity[s][i] \in Activity
      BY DEF ToolsInv, ListsOK
    <3>. QED BY <3>1, AgentBounds DEF ToolsInv, AppliedOK, ListsOK, Activity
  <2>3. WaitingOK'
    <3> SUFFICES ASSUME NEW i \in DOMAIN pending
                 PROVE  Sorted(pending[i].plan) /\ pending[i].plan.id <= stamp'
      BY <1>0, <2>1 DEF ToolsInv, WaitingOK, Applied, Sorted
    <3>. QED BY SortedStays
  <2>. QED BY <2>1, <2>2, <2>3 DEF ToolsInv, ListsOK, ProposalsOK, Waits, Applied
<1>3. CASE ~GoesAhead(p)
  <2>1. Queue(p) /\ UNCHANGED <<projects, open, activity>>
    BY <1>3 DEF SettlePlan
  <2>2. /\ pending' \in Seq(Action) /\ Len(pending') <= MaxPending /\ WaitingOK'
        /\ \A id : Waits(id)' => Waits(id) \/ id = p.id
    BY <1>0, <2>1, QueueKeeps
  <2>3. AppliedOK'
    <3> SUFFICES ASSUME NEW s \in Scopes, NEW i \in DOMAIN activity[s] PROVE activity[s][i].id <= stamp'
      BY <2>1 DEF ToolsInv, AppliedOK
    <3>1. activity[s][i] \in Activity
      BY DEF ToolsInv, ListsOK
    <3>. QED BY <3>1, AgentBounds DEF ToolsInv, AppliedOK, ListsOK, Activity
  <2>. QED BY <2>1, <2>2, <2>3 DEF ToolsInv, ListsOK, ProposalsOK, Applied
<1>. QED BY <1>1, <1>2, <1>3

(* The lists stay, at most a later stamp.                                    *)
LEMMA ListsStay ==
  ASSUME ToolsInv, stamp' \in 0..MaxStamp, stamp <= stamp', UNCHANGED <<pending, activity, scope>>
  PROVE  /\ WaitingOK' /\ AppliedOK'
         /\ pending' \in Seq(Action) /\ Len(pending') <= MaxPending
         /\ activity' \in [Scopes -> Seq(Activity)]
         /\ \A s \in Scopes : Len(activity'[s]) <= MaxActivity
         /\ \A id : (Applied(id)' => Applied(id)) /\ (Waits(id)' => Waits(id))
<1>1. AppliedOK'
  <2> SUFFICES ASSUME NEW s \in Scopes, NEW i \in DOMAIN activity[s] PROVE activity[s][i].id <= stamp'
    BY DEF ToolsInv, AppliedOK
  <2>1. activity[s][i] \in Activity
    BY DEF ToolsInv, ListsOK
  <2>. QED BY <2>1, AgentBounds DEF ToolsInv, AppliedOK, ListsOK, Activity
<1>2. WaitingOK'
  <2> SUFFICES ASSUME NEW i \in DOMAIN pending
               PROVE  Sorted(pending[i].plan) /\ pending[i].plan.id <= stamp'
    BY DEF ToolsInv, WaitingOK, Applied, Sorted
  <2>. QED BY SortedStays
<1>. QED BY <1>1, <1>2 DEF ToolsInv, ListsOK, Applied, Waits

(* The calls that remain are of other plans than the one that settled.        *)
LEMMA UnderwayLeft ==
  ASSUME ToolsInv, stamp' \in 0..MaxStamp, stamp <= stamp', NEW x,
         \A id : (Applied(id)' => Applied(id) \/ id = x) /\ (Waits(id)' => Waits(id) \/ id = x),
         \A c \in Calls :
           underway'[c].at = "preparing" => underway'[c] = underway[c] /\ underway[c].plan.id # x
  PROVE  UnderwayOK'
<1> SUFFICES ASSUME NEW c \in Calls, underway'[c].at = "preparing"
             PROVE  /\ underway'[c].plan.kind = Tool[underway'[c].plan.tool].kind
                    /\ underway'[c].plan.id <= stamp'
                    /\ \A id : id = underway'[c].plan.id => ~Applied(id)' /\ ~Waits(id)'
                    /\ \A k \in Calls :
                         underway'[k].at = "preparing" /\ underway'[k].plan.id = underway'[c].plan.id => k = c
  BY DEF UnderwayOK, Sorted, Applied, Waits
<1>1. underway'[c] = underway[c] /\ underway[c].at = "preparing" /\ underway[c].plan.id # x
  OBVIOUS
<1>2. underway[c].plan.id \in 1..MaxStamp
  <2>1. underway[c].plan \in Plans
    BY <1>1, WorkingIs DEF ToolsInv
  <2>. QED BY <2>1 DEF Plans
<1>3. underway[c].plan.id <= stamp'
  BY <1>1, <1>2, AgentBounds DEF ToolsInv, ListsOK, UnderwayOK, Sorted
<1>4. /\ Sorted(underway[c].plan) /\ ~Applied(underway[c].plan.id) /\ ~Waits(underway[c].plan.id)
      /\ \A k \in Calls : underway[k].at = "preparing" /\ underway[k].plan.id = underway[c].plan.id => k = c
  BY <1>1 DEF ToolsInv, UnderwayOK
<1>5. \A id : id = underway'[c].plan.id => ~Applied(id)' /\ ~Waits(id)'
  BY <1>1, <1>4
<1>6. \A k \in Calls : underway'[k].at = "preparing" /\ underway'[k].plan.id = underway'[c].plan.id => k = c
  BY <1>1, <1>4
<1>7. underway'[c].plan.kind = Tool[underway'[c].plan.tool].kind
  BY <1>1, <1>4 DEF Sorted
<1>. QED BY <1>1, <1>3, <1>5, <1>6, <1>7

-----------------------------------------------------------------------------
(* Every action keeps the invariant. *)

LEMMA PlaceStays == ToolsInv /\ UNCHANGED place => PlaceOK' /\ scope' = scope /\ scope \in Scopes
BY DEF ToolsInv, PlaceOK, place

LEMMA StampStays == ToolsInv /\ stamp' = stamp => stamp' \in 0..MaxStamp /\ stamp <= stamp'
BY AgentBounds DEF ToolsInv, ListsOK

LEMMA StampGrows ==
  ToolsInv /\ stamp < MaxStamp /\ stamp' = stamp + 1 =>
    stamp' \in 0..MaxStamp /\ stamp <= stamp' /\ stamp' \in 1..MaxStamp
BY AgentBounds DEF ToolsInv, ListsOK

LEMMA CallEnds ==
  ASSUME ToolsInv, NEW c \in Calls, EndCall(c)
  PROVE  /\ underway' \in [Calls -> Working]
         /\ \A k \in Calls : underway'[k].at = "preparing" => k # c /\ underway'[k] = underway[k]
BY DEF EndCall, ToolsInv, ListsOK, Working, NoCall

LEMMA RefuseKeeps ==
  ASSUME ToolsInv, UNCHANGED place, NEW c \in Calls, Refuse(c)
  PROVE  ToolsInv'
<1>1. UNCHANGED <<projects, open, activity, pending, stamp, scope>> /\ EndCall(c)
  BY PlaceStays DEF Refuse
<1>2. stamp' \in 0..MaxStamp /\ stamp <= stamp'
  BY <1>1, StampStays
<1>3. \A k \in Calls : underway'[k].at = "preparing" => underway'[k] = underway[k] /\ underway[k].plan.id # 0
  <2> SUFFICES ASSUME NEW k \in Calls, underway'[k].at = "preparing"
               PROVE  underway'[k] = underway[k] /\ underway[k].plan.id # 0
    OBVIOUS
  <2>1. underway'[k] = underway[k] /\ underway[k].plan \in Plans
    BY <1>1, CallEnds, WorkingIs DEF ToolsInv
  <2>. QED BY <2>1, AgentBounds DEF Plans
<1>4. UnderwayOK'
  <2>1. \A id : (Applied(id)' => Applied(id) \/ id = 0) /\ (Waits(id)' => Waits(id) \/ id = 0)
    BY <1>1, <1>2, ListsStay
  <2>. QED BY <1>2, <1>3, <2>1, UnderwayLeft
<1>. QED BY <1>1, <1>2, <1>4, PlaceStays, ListsStay, CallEnds DEF ToolsInv, ListsOK, ProposalsOK

LEMMA AskingKeeps ==
  ASSUME ToolsInv, NEW c \in Calls, AskAssistant(c)
  PROVE  ToolsInv'
<1>1. /\ UNCHANGED <<projects, open, activity, pending, stamp, scope>> /\ UNCHANGED place
      /\ underway' = [underway EXCEPT ![c] = [at |-> "asked", owner |-> Owner]]
  BY PlaceStays DEF AskAssistant
<1>2. stamp' \in 0..MaxStamp /\ stamp <= stamp'
  BY <1>1, StampStays
<1>3. underway' \in [Calls -> Working]
  BY <1>1, OwnerIs DEF ToolsInv, ListsOK, Working
<1>4. \A k \in Calls : underway'[k].at = "preparing" => underway'[k] = underway[k] /\ underway[k].plan.id # 0
  <2> SUFFICES ASSUME NEW k \in Calls, underway'[k].at = "preparing"
               PROVE  underway'[k] = underway[k] /\ underway[k].plan.id # 0
    OBVIOUS
  <2>1. underway'[k] = underway[k] /\ underway[k].plan \in Plans
    BY <1>1, WorkingIs DEF ToolsInv, ListsOK
  <2>. QED BY <2>1, AgentBounds DEF Plans
<1>5. UnderwayOK'
  <2>1. \A id : (Applied(id)' => Applied(id) \/ id = 0) /\ (Waits(id)' => Waits(id) \/ id = 0)
    BY <1>1, <1>2, ListsStay
  <2>. QED BY <1>2, <1>4, <2>1, UnderwayLeft
<1>. QED BY <1>1, <1>2, <1>3, <1>5, PlaceStays, ListsStay DEF ToolsInv, ListsOK, ProposalsOK

LEMMA StartKeeps ==
  ASSUME ToolsInv, NEW c \in Calls, NEW source \in Asking, NEW t \in Offered, NEW d \in Docs,
         Start(c, source, t, d)
  PROVE  ToolsInv'
<1>. DEFINE owner == IF source = "app-assistant" THEN underway[c].owner ELSE Owner
            p == [id |-> stamp + 1, tool |-> t, kind |-> Tool[t].kind, source |-> source,
                  doc |-> d, owner |-> owner, seen |-> Here(d)]
<1>1. /\ stamp < MaxStamp /\ UNCHANGED place
      /\ \/ /\ owner = Owner /\ UNCHANGED <<projects, open, activity, pending>>
            /\ underway' = [underway EXCEPT ![c] = [at |-> "preparing", plan |-> p]] /\ stamp' = stamp + 1
         \/ owner = Owner /\ EndCall(c) /\ stamp' = stamp + 1 /\ SettlePlan(p)
         \/ Refuse(c)
  BY DEF Start
<1>2. CASE Refuse(c)
  BY <1>1, <1>2, RefuseKeeps
<1>3. ASSUME owner = Owner, stamp' = stamp + 1
      PROVE  \E x \in Plans : /\ x = p /\ x.id = stamp + 1 /\ x.owner.scope = scope /\ Sorted(x)'
                              /\ ~Applied(x.id) /\ ~Waits(x.id)
  <2>1. t \in ToolNames /\ source \in Sources /\ Tool[t].kind \in Kinds
    BY OfferAssumption, SortsOfTools
  <2>2. Here(d) \in Project
    BY DEF Here, ToolsInv, PlaceOK, ProposalsOK
  <2>3. p \in Plans /\ p.owner.scope = scope
    BY <1>1, <1>3, <2>1, <2>2, OwnerIs, StampGrows DEF Plans, ToolsInv
  <2>4. PICK x \in Plans : x = p /\ x.id = stamp + 1 /\ x.owner.scope = scope /\ x.kind = Tool[x.tool].kind
    BY <2>3
  <2>5. stamp \in Nat
    BY AgentBounds DEF ToolsInv, ListsOK
  <2>6. ~Applied(stamp + 1)
    <3> SUFFICES ASSUME NEW s \in Scopes, NEW i \in DOMAIN activity[s], activity[s][i].id = stamp + 1
                 PROVE  FALSE
      BY DEF Applied
    <3>. QED BY <2>5 DEF ToolsInv, AppliedOK
  <2>7. ~Waits(stamp + 1)
    <3> SUFFICES ASSUME NEW i \in DOMAIN pending, pending[i].plan.id = stamp + 1 PROVE FALSE
      BY DEF Waits
    <3>. QED BY <2>5 DEF ToolsInv, WaitingOK, Sorted
  <2>8. stamp + 1 <= stamp'
    BY <1>3, <2>5
  <2>9. Sorted(x)' /\ ~Applied(x.id) /\ ~Waits(x.id)
    BY <2>4, <2>6, <2>7, <2>8 DEF Sorted
  <2>. QED BY <2>4, <2>9
<1>4. \A k \in Calls : underway[k].at = "preparing" => underway[k].plan.id # stamp + 1
  <2> SUFFICES ASSUME NEW k \in Calls, underway[k].at = "preparing", underway[k].plan.id = stamp + 1
               PROVE  FALSE
    OBVIOUS
  <2>1. stamp \in Nat
    BY AgentBounds DEF ToolsInv, ListsOK
  <2>. QED BY <2>1 DEF ToolsInv, UnderwayOK, Sorted
<1>5. CASE owner = Owner /\ EndCall(c) /\ stamp' = stamp + 1 /\ SettlePlan(p)
  <2>1. PICK x \in Plans : /\ x.id = stamp + 1 /\ x.owner.scope = scope /\ Sorted(x)'
                           /\ ~Applied(x.id) /\ ~Waits(x.id) /\ SettlePlan(x)
    BY <1>3, <1>5
  <2>2. stamp' \in 0..MaxStamp /\ stamp <= stamp'
    BY <1>1, <1>5, StampGrows
  <2>3. /\ ProposalsOK' /\ WaitingOK' /\ AppliedOK'
        /\ pending' \in Seq(Action) /\ Len(pending') <= MaxPending
        /\ activity' \in [Scopes -> Seq(Activity)]
        /\ \A s \in Scopes : Len(activity'[s]) <= MaxActivity
        /\ \A id : (Applied(id)' => Applied(id) \/ id = x.id) /\ (Waits(id)' => Waits(id) \/ id = x.id)
    BY <1>1, <2>1, <2>2, SettleKeeps
  <2>4. UnderwayOK'
    <3>1. \A k \in Calls :
            underway'[k].at = "preparing" => underway'[k] = underway[k] /\ underway[k].plan.id # x.id
      BY <1>4, <1>5, <2>1, CallEnds
    <3>. QED BY <2>2, <2>3, <3>1, UnderwayLeft
  <2>. QED BY <1>1, <1>5, <2>2, <2>3, <2>4, PlaceStays, CallEnds DEF ToolsInv, ListsOK
<1>6. CASE /\ owner = Owner /\ UNCHANGED <<projects, open, activity, pending>>
           /\ underway' = [underway EXCEPT ![c] = [at |-> "preparing", plan |-> p]] /\ stamp' = stamp + 1
  <2>1. PICK x \in Plans : /\ x.id = stamp + 1 /\ Sorted(x)' /\ ~Applied(x.id) /\ ~Waits(x.id)
                           /\ underway' = [underway EXCEPT ![c] = [at |-> "preparing", plan |-> x]]
    BY <1>3, <1>6
  <2>2. stamp' \in 0..MaxStamp /\ stamp <= stamp' /\ scope' = scope
    BY <1>1, <1>6, StampGrows, PlaceStays
  <2>3. underway' \in [Calls -> Working]
    BY <2>1 DEF ToolsInv, ListsOK, Working
  <2>4. UnderwayOK'
    <3> SUFFICES ASSUME NEW k \in Calls, underway'[k].at = "preparing"
                 PROVE  /\ underway'[k].plan.kind = Tool[underway'[k].plan.tool].kind
                        /\ underway'[k].plan.id <= stamp'
                        /\ \A id : id = underway'[k].plan.id => ~Applied(id) /\ ~Waits(id)
                        /\ \A j \in Calls :
                             underway'[j].at = "preparing" /\ underway'[j].plan.id = underway'[k].plan.id =>
                               j = k
      BY <1>6 DEF UnderwayOK, Sorted, Applied, Waits
    <3>1. \A j \in Calls : \/ j = c /\ underway'[j].plan = x
                           \/ j # c /\ underway'[j] = underway[j]
      BY <2>1 DEF ToolsInv, ListsOK
    <3>2. CASE k = c
      <4>1. underway'[k].plan = x
        BY <3>1, <3>2
      <4>2. \A j \in Calls : j # k /\ underway'[j].at = "preparing" => underway'[j].plan.id # x.id
        BY <1>4, <2>1, <3>1, <3>2
      <4>3. x.kind = Tool[x.tool].kind /\ x.id <= stamp'
        BY <2>1 DEF Sorted
      <4>. QED BY <2>1, <4>1, <4>2, <4>3
    <3>3. CASE k # c
      <4>1. underway'[k] = underway[k] /\ underway[k].plan.id # x.id
        BY <1>4, <2>1, <3>1, <3>3
      <4>2. /\ Sorted(underway[k].plan) /\ ~Applied(underway[k].plan.id) /\ ~Waits(underway[k].plan.id)
            /\ \A j \in Calls :
                 underway[j].at = "preparing" /\ underway[j].plan.id = underway[k].plan.id => j = k
        BY <4>1 DEF ToolsInv, UnderwayOK
      <4>3. underway[k].plan.id <= stamp'
        <5>1. underway[k].plan.id \in 1..MaxStamp
          BY <4>1, WorkingIs DEF ToolsInv, Plans
        <5>. QED BY <2>2, <4>2, <5>1, AgentBounds DEF ToolsInv, ListsOK, Sorted
      <4>4. \A j \in Calls :
              underway'[j].at = "preparing" /\ underway'[j].plan.id = underway'[k].plan.id => j = k
        BY <2>1, <3>1, <4>1, <4>2
      <4>5. underway'[k].plan.kind = Tool[underway'[k].plan.tool].kind
        BY <4>1, <4>2 DEF Sorted
      <4>. QED BY <4>1, <4>2, <4>3, <4>4, <4>5
    <3>. QED BY <3>2, <3>3
  <2>. QED BY <1>1, <1>6, <2>2, <2>3, <2>4, PlaceStays, ListsStay DEF ToolsInv, ListsOK, ProposalsOK
<1>. QED BY <1>1, <1>2, <1>5, <1>6

LEMMA FinishKeeps ==
  ASSUME ToolsInv, NEW c \in Calls, Finish(c)
  PROVE  ToolsInv'
<1>1. underway[c].at = "preparing" /\ UNCHANGED place
  BY DEF Finish
<1>2. CASE Refuse(c)
  BY <1>1, <1>2, RefuseKeeps
<1>3. CASE StillAllowed(underway[c].plan) /\ EndCall(c) /\ SettlePlan(underway[c].plan) /\ UNCHANGED stamp
  <2>1. PICK p \in Plans : p = underway[c].plan
    BY <1>1, WorkingIs DEF ToolsInv
  <2>2. stamp' \in 0..MaxStamp /\ stamp <= stamp'
    BY <1>3, StampStays
  <2>3. /\ Sorted(p) /\ ~Applied(p.id) /\ ~Waits(p.id)
        /\ \A k \in Calls : underway[k].at = "preparing" /\ underway[k].plan.id = p.id => k = c
    BY <1>1, <2>1 DEF ToolsInv, UnderwayOK
  <2>4. Sorted(p)' /\ p.owner.scope = scope /\ SettlePlan(p)
    BY <1>3, <2>1, <2>3, OwnerIs DEF Sorted, StillAllowed, ToolsInv
  <2>5. /\ ProposalsOK' /\ WaitingOK' /\ AppliedOK'
        /\ pending' \in Seq(Action) /\ Len(pending') <= MaxPending
        /\ activity' \in [Scopes -> Seq(Activity)]
        /\ \A s \in Scopes : Len(activity'[s]) <= MaxActivity
        /\ \A id : (Applied(id)' => Applied(id) \/ id = p.id) /\ (Waits(id)' => Waits(id) \/ id = p.id)
    BY <1>1, <2>2, <2>3, <2>4, SettleKeeps
  <2>6. UnderwayOK'
    <3>1. \A k \in Calls :
            underway'[k].at = "preparing" => underway'[k] = underway[k] /\ underway[k].plan.id # p.id
      BY <1>3, <2>3, CallEnds
    <3>. QED BY <2>2, <2>5, <3>1, UnderwayLeft
  <2>. QED BY <1>1, <1>3, <2>2, <2>5, <2>6, PlaceStays, CallEnds DEF ToolsInv, ListsOK
<1>. QED BY <1>2, <1>3 DEF Finish

LEMMA UnderwayStays ==
  ASSUME ToolsInv, stamp' \in 0..MaxStamp, stamp <= stamp', underway' = underway,
         NEW x, \A c \in Calls : underway[c].at = "preparing" => underway[c].plan.id # x,
         \A id : (Applied(id)' => Applied(id) \/ id = x) /\ (Waits(id)' => Waits(id))
  PROVE  UnderwayOK' /\ underway' \in [Calls -> Working]
<1>1. \A id : (Applied(id)' => Applied(id) \/ id = x) /\ (Waits(id)' => Waits(id) \/ id = x)
  OBVIOUS
<1>2. \A c \in Calls : underway'[c].at = "preparing" => underway'[c] = underway[c] /\ underway[c].plan.id # x
  OBVIOUS
<1>. QED BY <1>1, <1>2, UnderwayLeft DEF ToolsInv, ListsOK

LEMMA PlansArePositive ==
  ASSUME ListsOK
  PROVE  /\ \A c \in Calls : underway[c].at = "preparing" => underway[c].plan.id # 0
         /\ \A i \in DOMAIN pending : pending[i].plan.id # 0
<1>1. \A p \in Plans : p.id # 0
  BY AgentBounds DEF Plans
<1>. QED BY <1>1, WorkingIs, PendingIs

(* The lists and the calls stay, at most a later stamp.                      *)
LEMMA AllStay ==
  ASSUME ToolsInv, stamp' \in 0..MaxStamp, stamp <= stamp', UNCHANGED <<pending, activity, underway, scope>>
  PROVE  ListsOK' /\ UnderwayOK' /\ WaitingOK' /\ AppliedOK'
<1>1. /\ WaitingOK' /\ AppliedOK'
      /\ pending' \in Seq(Action) /\ Len(pending') <= MaxPending
      /\ activity' \in [Scopes -> Seq(Activity)]
      /\ \A s \in Scopes : Len(activity'[s]) <= MaxActivity
      /\ \A id : (Applied(id)' => Applied(id)) /\ (Waits(id)' => Waits(id))
  BY ListsStay
<1>2. UnderwayOK' /\ underway' \in [Calls -> Working]
  <2>1. \A id : (Applied(id)' => Applied(id) \/ id = 0) /\ (Waits(id)' => Waits(id))
    BY <1>1
  <2>. QED BY <2>1, UnderwayStays, PlansArePositive DEF ToolsInv
<1>. QED BY <1>1, <1>2 DEF ListsOK

(* What waits keeps its plans, and decides no action anew.                    *)
LEMMA PendingChanged ==
  ASSUME ToolsInv, UNCHANGED <<scope, stamp>>, pending' \in Seq(Action), DOMAIN pending' = DOMAIN pending,
         NEW x, \A id : Applied(id)' => Applied(id) \/ id = x,
         \A i \in DOMAIN pending :
           /\ pending'[i].plan = pending[i].plan
           /\ pending'[i].status = "pending" => pending[i].status = "pending" /\ pending[i].plan.id # x
  PROVE  WaitingOK' /\ Len(pending') <= MaxPending /\ \A id : Waits(id)' => Waits(id)
<1>1. Len(pending') <= MaxPending
  <2>1. Len(pending') = Len(pending)
    BY DEF ToolsInv, ListsOK
  <2>. QED BY <2>1 DEF ToolsInv, ListsOK
<1>2. WaitingOK'
  <2> SUFFICES ASSUME NEW i \in DOMAIN pending
               PROVE  /\ pending'[i].plan.kind = Tool[pending'[i].plan.tool].kind
                      /\ pending'[i].plan.id <= stamp /\ pending'[i].plan.owner.scope = scope
                      /\ pending'[i].status = "pending" => \A id : id = pending[i].plan.id => ~Applied(id)'
                      /\ \A j \in DOMAIN pending : pending'[j].plan.id = pending'[i].plan.id => j = i
    BY DEF WaitingOK, Sorted, Applied
  <2>1. /\ Sorted(pending[i].plan) /\ pending[i].plan.owner.scope = scope
        /\ pending[i].status = "pending" => ~Applied(pending[i].plan.id)
        /\ \A j \in DOMAIN pending : pending[j].plan.id = pending[i].plan.id => j = i
    BY DEF ToolsInv, WaitingOK
  <2>2. pending'[i].status = "pending" => \A id : id = pending[i].plan.id => ~Applied(id)'
    BY <2>1
  <2>. QED BY <2>1, <2>2 DEF Sorted
<1>3. \A id : Waits(id)' => Waits(id)
  BY DEF Waits
<1>. QED BY <1>1, <1>2, <1>3

LEMMA PendingSet ==
  ASSUME ListsOK, NEW i \in DOMAIN pending, NEW status \in Statuses, SetPending(i, status)
  PROVE  /\ pending' \in Seq(Action) /\ DOMAIN pending' = DOMAIN pending
         /\ \A j \in DOMAIN pending : pending'[j].plan = pending[j].plan
         /\ pending'[i].status = status
         /\ \A j \in DOMAIN pending : j # i => pending'[j] = pending[j]
<1>1. PICK a \in Action : a = pending[i]
  BY PendingIs
<1>2. PICK b \in Action : /\ b = [pending[i] EXCEPT !.status = status]
                          /\ b.plan = a.plan /\ b.status = status
  <2>1. PICK b : b = [a EXCEPT !.status = status]
    OBVIOUS
  <2>2. b \in Action /\ b.plan = a.plan /\ b.status = status
    BY <2>1 DEF Action
  <2>. QED BY <1>1, <2>1, <2>2
<1>3. pending' = [pending EXCEPT ![i] = b]
  BY <1>2 DEF SetPending
<1>4. PICK n \in Nat : DOMAIN pending = 1..n /\ \A j \in 1..n : pending[j] \in Action
  BY PendingIs DEF ListsOK
<1>5. pending = [j \in 1..n |-> pending[j]]
  BY <1>4 DEF ListsOK
<1>6. /\ pending' = [j \in 1..n |-> IF j = i THEN b ELSE pending[j]]
      /\ \A j \in 1..n : (IF j = i THEN b ELSE pending[j]) \in Action
  BY <1>3, <1>4, <1>5
<1>7. pending' \in Seq(Action)
  BY <1>6
<1>. QED BY <1>1, <1>2, <1>3, <1>4, <1>6, <1>7

(* Only the queue changes, and decides nothing anew.                          *)
LEMMA OnlyQueueChanges ==
  ASSUME ToolsInv, UNCHANGED <<place, projects, open, activity, underway, stamp>>,
         pending' \in Seq(Action), DOMAIN pending' = DOMAIN pending,
         \A i \in DOMAIN pending :
           /\ pending'[i].plan = pending[i].plan
           /\ pending'[i].status = "pending" => pending[i].status = "pending"
  PROVE  ToolsInv'
<1>1. UNCHANGED place /\ scope' = scope /\ stamp' \in 0..MaxStamp /\ stamp <= stamp'
  BY PlaceStays, StampStays
<1>2. \A id : Applied(id)' => Applied(id) \/ id = 0
  BY DEF Applied
<1>3. WaitingOK' /\ Len(pending') <= MaxPending /\ \A id : Waits(id)' => Waits(id)
  <2>1. \A i \in DOMAIN pending :
          /\ pending'[i].plan = pending[i].plan
          /\ pending'[i].status = "pending" => pending[i].status = "pending" /\ pending[i].plan.id # 0
    BY PlansArePositive DEF ToolsInv
  <2>. QED BY <1>1, <1>2, <2>1, PendingChanged
<1>4. UnderwayOK' /\ underway' \in [Calls -> Working]
  <2>1. \A id : (Applied(id)' => Applied(id) \/ id = 0) /\ (Waits(id)' => Waits(id))
    BY <1>2, <1>3
  <2>. QED BY <1>1, <2>1, UnderwayStays, PlansArePositive DEF ToolsInv
<1>. QED BY <1>1, <1>3, <1>4, PlaceStays DEF ToolsInv, ListsOK, ProposalsOK, AppliedOK

LEMMA ConfirmKeeps ==
  ASSUME ToolsInv, NEW i \in DOMAIN pending, Confirm(i)
  PROVE  ToolsInv'
<1>. DEFINE p == pending[i].plan
<1>1. UNCHANGED <<place, underway, stamp>> /\ UNCHANGED place /\ pending[i].status = "pending"
  BY DEF Confirm, Decidable
<1>2. CASE /\ SetPending(i, "expired") \/ SetPending(i, "failed")
           /\ UNCHANGED <<projects, open, activity>>
  <2>1. PICK status \in Statuses \ {"pending"} : SetPending(i, status)
    BY <1>2 DEF Statuses
  <2>2. /\ pending' \in Seq(Action) /\ DOMAIN pending' = DOMAIN pending
        /\ \A j \in DOMAIN pending : /\ pending'[j].plan = pending[j].plan
                                     /\ pending'[j].status = "pending" => pending[j].status = "pending"
    BY <2>1, PendingSet DEF ToolsInv
  <2>. QED BY <1>1, <1>2, <2>2, OnlyQueueChanges
<1>3. CASE Apply(p) /\ SetPending(i, "applied")
  <2>1. PICK x \in Plans : x = p
    BY PendingIs DEF ToolsInv
  <2>2. /\ Sorted(x) /\ x.owner.scope = scope /\ ~Applied(x.id) /\ Waits(x.id)
        /\ \A j \in DOMAIN pending : pending[j].plan.id = x.id => j = i
    BY <1>1, <2>1 DEF ToolsInv, WaitingOK, Waits
  <2>3. stamp' \in 0..MaxStamp /\ stamp <= stamp' /\ scope' = scope
    BY <1>1, StampStays, PlaceStays
  <2>4. /\ ProposalsOK' /\ AppliedOK'
        /\ activity' \in [Scopes -> Seq(Activity)]
        /\ \A s \in Scopes : Len(activity'[s]) <= MaxActivity
        /\ \A id : Applied(id)' => Applied(id) \/ id = x.id
    BY <1>1, <1>3, <2>1, <2>2, <2>3, ApplyKeeps DEF Sorted
  <2>5. /\ pending' \in Seq(Action) /\ DOMAIN pending' = DOMAIN pending
        /\ \A j \in DOMAIN pending : /\ pending'[j].plan = pending[j].plan
                                     /\ pending'[j].status = "pending" =>
                                          pending[j].status = "pending" /\ pending[j].plan.id # x.id
    <3>1. /\ pending' \in Seq(Action) /\ DOMAIN pending' = DOMAIN pending
          /\ \A j \in DOMAIN pending : pending'[j].plan = pending[j].plan
          /\ pending'[i].status = "applied"
          /\ \A j \in DOMAIN pending : j # i => pending'[j] = pending[j]
      BY <1>3, PendingSet DEF ToolsInv, Statuses
    <3>. QED BY <2>2, <3>1
  <2>6. WaitingOK' /\ Len(pending') <= MaxPending /\ \A id : Waits(id)' => Waits(id)
    BY <1>1, <2>3, <2>4, <2>5, PendingChanged
  <2>7. UnderwayOK' /\ underway' \in [Calls -> Working]
    <3>1. \A c \in Calls : underway[c].at = "preparing" => underway[c].plan.id # x.id
      BY <2>2 DEF ToolsInv, UnderwayOK
    <3>. QED BY <1>1, <2>3, <2>4, <2>6, <3>1, UnderwayStays
  <2>. QED BY <1>1, <2>3, <2>4, <2>5, <2>6, <2>7, PlaceStays DEF ToolsInv, ListsOK
<1>. QED BY <1>2, <1>3 DEF Confirm

LEMMA RejectKeeps ==
  ASSUME ToolsInv, NEW i \in DOMAIN pending, Reject(i)
  PROVE  ToolsInv'
<1>1. /\ pending' \in Seq(Action) /\ DOMAIN pending' = DOMAIN pending
      /\ \A j \in DOMAIN pending : /\ pending'[j].plan = pending[j].plan
                                   /\ pending'[j].status = "pending" => pending[j].status = "pending"
  BY PendingSet DEF Reject, ToolsInv, Statuses
<1>. QED BY <1>1, OnlyQueueChanges DEF Reject

LEMMA ExpireKeeps ==
  ASSUME ToolsInv, NEW i \in DOMAIN pending, Expire(i)
  PROVE  ToolsInv'
<1>1. \A j \in DOMAIN pending : \E a \in Action :
        /\ a = (IF j >= i THEN [pending[j] EXCEPT !.late = TRUE] ELSE pending[j])
        /\ a.plan = pending[j].plan /\ a.status = pending[j].status
  <2> SUFFICES ASSUME NEW j \in DOMAIN pending
               PROVE  \E a \in Action :
                        /\ a = (IF j >= i THEN [pending[j] EXCEPT !.late = TRUE] ELSE pending[j])
                        /\ a.plan = pending[j].plan /\ a.status = pending[j].status
    OBVIOUS
  <2>1. PICK b \in Action : b = pending[j]
    BY PendingIs DEF ToolsInv
  <2>2. PICK a \in Action : a = [b EXCEPT !.late = TRUE] /\ a.plan = b.plan /\ a.status = b.status
    <3>1. PICK a : a = [b EXCEPT !.late = TRUE]
      OBVIOUS
    <3>2. a \in Action /\ a.plan = b.plan /\ a.status = b.status
      BY <3>1 DEF Action
    <3>. QED BY <3>1, <3>2
  <2>. QED BY <2>1, <2>2
<1>2. PICK f : f = [j \in DOMAIN pending |->
                     IF j >= i THEN [pending[j] EXCEPT !.late = TRUE] ELSE pending[j]]
  OBVIOUS
<1>3. /\ \A j \in DOMAIN pending :
           f[j] \in Action /\ f[j].plan = pending[j].plan /\ f[j].status = pending[j].status
      /\ DOMAIN f = DOMAIN pending /\ f = [j \in DOMAIN pending |-> f[j]]
  BY <1>1, <1>2
<1>4. f \in Seq(Action)
  <2>1. DOMAIN pending = 1..Len(pending) /\ Len(pending) \in Nat
    BY DEF ToolsInv, ListsOK
  <2>. QED BY <1>3, <2>1
<1>5. pending' = f
  BY <1>2 DEF Expire
<1>. QED BY <1>3, <1>4, <1>5, OnlyQueueChanges DEF Expire

(* Undoing marks one entry, and keeps what every entry tells of its plan.     *)
LEMMA UndoMarks ==
  ASSUME ToolsInv, NEW i \in DOMAIN activity[scope],
         activity' = [activity EXCEPT ![scope][i].status = "undone"]
  PROVE  /\ activity' \in [Scopes -> Seq(Activity)]
         /\ \A s \in Scopes : Len(activity'[s]) <= MaxActivity
         /\ \A s \in Scopes : DOMAIN activity'[s] = DOMAIN activity[s]
         /\ \A s \in Scopes : \A j \in DOMAIN activity[s] :
              /\ activity'[s][j].id = activity[s][j].id /\ activity'[s][j].after = activity[s][j].after
              /\ activity'[s][j].asked = activity[s][j].asked
              /\ s # scope \/ j # i => activity'[s][j] = activity[s][j]
<1>1. scope \in Scopes
  BY DEF ToolsInv, PlaceOK
<1>2. PICK a \in Activity : a = activity[scope][i]
  BY <1>1 DEF ToolsInv, ListsOK
<1>3. PICK b \in Activity : /\ b = [activity[scope][i] EXCEPT !.status = "undone"]
                            /\ b.id = a.id /\ b.after = a.after /\ b.asked = a.asked
  <2>1. PICK b : b = [a EXCEPT !.status = "undone"]
    OBVIOUS
  <2>2. b \in Activity /\ b.id = a.id /\ b.after = a.after /\ b.asked = a.asked
    BY <2>1 DEF Activity
  <2>. QED BY <1>2, <2>1, <2>2
<1>4. PICK t : /\ t \in Seq(Activity) /\ Len(t) = Len(activity[scope]) /\ DOMAIN t = DOMAIN activity[scope]
               /\ \A j \in DOMAIN t : /\ t[j].id = activity[scope][j].id
                                      /\ t[j].after = activity[scope][j].after
                                      /\ t[j].asked = activity[scope][j].asked
                                      /\ j # i => t[j] = activity[scope][j]
               /\ activity' = [activity EXCEPT ![scope] = t]
  <2>1. PICK n \in Nat : /\ DOMAIN activity[scope] = 1..n /\ n = Len(activity[scope])
                         /\ \A j \in 1..n : activity[scope][j] \in Activity
    <3>1. activity[scope] \in Seq(Activity)
      BY <1>1 DEF ToolsInv, ListsOK
    <3>. QED BY <3>1
  <2>2. PICK t : t = [j \in 1..n |-> IF j = i THEN b ELSE activity[scope][j]]
    OBVIOUS
  <2>3. t \in Seq(Activity) /\ Len(t) = n /\ DOMAIN t = 1..n
    BY <2>1, <2>2
  <2>4. \A j \in 1..n : /\ t[j].id = activity[scope][j].id
                        /\ t[j].after = activity[scope][j].after
                        /\ t[j].asked = activity[scope][j].asked
                        /\ j # i => t[j] = activity[scope][j]
    BY <1>2, <1>3, <2>2
  <2>5. t = [activity[scope] EXCEPT ![i] = b]
    <3>1. activity[scope] = [j \in 1..n |-> activity[scope][j]]
      BY <1>1, <2>1 DEF ToolsInv, ListsOK
    <3>. QED BY <2>2, <3>1
  <2>6. activity' = [activity EXCEPT ![scope] = [activity[scope] EXCEPT ![i] = b]]
    BY <1>3
  <2>. QED BY <2>1, <2>3, <2>4, <2>5, <2>6
<1>. QED BY <1>1, <1>4 DEF ToolsInv, ListsOK

LEMMA UndoKeeps ==
  ASSUME ToolsInv, NEW i \in DOMAIN activity[scope], Undo(i)
  PROVE  ToolsInv'
<1>. DEFINE e == activity[scope][i]
<1>1. UNCHANGED <<place, pending, underway, stamp>> /\ UNCHANGED place /\ scope' = scope /\ scope \in Scopes
      /\ activity' = [activity EXCEPT ![scope][i].status = "undone"]
  BY PlaceStays DEF Undo
<1>2. stamp' \in 0..MaxStamp /\ stamp <= stamp'
  BY <1>1, StampStays
<1>3. PICK a \in Activity : a = e
  BY <1>1 DEF ToolsInv, ListsOK
<1>4. a.tool \in ToolNames /\ a.doc \in Docs /\ a.before \in 0..MaxStamp
  BY DEF Activity
<1>5. ProposalsOK'
  <2>1. Here(a.doc) \in Project
    BY <1>1, <1>4 DEF Here, ToolsInv, ProposalsOK
  <2>2. CASE MoveToTrash(a.doc)
    BY <1>1, <1>4, <2>2, TrashKeeps DEF ToolsInv, ProposalsOK
  <2>3. CASE RestoreProject(a.doc)
    BY <1>1, <1>4, <2>3, RestoreKeeps DEF ToolsInv, ProposalsOK
  <2>4. CASE /\ Tool[a.tool].undo = "fields" /\ open' = open
             /\ Put(a.doc, Written(Here(a.doc), Tool[a.tool].part, a.before))
    <3>1. Written(Here(a.doc), Tool[a.tool].part, a.before) \in Project
      BY <1>4, <2>1, <2>4, SortsOfTools, ProjectWritten
    <3>. QED BY <1>1, <1>4, <2>4, <3>1, PutKeeps DEF ToolsInv, ProposalsOK
  <2>5. Tool[a.tool].undo \in {"fields", "trash", "restore"}
    BY <1>3, <1>4, SortsOfTools DEF Undo
  <2>. QED BY <1>3, <2>2, <2>3, <2>4, <2>5 DEF Undo
<1>6. /\ activity' \in [Scopes -> Seq(Activity)]
      /\ \A s \in Scopes : Len(activity'[s]) <= MaxActivity
      /\ \A s \in Scopes : DOMAIN activity'[s] = DOMAIN activity[s]
      /\ \A s \in Scopes : \A j \in DOMAIN activity[s] :
           /\ activity'[s][j].id = activity[s][j].id /\ activity'[s][j].after = activity[s][j].after
           /\ activity'[s][j].asked = activity[s][j].asked
  BY <1>1, UndoMarks
<1>7. AppliedOK'
  BY <1>1, <1>6 DEF ToolsInv, AppliedOK
<1>8. \A id : (Applied(id)' => Applied(id)) /\ (Waits(id)' => Waits(id))
  BY <1>1, <1>6 DEF Applied, Waits
<1>9. WaitingOK'
  <2>1. \A id : Applied(id)' => Applied(id) \/ id = 0
    BY <1>8
  <2>2. \A j \in DOMAIN pending :
          /\ pending'[j].plan = pending[j].plan
          /\ pending'[j].status = "pending" => pending[j].status = "pending" /\ pending[j].plan.id # 0
    BY <1>1, PlansArePositive DEF ToolsInv
  <2>3. pending' \in Seq(Action) /\ DOMAIN pending' = DOMAIN pending
    BY <1>1 DEF ToolsInv, ListsOK
  <2>. QED BY <1>1, <2>1, <2>2, <2>3, PendingChanged
<1>10. UnderwayOK' /\ underway' \in [Calls -> Working]
  <2>1. \A id : (Applied(id)' => Applied(id) \/ id = 0) /\ (Waits(id)' => Waits(id))
    BY <1>8
  <2>. QED BY <1>1, <1>2, <2>1, UnderwayStays, PlansArePositive DEF ToolsInv
<1>. QED BY <1>1, <1>2, <1>5, <1>6, <1>7, <1>9, <1>10, PlaceStays DEF ToolsInv, ListsOK

LEMMA EditKeeps ==
  ASSUME ToolsInv, NEW d \in Docs, NEW part \in {"content", "status"}, Edit(d, part)
  PROVE  ToolsInv'
<1>1. /\ UNCHANGED place /\ UNCHANGED <<open, activity, pending, underway, scope>>
      /\ stamp < MaxStamp /\ stamp' = stamp + 1 /\ Put(d, Written(Here(d), part, stamp + 1))
  BY PlaceStays DEF Edit
<1>2. stamp' \in 0..MaxStamp /\ stamp <= stamp' /\ scope \in Scopes
  BY <1>1, StampGrows, PlaceStays
<1>3. Written(Here(d), part, stamp + 1) \in Project
  <2>1. Here(d) \in Project
    BY <1>2 DEF Here, ToolsInv, ProposalsOK
  <2>2. stamp + 1 \in 0..MaxStamp
    BY <1>1, <1>2
  <2>. QED BY <2>1, <2>2, ProjectWritten
<1>4. ProposalsOK'
  BY <1>1, <1>2, <1>3, PutKeeps DEF ToolsInv, ProposalsOK
<1>. QED BY <1>1, <1>2, <1>4, AllStay, PlaceStays DEF ToolsInv

LEMMA OpenKeeps ==
  ASSUME ToolsInv, NEW d \in Docs, OpenProject(d)
  PROVE  ToolsInv'
<1>1. /\ UNCHANGED place /\ UNCHANGED <<projects, activity, pending, underway, stamp, scope>>
      /\ open' = [open EXCEPT ![scope] = d]
  BY PlaceStays DEF OpenProject
<1>2. ProposalsOK'
  BY <1>1 DEF ToolsInv, ProposalsOK
<1>. QED BY <1>1, <1>2, StampStays, AllStay, PlaceStays DEF ToolsInv

LEMMA TurnIs ==
  PlaceOK /\ Turn => turns' \in 0..MaxTurns /\ turns' = turns + 1 /\ gen \in Nat /\ turns \in Nat
BY AgentBounds DEF PlaceOK, Turn

LEMMA ConflictKeeps ==
  ASSUME ToolsInv, NEW d \in Docs, Conflict(d)
  PROVE  ToolsInv'
<1>1. /\ UNCHANGED <<policy, session, gen, scope, open, activity, pending, underway, stamp>> /\ Turn
      /\ Put(d, [Here(d) EXCEPT !.conflict = TRUE])
  BY DEF Conflict
<1>2. PlaceOK'
  BY <1>1, TurnIs DEF ToolsInv, PlaceOK
<1>3. ProposalsOK'
  <2>1. scope \in Scopes /\ ProposalsOK
    BY DEF ToolsInv, PlaceOK
  <2>2. PICK h \in Project : h = Here(d)
    BY <2>1 DEF Here, ProposalsOK
  <2>3. [h EXCEPT !.conflict = TRUE] \in Project
    BY DEF Project
  <2>. QED BY <1>1, <2>1, <2>2, <2>3, PutKeeps DEF ProposalsOK
<1>. QED BY <1>1, <1>2, <1>3, StampStays, AllStay DEF ToolsInv

LEMMA PolicyKeeps ==
  ASSUME ToolsInv, NEW key \in {"internal", "external"}, NEW kind \in Kinds, NEW level \in Levels,
         SetPolicy(key, kind, level)
  PROVE  ToolsInv'
<1>1. /\ UNCHANGED <<session, gen, scope, projects, open, activity, pending, underway, stamp>> /\ Turn
      /\ policy' = [policy EXCEPT ![key][kind] = level]
  BY DEF SetPolicy
<1>2. PlaceOK'
  BY <1>1, TurnIs DEF ToolsInv, PlaceOK
<1>. QED BY <1>1, <1>2, StampStays, AllStay DEF ToolsInv, ProposalsOK

LEMMA RoleKeeps ==
  ASSUME ToolsInv, RoleChanges
  PROVE  ToolsInv'
<1>1. /\ UNCHANGED <<policy, gen, scope, projects, open, activity, pending, underway, stamp>> /\ Turn
      /\ session' = [session EXCEPT !.writer = ~session.writer]
  BY DEF RoleChanges
<1>2. session' \in Session
  <2>1. PICK h \in Session : h = session
    BY DEF ToolsInv, PlaceOK
  <2>2. h.user \in Users \cup {Null} /\ h.token \in BOOLEAN
        /\ h = [user |-> h.user, token |-> h.token, writer |-> h.writer]
    BY DEF Session
  <2>3. PICK w \in BOOLEAN : w = ~h.writer
    OBVIOUS
  <2>4. session' = [user |-> h.user, token |-> h.token, writer |-> w]
    BY <1>1, <2>1, <2>2, <2>3
  <2>. QED BY <2>2, <2>4 DEF Session
<1>3. PlaceOK'
  BY <1>1, <1>2, TurnIs DEF ToolsInv, PlaceOK
<1>. QED BY <1>1, <1>3, StampStays, AllStay DEF ToolsInv, ProposalsOK

LEMMA EnterKeeps ==
  ASSUME ToolsInv, NEW s \in Session, NEW next \in Scopes, Enter(s, next)
  PROVE  ToolsInv'
<1>1. /\ UNCHANGED <<policy, projects, open, activity, underway, stamp>> /\ Turn
      /\ session' = s /\ gen' = gen + 1 /\ scope' = next /\ pending' = QueueIn(next)
  BY DEF Enter
<1>2. PlaceOK'
  BY <1>1, TurnIs DEF ToolsInv, PlaceOK
<1>3. CASE next = scope
  BY <1>1, <1>2, <1>3, StampStays, AllStay DEF ToolsInv, ProposalsOK, QueueIn
<1>4. CASE next # scope
  <2>1. pending' = <<>>
    BY <1>1, <1>4 DEF QueueIn
  <2>2. \A id : ~Waits(id)'
    BY <2>1 DEF Waits
  <2>3. \A id : Applied(id)' => Applied(id)
    BY <1>1 DEF Applied
  <2>4. UnderwayOK' /\ underway' \in [Calls -> Working]
    <3>1. \A id : (Applied(id)' => Applied(id) \/ id = 0) /\ (Waits(id)' => Waits(id))
      BY <2>2, <2>3
    <3>. QED BY <1>1, <3>1, StampStays, UnderwayStays, PlansArePositive DEF ToolsInv
  <2>5. WaitingOK' /\ pending' \in Seq(Action) /\ Len(pending') <= MaxPending
    BY <2>1, AgentBounds DEF WaitingOK
  <2>. QED BY <1>1, <1>2, <2>4, <2>5, StampStays DEF ToolsInv, ListsOK, ProposalsOK, AppliedOK
<1>. QED BY <1>3, <1>4

LEMMA ReloadKeeps ==
  ASSUME ToolsInv, Reload
  PROVE  ToolsInv'
<1>1. /\ UNCHANGED <<policy, session, scope, projects, open, activity, stamp>> /\ Turn
      /\ pending' = <<>> /\ underway' = [c \in Calls |-> NoCall] /\ gen' = 0
  BY DEF Reload
<1>2. PlaceOK'
  BY <1>1, TurnIs DEF ToolsInv, PlaceOK
<1>3. WaitingOK' /\ pending' \in Seq(Action) /\ Len(pending') <= MaxPending
  BY <1>1, AgentBounds DEF WaitingOK
<1>4. UnderwayOK' /\ underway' \in [Calls -> Working]
  BY <1>1 DEF UnderwayOK, Working, NoCall
<1>. QED BY <1>1, <1>2, <1>3, <1>4, StampStays DEF ToolsInv, ListsOK, ProposalsOK, AppliedOK

LEMMA ToolsStutter == ToolsInv /\ UNCHANGED agentVars => ToolsInv'
BY DEF ToolsInv, agentVars, PlaceOK, ProposalsOK, ListsOK, UnderwayOK, WaitingOK, AppliedOK,
       Applied, Waits, Sorted

LEMMA ToolsStep == ToolsInv /\ AgentNext => ToolsInv'
<1> SUFFICES ASSUME ToolsInv, AgentNext PROVE ToolsInv'
  OBVIOUS
<1>0. session \in Session /\ scope \in Scopes
  BY DEF ToolsInv, PlaceOK
<1>1. CASE \E c \in Calls : AskAssistant(c) \/ Finish(c) \/ Cancel(c)
  BY <1>1, AskingKeeps, FinishKeeps, RefuseKeeps DEF Cancel
<1>2. CASE \E c \in Calls, s \in Asking, t \in Offered, d \in Docs : Start(c, s, t, d)
  BY <1>2, StartKeeps
<1>3. CASE \E i \in DOMAIN pending : Confirm(i) \/ Reject(i) \/ Expire(i)
  BY <1>3, ConfirmKeeps, RejectKeeps, ExpireKeeps
<1>4. CASE \E i \in DOMAIN activity[scope] : Undo(i)
  BY <1>4, UndoKeeps
<1>5. CASE \/ \E d \in Docs, part \in {"content", "status"} : Edit(d, part)
           \/ \E d \in Docs : OpenProject(d) \/ Conflict(d)
  BY <1>5, EditKeeps, OpenKeeps, ConflictKeeps
<1>6. CASE \E key \in {"internal", "external"}, kind \in Kinds, level \in Levels : SetPolicy(key, kind, level)
  BY <1>6, PolicyKeeps
<1>7. CASE \E u \in Users, w \in BOOLEAN : SignIn(u, w)
  <2>1. PICK u \in Users, w \in BOOLEAN : Enter([user |-> u, token |-> TRUE, writer |-> w], OrgOf[u])
    BY <1>7 DEF SignIn
  <2>2. [user |-> u, token |-> TRUE, writer |-> w] \in Session /\ OrgOf[u] \in Scopes
    BY DEF Session, Scopes
  <2>. QED BY <2>1, <2>2, EnterKeeps
<1>8. CASE SignOut
  <2>1. [user |-> Null, token |-> FALSE, writer |-> TRUE] \in Session /\ "local" \in Scopes
    BY DEF Session, Scopes
  <2>. QED BY <1>8, <2>1, EnterKeeps DEF SignOut
<1>9. CASE SessionDies
  <2>1. PICK h \in Session : h = session
    BY <1>0
  <2>2. [h EXCEPT !.token = FALSE] \in Session
    BY DEF Session
  <2>. QED BY <1>0, <1>9, <2>1, <2>2, EnterKeeps DEF SessionDies
<1>10. CASE RoleChanges
  BY <1>10, RoleKeeps
<1>11. CASE Reload
  BY <1>11, ReloadKeeps
<1>. QED BY <1>1, <1>2, <1>3, <1>4, <1>5, <1>6, <1>7, <1>8, <1>9, <1>10, <1>11 DEF AgentNext

LEMMA ToolsAlways == AgentSpec => []ToolsInv
<1>1. ToolsInv /\ [AgentNext]_agentVars => ToolsInv'
  BY ToolsStep, ToolsStutter
<1>. QED BY <1>1, ToolsInitially, PTL DEF AgentSpec

LEMMA ToolsInvPromises == ToolsInv => AgentInv
<1> SUFFICES ASSUME ToolsInv PROVE AgentInv
  OBVIOUS
<1>1. AgentTypeOK
  <2>1. \A i \in DOMAIN pending :
          /\ pending[i].plan \in Plans
          /\ pending[i].status \in {"pending", "applied", "rejected", "expired", "failed"}
    BY PendingIs DEF ToolsInv, Action, Statuses
  <2>2. \A c \in Calls : underway[c].at \in {"none", "asked", "preparing"}
    BY WorkingIs DEF ToolsInv
  <2>3. gen \in 0..MaxTurns
    BY AgentBounds DEF ToolsInv, PlaceOK
  <2>. QED BY <2>1, <2>2, <2>3 DEF AgentTypeOK, ToolsInv, PlaceOK, ProposalsOK, ListsOK
<1>2. ChangesWhereAsked
  <2> SUFFICES ASSUME NEW s \in Scopes, NEW e \in ToSet(activity[s]) PROVE e.asked.scope = s
    BY DEF ChangesWhereAsked
  <2>1. PICK i \in DOMAIN activity[s] : activity[s][i] = e
    BY DEF ToSet
  <2>. QED BY <2>1 DEF ToolsInv, AppliedOK
<1>3. PlanAppliedOnce
  BY DEF PlanAppliedOnce, ToolsInv, AppliedOK
<1>. QED BY <1>1, <1>2, <1>3 DEF AgentInv

(* Every change is made in the workspace it was asked for, and the plan of   *)
(* one call changes a workspace once, however the calls, the queue, sessions *)
(* and restarts interleave.                                                  *)
THEOREM AChangeIsMadeOnceWhereAsked == AgentSpec => []AgentInv
BY ToolsAlways, ToolsInvPromises, PTL

-----------------------------------------------------------------------------
(* A change is made as allowed at that moment. *)

(* What is new in the activity is what the step put at its head.             *)
LEMMA NewIs ==
  ASSUME NEW e \in Activity, Recorded(e), NEW s \in Scopes, NEW n \in New(s)
  PROVE  s = scope /\ n = e
<1>1. PICK i \in DOMAIN activity'[s] : activity'[s][i] = n
  BY DEF New, ToSet
<1>2. \A j \in DOMAIN activity[s] : activity[s][j].id # n.id
  BY DEF New, ToSet
<1>. QED BY <1>1, <1>2 DEF Recorded

LEMMA NothingNew ==
  ASSUME NEW s \in Scopes, DOMAIN activity'[s] = DOMAIN activity[s],
         \A i \in DOMAIN activity[s] : activity'[s][i].id = activity[s][i].id
  PROVE  New(s) = {}
<1> SUFFICES ASSUME NEW n \in New(s) PROVE FALSE
  OBVIOUS
<1>1. PICK i \in DOMAIN activity'[s] : activity'[s][i] = n
  BY DEF New, ToSet
<1>2. \A j \in DOMAIN activity[s] : activity[s][j].id # n.id
  BY DEF New, ToSet
<1>. QED BY <1>1, <1>2

LEMMA AppliedIsNew ==
  ASSUME ToolsInv, NEW p \in Plans, Apply(p), NEW s \in Scopes, NEW n \in New(s)
  PROVE  s = scope /\ n.id = p.id /\ n.kind = p.kind /\ n.source = p.source /\ n.tool = p.tool
<1>1. PICK e \in Activity : /\ Recorded(e) /\ e.id = p.id /\ e.tool = p.tool
                            /\ e.kind = p.kind /\ e.source = p.source
  BY ApplyIs DEF ToolsInv
<1>. QED BY <1>1, NewIs

LEMMA SettledAsAllowed ==
  ASSUME ToolsInv, NEW p \in Plans, p.kind = Tool[p.tool].kind, ~Denied(p), SettlePlan(p),
         NEW s \in Scopes, NEW n \in New(s)
  PROVE  /\ s = scope /\ policy[PolicyKey(n.source)][n.kind] # "deny"
         /\ \/ policy[PolicyKey(n.source)][n.kind] = "allow" /\ n.tool \notin Exempt
            \/ n.kind = "draft" /\ n.source = "proposal-assistant"
<1>1. CASE activity' = activity
  BY <1>1, NothingNew
<1>2. CASE GoesAhead(p) /\ Apply(p)
  <2>1. s = scope /\ n.id = p.id /\ n.kind = p.kind /\ n.source = p.source /\ n.tool = p.tool
    BY <1>2, AppliedIsNew
  <2>2. p.kind = "draft" => p.tool \notin Exempt
    BY SortsOfTools DEF Plans
  <2>. QED BY <1>2, <2>1, <2>2 DEF GoesAhead, Denied, Level
<1>. QED BY <1>1, <1>2 DEF SettlePlan

LEMMA PlannersPrepare ==
  ASSUME NEW t \in ToolNames, ~Tool[t].native, NEW d, NEW o, Prepares(t, d, o)
  PROVE  CanWriteNow
<1>1. t # "create_proposal" /\ t # "apply_proposal_draft"
  BY SortsOfTools
<1>. QED BY <1>1 DEF Prepares, Proposes, Editable

AllowedStep ==
  \A s \in Scopes : \A e \in New(s) :
    /\ s = scope /\ CanWriteNow
    /\ policy[PolicyKey(e.source)][e.kind] # "deny"
    /\ \/ policy[PolicyKey(e.source)][e.kind] = "allow" /\ e.tool \notin Exempt
       \/ e.kind = "draft" /\ e.source = "proposal-assistant"
       \/ \E i \in DOMAIN pending : /\ pending[i].plan.id = e.id /\ ~pending[i].late
                                    /\ pending[i].status = "pending" /\ pending'[i].status = "applied"

LEMMA NothingNewIsAllowed ==
  ASSUME activity' = activity
  PROVE  AllowedStep
BY NothingNew DEF AllowedStep

LEMMA StartIsAllowed ==
  ASSUME ToolsInv, NEW c \in Calls, NEW source \in Asking, NEW t \in Offered, NEW d \in Docs,
         Start(c, source, t, d)
  PROVE  AllowedStep
<1>. DEFINE owner == IF source = "app-assistant" THEN underway[c].owner ELSE Owner
            p == [id |-> stamp + 1, tool |-> t, kind |-> Tool[t].kind, source |-> source,
                  doc |-> d, owner |-> owner, seen |-> Here(d)]
<1>1. \/ activity' = activity
      \/ /\ owner = Owner /\ ~Tool[t].native /\ Prepares(t, d, owner) /\ ~Denied(p)
         /\ stamp < MaxStamp /\ SettlePlan(p)
  BY DEF Start, Refuse
<1>2. CASE activity' = activity
  BY <1>2, NothingNewIsAllowed
<1>3. CASE /\ owner = Owner /\ ~Tool[t].native /\ Prepares(t, d, owner) /\ ~Denied(p)
           /\ stamp < MaxStamp /\ SettlePlan(p)
  <2>1. t \in ToolNames /\ source \in Sources /\ Tool[t].kind \in Kinds
    BY OfferAssumption, SortsOfTools
  <2>2. Here(d) \in Project /\ Owner \in Owners
    BY OwnerIs DEF Here, ToolsInv, PlaceOK, ProposalsOK
  <2>3. stamp + 1 \in 1..MaxStamp
    BY <1>3, AgentBounds DEF ToolsInv, ListsOK
  <2>4. PICK x \in Plans : x = p /\ x.kind = Tool[x.tool].kind
    BY <1>3, <2>1, <2>2, <2>3 DEF Plans
  <2>5. CanWriteNow
    BY <1>3, <2>1, PlannersPrepare
  <2>. QED BY <1>3, <2>4, <2>5, SettledAsAllowed DEF AllowedStep
<1>. QED BY <1>1, <1>2, <1>3

LEMMA FinishIsAllowed ==
  ASSUME ToolsInv, NEW c \in Calls, Finish(c)
  PROVE  AllowedStep
<1>1. PICK p \in Plans : p = underway[c].plan /\ Sorted(p)
  BY WorkingIs DEF Finish, ToolsInv, UnderwayOK
<1>2. CASE StillAllowed(p) /\ SettlePlan(p)
  BY <1>1, <1>2, SettledAsAllowed DEF AllowedStep, StillAllowed, Sorted
<1>3. CASE activity' = activity
  BY <1>3, NothingNewIsAllowed
<1>. QED BY <1>1, <1>2, <1>3 DEF Finish, Refuse

LEMMA ConfirmIsAllowed ==
  ASSUME ToolsInv, NEW i \in DOMAIN pending, Confirm(i)
  PROVE  AllowedStep
<1>1. PICK p \in Plans : p = pending[i].plan
  BY PendingIs DEF ToolsInv
<1>2. CASE activity' = activity
  BY <1>2, NothingNewIsAllowed
<1>3. CASE ~pending[i].late /\ Confirmable(p) /\ Apply(p) /\ SetPending(i, "applied")
  <2>1. pending[i].status = "pending"
    BY DEF Confirm, Decidable
  <2>2. pending'[i].status = "applied"
    BY <1>3, PendingSet DEF ToolsInv, Statuses
  <2>3. CanWriteNow /\ policy[PolicyKey(p.source)][p.kind] # "deny"
    BY <1>3 DEF Confirmable, Denied, Level
  <2> SUFFICES ASSUME NEW s \in Scopes, NEW n \in New(s)
               PROVE  s = scope /\ n.id = p.id /\ n.kind = p.kind /\ n.source = p.source
    BY <1>1, <1>3, <2>1, <2>2, <2>3 DEF AllowedStep
  <2>. QED BY <1>3, AppliedIsNew
<1>. QED BY <1>1, <1>2, <1>3 DEF Confirm

LEMMA UndoIsAllowed ==
  ASSUME ToolsInv, NEW i \in DOMAIN activity[scope], Undo(i)
  PROVE  AllowedStep
<1>1. activity' = [activity EXCEPT ![scope][i].status = "undone"]
  BY DEF Undo
<1>. QED BY <1>1, UndoMarks, NothingNew DEF AllowedStep

LEMMA StepIsAllowed == ToolsInv /\ AgentNext => AllowedStep
<1> SUFFICES ASSUME ToolsInv, AgentNext PROVE AllowedStep
  OBVIOUS
<1>1. CASE \E c \in Calls : Finish(c)
  BY <1>1, FinishIsAllowed
<1>2. CASE \E c \in Calls, s \in Asking, t \in Offered, d \in Docs : Start(c, s, t, d)
  BY <1>2, StartIsAllowed
<1>3. CASE \E i \in DOMAIN pending : Confirm(i)
  BY <1>3, ConfirmIsAllowed
<1>4. CASE \E i \in DOMAIN activity[scope] : Undo(i)
  BY <1>4, UndoIsAllowed
<1>5. \/ \E c \in Calls : Finish(c)
      \/ \E c \in Calls, s \in Asking, t \in Offered, d \in Docs : Start(c, s, t, d)
      \/ \E i \in DOMAIN pending : Confirm(i)
      \/ \E i \in DOMAIN activity[scope] : Undo(i)
      \/ activity' = activity
  BY DEF AgentNext, AskAssistant, Cancel, Refuse, Reject, Expire, Edit, OpenProject, Conflict, SetPolicy,
         SignIn, SignOut, SessionDies, Enter, RoleChanges, Reload
<1>. QED BY <1>1, <1>2, <1>3, <1>4, <1>5, NothingNewIsAllowed

(* Every change is made with the policy and the role of that moment, and what *)
(* waits for the user by a confirmation that came in time.                    *)
THEOREM AChangeIsAllowedWhenMade == AgentSpec => AgentActsAsAllowed
<1>1. ToolsInv /\ [AgentNext]_agentVars => [AllowedStep]_agentVars
  BY StepIsAllowed
<1>. QED BY <1>1, ToolsAlways, PTL DEF AgentSpec, AgentActsAsAllowed, AllowedStep

-----------------------------------------------------------------------------
(* Undoing takes back its own. *)

Undone(s, i) ==
  /\ activity[s][i].status = "applied" /\ i \in DOMAIN activity'[s]
  /\ activity'[s][i] = [activity[s][i] EXCEPT !.status = "undone"]

(* A step that undoes an entry is the undo of that entry: a change pushes the *)
(* entries on, and none takes the place of one that it resembles.             *)
LEMMA UndoneIs ==
  ASSUME ListsOK, NEW s \in Scopes, NEW i \in DOMAIN activity[s], Undone(s, i)
  PROVE  activity'[s][i] # activity[s][i] /\ activity'[s][i].id = activity[s][i].id
<1>1. PICK a \in Activity : a = activity[s][i]
  BY DEF ListsOK
<1>2. PICK b : b = [a EXCEPT !.status = "undone"]
  OBVIOUS
<1>3. b.status = "undone" /\ b.id = a.id
  BY <1>2 DEF Activity
<1>. QED BY <1>1, <1>2, <1>3 DEF Undone

LEMMA ApplyUndoesNothing ==
  ASSUME ToolsInv, NEW p \in Plans, ~Applied(p.id), Apply(p),
         NEW s \in Scopes, NEW i \in DOMAIN activity[s]
  PROVE  ~Undone(s, i)
<1> SUFFICES ASSUME Undone(s, i) PROVE FALSE
  OBVIOUS
<1>1. PICK e \in Activity : Recorded(e) /\ e.id = p.id
  BY ApplyIs DEF ToolsInv
<1>2. activity'[s][i] # activity[s][i] /\ activity'[s][i].id = activity[s][i].id
  BY UndoneIs DEF ToolsInv
<1>3. activity[s][i].id # p.id
  BY DEF Applied
<1>4. s = scope /\ i # 1
  BY <1>1, <1>2, <1>3 DEF Recorded
<1>5. i - 1 \in DOMAIN activity[s] /\ activity'[s][i] = activity[s][i - 1]
  BY <1>1, <1>4 DEF Recorded, Undone
<1>6. i - 1 = i
  BY <1>2, <1>5 DEF ToolsInv, AppliedOK
<1>7. i \in Nat
  BY DEF ToolsInv, ListsOK
<1>. QED BY <1>6, <1>7

TakesBack(s, i) ==
  LET e == activity[s][i]  p == projects[s][e.doc]  q == projects'[s][e.doc] IN
    /\ \A d \in Docs \ {e.doc} : projects'[s][d] = projects[s][d]
    /\ p.content # q.content => p.content = e.id /\ q.content = e.before
    /\ p.status # q.status => p.status = e.id /\ q.status = e.before

LEMMA UndoTakesBack ==
  ASSUME ToolsInv, NEW k \in DOMAIN activity[scope], Undo(k),
         NEW s \in Scopes, NEW i \in DOMAIN activity[s], Undone(s, i)
  PROVE  TakesBack(s, i)
<1>0. scope \in Scopes /\ ProposalsOK
  BY DEF ToolsInv, PlaceOK
<1>1. s = scope /\ i = k
  <2>1. activity'[s][i] # activity[s][i]
    BY UndoneIs DEF ToolsInv
  <2>. QED BY <2>1, UndoMarks DEF Undo
<1>2. PICK e \in Activity : e = activity[s][i] /\ e.after = e.id
  <2>1. activity[s][i] \in Activity
    BY DEF ToolsInv, ListsOK
  <2>. QED BY <2>1 DEF ToolsInv, AppliedOK
<1>3. e.doc \in Docs /\ e.tool \in ToolNames /\ e.before \in 0..MaxStamp
  BY DEF Activity
<1>4. CASE MoveToTrash(e.doc) \/ RestoreProject(e.doc)
  BY <1>0, <1>1, <1>2, <1>3, <1>4, TrashKeeps, RestoreKeeps DEF TakesBack
<1>5. CASE /\ Tool[e.tool].undo = "fields" /\ Unchanged(e)
           /\ Put(e.doc, Written(Here(e.doc), Tool[e.tool].part, e.before))
  <2>1. PICK h \in Project : h = Here(e.doc)
    BY <1>0, <1>3 DEF Here, ProposalsOK
  <2>2. PICK part \in {"content", "status"} : part = Tool[e.tool].part
    BY <1>3, <1>5, SortsOfTools
  <2>3. PICK q \in Project : /\ q = Written(Here(e.doc), Tool[e.tool].part, e.before)
                             /\ part = "content" => q.content = e.before /\ q.status = h.status
                             /\ part = "status" => q.status = e.before /\ q.content = h.content
    BY <1>3, <2>1, <2>2, ProjectWritten
  <2>4. part = "content" => h.content = e.id
    BY <1>2, <1>5, <2>1, <2>2 DEF Unchanged
  <2>5. part = "status" => h.status = e.id
    BY <1>2, <1>5, <2>1, <2>2 DEF Unchanged
  <2>6. /\ projects'[s][e.doc] = q /\ projects[s][e.doc] = h
        /\ \A d \in Docs \ {e.doc} : projects'[s][d] = projects[s][d]
    BY <1>0, <1>1, <1>3, <1>5, <2>1, <2>3, PutKeeps DEF Here
  <2>. QED BY <1>2, <2>2, <2>3, <2>4, <2>5, <2>6 DEF TakesBack
<1>6. Tool[e.tool].undo \in {"fields", "trash", "restore"}
  BY <1>1, <1>2, <1>3, SortsOfTools DEF Undo
<1>. QED BY <1>1, <1>2, <1>4, <1>5, <1>6 DEF Undo

LEMMA StepTakesBack ==
  ASSUME ToolsInv, AgentNext, NEW s \in Scopes, NEW i \in DOMAIN activity[s], Undone(s, i)
  PROVE  TakesBack(s, i)
<1>1. activity' # activity
  BY UndoneIs DEF ToolsInv
<1>2. CASE \E k \in DOMAIN activity[scope] : Undo(k)
  BY <1>2, UndoTakesBack
<1>3. CASE \E p \in Plans : ~Applied(p.id) /\ Apply(p)
  BY <1>3, ApplyUndoesNothing
<1>4. CASE \E c \in Calls : Finish(c)
  <2>1. PICK c \in Calls : Finish(c)
    BY <1>4
  <2>2. Apply(underway[c].plan)
    BY <1>1, <2>1 DEF Finish, Refuse, SettlePlan
  <2>3. underway[c].plan \in Plans /\ ~Applied(underway[c].plan.id)
    BY <2>1, WorkingIs DEF Finish, ToolsInv, UnderwayOK
  <2>. QED BY <1>3, <2>2, <2>3
<1>5. CASE \E c \in Calls, source \in Asking, t \in Offered, d \in Docs : Start(c, source, t, d)
  <2>1. PICK c \in Calls, source \in Asking, t \in Offered, d \in Docs : Start(c, source, t, d)
    BY <1>5
  <2>. DEFINE owner == IF source = "app-assistant" THEN underway[c].owner ELSE Owner
              p == [id |-> stamp + 1, tool |-> t, kind |-> Tool[t].kind, source |-> source,
                    doc |-> d, owner |-> owner, seen |-> Here(d)]
  <2>2. owner = Owner /\ stamp < MaxStamp /\ Apply(p)
    BY <1>1, <2>1 DEF Start, Refuse, SettlePlan
  <2>3. t \in ToolNames /\ source \in Sources /\ Tool[t].kind \in Kinds
    BY OfferAssumption, SortsOfTools
  <2>4. Here(d) \in Project /\ Owner \in Owners
    BY OwnerIs DEF Here, ToolsInv, PlaceOK, ProposalsOK
  <2>5. stamp + 1 \in 1..MaxStamp /\ stamp \in Nat
    BY <2>2, AgentBounds DEF ToolsInv, ListsOK
  <2>6. PICK x \in Plans : x = p /\ x.id = stamp + 1
    BY <2>2, <2>3, <2>4, <2>5 DEF Plans
  <2>7. ~Applied(x.id)
    <3> SUFFICES ASSUME NEW r \in Scopes, NEW j \in DOMAIN activity[r], activity[r][j].id = stamp + 1
                 PROVE  FALSE
      BY <2>6 DEF Applied
    <3>. QED BY <2>5 DEF ToolsInv, AppliedOK
  <2>. QED BY <1>3, <2>2, <2>6, <2>7
<1>6. CASE \E k \in DOMAIN pending : Confirm(k)
  <2>1. PICK k \in DOMAIN pending : Confirm(k)
    BY <1>6
  <2>2. Apply(pending[k].plan) /\ pending[k].status = "pending"
    BY <1>1, <2>1 DEF Confirm, Decidable
  <2>3. pending[k].plan \in Plans /\ ~Applied(pending[k].plan.id)
    BY <2>2, PendingIs DEF ToolsInv, WaitingOK
  <2>. QED BY <1>3, <2>2, <2>3
<1>7. \/ \E c \in Calls : Finish(c)
      \/ \E c \in Calls, source \in Asking, t \in Offered, d \in Docs : Start(c, source, t, d)
      \/ \E k \in DOMAIN pending : Confirm(k)
      \/ \E k \in DOMAIN activity[scope] : Undo(k)
  BY <1>1 DEF AgentNext, AskAssistant, Cancel, Refuse, Reject, Expire, Edit, OpenProject, Conflict, SetPolicy,
              SignIn, SignOut, SessionDies, Enter, RoleChanges, Reload
<1>. QED BY <1>2, <1>4, <1>5, <1>6, <1>7

OwnTakenBack ==
  \A s \in Scopes : \A i \in DOMAIN activity[s] :
    LET e == activity[s][i]  p == projects[s][e.doc]  q == projects'[s][e.doc] IN
    e.status = "applied" /\ i \in DOMAIN activity'[s] /\ activity'[s][i] = [e EXCEPT !.status = "undone"] =>
      /\ \A d \in Docs \ {e.doc} : projects'[s][d] = projects[s][d]
      /\ p.content # q.content => p.content = e.id /\ q.content = e.before
      /\ p.status # q.status => p.status = e.id /\ q.status = e.before

(* Undo takes back the change it was offered for, and no work made after it.  *)
THEOREM UndoKeepsLaterWork == AgentSpec => UndoTakesBackItsOwn
<1>1. ToolsInv /\ [AgentNext]_agentVars => [OwnTakenBack]_agentVars
  <2>1. ToolsInv /\ AgentNext => OwnTakenBack
    <3> SUFFICES ASSUME ToolsInv, AgentNext, NEW s \in Scopes, NEW i \in DOMAIN activity[s], Undone(s, i)
                 PROVE  TakesBack(s, i)
      BY DEF OwnTakenBack, TakesBack, Undone
    <3>. QED BY StepTakesBack
  <2>. QED BY <2>1
<1>. QED BY <1>1, ToolsAlways, PTL DEF AgentSpec, UndoTakesBackItsOwn, OwnTakenBack
=============================================================================
