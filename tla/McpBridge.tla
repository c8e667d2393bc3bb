----------------------------- MODULE McpBridge -----------------------------
(***************************************************************************)
(* The local MCP server of the desktop application: an agent's call goes   *)
(* from its client over HTTP to the main process (mcpServer.ts), from      *)
(* there as a message to the window's document (rendererBridge.ts, ipc.ts),*)
(* which runs the tool (mcpBridge.ts) and answers by another message.  The *)
(* server is switched on and off (mcpController.ts) from a file            *)
(* (config.ts) that the clients of stdioProxy.ts read at every call.       *)
(*                                                                         *)
(* Either side may go at any time: the window reloads, crashes, closes;    *)
(* the application restarts; a call runs out of time.                      *)
(***************************************************************************)
EXTENDS Integers, Sequences, FiniteSets

CONSTANTS
  Clients, Tools, None,
  MaxCalls,   \* bound: calls of each client
  MaxChanges, \* bound: changes of the agents' policy
  MaxLosses,  \* bound: reloads, crashes and closings of the window, restarts
  MaxSwitches \* bound: times the server is switched or the token renewed

ASSUME McpAssumption ==
  /\ None \notin Tools
  /\ MaxCalls \in Nat /\ MaxChanges \in Nat /\ MaxLosses \in Nat /\ MaxSwitches \in Nat

VARIABLES
  calls,      \* the call each client is making
  snapshot,   \* the tools the document announced, or None: not ready
  waiting,    \* calls sent to the document that have no answer yet
  toDocument, \* messages mcp:invoke on their way
  toMain,     \* messages mcp:respond and mcp:renderer-ready on their way
  window,     \* the window and its document
  announced,  \* the tools the document last announced, None before it mounts
  allowed,    \* the tools the policy of the device allows
  running,    \* calls the document is executing
  config,     \* the controller's configuration
  file,       \* mcp.json
  server,     \* the HTTP endpoint
  queue, task,  \* switches asked for, and the one being carried out
  failed,     \* the port could not be opened
  asked,      \* auxiliary: the last switch asked for
  changes, losses, switches

vars == <<calls, snapshot, waiting, toDocument, toMain, window, announced, allowed,
          running, config, file, server, queue, task, failed, asked,
          changes, losses, switches>>
bridge   == <<snapshot, waiting>>
channels == <<toDocument, toMain>>
document == <<window, announced, allowed, running>>
endpoint == <<config, file, server, queue, task, failed, asked>>
bounds   == <<changes, losses, switches>>

Id     == Clients \X (1..MaxCalls)
Config == [enabled: BOOLEAN, token: 0..MaxSwitches]
Ends   == {"ok", "denied", "timeout", "notReady", "unavailable", "refused",
           "unreachable", "disabled"}
\* A call: what it carries, and how it ended and for which call the answer was.
Call == [n: 0..MaxCalls, stage: {"idle", "sent", "reading", "asked", "done"},
         tool: Tools \cup {None}, token: 0..MaxSwitches,
         end: Ends \cup {None}, of: Id \cup {None}]
Message == [kind: {"respond"}, id: Id, end: {"ok", "denied"}]
             \cup [kind: {"ready"}, tools: SUBSET Tools]

Init ==
  /\ calls = [c \in Clients |-> [n |-> 0, stage |-> "idle", tool |-> None, token |-> 0,
                                 end |-> None, of |-> None]]
  /\ snapshot = None /\ waiting = {} /\ toDocument = <<>> /\ toMain = <<>>
  /\ window = "loading" /\ announced = None /\ allowed = Tools /\ running = {}
  /\ config \in [enabled: BOOLEAN, token: {0}] /\ file = config
  /\ server = IF config.enabled THEN "binding" ELSE "off"
  /\ queue = <<>> /\ task = "none" /\ failed = FALSE /\ asked = config.enabled
  /\ changes = 0 /\ losses = 0 /\ switches = 0

-----------------------------------------------------------------------------
(* Calls. *)

CallOf(id) == id[1]
Current(id) == calls[CallOf(id)].n = id[2] /\ calls[CallOf(id)].stage = "asked"
IdOf(c) == <<c, calls[c].n>>

End(c, how, of) == [calls EXCEPT ![c].stage = "done", ![c].end = how, ![c].of = of]

\* The requests of these clients end without an answer of the server.
Dropped(who) ==
  [c \in Clients |-> IF c \in who THEN [calls[c] EXCEPT !.stage = "done", !.end = "unreachable"]
                     ELSE calls[c]]
AtServer == {c \in Clients : calls[c].stage \in {"reading", "asked"}}

\* A line for the proxy: it reads the file, for the switch and the token.
Ask(c, tool) ==
  LET q == [n |-> calls[c].n + 1, tool |-> tool, token |-> file.token, of |-> None,
            stage |-> IF file.enabled THEN "sent" ELSE "done",
            end |-> IF file.enabled THEN None ELSE "disabled"] IN
  /\ calls[c].stage \in {"idle", "done"} /\ calls[c].n < MaxCalls
  /\ calls' = [calls EXCEPT ![c] = q]
  /\ UNCHANGED <<bridge, channels, document, endpoint, bounds>>

\* The head of the request: an endpoint that is there, and the token of now.
Arrive(c) ==
  /\ calls[c].stage = "sent"
  /\ calls' = CASE server # "on" -> End(c, "unreachable", None)
                [] server = "on" /\ calls[c].token # config.token -> End(c, "refused", None)
                [] OTHER -> [calls EXCEPT ![c].stage = "reading"]
  /\ UNCHANGED <<bridge, channels, document, endpoint, bounds>>

\* Its body has been read: RendererBridge.invoke.
Invoke(c) ==
  /\ calls[c].stage = "reading"
  /\ IF snapshot = None \/ window = "closed"
     THEN /\ calls' = End(c, IF snapshot = None THEN "notReady" ELSE "unavailable", None)
          /\ UNCHANGED <<waiting, toDocument>>
     ELSE /\ calls' = [calls EXCEPT ![c].stage = "asked"]
          /\ waiting' = waiting \cup {IdOf(c)}
          /\ toDocument' = Append(toDocument, IdOf(c))
  /\ UNCHANGED <<snapshot, toMain, document, endpoint, bounds>>

\* Faulty: an answer goes to whoever waits.
SettledAny(id, how) ==
  IF \E c \in Clients : calls[c].stage = "asked"
  THEN End(CHOOSE c \in Clients : calls[c].stage = "asked", how, id) ELSE calls

\* RendererBridge.respond: by the identifier, while the call still waits.
Settled(id, how) ==
  IF id \in waiting /\ Current(id) THEN End(CallOf(id), how, id) ELSE calls

LeftAfter(id) == waiting \ {id}

\* setTimeout of invoke.
TimedOut(id) == IF Current(id) THEN End(CallOf(id), "timeout", None) ELSE calls
Timeout(id) ==
  /\ id \in waiting
  /\ calls' = TimedOut(id)
  /\ waiting' = LeftAfter(id)
  /\ UNCHANGED <<snapshot, channels, document, endpoint, bounds>>

-----------------------------------------------------------------------------
(* The document in the window. *)

HasDocument == window \in {"live", "leaving"}

\* onInvoke: the policy is asked when the call is about to run.
RunCall ==
  /\ HasDocument /\ toDocument # <<>>
  /\ LET id == Head(toDocument) IN
     IF calls[CallOf(id)].n = id[2] /\ calls[CallOf(id)].tool \notin allowed
     THEN /\ toMain' = Append(toMain, [kind |-> "respond", id |-> id, end |-> "denied"])
          /\ UNCHANGED running
     ELSE running' = running \cup {id} /\ UNCHANGED toMain
  /\ toDocument' = Tail(toDocument)
  /\ UNCHANGED <<calls, bridge, window, announced, allowed, endpoint, bounds>>

FinishCall(id) ==
  /\ id \in running /\ running' = running \ {id}
  /\ toMain' = Append(toMain, [kind |-> "respond", id |-> id, end |-> "ok"])
  /\ UNCHANGED <<calls, bridge, toDocument, window, announced, allowed, endpoint, bounds>>

\* Faulty: a document announces once.
AnnouncedOnce(tools) == announced # None

\* announce: only what differs from the last announcement of this document.
AlreadyAnnounced(tools) == announced = tools

\* A change of the policy or of the session.
ChangePolicy(tools) ==
  /\ HasDocument /\ changes < MaxChanges /\ changes' = changes + 1
  /\ allowed' = tools
  /\ IF AlreadyAnnounced(tools) THEN UNCHANGED <<announced, toMain>>
     ELSE announced' = tools /\ toMain' = Append(toMain, [kind |-> "ready", tools |-> tools])
  /\ UNCHANGED <<calls, bridge, toDocument, window, running, endpoint, losses, switches>>

\* connectMcpBridge of a new document.
Mount ==
  /\ window = "loading" /\ window' = "live"
  /\ IF AlreadyAnnounced(allowed) THEN UNCHANGED <<announced, toMain>>
     ELSE announced' = allowed /\ toMain' = Append(toMain, [kind |-> "ready", tools |-> allowed])
  /\ UNCHANGED <<calls, bridge, toDocument, allowed, running, endpoint, bounds>>

\* A message of the document reaches the main process (ipc.ts).
Receive ==
  /\ toMain # <<>> /\ toMain' = Tail(toMain)
  /\ LET m == Head(toMain) IN
     IF m.kind = "ready"
     THEN snapshot' = m.tools /\ UNCHANGED <<calls, waiting>>
     ELSE /\ calls' = Settled(m.id, m.end) /\ waiting' = LeftAfter(m.id)
          /\ UNCHANGED snapshot
  /\ UNCHANGED <<toDocument, document, endpoint, bounds>>

\* rendererGone: the calls that wait fail, and the tools are forgotten.
Rejected ==
  [c \in Clients |-> IF IdOf(c) \in waiting /\ Current(IdOf(c))
                     THEN [calls[c] EXCEPT !.stage = "done", !.end = "unavailable"]
                     ELSE calls[c]]
RendererGone == snapshot' = None /\ waiting' = {} /\ calls' = Rejected
RendererIdle == UNCHANGED <<calls, bridge>>

LoseWindow == losses < MaxLosses /\ losses' = losses + 1
NoDocument == announced' = None /\ running' = {} /\ toDocument' = <<>>

\* did-start-navigation; the old document lives on until the new one comes.
StartReload ==
  /\ window = "live" /\ LoseWindow /\ window' = "leaving"
  /\ RendererGone
  /\ UNCHANGED <<channels, announced, allowed, running, endpoint, changes, switches>>
CommitReload ==
  /\ window \in {"leaving", "crashed"} /\ window' = "loading"
  /\ NoDocument
  /\ IF window = "crashed" THEN RendererGone ELSE RendererIdle
  /\ UNCHANGED <<toMain, allowed, endpoint, bounds>>
\* render-process-gone
CrashWindow ==
  /\ window \in {"live", "leaving", "loading"} /\ LoseWindow /\ window' = "crashed"
  /\ RendererGone /\ NoDocument
  /\ UNCHANGED <<toMain, allowed, endpoint, changes, switches>>
\* Closed: its messages are no longer from the window.
CloseWindow ==
  /\ window # "closed" /\ LoseWindow /\ window' = "closed"
  /\ RendererGone /\ NoDocument /\ toMain' = <<>>
  /\ UNCHANGED <<allowed, endpoint, changes, switches>>
OpenWindow ==
  /\ window = "closed" /\ window' = "loading"
  /\ UNCHANGED <<calls, bridge, channels, announced, allowed, running, endpoint, bounds>>

-----------------------------------------------------------------------------
(* Switching the endpoint: McpController and LocalMcpServer.start and stop. *)

Save(new) == config' = new /\ file' = new

SetEnabled(on) ==
  /\ switches < MaxSwitches /\ switches' = switches + 1
  /\ queue' = Append(queue, on) /\ asked' = on
  /\ UNCHANGED <<calls, bridge, channels, document, config, file, server, task, failed,
                 changes, losses>>

RegenerateToken ==
  /\ switches < MaxSwitches /\ switches' = switches + 1
  /\ Save([config EXCEPT !.token = @ + 1])
  /\ UNCHANGED <<calls, bridge, channels, document, server, queue, task, failed, asked,
                 changes, losses>>

\* One switch at a time: the configuration first, then the server.
BeginTask ==
  /\ task = "none" /\ queue # <<>> /\ queue' = Tail(queue)
  /\ Save([config EXCEPT !.enabled = Head(queue)])
  /\ failed' = FALSE
  /\ IF Head(queue)
     THEN task' = "start" /\ server' = IF server = "off" THEN "binding" ELSE server
     ELSE task' = "stop" /\ UNCHANGED server
  /\ UNCHANGED <<calls, bridge, channels, document, asked, bounds>>

\* listen succeeds, or another program holds the port.
Bind ==
  /\ server = "binding"
  /\ \E free \in BOOLEAN :
       /\ server' = IF free THEN "on" ELSE "off"
       /\ failed' = IF task = "stop" THEN failed ELSE ~free
  /\ UNCHANGED <<calls, bridge, channels, document, config, file, queue, task, asked, bounds>>

\* Faulty: a stop does not wait for a server that is starting.
StopNeverWaits == TRUE

StopMayGoOn == server # "binding"
EndStart ==
  /\ task = "start" /\ server # "binding" /\ task' = "none"
  /\ UNCHANGED <<calls, bridge, channels, document, config, file, server, queue, failed, asked,
                 bounds>>
BeginStop ==
  /\ task = "stop" /\ StopMayGoOn
  /\ IF server = "on"
     THEN task' = "close" /\ server' = "closing" /\ calls' = Dropped(AtServer)
     ELSE task' = "none" /\ UNCHANGED <<server, calls>>
  /\ UNCHANGED <<bridge, channels, document, config, file, queue, failed, asked, bounds>>
EndStop ==
  /\ task = "close" /\ task' = "none" /\ server' = "off"
  /\ UNCHANGED <<calls, bridge, channels, document, config, file, queue, failed, asked, bounds>>

\* The application ends or dies, and starts again with what the file says.
Restart ==
  /\ LoseWindow
  /\ calls' = Dropped(AtServer)
  /\ snapshot' = None /\ waiting' = {} /\ toMain' = <<>> /\ NoDocument
  /\ window' = "loading"
  /\ config' = file /\ server' = IF file.enabled THEN "binding" ELSE "off"
  /\ queue' = <<>> /\ task' = "none" /\ failed' = FALSE /\ asked' = file.enabled
  /\ UNCHANGED <<allowed, file, changes, switches>>

-----------------------------------------------------------------------------
Settle == \/ \E c \in Clients : Arrive(c) \/ Invoke(c)
          \/ \E id \in Id : Timeout(id) \/ FinishCall(id)
          \/ RunCall \/ Receive
Window == CommitReload \/ OpenWindow \/ Mount
Endpoint == BeginTask \/ Bind \/ EndStart \/ BeginStop \/ EndStop
Next ==
  \/ \E c \in Clients, t \in Tools : Ask(c, t)
  \/ \E s \in SUBSET Tools : ChangePolicy(s)
  \/ StartReload \/ CrashWindow \/ CloseWindow \/ Restart
  \/ \E on \in BOOLEAN : SetEnabled(on)
  \/ RegenerateToken
  \/ Settle \/ Window \/ Endpoint

Spec == Init /\ [][Next]_vars
\* Requests, messages, timers and the server's callbacks go on by themselves.
Fairness ==
  /\ WF_vars(Endpoint) /\ WF_vars(Window) /\ WF_vars(RunCall) /\ WF_vars(Receive)
  /\ \A c \in Clients : WF_vars(Arrive(c)) /\ WF_vars(Invoke(c))
  /\ \A id \in Id : WF_vars(Timeout(id))
FairSpec == Spec /\ Fairness

-----------------------------------------------------------------------------
(* What the agents and the user rely on. *)

\* The state has the shape the code gives it; a call waits in the bridge only for
\* a request that is there or was cut off, and is asked only while it waits.
McpTypeOK ==
  /\ calls \in [Clients -> Call]
  /\ snapshot \in (SUBSET Tools) \cup {None} /\ waiting \subseteq Id
  /\ toDocument \in Seq(Id) /\ toMain \in Seq(Message)
  /\ window \in {"loading", "live", "leaving", "crashed", "closed"}
  /\ announced \in (SUBSET Tools) \cup {None} /\ allowed \subseteq Tools /\ running \subseteq Id
  /\ config \in Config /\ file \in Config
  /\ server \in {"off", "binding", "on", "closing"}
  /\ queue \in Seq(BOOLEAN) /\ task \in {"none", "start", "stop", "close"}
  /\ failed \in BOOLEAN /\ asked \in BOOLEAN
  /\ \A c \in Clients : calls[c].stage = "asked" => IdOf(c) \in waiting
  /\ server = "closing" <=> task = "close"

\* An answer goes to the call it answers, also when an earlier call of the same
\* client timed out or failed and its own answer comes late.
AnswerIsOwn ==
  \A c \in Clients : calls[c].stage = "done" /\ calls[c].end \in {"ok", "denied"}
                       => calls[c].of = IdOf(c)

\* The state has the code's shape, and no call ends with another's answer.
BridgeInv == McpTypeOK /\ AnswerIsOwn

\* When nothing is being switched any more, the server is as it was last asked to
\* be, however the switches overlapped; it stays off only if the port is taken.
\* The file says the same, so a restart and the proxies agree with the switch.
EndsAsAsked ==
  /\ file = config
  /\ queue = <<>> /\ task = "none" /\ server # "binding" =>
       /\ config.enabled = asked
       /\ server = (IF asked /\ ~failed THEN "on" ELSE "off")

\* Every call ends, whatever happens to the window or to the server.
CallsEnd ==
  \A c \in Clients : calls[c].stage \in {"sent", "reading", "asked"} ~> calls[c].stage = "done"

\* Nothing is left in the bridge of a call nobody answers.
NothingIsKept == \A id \in Id : id \in waiting ~> id \notin waiting

\* Once the window stays, the main process offers the tools the policy allows:
\* no announcement is lost or overtaken.
OffersWhatIsAllowed == <>[](window = "live") => <>[](snapshot = allowed)

\* Every switch is carried out.
SwitchesEnd == (queue # <<>> \/ task # "none") ~> (queue = <<>> /\ task = "none")

\* Whatever is lost on the way, the bridge comes to rest: calls and switches end,
\* nothing is kept, and the tools offered are those the policy allows.
BridgeSettles == OffersWhatIsAllowed /\ CallsEnd /\ NothingIsKept /\ SwitchesEnd
=============================================================================
