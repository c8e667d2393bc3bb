--------------------------- MODULE MCMcpBridge ----------------------------
(* McpBridge for TLC, in one of three scenarios, each with its own bounds.  *)
EXTENDS McpBridge

CONSTANTS c1, c2

VARIABLE scenario

\* Two clients that call again after failures; one call while the server is
\* switched back and forth; and some of both.
Scenarios == <<
  [clients |-> {c1, c2}, calls |-> 2, changes |-> 1, losses |-> 1, switches |-> 0],
  [clients |-> {c1}, calls |-> 1, changes |-> 0, losses |-> 1, switches |-> 3],
  [clients |-> {c1}, calls |-> 2, changes |-> 1, losses |-> 1, switches |-> 1]>>

Here == Scenarios[scenario]

\* What a step may not go beyond in this scenario; only what the agents, the
\* user and the machine begin is counted, never what goes on by itself.
WithinBounds ==
  /\ \A c \in Clients : calls[c].n <= IF c \in Here.clients THEN Here.calls ELSE 0
  /\ changes <= Here.changes /\ losses <= Here.losses /\ switches <= Here.switches

MCNext == Next /\ UNCHANGED scenario /\ WithinBounds'

MCInit == Init /\ scenario \in DOMAIN Scenarios

MCSpec == MCInit /\ [][MCNext]_<<vars, scenario>> /\ Fairness
=============================================================================
