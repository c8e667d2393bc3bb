---------------------------- MODULE MCAgentTools ----------------------------
(* AgentTools for TLC, in one of four scenarios: the tools called, by whom,  *)
(* and the bounds.                                                          *)
EXTENDS AgentTools

CONSTANTS d1, d2, ana, luis

VARIABLE scenario

OneOrg == [u \in Users |-> "org"]
OnlyD1 == {d1}

ForUndo == {"set_document_text", "set_proposal_status", "create_proposal",
           "move_proposal_to_trash", "propose_project_update", "apply_proposal_draft"}
ForReview == {"attach_file_to_proposal", "add_commercial_report", "propose_project_prices"}

\* Two members of an organization use a device in turn while a plan is prepared
\* and waits; the policy or the role changes under two plans; changes of every
\* sort are undone in any order, also among changes of session or conflicts.
Scenarios == <<
  [users |-> {ana, luis}, stamp |-> 1, turns |-> 3, tools |-> ForReview,
   asking |-> {"app-assistant", "mcp"}],
  [users |-> {ana}, stamp |-> 2, turns |-> 2, tools |-> ForReview,
   asking |-> {"app-assistant", "mcp"}],
  [users |-> {ana}, stamp |-> 3, turns |-> 0, tools |-> ForUndo,
   asking |-> {"mcp", "proposal-assistant"}],
  [users |-> {ana}, stamp |-> 2, turns |-> 1, tools |-> ForUndo,
   asking |-> {"mcp", "proposal-assistant"}]>>

Bound == Scenarios[scenario]

\* The plans there are, prepared, queued or applied.
Known ==
  {underway[c].plan : c \in {c \in Calls : underway[c].at = "preparing"}}
    \cup {pending[i].plan : i \in DOMAIN pending}
    \cup UNION {ToSet(activity[s]) : s \in Scopes}

\* What a step may not go beyond in this scenario.
WithinBounds ==
  /\ stamp <= Bound.stamp /\ turns <= Bound.turns
  /\ session.user \in Bound.users \cup {Null}
  /\ \A p \in Known : p.tool \in Bound.tools /\ p.source \in Bound.asking
  /\ "app-assistant" \notin Bound.asking => \A c \in Calls : underway[c].at # "asked"

MCNext == AgentNext /\ UNCHANGED scenario /\ WithinBounds'

MCInit == AgentInit /\ scenario \in DOMAIN Scenarios

MCSpec == MCInit /\ [][MCNext]_<<agentVars, scenario>>
=============================================================================
