SPECIFICATION MCSpec
CONSTANTS
  d1 = d1
  d2 = d2
  ana = ana
  luis = luis
  Users = {ana, luis}
  Docs = {d1, d2}
  Calls = {c1}
  Null = Null
  Seen <- OnlyD1
  OrgOf <- OneOrg
  Offered = {"attach_file_to_proposal", "set_proposal_status", "add_commercial_report", "propose_project_prices", "set_document_text", "create_proposal", "move_proposal_to_trash", "propose_project_update", "apply_proposal_draft"}
  Asking = {"app-assistant", "mcp", "proposal-assistant"}
  MaxPending = 2
  MaxActivity = 2
  MaxStamp = 3
  MaxTurns = 3
INVARIANTS
  AgentInv
PROPERTIES
  AgentActsAsAllowed
  UndoTakesBackItsOwn
CHECK_DEADLOCK FALSE
