\* An edit of a row races a move of it.
SPECIFICATION Spec
CONSTANTS
  h1 = h1
  h2 = h2
  a1 = a1
  a2 = a2
  a3 = a3
  Nil = Nil
  User <- MCUser
  Team <- MCTeam
  Capable = {"ann"}
  Status <- MCStatus
  StateId <- MCStateId
  EdgeId <- MCEdgeId
  StateName <- MCStateName
  Initial = {"sOpen"}
  DoneState = {"sDone"}
  EdgeFrom <- MCEdgeFrom
  EdgeTo <- MCEdgeTo
  OpenStatus = "open"
  DoneStatus = {"resolved"}
  LegalMove <- MCLegalMove
  Entity = {"t1"}
  Ticket = {"t1"}
  Handler = {h1, h2}
  ApprovalId = {a1, a2}
  Ops = {"move", "rewrite"}
  MaxRequests = 2
  MaxEdits = 0
  InitWorkflow = TRUE
  InitStates <- LiveStateIds
  InitEdges <- LiveEdgeIds
  InitGuards <- NoGuard
  InitApprovers <- Gated
  InitPostFns <- NoEffects
  InitMembers <- Leads
  InitRows <- AtOpen
SYMMETRY Interchangeable
INVARIANTS
  PositionInStep
