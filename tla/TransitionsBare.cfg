\* A space that has no workflow yet and may get one; rows are created,
\* rewritten and deleted.  Every request in flight is answered.
SPECIFICATION FairSpec
CONSTANTS
  h1 = h1
  h2 = h2
  a1 = a1
  a2 = a2
  a3 = a3
  Nil = Nil
  User <- MCUser
  Team <- MCTeam
  Capable = {"ann"}
  Status <- MCStatus
  StateId <- MCStateId
  EdgeId <- MCEdgeId
  StateName <- MCStateName
  Initial = {"sOpen"}
  DoneState = {"sDone"}
  EdgeFrom <- MCEdgeFrom
  EdgeTo <- MCEdgeTo
  OpenStatus = "open"
  DoneStatus = {"resolved"}
  LegalMove <- MCLegalMove
  Entity = {"t1", "i1"}
  Ticket = {"t1"}
  Handler = {h1, h2}
  ApprovalId = {a1, a2}
  Ops = {"move", "rewrite", "create", "delete", "assignWorkflow", "decide"}
  MaxRequests = 3
  MaxEdits = 2
  InitWorkflow = FALSE
  InitStates <- LiveStateIds
  InitEdges <- LiveEdgeIds
  InitGuards <- NoGuard
  InitApprovers <- Gated
  InitPostFns <- NoEffects
  InitMembers <- Leads
  InitRows <- Unplaced
PROPERTIES
  EveryRequestAnswered
