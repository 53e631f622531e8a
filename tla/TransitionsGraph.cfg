\* States, edges and approvers are created and deleted while moves and
\* verdicts are in flight.
SPECIFICATION Spec
CONSTANTS
  h1 = h1
  h2 = h2
  a1 = a1
  a2 = a2
  a3 = a3
  Nil = Nil
  User <- MCUser
  Team <- MCTeam
  Capable = {"ann"}
  Status <- MCStatus
  StateId <- MCStateId
  EdgeId <- MCEdgeId
  StateName <- MCStateName
  Initial = {"sOpen"}
  DoneState = {"sDone"}
  EdgeFrom <- MCEdgeFrom
  EdgeTo <- MCEdgeTo
  OpenStatus = "open"
  DoneStatus = {"resolved"}
  LegalMove <- MCLegalMove
  Entity = {"t1"}
  Ticket = {"t1"}
  Handler = {h1, h2}
  ApprovalId = {a1, a2}
  Ops = {"move", "stateMove", "decide", "createState", "deleteState", "createTransition", "deleteTransition", "deleteApprover", "createApprover", "delete", "create"}
  MaxRequests = 3
  MaxEdits = 2
  InitWorkflow = TRUE
  InitStates <- LiveStateIds
  InitEdges <- LiveEdgeIds
  InitGuards <- NoGuard
  InitApprovers <- Gated
  InitPostFns <- NoEffects
  InitMembers <- Leads
  InitRows <- AtProg
SYMMETRY Interchangeable
INVARIANTS
  OnePendingPerEntity
  ApprovedIffMoved
  PositionInStep
  MovesFollowEdges
PROPERTIES
  DecisionIsFinal
