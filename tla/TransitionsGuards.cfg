\* Two handlers race through the gate, the approval and the verdict of one
\* entity while its guards, teams and post-functions change.
SPECIFICATION Spec
CONSTANTS
  h1 = h1
  h2 = h2
  a1 = a1
  a2 = a2
  a3 = a3
  Nil = Nil
  User <- MCUser
  Team <- MCTeam
  Capable = {"ann"}
  Status <- MCStatus
  StateId <- MCStateId
  EdgeId <- MCEdgeId
  StateName <- MCStateName
  Initial = {"sOpen"}
  DoneState = {"sDone"}
  EdgeFrom <- MCEdgeFrom
  EdgeTo <- MCEdgeTo
  OpenStatus = "open"
  DoneStatus = {"resolved"}
  LegalMove <- MCLegalMove
  Entity = {"t1"}
  Ticket = {"t1"}
  Handler = {h1, h2}
  ApprovalId = {a1, a2}
  Ops = {"move", "stateMove", "decide", "createGuard", "deleteGuard", "createApprover", "deleteApprover", "createPostFunction", "deletePostFunction", "changeMembership", "deleteTeam"}
  MaxRequests = 4
  MaxEdits = 1
  InitWorkflow = TRUE
  InitStates <- LiveStateIds
  InitEdges <- LiveEdgeIds
  InitGuards <- Guarded
  InitApprovers <- Gated
  InitPostFns <- Effectful
  InitMembers <- Leads
  InitRows <- AtOpen
SYMMETRY Interchangeable
INVARIANTS
  GatedMovesWereApproved
  NoticesAreTrue
PROPERTIES
  LedgerRefined
  OffersMatchTheGate
  EffectsRideTheMove
