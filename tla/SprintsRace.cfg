\* Two handlers start and complete sprints of two spaces while items are
\* created and planned onto them.
SPECIFICATION Spec
CONSTANTS
  Nil = Nil
  Space = {"here", "there"}
  Sprint = {"near", "next", "far"}
  Item = {"i1"}
  HomeOf <- TwoSpaces
  SpaceOf <- ItemsHere
  Nameable <- SprintsHere
  Handler = {h1, h2}
  InitSprints <- Fresh
  InitItems <- NoItems
  Ops = {"start", "complete", "carry", "createSprint", "createItem", "assign", "clear", "finish", "reopen", "deleteItem"}
  MaxRequests = 4
  MaxEdits = 5
SYMMETRY InterchangeableHandlers
INVARIANTS
  OneActivePerSpace
  ItemsStayInTheirSpace
