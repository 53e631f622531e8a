\* Completions race, to the backlog and to a successor; items are finished,
\* returned and deleted, and no one plans onto a sprint.
SPECIFICATION Spec
CONSTANTS
  Nil = Nil
  Space = {"here", "there"}
  Sprint = {"near", "next", "far"}
  Item = {"i1", "i2"}
  HomeOf <- TwoSpaces
  SpaceOf <- ItemsHere
  Nameable <- SprintsHere
  Handler = {h1, h2}
  InitSprints <- Running
  InitItems <- Spread
  Ops = {"start", "complete", "carry", "createSprint", "clear", "finish", "deleteItem"}
  MaxRequests = 6
  MaxEdits = 2
SYMMETRY InterchangeableHandlers
INVARIANTS
  NoWorkOnACompletedSprint
PROPERTIES
  CarriedWorkLandsOnAnOpenSprint
