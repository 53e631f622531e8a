CONSTANTS
  h1 = h1  h2 = h2
  Handler = {h1, h2}
  Nil = Nil
  ann = ann  bob = bob  cy = cy
  acme = acme
  def = def  ops = ops
  ea = ea  eb = eb  ec = ec
  eng = eng  doc = doc  lab = lab
  p1 = p1  p2 = p2
  task = task  bug = bug
  size = size  sev = sev
  open = open  done = done
  User = {ann, bob, cy}
  Org = {acme}
  Team = {def, ops}
  Email = {ea, eb, ec}
  Sid = {}
  Space = {eng, doc, lab}
  GrantId = {1, 2, 3, 4}
  Page = {p1, p2}
  Uuid <- MCUuid
  ShareId = {1, 2}
  Block = {}
  Item = {1, 2, 3, 4, 5}
  Kind = {task, bug}
  RelId = {1, 2}
  CommentId = {1, 2, 3}
  FileId = {1, 2, 3}
  MagicLink = {1, 2, 3}
  FieldSlug = {size, sev}
  ColumnId = {1, 2, 3, 4}
  Status = {open, done}
  home = home  beacon = beacon
  View = {1, 2, 3, 4, 5}
  Board = {1, 2, 3}
  Module = {home, beacon}
  Home = home
  PageSize = 2
  MaxBuckets = 2
  DefaultQueues <- MCDefaultQueues
  StarterLayout <- MCStarterLayout
  WorkflowStates = {open, done}
  DefaultColumnNames = {open}
  SpaceType <- MCSpaceType
  TeamOrg <- MCTeamOrg
  DefaultTeam <- MCDefaultTeam
  MaxDepth = 3
  SpaceOrg <- MCSpaceOrg
  Mixes <- TrackerMixes
  Casts <- TrackerCasts

SPECIFICATION TrackerSpec
SYMMETRY MCSymmetry
CHECK_DEADLOCK FALSE

INVARIANTS
  LookupsAgree
  RowsFitTheirConfiguration
  TicketsTalkToTheirOwn
  ResultsAddUp
  SearchShowsTheReadable
  AudienceIsOne
  LayoutsLandWhole
PROPERTIES
  OrdersAreKept
