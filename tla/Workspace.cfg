CONSTANTS
  h1 = h1  h2 = h2
  Handler = {h1, h2}
  Nil = Nil
  ann = ann  bob = bob  cy = cy
  acme = acme
  def = def  ops = ops  web = web
  ea = ea  eb = eb  ec = ec
  eng = eng  doc = doc  lab = lab
  p1 = p1  p2 = p2  p3 = p3
  b1 = b1  b2 = b2
  User = {ann, bob, cy}
  Org = {acme}
  Team = {def, ops, web}
  Email = {ea, eb, ec}
  Sid = {}
  Space = {eng, doc, lab}
  GrantId = {1, 2, 3, 4, 5}
  Page = {p1, p2, p3}
  ShareId = {1, 2, 3}
  Block = {b1, b2}
  Spelling <- MCSpelling
  MaxTagsPerEntity = 2
  AuditId = {1, 2, 3, 4}
  MaxAuditPage = 2
  DefaultAuditPage = 1
  TeamOrg <- MCTeamOrg
  DefaultTeam <- MCDefaultTeam
  MaxDepth = 3
  SpaceOrg <- MCSpaceOrg
  Mixes <- AllMixes
  Casts <- AllCasts

SPECIFICATION WorkspaceSpec
SYMMETRY MCSymmetry
CHECK_DEADLOCK FALSE

INVARIANTS
  ExplainAgrees
  SharesStayInSpace
  CascadeCoversTheSubtree
  RevisionsTellTheStory
  NothingLostSilently
  AuditTrailAddsUp
PROPERTIES
  BulkLandsWhole
  GoesOnlyByRequest
