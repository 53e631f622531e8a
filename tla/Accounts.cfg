CONSTANTS
  h1 = h1  h2 = h2
  Handler = {h1, h2}
  Nil = Nil
  ann = ann  bob = bob  cy = cy
  acme = acme  zen = zen
  def = def  defz = defz  ops = ops  web = web  api = api
  ea = ea  eb = eb  ec = ec
  User = {ann, bob, cy}
  Org = {acme, zen}
  Team = {def, defz, ops, web, api}
  Email = {ea, eb, ec}
  Sid = {1, 2}
  Link = {1, 2}
  Invite = {1, 2}
  TeamOrg <- MCTeamOrg
  DefaultTeam <- MCDefaultTeam
  MaxDepth = 3
  eng = eng  lab = lab
  Space = {eng, lab}
  GrantId = {1, 2}
  SpaceOrg <- MCSpaceOrg
  f1 = f1  f2 = f2  f3 = f3
  s1 = s1  s2 = s2  s3 = s3  s4 = s4
  e1 = e1  e2 = e2  e3 = e3
  t1 = t1  t2 = t2  t3 = t3
  Workflow = {f1, f2, f3}
  WfState = {s1, s2, s3, s4}
  WfEdge = {e1, e2, e3}
  TierRow = {t1, t2, t3}
  AppliesTo <- MCAppliesTo
  Mixes <- MCMixes
  Casts <- MCCasts

SPECIFICATION AccountsSpec
SYMMETRY MCSymmetry
CHECK_DEADLOCK FALSE

INVARIANTS
  AdminRemains
  NoSessionOutlivesItsCredentials
  TeamsAreSound
  TokensSpentOnce
  GraphsStayWhole
PROPERTIES
  KillIsPermanent
  OnlyOwnAdministrators
