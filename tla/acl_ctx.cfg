CONSTANTS
  alice = alice
  staff = staff
  public = public
  crew = crew
  anon = anon
  admin = admin
  reader = reader
  writer = writer
  syncer = syncer
  granter = granter
  root = root
  docs = docs
  intro = intro
  draft = draft
  Principals = {alice, staff, public}
  Public = public
  MemberOf <- MCMemberOf
  Subjects = {alice, crew, anon, admin}
  Seeds <- MCSeeds
  Superusers = {admin}
  Editors = {alice, admin}
  Null = Null
  Capabilities = {"read", "sync", "write", "grant"}
  Requires <- MCRequires
  Roles = {reader, writer, syncer, granter}
  RoleCapability <- MCRoleCapability
  RoleInherits <- MCRoleInherits
  Labels = {root, docs, intro, draft}
  Paths <- MCPaths
  Trees <- MCTrees
  Entries <- LoopEntries
  Questions <- LoopQuestions
  MaxAces = 3
SPECIFICATION Spec
INVARIANTS
  TypeOK
  ContextAgrees
