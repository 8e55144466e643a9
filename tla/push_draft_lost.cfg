CONSTANTS
  alice = alice
  bob = bob
  intro = intro
  setup = setup
  home = home
  guide = guide
  web = web
  cli = cli
  app = app
  docs = docs
  page = page
  Users = {alice}
  Docs = {intro}
  Paths = {home}
  Folders = {app, docs}
  Bodies = {page}
  Sessions = {web, cli}
  AuthorOf <- OneAuthor
  Root = app
  FolderOf <- MCFolderOf
  Rank <- MCRank
  Caps <- MCCaps
  Importer = alice
  Places <- OnePage
  NoBody = NoBody
  NoDraft = NoDraft
  NoCall = NoCall
  Nowhere = Nowhere
  Nobody = Nobody
  Requests = {"create", "update", "delete", "move", "withdraw", "merge", "push", "attach", "detach", "publish"}
  MaxClock = 2
  MaxSaves = 2
SPECIFICATION Spec
PROPERTIES
  NoDraftLost
CHECK_DEADLOCK FALSE
