CONSTANTS
  alice = alice
  bob = bob
  intro = intro
  setup = setup
  home = home
  guide = guide
  web = web
  cli = cli
  app = app
  docs = docs
  page = page
  Users = {alice}
  Docs = {intro, setup}
  Paths = {home, guide}
  Folders = {app, docs}
  Bodies = {page}
  Sessions = {web, cli}
  AuthorOf <- OneAuthor
  Root = app
  FolderOf <- MCFolderOf
  Rank <- MCRank
  Caps <- MCCaps
  Importer = alice
  Places <- OnePageSomewhere
  NoBody = NoBody
  NoDraft = NoDraft
  NoCall = NoCall
  Nowhere = Nowhere
  Nobody = Nobody
  Requests = {"create", "update", "delete", "move", "withdraw", "merge", "push", "attach", "detach", "publish"}
  MaxClock = 3
  MaxSaves = 1
SPECIFICATION FairSpec
PROPERTIES
  EveryRequestEnds
CHECK_DEADLOCK FALSE
