CONSTANTS
  alice = alice
  bob = bob
  intro = intro
  setup = setup
  home = home
  guide = guide
  web = web
  cli = cli
  app = app
  docs = docs
  page = page
  Users = {alice, bob}
  Docs = {intro}
  Paths = {home}
  Folders = {app, docs}
  Bodies = {page}
  Sessions = {web, cli}
  AuthorOf <- MCAuthorOf
  Root = app
  FolderOf <- MCFolderOf
  Rank <- MCRank
  Caps <- MCCaps
  Importer = alice
  Places <- OnePage
  NoBody = NoBody
  NoDraft = NoDraft
  NoCall = NoCall
  Nowhere = Nowhere
  Nobody = Nobody
  Requests = {"update", "delete", "withdraw", "merge", "push"}
  MaxClock = 3
  MaxSaves = 4
SPECIFICATION Spec
PROPERTIES
  NoDraftLost
CHECK_DEADLOCK FALSE
