CONSTANTS
  intro = intro
  setup = setup
  home = home
  guide = guide
  tmp = tmp
  swp = swp
  vim = vim
  cat = cat
  Docs = {intro, setup}
  Paths = {home, guide}
  Locals = {tmp, swp}
  Apps = {vim, cat}
  Rank <- MCRank
  Top = Top
  Synthetic = Synthetic
  Nowhere = Nowhere
  Hidden = Hidden
  NoRow = NoRow
  NoKey = NoKey
  NoText = NoText
  NoApp = NoApp
  NoFetch = NoFetch
  NoToken = NoToken
  NoHandle = NoHandle
  Keys <- MCKeys
  MaxInode = 6
  MaxHeld = 9
  MaxScratch = 2
  Menus <- AllMenus
SPECIFICATION Spec
INVARIANTS
  TypeOK
  TokenCoversTree
  NoUnseenBase
  BaseNotNewerThanBody
  CleanMeansSaved
  InodesAgree
PROPERTIES
  RenameResolves
  Converges
CHECK_DEADLOCK FALSE
