CONSTANTS
  intro = intro
  setup = setup
  home = home
  guide = guide
  tmp = tmp
  swp = swp
  vim = vim
  cat = cat
  Docs = {intro, setup}
  Paths = {home, guide}
  Locals = {tmp, swp}
  Apps = {vim, cat}
  Rank <- MCRank
  Top = Top
  Synthetic = Synthetic
  Nowhere = Nowhere
  Hidden = Hidden
  NoRow = NoRow
  NoKey = NoKey
  NoText = NoText
  NoApp = NoApp
  NoFetch = NoFetch
  NoToken = NoToken
  NoHandle = NoHandle
  Keys <- MCKeys
  MaxInode = 6
  MaxHeld = 9
  MaxScratch = 2
  Menus <- Interrupted
SPECIFICATION Spec
INVARIANTS
  MountStaysUp
CHECK_DEADLOCK FALSE
