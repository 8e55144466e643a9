CONSTANTS
  Docs <- MCDocs
  Sections = {head, tail}
  Terminals = {t1, t2}
  NoDraft = NoDraft
  NoText = NoText
  NoRun = NoRun
  MaxEdits = 3
  Menus <- MCMenus
SPECIFICATION Spec
INVARIANTS
  TypeOK
  NoLostUpdate
  NoMarkersPublished
  EditsKept
  BackupIsTheUsers
CHECK_DEADLOCK FALSE
