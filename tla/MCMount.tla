------------------------------ MODULE MCMount -------------------------------
(* Small instances of Mount for TLC: what is done to the mount.            *)
EXTENDS Mount

CONSTANTS intro, setup, home, guide, tmp, swp, vim, cat

MCRank == [p \in Paths |-> IF p = guide THEN 1 ELSE 2]

MCKeys == Docs \cup {Top, Synthetic} \cup {DraftKey(p) : p \in Paths}
            \cup {<<"scratch", s>> : s \in 1..MaxScratch}

AtHome == [d \in Docs |-> IF d = intro THEN home ELSE Nowhere]
Unwritten == [d \in Docs |-> Nowhere]
Both   == [d \in Docs |-> IF d = intro THEN home ELSE guide]

(* Two applications on one page, which others publish.                     *)
EditInPlace ==
  [apps |-> Apps, names |-> {home}, at |-> AtHome, readOnly |-> FALSE,
   calls |-> {"stat", "look", "open", "close"},
   events |-> {"publish"},
   max |-> 4, others |-> 1, edits |-> 1, faults |-> 0]

(* A program that syncs a file it goes on writing.                         *)
Synced ==
  [apps |-> {vim}, names |-> {home}, at |-> AtHome, readOnly |-> FALSE,
   calls |-> {"stat", "look", "open", "close", "fsync"},
   events |-> {"publish", "revert"},
   max |-> 4, others |-> 1, edits |-> 2, faults |-> 1]

(* One application; its drafts pushed, merged and reverted by the CLI.     *)
Pushed ==
  [apps |-> {vim}, names |-> {home}, at |-> AtHome, readOnly |-> FALSE,
   calls |-> {"stat", "look", "open", "close"},
   events |-> {"publish", "push", "merge"},
   max |-> 4, others |-> 2, edits |-> 1, faults |-> 0]

(* The mount is started again between reading and saving.                  *)
Restarted ==
  [apps |-> {vim}, names |-> {home}, at |-> AtHome, readOnly |-> FALSE,
   calls |-> {"stat", "look", "open", "close"},
   events |-> {"publish", "restart"},
   max |-> 4, others |-> 1, edits |-> 1, faults |-> 1]

(* An editor that writes a temporary file and renames it over the page.    *)
AtomicSave ==
  [apps |-> {vim}, names |-> {home, tmp}, at |-> AtHome, readOnly |-> FALSE,
   calls |-> {"stat", "look", "open", "close", "create", "rename"},
   events |-> {"publish"},
   max |-> 5, others |-> 1, edits |-> 1, faults |-> 0]

(* Files the server never hears of.                                        *)
Scratches ==
  [apps |-> {vim}, names |-> {tmp, swp}, at |-> AtHome, readOnly |-> FALSE,
   calls |-> {"stat", "look", "open", "create", "close", "truncate", "rename", "unlink"},
   events |-> {"grant"},
   max |-> 4, others |-> 1, edits |-> 1, faults |-> 0]

(* Names come and go while others look.                                    *)
Rearrange ==
  [apps |-> {vim}, names |-> {home, guide}, at |-> AtHome, readOnly |-> FALSE,
   calls |-> {"stat", "look", "again", "list", "create", "rename", "unlink"},
   events |-> {"move", "push", "forget"},
   max |-> 3, others |-> 2, edits |-> 0, faults |-> 0]

(* A page not yet published changes its name, and requests fail.           *)
Renamed ==
  [apps |-> {vim}, names |-> {home, guide}, at |-> Unwritten, readOnly |-> FALSE,
   calls |-> {"look", "create", "close", "rename", "stat"},
   events |-> {"push"},
   max |-> 3, others |-> 1, edits |-> 1, faults |-> 1]

(* Access is taken away and given back.                                    *)
Access ==
  [apps |-> {vim}, names |-> {home, tmp}, at |-> AtHome, readOnly |-> FALSE,
   calls |-> {"stat", "look", "open", "create", "close", "truncate"},
   events |-> {"grant", "retire"},
   max |-> 2, others |-> 2, edits |-> 1, faults |-> 0]

(* A mount that refuses every change.                                      *)
ReadOnly ==
  [apps |-> {vim}, names |-> {home, guide}, at |-> Both, readOnly |-> TRUE,
   calls |-> {"stat", "look", "open", "create", "unlink", "rename"},
   events |-> {"publish"},
   max |-> 2, others |-> 1, edits |-> 0, faults |-> 0]

AllMenus == {EditInPlace, Synced, Pushed, Restarted, AtomicSave,
             Scratches, Rearrange, Renamed, Access, ReadOnly}
Interrupted == {Synced}
=============================================================================
