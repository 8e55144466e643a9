------------------------------ MODULE MCStart ------------------------------
(* Small instances of Start and Serve for TLC.                             *)
EXTENDS Serve

CONSTANTS old, new, dev, home, secret

(* A rolling deploy: the predecessor and its successor, at one address.    *)
(* And a third that was told not to migrate, at an address of its own.     *)
MCServers == {old, new, dev}
MCRelease == [s \in MCServers |-> IF s = old THEN 1 ELSE 2]
MCAddress == [s \in MCServers |-> IF s = dev THEN "dev" ELSE "local"]
Deployed == {old, new}

(* runtime/ revokes and grants in its first file and grants in its second. *)
(* The old release let the accounts write and everybody read something     *)
(* which the new one does not.                                             *)
MCParts == {1, 2}
MCGrants ==
  [r \in 1..2 |-> [p \in MCParts |->
     IF p = 2 THEN {"anon files"}
     ELSE IF r = 1 THEN {"user read", "user write", "anon read"}
     ELSE {"user read"}]]

Empty == [ledger |-> {}, tables |-> {}, guessed |-> FALSE, runtime |-> {},
          grants |-> {}, root |-> "absent", changes |-> 0]

(* Loaded before there was a ledger, by the old release or by the new.     *)
Older(r) == [ledger |-> {}, tables |-> Tables(r), guessed |-> FALSE,
             runtime |-> {r} \X Parts, grants |-> GrantsOf(r), root |-> "there",
             changes |-> 0]

MCExisting == {Empty, Older(1), Older(2)}

(* Two pages that link to each other; the cache holds three of home, or    *)
(* one of each.                                                            *)
MCPages == {home, secret}
MCMentions == [p \in MCPages |-> MCPages \ {p}]
MCSize == [p \in MCPages |-> IF p = home THEN 1 ELSE 2]

(* Three starts: two things go wrong over a new database, one over an old. *)
Deploy(existing_, faults_) ==
  [servers |-> Deployed, existing |-> existing_, starts |-> 3, faults |-> faults_,
   views |-> 0, edits |-> 0]

(* One server that has come up: three requests around an edit, one around  *)
(* two, and one that its PostgREST may not live to see.                    *)
Browse(views, edits_, faults_) ==
  [servers |-> {new}, existing |-> {Empty}, starts |-> 1, faults |-> faults_,
   views |-> views, edits |-> edits_]

(* The new release comes to a database that another server serves as it is.*)
Aside == [servers |-> {new, dev}, existing |-> {Empty, Older(2)}, starts |-> 2, faults |-> 1,
          views |-> 0, edits |-> 0]

MCMenus == {Deploy({Empty}, 2), Deploy({Older(1), Older(2)}, 1), Aside,
            Browse(3, 1, 0), Browse(1, 2, 0), Browse(1, 0, 1)}
=============================================================================
