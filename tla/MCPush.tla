------------------------------- MODULE MCPush -------------------------------
(* Small instances of Push for TLC: who may do what, and where pages are.  *)
EXTENDS Push

CONSTANTS alice, bob, intro, setup, home, guide, web, cli, app, docs, page

MCAuthorOf == [s \in Sessions |-> IF s = web THEN alice ELSE bob]
OneAuthor  == [s \in Sessions |-> alice]

MCFolderOf == [p \in Paths |-> IF p = guide THEN docs ELSE app]
MCRank     == [p \in Paths |-> IF p = home THEN 1 ELSE 2]

(* bob may do anything but retire what is in the folder docs, and create   *)
(* nothing in it.                                                          *)
MCCaps == [u \in Users |-> [x \in Paths \cup Folders |->
  IF u = bob /\ x \in {guide, docs} THEN {"read", "write"}
  ELSE {"read", "write", "create", "delete"}]]

OneFolder  == [p \in Paths |-> app]

(* One page, in the root folder or in one of its own.                      *)
AtHome == [d \in Docs |-> IF d = intro THEN home ELSE Nowhere]
AtGuide == [d \in Docs |-> IF d = intro THEN guide ELSE Nowhere]
OnePage == {AtHome}
OnePageSomewhere == {AtHome, AtGuide}
=============================================================================
