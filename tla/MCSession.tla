----------------------------- MODULE MCSession -----------------------------
(* Small instances of Session for TLC.                                     *)
EXTENDS Session

MCDocs == 1..2

(* Long behaviours of one page, and shorter ones of two.                   *)
OnePage  == [pages |-> {1}, commands |-> 3, faults |-> 1]
TwoPages == [pages |-> {1, 2}, commands |-> 2, faults |-> 0]

MCMenus == {OnePage, TwoPages}
=============================================================================
