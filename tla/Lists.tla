-------------------------------- MODULE Lists -------------------------------
(***************************************************************************)
(* Lists of audit events (fuse/audit.py, 090_audit.sql): what is on one,   *)
(* and the list without some of it. Only is SelectSeq with a set for a     *)
(* test, and by ranks in place of a recursion, to be reasoned about.       *)
(***************************************************************************)
EXTENDS Sequences, Naturals, FiniteSets

Among(s) == {s[i] : i \in 1..Len(s)}

Where(s, S) == {i \in 1..Len(s) : s[i] \in S}

Rank(at, i) == Cardinality({j \in at : j <= i})

(* What of s is in S, in the order of s.                                   *)
Only(s, S) ==
  LET at == Where(s, S)
  IN [n \in 1..Cardinality(at) |-> s[CHOOSE i \in at : Rank(at, i) = n]]
=============================================================================
