----------------------------- MODULE Revisions -----------------------------
(***************************************************************************)
(* What the wiki promises about published history, with nothing said of    *)
(* drafts, requests, locks or transactions: every document has a log of    *)
(* revisions that only grows; a changeset of one author is published in    *)
(* one instant, at most one revision per document; and each revision was   *)
(* written on top of the one that was live when it was published, so no    *)
(* edit is ever replaced by somebody who had not seen it.                  *)
(*                                                                         *)
(* Push implements this specification (see Push!Published).                *)
(***************************************************************************)
EXTENDS Naturals, Sequences

CONSTANTS Users,     \* who can publish
          Docs,      \* the documents there can ever be
          Bodies     \* what a revision can hold (a retirement included)

VARIABLE log         \* document -> the revisions published so far

(* "base" is the revision the author says the edit was made from; 0 for a  *)
(* document that was not there.                                            *)
Entry == [by: Users, body: Bodies, base: Nat]

Init == log \in [Docs -> Seq(Entry)]

(* One changeset: the author u publishes body[d] for each d in batch.      *)
Publish(u, batch, body) ==
  log' = [d \in Docs |->
            IF d \in batch
            THEN Append(log[d], [by |-> u, body |-> body[d], base |-> Len(log[d])])
            ELSE log[d]]

Next == \E u \in Users, batch \in SUBSET Docs :
          \E body \in [batch -> Bodies] : Publish(u, batch, body)

Spec == Init /\ [][Next]_log
=============================================================================
