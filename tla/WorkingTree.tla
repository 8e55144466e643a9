---------------------------- MODULE WorkingTree -----------------------------
(***************************************************************************)
(* The working copy as the mount folds it together (fuse/model.py): the    *)
(* published manifest, which one request returned, and the caller's draft  *)
(* rows, which a later one did.  Only the root folder and its pages; sizes *)
(* and times are left out.                                                 *)
(***************************************************************************)
EXTENDS Naturals, FiniteSets

CONSTANTS Docs, Paths,
          Rank,            \* page path -> its place in the manifest, "order": "path"
          Top, Synthetic,  \* keys of the root: its document id, or made up
          Nowhere, Hidden, NoRow, NoKey, NoText

(* What a body is: the published revision it descends from and the edit it *)
(* is; 0 for none.  Only the properties look at .from.                     *)
Text(from, n) == [from |-> from, n |-> n]
Empty == Text(0, 0)

(* An answer: the rows of both requests, and the place each draft row has  *)
(* in the second, which nothing orders.                                    *)
Answer(root, docs, rows, place) ==
  [root |-> root, docs |-> docs, rows |-> rows, place |-> place]

RowsFor(v, ops, d) ==
  {p \in Paths : v.rows[p] # NoRow /\ v.rows[p].op \in ops /\ v.rows[p].doc = d}

LastOf(v, S) == CHOOSE p \in S : \A q \in S : v.place[q] <= v.place[p]

Retired(v, d) == RowsFor(v, {"delete"}, d) # {}

(* A document: the last row about it is its draft, the last move its path. *)
DocNode(v, d) ==
  LET about == RowsFor(v, {"update", "move"}, d)
      moves == RowsFor(v, {"move"}, d)
  IN [doc  |-> d, tip |-> v.docs[d].tip, mine |-> v.docs[d].mine,
      may  |-> v.docs[d].may,
      path |-> IF moves = {} THEN v.docs[d].path ELSE LastOf(v, moves),
      row  |-> IF about = {} THEN NoRow ELSE v.rows[LastOf(v, about)]]

DraftKey(p) == <<"draft", p>>

DraftNode(v, p) == [doc |-> Nowhere, tip |-> 0, mine |-> FALSE, may |-> "edit",
                    path |-> p, row |-> v.rows[p]]

DocKeys(v) == {d \in Docs : v.docs[d] # Hidden /\ ~Retired(v, d)}

Created(v) == {p \in Paths : v.rows[p] # NoRow /\ v.rows[p].op = "create"}

NodeKeys(v) == DocKeys(v) \cup {DraftKey(p) : p \in Created(v)}

Node(v, k) == IF k \in Docs THEN DocNode(v, k) ELSE DraftNode(v, k[2])

(* by_path and children: of several nodes at one path the later one in the *)
(* tree wins, and the created ones come after the documents.               *)
KeyAt(v, p) ==
  LET here == {d \in DocKeys(v) : DocNode(v, d).path = p}
  IN IF p \in Created(v) THEN DraftKey(p)
     ELSE IF here = {} THEN NoKey
     ELSE CHOOSE d \in here : \A e \in here :
            Rank[v.docs[e].path] <= Rank[v.docs[d].path]

RootKey(v) == IF v.root THEN Top ELSE Synthetic
=============================================================================
