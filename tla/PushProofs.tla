----------------------------- MODULE PushProofs -----------------------------
(* What is proved of Push for every set of users, pages, paths and         *)
(* requests, and for every access control list.                            *)
EXTENDS Push, TLAPS

(* What a request has in hand when it executes the statement at pc[s].     *)
CallOK == \A s \in Sessions :
  /\ pc[s] = "save" => cur[s] \in Saved
  /\ pc[s] \in {"create", "move", "read", "close", "insert", "attach", "detach"}
       => cur[s] \in Call
  /\ pc[s] \in {"move", "read", "close", "insert"} => cur[s].doc \in Docs

Typed == TypeOK /\ CallOK

-----------------------------------------------------------------------------
(* Rows                                                                    *)

(* The live revision, if there is one, is one of the history, and open.    *)
LEMMA LiveType ==
  ASSUME NEW h \in Seq(Revision)
  PROVE  /\ Live(h) \in 0..Len(h)
         /\ Live(h) # 0 => Live(h) \in 1..Len(h) /\ h[Live(h)].to = Open
<1>1. CASE \E n \in 1..Len(h) : h[n].to = Open
  <2>1. Live(h) \in 1..Len(h) /\ h[Live(h)].to = Open
    BY <1>1 DEF Live
  <2> QED BY <2>1
<1>2. CASE ~ \E n \in 1..Len(h) : h[n].to = Open
  BY <1>2 DEF Live
<1> QED BY <1>1, <1>2

(* What a session sees is a database.                                      *)
LEMMA ViewType == ASSUME Typed, NEW s \in Sessions PROVE View(s) \in Database
BY DEF Typed, TypeOK, View

(* Closing a revision changes its end and nothing else.                    *)
LEMMA ClosedType ==
  ASSUME NEW h \in Seq(Revision), NEW n \in 1..Len(h), NEW t \in Nat
  PROVE  /\ Closed(h, n, t) \in Seq(Revision)
         /\ Len(Closed(h, n, t)) = Len(h)
         /\ \A k \in 1..Len(h) : k # n => Closed(h, n, t)[k] = h[k]
         /\ Closed(h, n, t)[n] = [h[n] EXCEPT !.to = t]
<1>1. h[n] \in Revision /\ [h[n] EXCEPT !.to = t] \in Revision
  <2>1. h[n] \in Revision
    OBVIOUS
  <2> QED BY <2>1 DEF Revision
<1>2. Closed(h, n, t) = [h EXCEPT ![n] = [h[n] EXCEPT !.to = t]]
  BY DEF Closed
<1> QED BY <1>1, <1>2

(* A database with another history is a database.                          *)
LEMMA HistType ==
  ASSUME NEW D \in Database, NEW d \in Docs, NEW h \in Seq(Revision)
  PROVE  [D EXCEPT !.hist[d] = h] \in Database
BY DEF Database

-----------------------------------------------------------------------------
(* Requests and their ends                                                 *)

(* The end of a request keeps the types.                                   *)
LEMMA EndedTyped ==
  ASSUME Typed, NEW s \in Sessions, Ended(s), db' \in Database, work' \in Database,
         writer' = Nobody => work' = db'
  PROVE  Typed'
BY PushAssumption DEF Typed, TypeOK, CallOK, Ended, Statements

(* An error keeps them.                                                    *)
LEMMA AbortTyped ==
  ASSUME Typed, NEW s \in Sessions, Abort(s)
  PROVE  Typed'
<1>1. Ended(s) /\ db' \in Database /\ work' \in Database
  BY DEF Abort, Typed, TypeOK
<1>2. writer' = Nobody => work' = db'
  BY DEF Abort, Ended, Typed, TypeOK
<1> QED BY <1>1, <1>2, EndedTyped

(* What a statement locks are keys.                                        *)
LEMMA NeedsType == ASSUME Typed, NEW s \in Sessions PROVE Needs(s) \subseteq Keys
<1>1. View(s) \in Database /\ AuthorOf[s] \in Users /\ scope[s] \subseteq Paths
  BY ViewType, PushAssumption DEF Typed, TypeOK
<1>2. DraftKeys(View(s), s) \subseteq Keys
  BY <1>1 DEF DraftKeys, Keys, Cleared
<1>3. pc[s] = "create" => Needs(s) \subseteq Keys
  BY PushAssumption DEF Needs, Keys, Typed, CallOK, Call
<1>4. pc[s] = "move" => Needs(s) \subseteq Keys
  BY <1>1, PushAssumption DEF Needs, Keys, Typed, CallOK, Call, Database
<1>5. pc[s] \in {"close", "insert"} => Needs(s) \subseteq Keys
  BY DEF Needs, Keys, Typed, CallOK, Call
<1> QED BY <1>2, <1>3, <1>4, <1>5 DEF Needs

(* Whoever took its locks is the writer.                                   *)
LEMMA TookTyped ==
  ASSUME Typed, NEW s \in Sessions, Took(s)
  PROVE  locks' \in [Sessions -> SUBSET Keys] /\ writer' = s /\ s # Nobody
BY NeedsType, PushAssumption DEF Took, Typed, TypeOK

-----------------------------------------------------------------------------
(* Drafts                                                                  *)

(* A statement on a draft keeps the types.                                 *)
LEMMA StatementTyped ==
  ASSUME Typed, NEW s \in Sessions, NEW p \in Paths,
         NEW row \in DraftRecord \cup {NoDraft}, DraftStatement(s, p, row)
  PROVE  Typed'
<1>1. [path |-> p, row |-> row] \in Saved
  BY DEF DraftStatement, Admitted, Draft, Saved
<1>2. {DraftKey(AuthorOf[s], p)} \in SUBSET Keys
  BY PushAssumption DEF Keys
<1> QED
  BY <1>1, <1>2 DEF DraftStatement, Typed, TypeOK, CallOK, Statements

(* The start of a request for a draft keeps them.                          *)
LEMMA DraftRequestTyped ==
  ASSUME Typed, NEW s \in Sessions, DraftRequest(s)
  PROVE  Typed'
<1>1. PICK p \in Paths :
        \/ \E b \in Bodies : PutCreate(s, p, b)
        \/ \E op \in {"update", "delete", "move"}, d \in Docs, b \in AnyBody :
             PutDraft(s, op, d, p, b)
        \/ DeleteDraft(s, p)
        \/ ResolveMerge(s, p)
        \/ AbortMerge(s, p)
        \/ \E n \in 1..MaxClock, b \in Bodies, conflicted \in BOOLEAN :
             BeginMerge(s, p, b, n, conflicted)
  BY DEF DraftRequest
<1> DEFINE old == DraftAt(s, p)
<1>2. old \in DraftRecord \cup {NoDraft}
  BY PushAssumption DEF DraftAt, Typed, TypeOK, Database, Draft
<1>3. \A op \in Ops, d \in Docs \cup {Nowhere}, b \in AnyBody, n \in Nat :
        Upsert(old, op, d, b, n) \in DraftRecord
  BY <1>2 DEF Upsert, DraftRecord, AnyBody
<1>4. ASSUME NEW b \in Bodies, PutCreate(s, p, b) PROVE Typed'
  <2>1. Upsert(old, "create", Nowhere, b, 0) \in DraftRecord
    BY <1>3 DEF Ops, AnyBody
  <2> QED BY <1>4, <2>1, StatementTyped DEF PutCreate
<1>5. ASSUME NEW op \in {"update", "delete", "move"}, NEW d \in Docs, NEW b \in AnyBody,
             PutDraft(s, op, d, p, b)
      PROVE Typed'
  <2>1. Live(db.hist[d]) \in Nat
    BY LiveType DEF Typed, TypeOK, Database
  <2>2. Upsert(old, op, d, b, Live(db.hist[d])) \in DraftRecord
    BY <1>3, <2>1 DEF Ops
  <2> QED BY <1>5, <2>2, StatementTyped DEF PutDraft
<1>6. ASSUME DeleteDraft(s, p) PROVE Typed'
  BY <1>6, StatementTyped DEF DeleteDraft
<1>7. ASSUME ResolveMerge(s, p) PROVE Typed'
  <2>1. old \in DraftRecord
    BY <1>2, <1>7 DEF ResolveMerge
  <2>2. [old EXCEPT !.base = IF old.from = 0 THEN old.base ELSE old.from,
                    !.state = "clean", !.pre = NoBody, !.from = 0] \in DraftRecord
    BY <2>1 DEF DraftRecord, AnyBody
  <2> QED BY <1>7, <2>2, StatementTyped DEF ResolveMerge
<1>8. ASSUME AbortMerge(s, p) PROVE Typed'
  <2>1. old \in DraftRecord
    BY <1>2, <1>8 DEF AbortMerge
  <2>2. [old EXCEPT !.body = IF old.pre = NoBody THEN old.body ELSE old.pre,
                    !.state = "clean", !.pre = NoBody, !.from = 0] \in DraftRecord
    BY <2>1 DEF DraftRecord, AnyBody
  <2> QED BY <1>8, <2>2, StatementTyped DEF AbortMerge
<1>9. ASSUME NEW n \in 1..MaxClock, NEW b \in Bodies, NEW conflicted \in BOOLEAN,
             BeginMerge(s, p, b, n, conflicted)
      PROVE Typed'
  <2>1. old \in DraftRecord /\ n \in Nat
    BY <1>2, <1>9, PushAssumption DEF BeginMerge
  <2>2. [old EXCEPT !.pre = IF old.pre = NoBody THEN old.body ELSE old.pre,
                    !.body = b, !.from = n,
                    !.state = IF conflicted THEN "conflicted" ELSE @] \in DraftRecord
    BY <2>1 DEF DraftRecord, AnyBody
  <2> QED BY <1>9, <2>2, StatementTyped DEF BeginMerge
<1> QED BY <1>1, <1>4, <1>5, <1>6, <1>7, <1>8, <1>9

(* A draft that is saved keeps them.                                       *)
LEMMA SaveDraftTyped ==
  ASSUME Typed, NEW s \in Sessions, SaveDraft(s)
  PROVE  Typed'
<1>1. cur[s] \in Saved /\ AuthorOf[s] \in Users
  BY PushAssumption DEF SaveDraft, Typed, CallOK
<1>2. db' \in Database
  BY <1>1 DEF SaveDraft, Saved, Database, Typed, TypeOK
<1> QED BY <1>2, EndedTyped DEF SaveDraft

-----------------------------------------------------------------------------
(* push                                                                    *)

(* The rows of a push are drafts.                                          *)
LEMMA RowsType ==
  ASSUME Typed, NEW s \in Sessions, NEW D \in Database
  PROVE  Rows(D, s) \in SUBSET DraftRow
BY PushAssumption DEF Rows, DraftRow, Typed, TypeOK, Database, Draft

(* The call a draft gives rise to is a call.                               *)
LEMMA CallType ==
  ASSUME NEW D \in Database, NEW x \in DraftRow
  PROVE  /\ CallOf(D, x) \in Call
         /\ x.row.op # "create" => CallOf(D, x).doc \in Docs
<1>1. x.path \in Paths /\ x.row \in DraftRecord /\ LegalDraft(x.row)
  BY DEF DraftRow, Draft
<1>2. ASSUME x.row.doc \in Docs, Live(D.hist[x.row.doc]) # 0
      PROVE  D.hist[x.row.doc][Live(D.hist[x.row.doc])].body \in AnyBody
  <2>1. D.hist[x.row.doc] \in Seq(Revision)
    BY <1>2 DEF Database
  <2>2. Live(D.hist[x.row.doc]) \in 1..Len(D.hist[x.row.doc])
    BY <1>2, <2>1, LiveType
  <2>3. D.hist[x.row.doc][Live(D.hist[x.row.doc])] \in Revision
    BY <2>1, <2>2
  <2> QED BY <2>3 DEF Revision
<1>3. x.row.op # "create" => x.row.doc \in Docs
  BY <1>1 DEF LegalDraft, DraftShape, DraftRecord
<1>4. CallOf(D, x).body \in AnyBody
  BY <1>1, <1>2, <1>3 DEF CallOf, DraftRecord, AnyBody
<1>5. CallOf(D, x) = [op |-> x.row.op, path |-> x.path, doc |-> x.row.doc,
                      base |-> x.row.base, body |-> CallOf(D, x).body,
                      tomb |-> (x.row.op = "delete")]
  BY DEF CallOf
<1>6. x.row.op \in Ops /\ x.row.doc \in Docs \cup {Nowhere} /\ x.row.base \in Nat
  BY <1>1 DEF DraftRecord
<1>7. CallOf(D, x) \in Call
  <2>1. \A b \in AnyBody, t \in BOOLEAN :
          [op |-> x.row.op, path |-> x.path, doc |-> x.row.doc,
           base |-> x.row.base, body |-> b, tomb |-> t] \in Call
    BY <1>1, <1>6 DEF Call
  <2>2. (x.row.op = "delete") \in BOOLEAN
    OBVIOUS
  <2> QED BY <1>4, <1>5, <2>1, <2>2, Zenon
<1>8. CallOf(D, x).doc = x.row.doc
  BY DEF CallOf
<1> QED BY <1>3, <1>7, <1>8

(* The start of a push keeps the types.                                    *)
LEMMA PushTyped ==
  ASSUME Typed, NEW s \in Sessions, Push(s)
  PROVE  Typed'
<1>1. CASE PushValidate(s)
  <2>1. CASE Abort(s)
    BY <2>1, AbortTyped
  <2>2. CASE ~ Abort(s)
    BY <1>1, <2>2 DEF PushValidate, Typed, TypeOK, CallOK, Statements
  <2> QED BY <2>1, <2>2
<1>2. CASE PushOpen(s)
  <2>1. Rows(db, s) \in SUBSET DraftRow
    BY RowsType DEF Typed, TypeOK
  <2> QED BY <1>2, <2>1 DEF PushOpen, Typed, TypeOK, CallOK, Statements
<1>3. CASE PushNext(s)
  <2>1. PICK x \in todo[s] :
          /\ todo' = [todo EXCEPT ![s] = @ \ {x}]
          /\ cur'  = [cur EXCEPT ![s] = CallOf(View(s), x)]
          /\ pc'   = [pc EXCEPT ![s] = CASE x.row.op = "create" -> "create"
                                         [] x.row.op = "move"   -> "move"
                                         [] OTHER               -> "read"]
    BY <1>3 DEF PushNext
  <2>2. x \in DraftRow
    BY DEF Typed, TypeOK
  <2>3. /\ CallOf(View(s), x) \in Call
        /\ x.row.op # "create" => CallOf(View(s), x).doc \in Docs
    BY <2>2, ViewType, CallType
  <2>4. pc'[s] \in {"create", "move", "read"} /\ (pc'[s] = "create" => x.row.op = "create")
    BY <2>1 DEF Typed, TypeOK
  <2>5. UNCHANGED <<db, work, writer, clock, saves, now, locks, scope, prev>>
    BY <1>3 DEF PushNext
  <2>6. TypeOK'
    BY <2>1, <2>3, <2>4, <2>5 DEF Typed, TypeOK, Statements
  <2>7. cur'[s] = CallOf(View(s), x) /\ (pc'[s] # "create" => x.row.op # "create")
    BY <2>1 DEF Typed, TypeOK
  <2>8. \A t \in Sessions \ {s} : pc'[t] = pc[t] /\ cur'[t] = cur[t]
    BY <2>1 DEF Typed, TypeOK
  <2>9. CallOK'
    BY <2>3, <2>4, <2>7, <2>8 DEF Typed, CallOK
  <2> QED BY <2>6, <2>9 DEF Typed
<1>4. CASE PushDone(s)
  BY <1>4 DEF PushDone, Typed, TypeOK, CallOK, Statements
<1>5. CASE PushClear(s)
  <2>1. View(s) \in Database /\ AuthorOf[s] \in Users
    BY ViewType, PushAssumption
  <2>2. work' \in Database
    <3> DEFINE mine == [p \in Paths |-> IF p \in Cleared(s) THEN NoDraft
                                        ELSE View(s).drafts[AuthorOf[s]][p]]
    <3>1. mine \in [Paths -> Draft \cup {NoDraft}]
      BY <2>1 DEF Database
    <3>2. work' = [View(s) EXCEPT !.drafts[AuthorOf[s]] = mine]
      BY <1>5 DEF PushClear
    <3> HIDE DEF mine
    <3> QED BY <2>1, <3>1, <3>2 DEF Database
  <2>3. locks' \in [Sessions -> SUBSET Keys] /\ writer' = s /\ s # Nobody
    BY <1>5, TookTyped DEF PushClear
  <2> QED BY <1>5, <2>2, <2>3 DEF PushClear, Typed, TypeOK, CallOK, Statements
<1> QED BY <1>1, <1>2, <1>3, <1>4, <1>5 DEF Push

-----------------------------------------------------------------------------
(* publish_revision and its callers                                        *)

(* The creation of a document keeps them.                                  *)
LEMMA CreateTyped ==
  ASSUME Typed, NEW s \in Sessions, CreateDocument(s)
  PROVE  Typed'
<1> DEFINE c == cur[s]  D == View(s)
<1>1. c \in Call /\ D \in Database
  BY ViewType DEF CreateDocument, Typed, CallOK
<1>2. CASE Abort(s)
  BY <1>2, AbortTyped
<1>3. CASE ~ Abort(s)
  <2>1. PICK d \in Docs :
          /\ work' = [D EXCEPT !.place[d] = c.path,
                               !.folders = @ \cup {FolderOf[c.path]}]
          /\ cur' = [cur EXCEPT ![s].doc = d]
          /\ Took(s)
          /\ pc' = [pc EXCEPT ![s] = "read"]
          /\ UNCHANGED <<db, clock, saves, now, scope, todo, prev>>
    BY <1>3 DEF CreateDocument
  <2>2. c.path \in Paths /\ FolderOf[c.path] \in Folders
    BY <1>1, PushAssumption DEF Call
  <2>3. work' \in Database
    BY <1>1, <2>1, <2>2 DEF Database
  <2>4. cur' = [cur EXCEPT ![s] = [c EXCEPT !.doc = d]] /\ [c EXCEPT !.doc = d] \in Call
    BY <1>1, <2>1 DEF Call
  <2>5. [c EXCEPT !.doc = d].doc \in Docs
    BY <1>1 DEF Call
  <2>6. locks' \in [Sessions -> SUBSET Keys] /\ writer' = s /\ s # Nobody
    BY <2>1, TookTyped
  <2>7. TypeOK'
    BY <2>1, <2>3, <2>4, <2>6 DEF Typed, TypeOK, Statements
  <2>8. CallOK'
    BY <2>1, <2>4, <2>5 DEF Typed, TypeOK, CallOK
  <2> QED BY <2>7, <2>8 DEF Typed
<1> QED BY <1>2, <1>3

(* The move of a document keeps them.                                      *)
LEMMA MoveTyped ==
  ASSUME Typed, NEW s \in Sessions, MoveDocument(s)
  PROVE  Typed'
<1>1. cur[s].path \in Paths /\ cur[s].doc \in Docs /\ View(s) \in Database
  BY ViewType DEF MoveDocument, Typed, CallOK, Call
<1>2. CASE Abort(s)
  BY <1>2, AbortTyped
<1>3. CASE ~ Abort(s)
  <2>1. /\ work' \in {View(s), [View(s) EXCEPT !.place[cur[s].doc] = cur[s].path]}
        /\ Took(s)
        /\ pc' = [pc EXCEPT ![s] = "read"]
        /\ UNCHANGED <<db, clock, saves, now, scope, todo, cur, prev>>
    BY <1>3 DEF MoveDocument
  <2>2. [View(s) EXCEPT !.place[cur[s].doc] = cur[s].path] \in Database
    BY <1>1 DEF Database
  <2>3. work' \in Database
    BY <1>1, <2>1, <2>2
  <2>4. locks' \in [Sessions -> SUBSET Keys] /\ writer' = s /\ s # Nobody
    BY <2>1, TookTyped
  <2> QED BY <2>1, <2>3, <2>4, <1>3 DEF MoveDocument, Typed, TypeOK, CallOK, Statements
<1> QED BY <1>2, <1>3

(* The lookup of the live revision keeps them.                             *)
LEMMA ReadTyped ==
  ASSUME Typed, NEW s \in Sessions, ReadLive(s)
  PROVE  Typed'
<1>1. View(s).hist[cur[s].doc] \in Seq(Revision)
  BY ViewType DEF ReadLive, Typed, CallOK, Database
<1>2. Live(View(s).hist[cur[s].doc]) \in Nat
  BY <1>1, LiveType
<1>3. CASE Abort(s)
  BY <1>3, AbortTyped
<1>4. CASE ~ Abort(s)
  BY <1>2, <1>4 DEF ReadLive, Typed, TypeOK, CallOK, Statements
<1> QED BY <1>3, <1>4

(* The insert of a revision keeps them.                                    *)
LEMMA InsertTyped ==
  ASSUME Typed, NEW s \in Sessions, InsertRevision(s)
  PROVE  Typed'
<1> DEFINE c == cur[s]  D == View(s)
           r == [path |-> c.path, body |-> c.body, tomb |-> c.tomb,
                 by |-> AuthorOf[s], base |-> c.base,
                 from |-> ValidFrom(s), to |-> Open]
<1>1. c \in Call /\ c.doc \in Docs /\ D \in Database
  BY ViewType DEF InsertRevision, Typed, CallOK
<1>2. CASE Abort(s)
  BY <1>2, AbortTyped
<1>3. CASE ~ Abort(s)
  <2>1. /\ work' = [D EXCEPT !.hist[c.doc] = Append(@, r)]
        /\ Took(s)
        /\ pc' = [pc EXCEPT ![s] = IF scope[s] = {} THEN "commit" ELSE "next"]
        /\ UNCHANGED <<db, clock, saves, now, scope, todo, cur, prev>>
    BY <1>3 DEF InsertRevision, WithNext
  <2>2. r \in Revision
    BY <1>1, PushAssumption DEF Revision, Call, ValidFrom, Open, Typed, TypeOK
  <2>3. Append(D.hist[c.doc], r) \in Seq(Revision)
    BY <1>1, <2>2 DEF Database
  <2>4. work' = [D EXCEPT !.hist[c.doc] = Append(D.hist[c.doc], r)]
    BY <2>1
  <2>5. work' \in Database
    BY <1>1, <2>3, <2>4, HistType
  <2>6. locks' \in [Sessions -> SUBSET Keys] /\ writer' = s /\ s # Nobody
    BY <2>1, TookTyped
  <2> QED BY <2>1, <2>5, <2>6, <1>3 DEF Typed, TypeOK, CallOK, Statements
<1> QED BY <1>2, <1>3

(* A call of publish_revision keeps them.                                  *)
LEMMA CalledTyped ==
  ASSUME Typed, NEW s \in Sessions, NEW c \in Call,
         NEW next \in {"attach", "detach", "read"}, next = "read" => c.doc \in Docs,
         Called(s, c, next)
  PROVE  Typed'
BY DEF Called, Start, Typed, TypeOK, CallOK, Statements

(* The start of a publication keeps them.                                  *)
LEMMA PublishRequestTyped ==
  ASSUME Typed, NEW s \in Sessions, PublishRequest(s)
  PROVE  Typed'
<1>1. ASSUME NEW paths \in (SUBSET Paths) \ {{}}, PushStart(s, paths) PROVE Typed'
  BY <1>1 DEF PushStart, Start, Typed, TypeOK, CallOK, Statements
<1>2. ASSUME NEW p \in Paths, NEW b \in Bodies, AttachStart(s, p, b) PROVE Typed'
  <2>1. [op |-> "update", path |-> p, doc |-> Nowhere, body |-> b,
         base |-> 0, tomb |-> FALSE] \in Call
    BY DEF Call, Ops, AnyBody
  <2> QED BY <1>2, <2>1, CalledTyped DEF AttachStart
<1>3. ASSUME NEW p \in Paths, DetachStart(s, p) PROVE Typed'
  <2>1. [op |-> "delete", path |-> p, doc |-> Nowhere, body |-> NoBody,
         base |-> 0, tomb |-> TRUE] \in Call
    BY DEF Call, Ops, AnyBody
  <2> QED BY <1>3, <2>1, CalledTyped DEF DetachStart
<1>4. ASSUME NEW d \in Docs, NEW n \in 1..MaxClock, NEW b \in Bodies, PublishStart(s, d, n, b)
      PROVE Typed'
  <2>1. db.place[d] \in Paths
    BY <1>4 DEF PublishStart, Visible, Typed, TypeOK, Database
  <2>2. n \in Nat
    BY PushAssumption
  <2>3. [op |-> "update", path |-> db.place[d], doc |-> d, body |-> b,
         base |-> n, tomb |-> FALSE] \in Call
    BY <2>1, <2>2 DEF Call, Ops, AnyBody
  <2> QED BY <1>4, <2>3, CalledTyped DEF PublishStart
<1> QED BY <1>1, <1>2, <1>3, <1>4 DEF PublishRequest

(* Closing the live revision keeps them.                                   *)
LEMMA CloseTyped ==
  ASSUME Typed, NEW s \in Sessions, CloseLive(s)
  PROVE  Typed'
<1> DEFINE c == cur[s]  D == View(s)  h == D.hist[c.doc]
<1>1. c.doc \in Docs /\ D \in Database /\ h \in Seq(Revision)
  BY ViewType DEF CloseLive, Typed, CallOK, Database
<1>2. CASE Abort(s)
  BY <1>2, AbortTyped
<1>3. CASE ~ Abort(s)
  <2>1. /\ work' = [D EXCEPT !.hist[c.doc] = Closed(@, prev[s], now[s])]
        /\ Took(s)
        /\ pc' = [pc EXCEPT ![s] = "insert"]
        /\ UNCHANGED <<db, clock, saves, now, scope, todo, cur, prev>>
    BY <1>3 DEF CloseLive
  <2>2. Closed(h, prev[s], now[s]) \in Seq(Revision)
    <3>1. CASE prev[s] \in 1..Len(h)
      BY <1>1, <3>1, ClosedType DEF Typed, TypeOK
    <3>2. CASE prev[s] \notin 1..Len(h)
      <4>1. h = [k \in 1..Len(h) |-> h[k]]
        BY <1>1
      <4>2. Closed(h, prev[s], now[s]) = h
        BY <3>2, <4>1 DEF Closed
      <4> QED BY <1>1, <4>2
    <3> QED BY <3>1, <3>2
  <2>3. work' = [D EXCEPT !.hist[c.doc] = Closed(h, prev[s], now[s])]
    BY <2>1
  <2>4. work' \in Database
    BY <1>1, <2>2, <2>3, HistType
  <2>5. locks' \in [Sessions -> SUBSET Keys] /\ writer' = s /\ s # Nobody
    BY <2>1, TookTyped
  <2> QED BY <2>1, <2>4, <2>5, <1>3 DEF CloseLive, Typed, TypeOK, CallOK, Statements
<1> QED BY <1>2, <1>3

(* A document that is found keeps them.                                    *)
LEMMA ResolveTyped ==
  ASSUME Typed, NEW s \in Sessions, NEW d \in Docs, Resolve(s, d),
         pc[s] \in {"attach", "detach"}
  PROVE  Typed'
<1>1. cur[s] \in Call
  BY DEF Typed, CallOK
<1>2. db.hist[d] \in Seq(Revision) /\ Live(db.hist[d]) \in Nat
  BY LiveType DEF Typed, TypeOK, Database
<1>3. [cur[s] EXCEPT !.doc = d, !.base = Live(db.hist[d])] \in Call
  BY <1>1, <1>2 DEF Call
<1>4. [cur[s] EXCEPT !.doc = d, !.base = Live(db.hist[d])].doc = d
  BY <1>1 DEF Call
<1>5. cur' = [cur EXCEPT ![s] = [cur[s] EXCEPT !.doc = d, !.base = Live(db.hist[d])]]
  BY DEF Resolve, Typed, TypeOK
<1>6. TypeOK'
  BY <1>3, <1>5 DEF Resolve, Typed, TypeOK, Statements
<1>7. CallOK'
  BY <1>3, <1>4, <1>5 DEF Resolve, Typed, TypeOK, CallOK
<1> QED BY <1>6, <1>7 DEF Typed

(* Every step of a publication keeps them.                                 *)
LEMMA PublishTyped ==
  ASSUME Typed, NEW s \in Sessions, Publish(s)
  PROVE  Typed'
<1>1. CASE Attach(s)
  <2>1. ASSUME NEW d \in Found(s), Resolve(s, d) PROVE Typed'
    BY <1>1, <2>1, ResolveTyped DEF Attach, Found
  <2>2. CASE UNCHANGED cur
    BY <1>1, <2>1, <2>2 DEF Attach, Typed, TypeOK, CallOK, Statements
  <2> QED BY <1>1, <2>1, <2>2 DEF Attach
<1>2. CASE Detach(s)
  BY <1>2, ResolveTyped, AbortTyped DEF Detach, Found
<1>3. CASE PublishCommit(s)
  <2>1. View(s) \in Database
    BY ViewType
  <2> QED BY <1>3, <2>1, EndedTyped DEF PublishCommit, Commit
<1> QED BY <1>1, <1>2, <1>3, CreateTyped, MoveTyped, ReadTyped, CloseTyped, InsertTyped
    DEF Publish

-----------------------------------------------------------------------------
(* Type correctness                                                        *)

(* Typed holds at the start.                                               *)
LEMMA InitTyped == Init => Typed
<1> SUFFICES ASSUME Init PROVE Typed
  OBVIOUS
<1>1. PICK place \in Places, b \in Bodies : db = Published0(place, b)
  BY DEF Init
<1>2. place \in [Docs -> Paths \cup {Nowhere}]
  BY PushAssumption
<1>3. {Root} \cup {FolderOf[p] : p \in {place[d] : d \in Docs} \ {Nowhere}} \in SUBSET Folders
  BY <1>2, PushAssumption
<1>4. ASSUME NEW d \in Docs
      PROVE  (IF place[d] = Nowhere THEN <<>> ELSE FirstRevision(place[d], b)) \in Seq(Revision)
  <2>1. CASE place[d] = Nowhere
    BY <2>1
  <2>2. CASE place[d] # Nowhere
    <3>1. [path |-> place[d], body |-> b, tomb |-> FALSE, by |-> Importer, base |-> 0,
           from |-> 1, to |-> Open] \in Revision
      BY <1>2, <2>2, PushAssumption DEF Revision, AnyBody, Open
    <3> QED BY <2>2, <3>1 DEF FirstRevision
  <2> QED BY <2>1, <2>2
<1>5. Published0(place, b) \in Database
  BY <1>2, <1>3, <1>4 DEF Published0, Database
<1>6. TypeOK
  BY <1>1, <1>5 DEF Init, TypeOK, Statements
<1>7. CallOK
  BY DEF Init, CallOK
<1> QED BY <1>6, <1>7 DEF Typed

(* Every step keeps Typed.                                                 *)
LEMMA NextTyped == Typed /\ [Next]_vars => Typed'
<1> SUFFICES ASSUME Typed, [Next]_vars PROVE Typed'
  OBVIOUS
<1>1. CASE UNCHANGED vars
  BY <1>1 DEF vars, Typed, TypeOK, CallOK
<1>2. ASSUME NEW s \in Sessions, LockRows(s) PROVE Typed'
  BY <1>2, NeedsType DEF LockRows, Typed, TypeOK, CallOK
<1>3. ASSUME NEW s \in Sessions, Deadlock(s) PROVE Typed'
  BY <1>3, AbortTyped DEF Deadlock
<1>4. ASSUME NEW s \in Sessions, Cancel(s) PROVE Typed'
  BY <1>4, AbortTyped DEF Cancel
<1> QED
  BY <1>1, <1>2, <1>3, <1>4, DraftRequestTyped, SaveDraftTyped, PublishRequestTyped,
     PushTyped, PublishTyped DEF Next, Statement

(* Whatever the users do, every row keeps its shape, and a transaction     *)
(* that ends leaves nothing of itself behind but what it committed.        *)
THEOREM TypeCorrect == Spec => []TypeOK
<1>1. Typed => TypeOK
  BY DEF Typed
<1> QED BY <1>1, InitTyped, NextTyped, PTL DEF Spec
=============================================================================
