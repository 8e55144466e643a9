-------------------------------- MODULE Push --------------------------------
(***************************************************************************)
(* Publishing: the drafts of a wiki, the published revisions, and the      *)
(* requests that turn one into the other (server/schema: tables/030,       *)
(* tables/080, runtime/030, runtime/080, runtime/085, runtime/075).        *)
(*                                                                         *)
(* A request is one PostgreSQL transaction at READ COMMITTED: each         *)
(* statement reads what is committed when it starts, plus the              *)
(* transaction's own writes.  The statement triggers of runtime/075 update *)
(* the single row of wiki.change_counter after every write, so a           *)
(* transaction owns that row from the end of its first write until it      *)
(* ends, and at most one transaction at a time is past its first write.    *)
(* That is why two copies of the database are enough: db is what is        *)
(* committed, and work is the same database as the transaction that owns   *)
(* the counter (writer) sees it.                                           *)
(***************************************************************************)
EXTENDS Naturals, Sequences

CONSTANTS Users, Docs, Paths, Folders, Bodies,
          Sessions,  \* the requests that can be in flight at once
          AuthorOf,  \* session -> the user its token names
          Root,      \* the folder that is always there
          FolderOf,  \* path of a page -> the folder it lies in
          Rank,      \* path of a page -> its place in "nlevel(path), path"
          Caps,      \* user -> page path or folder -> capabilities
          Importer,  \* the author of the pages that are there at the start
          Places,    \* where the pages can be when a behaviour starts
          NoBody, NoDraft, NoCall, Nowhere, Nobody,
          Requests,  \* bound: the requests clients make, a subset of Kinds
          MaxClock,  \* bound: publishing transactions in a behaviour
          MaxSaves   \* bound: draft statements in a behaviour

Open == 0            \* the upper bound of an open validity interval

AnyBody == Bodies \cup {NoBody}

Ops == {"create", "update", "delete", "move"}

Kinds == Ops \cup {"withdraw", "merge", "push", "attach", "detach", "publish"}

DraftRecord == [op : Ops, doc : Docs \cup {Nowhere}, body : AnyBody, base : Nat,
          state : {"clean", "conflicted"},
          pre : AnyBody, from : Nat]   \* pre_merge_content, merged_from (0: null)

DraftShape(r) ==
  /\ (r.op = "create") = (r.doc = Nowhere)
  /\ (r.op = "create") = (r.base = 0)
  /\ r.op \in {"create", "update"} => r.body # NoBody

MergeShape(r) ==
  /\ (r.pre = NoBody) = (r.from = 0)
  /\ r.state = "conflicted" => r.pre # NoBody

LegalDraft(r) == DraftShape(r) /\ MergeShape(r)

Draft == {r \in DraftRecord : LegalDraft(r)}

Revision == [path : Paths, body : AnyBody, tomb : BOOLEAN, by : Users,
             base : Nat, from : Nat, to : Nat]   \* valid = [from, to)

Database == [place   : [Docs -> Paths \cup {Nowhere}],   \* document.path of a page
             folders : SUBSET Folders,
             hist    : [Docs -> Seq(Revision)],
             drafts  : [Users -> [Paths -> Draft \cup {NoDraft}]]]

Call == [op : Ops, path : Paths, doc : Docs \cup {Nowhere}, base : Nat,
         body : AnyBody, tomb : BOOLEAN]

Saved == [path : Paths, row : Draft \cup {NoDraft}]

(* capability_requires makes read a part of every other capability.        *)
ASSUME PushAssumption ==
  /\ AuthorOf \in [Sessions -> Users]
  /\ Root \in Folders /\ Folders \cap Paths = {}
  /\ FolderOf \in [Paths -> Folders]
  /\ Rank \in [Paths -> Nat]
  /\ Caps \in [Users -> [Paths \cup Folders ->
                          SUBSET {"read", "write", "create", "delete"}]]
  /\ \A u \in Users, x \in Paths \cup Folders :
       Caps[u][x] # {} => "read" \in Caps[u][x]
  /\ Importer \in Users /\ Places \subseteq [Docs -> Paths \cup {Nowhere}]
  /\ NoBody \notin Bodies /\ Nowhere \notin Paths \cup Docs
  /\ Nobody \notin Sessions
  /\ NoDraft \notin DraftRecord /\ NoCall \notin Call \cup Saved
  /\ Requests \subseteq Kinds /\ MaxClock \in Nat /\ MaxSaves \in Nat

VARIABLES db,      \* the committed database
          work,    \* the database as the owner of the counter sees it
          writer,  \* the session that owns the change counter, or Nobody
          clock,   \* now() of the last publishing transaction to start
          saves,   \* draft statements so far
          pc,      \* session -> the statement it executes next
          now,     \* session -> now() of its transaction
          locks,   \* session -> the rows and index keys it holds
          scope,   \* session -> the paths wiki.push() was asked for; {} for others
          todo,    \* session -> drafts the cursor of push's pass 2 has yet to yield
          cur,     \* session -> the draft or publish_revision call in hand
          prev     \* session -> v_prev.version, or 0 when there is no live revision

vars == <<db, work, writer, clock, saves, pc, now, locks, scope, todo, cur, prev>>

-----------------------------------------------------------------------------
(* Rows                                                                    *)

PathKey(x) == <<"path", x>>         \* document_path_key
RevKey(d)  == <<"rev", d>>          \* the live revision's row
RowKey(d)  == <<"row", d>>          \* the document's row
DraftKey(u, p) == <<"draft", u, p>> \* draft_author_path_key

View(s) == IF writer = s THEN work ELSE db

(* The revision whose interval is still open.                              *)
Live(h) == IF \E n \in 1..Len(h) : h[n].to = Open
           THEN CHOOSE n \in 1..Len(h) : h[n].to = Open
           ELSE 0

Visible(D, u, d) == D.place[d] # Nowhere /\ "read" \in Caps[u][D.place[d]]

OccupiedFor(D, u, p) == \E d \in Docs : D.place[d] = p /\ Visible(D, u, d)

-----------------------------------------------------------------------------
(* Transactions                                                            *)

Free(s, keys) == \A t \in Sessions \ {s} : locks[t] \cap keys = {}

(* What a transaction leaves of itself when it ends, either way.           *)
Ended(s) ==
  /\ writer' = IF writer = s THEN Nobody ELSE writer
  /\ pc'     = [pc EXCEPT ![s] = "idle"]
  /\ now'    = [now EXCEPT ![s] = 0]
  /\ locks'  = [locks EXCEPT ![s] = {}]
  /\ scope'  = [scope EXCEPT ![s] = {}]
  /\ todo'   = [todo EXCEPT ![s] = {}]
  /\ cur'    = [cur EXCEPT ![s] = NoCall]
  /\ prev'   = [prev EXCEPT ![s] = 0]
  /\ UNCHANGED <<clock, saves>>

Commit(s) == db' = View(s) /\ work' = View(s) /\ Ended(s)

Abort(s) ==
  /\ work' = IF writer = s THEN db ELSE work
  /\ UNCHANGED db
  /\ Ended(s)

(* A publishing transaction starts: now() is fixed for all of it.          *)
Start(s) ==
  /\ pc[s] = "idle" /\ clock < MaxClock
  /\ clock' = clock + 1
  /\ now' = [now EXCEPT ![s] = clock + 1]

(* The drafts the last statement of a push deletes.                        *)
(* Mutant of Cleared: delete from wiki.draft where author_id = v_user.     *)
ClearedAll(s) == Paths

Cleared(s) == scope[s]

DraftKeys(D, s) ==
  {DraftKey(AuthorOf[s], p) :
     p \in {q \in Cleared(s) : D.drafts[AuthorOf[s]][q] # NoDraft}}

(* The rows and index entries the next statement of s writes: it waits for *)
(* whoever holds one of them.                                              *)
Needs(s) ==
  LET c == cur[s] IN
  CASE pc[s] = "create" -> {PathKey(c.path), PathKey(FolderOf[c.path])}
    [] pc[s] = "move"   -> {RowKey(c.doc), PathKey(c.path),
                            PathKey(View(s).place[c.doc])}
    [] pc[s] = "close"  -> {RevKey(c.doc)}
    [] pc[s] = "insert" -> {RowKey(c.doc)}
    [] pc[s] = "clear"  -> DraftKeys(View(s), s)
    [] OTHER            -> {}

(* A write by a session that owns the counter, or takes it now.            *)
MayWrite(s) == writer \in {Nobody, s} /\ Free(s, Needs(s))

Took(s) == /\ writer' = s
           /\ locks' = [locks EXCEPT ![s] = @ \cup Needs(s)]

(* The first write of a transaction while another one owns the counter:    *)
(* the rows are written and locked, and the trigger waits.                 *)
LockRows(s) ==
  /\ writer \notin {Nobody, s}
  /\ Needs(s) # {} /\ ~ (Needs(s) \subseteq locks[s])
  /\ Free(s, Needs(s))
  /\ locks' = [locks EXCEPT ![s] = @ \cup Needs(s)]
  /\ UNCHANGED <<db, work, writer, clock, saves, pc, now, scope, todo, cur, prev>>

(* Mutant of Deadlock: nobody looks for cycles.                            *)
NoDetector(s) == FALSE

(* The owner of the counter wants a row of a transaction that waits for    *)
(* the counter: PostgreSQL's deadlock detector aborts one of the two.      *)
Deadlock(s) ==
  /\ writer = s
  /\ \E t \in Sessions \ {s} :
       /\ locks[t] \cap Needs(s) # {}
       /\ Abort(s) \/ Abort(t)

(* The connection or the database goes away, a statement is cancelled.     *)
Cancel(s) == pc[s] # "idle" /\ Abort(s)

-----------------------------------------------------------------------------
(* Drafts: one statement, one transaction.  The statement locks the row of *)
(* (author_id, path) and works out the new row, which cannot change under  *)
(* the lock; SaveDraft is the moment its counter update and commit happen. *)

(* Mutant of Admitted: the table does not have draft_merge_shape.          *)
AdmittedShape(row) == row # NoDraft => DraftShape(row)

(* What the checks of wiki.draft let a statement write.                    *)
Admitted(row) == row # NoDraft => LegalDraft(row)

DraftStatement(s, p, row) ==
  /\ pc[s] = "idle" /\ saves < MaxSaves
  /\ Free(s, {DraftKey(AuthorOf[s], p)})
  /\ Admitted(row)
  /\ pc'    = [pc EXCEPT ![s] = "save"]
  /\ locks' = [locks EXCEPT ![s] = {DraftKey(AuthorOf[s], p)}]
  /\ cur'   = [cur EXCEPT ![s] = [path |-> p, row |-> row]]
  /\ saves' = saves + 1
  /\ UNCHANGED <<db, work, writer, clock, now, scope, todo, prev>>

DraftAt(s, p) == db.drafts[AuthorOf[s]][p]

(* An upsert: what the payload does not name keeps its old value, and the  *)
(* payload does not name the merge columns.                                *)
Upsert(old, op, d, body, base) ==
  IF old = NoDraft
  THEN [op |-> op, doc |-> d, body |-> body, base |-> base,
        state |-> "clean", pre |-> NoBody, from |-> 0]
  ELSE [old EXCEPT !.op = op, !.doc = d, !.body = body, !.base = base]

PutCreate(s, p, body) ==
  DraftStatement(s, p, Upsert(DraftAt(s, p), "create", Nowhere, body, 0))

(* The base is the revision the client read and the path where the         *)
(* document then was, except for a move, which names where it is to go.    *)
PutDraft(s, op, d, p, body) ==
  /\ Visible(db, AuthorOf[s], d) /\ Live(db.hist[d]) # 0
  /\ (op = "move") = (p # db.place[d])
  /\ op = "update" => body # NoBody
  /\ op = "delete" => body = NoBody
  /\ DraftStatement(s, p, Upsert(DraftAt(s, p), op, d, body, Live(db.hist[d])))

DeleteDraft(s, p) == DraftAt(s, p) # NoDraft /\ DraftStatement(s, p, NoDraft)

(* The CLI merges the revision that was live when it looked, into a draft  *)
(* that was made from an older one.                                        *)
BeginMerge(s, p, body, from, conflicted) ==
  LET r == DraftAt(s, p) IN
  /\ r # NoDraft /\ r.doc # Nowhere
  /\ from \in 1..Len(db.hist[r.doc]) /\ from # r.base
  /\ DraftStatement(s, p,
       [r EXCEPT !.pre = IF r.pre = NoBody THEN r.body ELSE r.pre,
                 !.body = body, !.from = from,
                 !.state = IF conflicted THEN "conflicted" ELSE @])

ResolveMerge(s, p) ==
  LET r == DraftAt(s, p) IN
  /\ r # NoDraft /\ (r.from # 0 \/ r.state # "clean")
  /\ DraftStatement(s, p,
       [r EXCEPT !.base = IF r.from = 0 THEN r.base ELSE r.from,
                 !.state = "clean", !.pre = NoBody, !.from = 0])

AbortMerge(s, p) ==
  LET r == DraftAt(s, p) IN
  /\ r # NoDraft /\ (r.from # 0 \/ r.state # "clean")
  /\ DraftStatement(s, p,
       [r EXCEPT !.body = IF r.pre = NoBody THEN r.body ELSE r.pre,
                 !.state = "clean", !.pre = NoBody, !.from = 0])

SaveDraft(s) ==
  /\ pc[s] = "save" /\ writer = Nobody
  /\ db' = [db EXCEPT !.drafts[AuthorOf[s]][cur[s].path] = cur[s].row]
  /\ work' = db'
  /\ Ended(s)

-----------------------------------------------------------------------------
(* wiki.push, pass 1: the whole changeset is validated, nothing written.   *)
(* Its reads are one step: pass 2 reads again everything it acts on.       *)

Rows(D, s) ==
  {[path |-> p, row |-> D.drafts[AuthorOf[s]][p]] :
     p \in {q \in scope[s] : D.drafts[AuthorOf[s]][q] # NoDraft}}

Vacated(D, rows) == {D.place[r.row.doc] : r \in {x \in rows : x.row.op = "move"}}

(* A folder is also visible on the way to a page that can be read.         *)
SeesFolder(D, u, f) ==
  /\ f \in D.folders
  /\ \/ "read" \in Caps[u][f]
     \/ \E d \in Docs : Visible(D, u, d) /\ (f = Root \/ FolderOf[D.place[d]] = f)

(* nearest_existing_ancestor, and where ensure_folder starts.              *)
NearestFolder(D, u, p) == IF SeesFolder(D, u, FolderOf[p]) THEN FolderOf[p] ELSE Root

FreePath(D, u, rows, p) == ~ OccupiedFor(D, u, p) \/ p \in Vacated(D, rows)

(* Mutant of Merged: left to the client.                                   *)
AnyState(r) == TRUE

Merged(r) == r.state = "clean"

Publishable(D, u, rows, p, r) ==
  /\ Merged(r)
  /\ r.op # "create" =>
       /\ Visible(D, u, r.doc)
       /\ Live(D.hist[r.doc]) # 0 /\ Live(D.hist[r.doc]) = r.base
  /\ CASE r.op = "create" -> /\ FreePath(D, u, rows, p)
                             /\ "create" \in Caps[u][NearestFolder(D, u, p)]
                             /\ "create" \in Caps[u][p]
       [] r.op = "update" -> "write" \in Caps[u][D.place[r.doc]]
       [] r.op = "delete" -> /\ ~ D.hist[r.doc][r.base].tomb
                             /\ "delete" \in Caps[u][D.place[r.doc]]
       [] r.op = "move"   -> /\ SeesFolder(D, u, FolderOf[p])
                             /\ FreePath(D, u, rows, p)
                             /\ "write" \in Caps[u][D.place[r.doc]]
                             /\ "create" \in Caps[u][FolderOf[p]]

PushStart(s, paths) ==
  /\ Start(s)
  /\ scope' = [scope EXCEPT ![s] = paths]
  /\ pc' = [pc EXCEPT ![s] = "validate"]
  /\ UNCHANGED <<db, work, writer, saves, locks, todo, cur, prev>>

(* A row that cannot be published ends the call: the report is returned    *)
(* and nothing was written.                                                *)
PushValidate(s) ==
  LET rows == Rows(db, s) IN
  /\ pc[s] = "validate"
  /\ IF \A r \in rows : Publishable(db, AuthorOf[s], rows, r.path, r.row)
     THEN /\ pc' = [pc EXCEPT ![s] = "open"]
          /\ UNCHANGED <<db, work, writer, clock, saves, now, locks, scope, todo, cur, prev>>
     ELSE Abort(s)

-----------------------------------------------------------------------------
(* wiki.push, pass 2: a second cursor over the same query, then one draft  *)
(* at a time, moves first.                                                 *)

PushOpen(s) ==
  /\ pc[s] = "open"
  /\ todo' = [todo EXCEPT ![s] = Rows(db, s)]
  /\ pc'   = [pc EXCEPT ![s] = "next"]
  /\ UNCHANGED <<db, work, writer, clock, saves, now, locks, scope, cur, prev>>

OpRank == [move |-> 1, delete |-> 2, update |-> 3, create |-> 4]

Precedes(x, y) ==
  \/ OpRank[x.row.op] < OpRank[y.row.op]
  \/ OpRank[x.row.op] = OpRank[y.row.op] /\ Rank[x.path] <= Rank[y.path]

CallOf(D, x) ==
  LET r == x.row IN
  [op |-> r.op, path |-> x.path, doc |-> r.doc, base |-> r.base,
   body |-> CASE r.op = "delete" -> NoBody
              [] r.op = "move" /\ r.body = NoBody ->
                   IF Live(D.hist[r.doc]) = 0 THEN NoBody
                   ELSE D.hist[r.doc][Live(D.hist[r.doc])].body
              [] OTHER -> r.body,
   tomb |-> r.op = "delete"]

PushNext(s) ==
  /\ pc[s] = "next" /\ todo[s] # {}
  /\ \E x \in todo[s] :
       /\ \A y \in todo[s] : Precedes(x, y)
       /\ todo' = [todo EXCEPT ![s] = @ \ {x}]
       /\ cur'  = [cur EXCEPT ![s] = CallOf(View(s), x)]
       /\ pc'   = [pc EXCEPT ![s] = CASE x.row.op = "create" -> "create"
                                      [] x.row.op = "move"   -> "move"
                                      [] OTHER               -> "read"]
  /\ UNCHANGED <<db, work, writer, clock, saves, now, locks, scope, prev>>

PushDone(s) ==
  /\ pc[s] = "next" /\ todo[s] = {}
  /\ pc' = [pc EXCEPT ![s] = "clear"]
  /\ UNCHANGED <<db, work, writer, clock, saves, now, locks, scope, todo, cur, prev>>

(* ensure_folder and the insert into wiki.document.  A folder that is      *)
(* hidden from the caller is inserted again, and document_path_key refuses *)
(* it, as it refuses a page at a taken path; document_insert asks for      *)
(* create on the parent of each new row.                                   *)
MayCreate(D, u, p) ==
  /\ SeesFolder(D, u, Root)
  /\ FolderOf[p] \in D.folders => SeesFolder(D, u, FolderOf[p])
  /\ "create" \in Caps[u][NearestFolder(D, u, p)] \cap Caps[u][FolderOf[p]]
  /\ \A d \in Docs : D.place[d] # p

CreateDocument(s) ==
  LET c == cur[s]  D == View(s)  u == AuthorOf[s] IN
  /\ pc[s] = "create" /\ MayWrite(s)
  /\ IF MayCreate(D, u, c.path)
     THEN \E d \in Docs :
            /\ D.place[d] = Nowhere /\ D.hist[d] = <<>>
            /\ work' = [D EXCEPT !.place[d] = c.path,
                                 !.folders = @ \cup {FolderOf[c.path]}]
            /\ cur' = [cur EXCEPT ![s].doc = d]
            /\ Took(s)
            /\ pc' = [pc EXCEPT ![s] = "read"]
            /\ UNCHANGED <<db, clock, saves, now, scope, todo, prev>>
     ELSE Abort(s)

(* The update of wiki.document.  A row the caller may not write is not a   *)
(* target, and the call goes on without it; a new place that is taken, has *)
(* no folder or may not be written ends the transaction.                   *)
MoveDocument(s) ==
  LET c == cur[s]  D == View(s)  u == AuthorOf[s]
      target == "write" \in Caps[u][D.place[c.doc]] IN
  /\ pc[s] = "move" /\ MayWrite(s)
  /\ IF target => /\ SeesFolder(D, u, FolderOf[c.path])
                  /\ \A d \in Docs : D.place[d] = c.path => d = c.doc
                  /\ "write" \in Caps[u][c.path]
     THEN /\ work' = IF target THEN [D EXCEPT !.place[c.doc] = c.path] ELSE D
          /\ Took(s)
          /\ pc' = [pc EXCEPT ![s] = "read"]
          /\ UNCHANGED <<db, clock, saves, now, scope, todo, cur, prev>>
     ELSE Abort(s)

(* delete from wiki.draft where author_id = v_user and path in scope.      *)
PushClear(s) ==
  /\ pc[s] = "clear" /\ MayWrite(s)
  /\ work' = [View(s) EXCEPT
       !.drafts[AuthorOf[s]] =
          [p \in Paths |-> IF p \in Cleared(s) THEN NoDraft ELSE @[p]]]
  /\ Took(s)
  /\ pc' = [pc EXCEPT ![s] = "commit"]
  /\ UNCHANGED <<db, clock, saves, now, scope, todo, cur, prev>>

-----------------------------------------------------------------------------
(* wiki.publish_revision, three statements.                                *)

(* Mutant of SeesBase: the base the client gives is not compared.          *)
SeesAnyBase(h, base, at) == Live(h) # 0 => h[Live(h)].from < at

(* The base is the live revision, and that one is older than this          *)
(* transaction.                                                            *)
SeesBase(h, base, at) ==
  LET n == Live(h) IN n = base /\ (n # 0 => h[n].from < at)

ReadLive(s) ==
  LET c == cur[s]  h == View(s).hist[c.doc] IN
  /\ pc[s] = "read"
  /\ IF SeesBase(h, c.base, now[s])
     THEN /\ prev' = [prev EXCEPT ![s] = Live(h)]
          /\ pc' = [pc EXCEPT ![s] = IF Live(h) = 0 THEN "insert" ELSE "close"]
          /\ UNCHANGED <<db, work, writer, clock, saves, now, locks, scope, todo, cur>>
     ELSE Abort(s)

CapsOn(D, s) == Caps[AuthorOf[s]][D.place[cur[s].doc]]

(* document_version_insert.                                                *)
MayInsert(D, s) ==
  \/ "write" \in CapsOn(D, s)
  \/ cur[s].tomb /\ "delete" \in CapsOn(D, s)
  \/ /\ D.hist[cur[s].doc] = <<>>
     /\ "create" \in Caps[AuthorOf[s]][FolderOf[D.place[cur[s].doc]]]

Closed(h, n, t) == [h EXCEPT ![n].to = t]

(* update ... set valid where id = v_prev.id: document_version_immutable   *)
(* refuses a row somebody closed in the meantime.  A caller whom           *)
(* document_version_supersede refuses closes nothing, and the insert that  *)
(* follows overlaps the open revision: the same end.                       *)
CloseLive(s) ==
  LET c == cur[s]  D == View(s) IN
  /\ pc[s] = "close" /\ MayWrite(s)
  /\ IF /\ D.hist[c.doc][prev[s]].to = Open
        /\ CapsOn(D, s) \cap {"write", "delete"} # {}
     THEN /\ work' = [D EXCEPT !.hist[c.doc] = Closed(@, prev[s], now[s])]
          /\ Took(s)
          /\ pc' = [pc EXCEPT ![s] = "insert"]
          /\ UNCHANGED <<db, clock, saves, now, scope, todo, cur, prev>>
     ELSE Abort(s)

(* Mutants of ValidFrom: clock_timestamp() for now(), and the time the     *)
(* oldest page was written.                                                *)
ValidFromStatement(s) == clock
ValidFromFirst(s) == 1

(* tstzrange(now(), null), the default of document_version.valid.          *)
ValidFrom(s) == now[s]

(* Mutant of WithNext: the live revision is rewritten in place.            *)
WithAmended(h, r) == IF h = <<>> THEN <<r>> ELSE [h EXCEPT ![Len(h)] = r]

WithNext(h, r) == Append(h, r)

(* The new revision is max(version) + 1; document_version_no_overlap       *)
(* refuses it when another one reaches beyond its start.                   *)
InsertRevision(s) ==
  LET c == cur[s]  D == View(s)  h == D.hist[c.doc] IN
  /\ pc[s] = "insert" /\ MayWrite(s)
  /\ IF /\ \A n \in 1..Len(h) : h[n].to # Open /\ h[n].to <= ValidFrom(s)
        /\ MayInsert(D, s)
     THEN /\ work' = [D EXCEPT !.hist[c.doc] = WithNext(@,
               [path |-> c.path, body |-> c.body, tomb |-> c.tomb,
                by |-> AuthorOf[s], base |-> c.base,
                from |-> ValidFrom(s), to |-> Open])]
          /\ Took(s)
          /\ pc' = [pc EXCEPT ![s] = IF scope[s] = {} THEN "commit" ELSE "next"]
          /\ UNCHANGED <<db, clock, saves, now, scope, todo, cur, prev>>
     ELSE Abort(s)

PublishCommit(s) == pc[s] = "commit" /\ Commit(s)

-----------------------------------------------------------------------------
(* The other callers of publish_revision: wiki.attach and wiki.detach read *)
(* the live revision themselves, a client of the RPC says what it read.    *)

Called(s, c, next) ==
  /\ Start(s)
  /\ cur' = [cur EXCEPT ![s] = c]
  /\ pc'  = [pc EXCEPT ![s] = next]
  /\ UNCHANGED <<db, work, writer, saves, locks, scope, todo, prev>>

AttachStart(s, p, body) ==
  Called(s, [op |-> "update", path |-> p, doc |-> Nowhere, body |-> body,
             base |-> 0, tomb |-> FALSE], "attach")

DetachStart(s, p) ==
  Called(s, [op |-> "delete", path |-> p, doc |-> Nowhere, body |-> NoBody,
             base |-> 0, tomb |-> TRUE], "detach")

PublishStart(s, d, base, body) ==
  /\ Visible(db, AuthorOf[s], d) /\ base \in 1..Len(db.hist[d])
  /\ Called(s, [op |-> "update", path |-> db.place[d], doc |-> d, body |-> body,
                base |-> base, tomb |-> FALSE], "read")

(* The call goes on with the page it found at its path.                    *)
Resolve(s, d) ==
  /\ cur' = [cur EXCEPT ![s].doc = d, ![s].base = Live(db.hist[d])]
  /\ pc'  = [pc EXCEPT ![s] = "read"]
  /\ UNCHANGED <<db, work, writer, clock, saves, now, locks, scope, todo, prev>>

Found(s) == {d \in Docs : db.place[d] = cur[s].path /\ Visible(db, AuthorOf[s], d)}

Attach(s) ==
  /\ pc[s] = "attach"
  /\ \/ \E d \in Found(s) : Resolve(s, d)
     \/ /\ Found(s) = {}
        /\ pc' = [pc EXCEPT ![s] = "create"]
        /\ UNCHANGED <<db, work, writer, clock, saves, now, locks, scope, todo, cur, prev>>

Detach(s) ==
  /\ pc[s] = "detach"
  /\ \/ \E d \in Found(s) : Live(db.hist[d]) # 0 /\ Resolve(s, d)
     \/ (\A d \in Found(s) : Live(db.hist[d]) = 0) /\ Abort(s)

-----------------------------------------------------------------------------
(* Before any of this: pages Importer published at time 1, no drafts, and  *)
(* no request in flight.                                                   *)
FirstRevision(p, b) ==
  <<[path |-> p, body |-> b, tomb |-> FALSE, by |-> Importer, base |-> 0,
     from |-> 1, to |-> Open]>>

Published0(place, b) ==
  [place   |-> place,
   folders |-> {Root} \cup {FolderOf[p] : p \in {place[d] : d \in Docs} \ {Nowhere}},
   hist    |-> [d \in Docs |-> IF place[d] = Nowhere THEN <<>>
                               ELSE FirstRevision(place[d], b)],
   drafts  |-> [v \in Users |-> [p \in Paths |-> NoDraft]]]

Init ==
  /\ \E place \in Places, b \in Bodies : db = Published0(place, b)
  /\ work = db /\ writer = Nobody
  /\ clock = 1 /\ saves = 0
  /\ pc = [s \in Sessions |-> "idle"] /\ now = [s \in Sessions |-> 0]
  /\ locks = [s \in Sessions |-> {}] /\ scope = [s \in Sessions |-> {}]
  /\ todo = [s \in Sessions |-> {}] /\ cur = [s \in Sessions |-> NoCall]
  /\ prev = [s \in Sessions |-> 0]

DraftRequest(s) == \E p \in Paths :
  \/ "create" \in Requests /\ \E b \in Bodies : PutCreate(s, p, b)
  \/ \E op \in Requests \cap {"update", "delete", "move"}, d \in Docs, b \in AnyBody :
       PutDraft(s, op, d, p, b)
  \/ "withdraw" \in Requests /\ DeleteDraft(s, p)
  \/ "merge" \in Requests /\ ResolveMerge(s, p)
  \/ "merge" \in Requests /\ AbortMerge(s, p)
  \/ "merge" \in Requests /\ \E n \in 1..MaxClock, b \in Bodies, conflicted \in BOOLEAN :
       BeginMerge(s, p, b, n, conflicted)

PublishRequest(s) ==
  \/ "push" \in Requests /\ \E paths \in (SUBSET Paths) \ {{}} : PushStart(s, paths)
  \/ "attach" \in Requests /\ \E p \in Paths, b \in Bodies : AttachStart(s, p, b)
  \/ "detach" \in Requests /\ \E p \in Paths : DetachStart(s, p)
  \/ "publish" \in Requests /\ \E d \in Docs, n \in 1..MaxClock, b \in Bodies :
       PublishStart(s, d, n, b)

Push(s) ==
  PushValidate(s) \/ PushOpen(s) \/ PushNext(s) \/ PushDone(s) \/ PushClear(s)

Publish(s) ==
  \/ Attach(s) \/ Detach(s) \/ CreateDocument(s) \/ MoveDocument(s)
  \/ ReadLive(s) \/ CloseLive(s) \/ InsertRevision(s) \/ PublishCommit(s)

Statement(s) == SaveDraft(s) \/ Push(s) \/ Publish(s) \/ LockRows(s) \/ Deadlock(s)

Next == \E s \in Sessions :
  DraftRequest(s) \/ PublishRequest(s) \/ Statement(s) \/ Cancel(s)

Spec == Init /\ [][Next]_vars

(* PostgreSQL runs every statement it was given, hands a row lock to who   *)
(* waits for it, and breaks deadlocks.                                     *)
FairSpec == Spec /\ \A s \in Sessions : WF_vars(Statement(s))

-----------------------------------------------------------------------------
(* Properties                                                              *)

Statements == {"idle", "save", "validate", "open", "next", "create", "move",
               "read", "close", "insert", "clear", "commit", "attach", "detach"}

Keys == {PathKey(x) : x \in Paths \cup Folders \cup {Nowhere}} \cup {RevKey(d) : d \in Docs}
        \cup {RowKey(d) : d \in Docs}
        \cup {DraftKey(u, p) : u \in Users, p \in Paths}

DraftRow == [path : Paths, row : Draft]

(* Every variable has its type; what the owner of the counter wrote is     *)
(* seen by itself alone, and gone when it aborts (the transactions that    *)
(* PostgREST opens around each request).                                   *)
TypeOK ==
  /\ db \in Database /\ work \in Database
  /\ writer \in Sessions \cup {Nobody}
  /\ writer = Nobody => work = db
  /\ clock \in Nat /\ saves \in Nat
  /\ pc \in [Sessions -> Statements]
  /\ now \in [Sessions -> Nat]
  /\ locks \in [Sessions -> SUBSET Keys]
  /\ scope \in [Sessions -> SUBSET Paths]
  /\ todo \in [Sessions -> SUBSET DraftRow]
  /\ cur \in [Sessions -> Call \cup Saved \cup {NoCall}]
  /\ prev \in [Sessions -> Nat]

(* The intervals of a document's revisions follow each other without a     *)
(* gap, none is empty, and only the newest one is open: at every instant   *)
(* since the first revision exactly one is live (document_version_no_      *)
(* overlap, document_version_current_idx, tables/030).                     *)
Tiled(h) == \A n \in 1..Len(h) :
  IF n = Len(h) THEN h[n].to = Open
  ELSE h[n].from < h[n].to /\ h[n].to = h[n + 1].from

HistoryTiles == \A d \in Docs : Tiled(db.hist[d])

(* Every revision was made from the one just before it: no client can      *)
(* silently overwrite a revision its author had not seen                   *)
(* (publish_revision, runtime/080: "still cannot silently overwrite        *)
(* someone else's edit").                                                  *)
NoSilentOverwrite == \A d \in Docs :
  \A n \in 1..Len(db.hist[d]) : db.hist[d][n].base = n - 1

(* document_as_of(t): the revision whose interval holds t.                 *)
AsOf(h, t) == {n \in 1..Len(h) : h[n].from <= t /\ (h[n].to = Open \/ t < h[n].to)}

Settled(t) == t <= clock /\ \A s \in Sessions : now[s] = 0 \/ t < now[s]

(* What document_as_of answers for an instant before every transaction     *)
(* still running never changes again.                                      *)
StablePast == [][\A t \in 1..MaxClock : Settled(t) =>
                   \A d \in Docs : AsOf(db'.hist[d], t) = AsOf(db.hist[d], t)]_vars

(* The revision u's draft row at p turns into.                             *)
Publishes(D, u, p, r) == \E d \in Docs :
  LET h == D.hist[d] IN
  /\ r.op # "create" => d = r.doc
  /\ h # <<>> /\ h[Len(h)].by = u /\ h[Len(h)].path = p
  /\ h[Len(h)].base = r.base /\ h[Len(h)].tomb = (r.op = "delete")
  /\ r.op \in {"create", "update"} => h[Len(h)].body = r.body
  /\ r.op \in {"create", "move"} => D.place[d] = p

(* A push takes nothing from its author: each draft that is gone when it   *)
(* commits is then the live revision of its document, at the path the      *)
(* draft named, and was not in the middle of a merge (runtime/080: "if any *)
(* returned row has a status other than published, nothing was written     *)
(* and the drafts remain"; README: a draft stays yours until you push it). *)
NoDraftLost == [][\A s \in Sessions : pc[s] = "commit" /\ pc'[s] = "idle" =>
  \A u \in Users, p \in Paths :
    LET r == db.drafts[u][p] IN
    r # NoDraft /\ db'.drafts[u][p] = NoDraft =>
      r.state = "clean" /\ Publishes(db', u, p, r)]_vars

(* The newest revision says where its document is (tables/030: "the path   *)
(* this version was published at, so a rename is visible in history").     *)
RevisionRecordsItsPath == \A d \in Docs :
  LET h == db.hist[d] IN h # <<>> => h[Len(h)].path = db.place[d]

(* What is committed, read as a log of revisions, is all that Revisions    *)
(* promises: history only grows, a changeset is published in one instant   *)
(* and by one author, each revision on top of the one it was made from.    *)
EntryOf(r) == [by |-> r.by, body |-> r.body, base |-> r.base]

LogOf(h) == [n \in 1..Len(h) |-> EntryOf(h[n])]

Log == [d \in Docs |-> LogOf(db.hist[d])]

Published == INSTANCE Revisions WITH log <- Log, Bodies <- AnyBody

PublishedSpec == Published!Spec

(* Every request is answered: none waits for ever for the counter or for   *)
(* the rows of another (tables/075: write transactions serialise).         *)
EveryRequestEnds == \A s \in Sessions : pc[s] # "idle" ~> pc[s] = "idle"
=============================================================================
