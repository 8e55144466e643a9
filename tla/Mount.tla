-------------------------------- MODULE Mount -------------------------------
(***************************************************************************)
(* The mount (fuse/fs.py): the handlers the kernel calls on one directory  *)
(* of pages, the tree they keep fresh under a lock, and the draft rows     *)
(* they write, with the applications above and the server below.           *)
(*                                                                         *)
(* The handlers are tasks of one thread.  A task is the list of the steps  *)
(* it has yet to take; between two awaits it runs alone (running).  A      *)
(* request may fail before it reaches the server, or after.                *)
(***************************************************************************)
EXTENDS WorkingTree, Sequences, Inodes

CONSTANTS Apps, NoApp,
          Locals,     \* names the server could never hold: .swp, backup~
          NoFetch, NoToken, NoHandle,
          MaxScratch, \* bound: scratch files made by one mount
          Menus       \* bounds: what is done, and how often, in a behaviour

Names == Paths \cup Locals

ASSUME MountAssumption ==
  /\ NoText \notin [from : Nat, n : Nat] /\ NoToken \notin Nat
  /\ Nowhere \notin Docs /\ NoApp \notin Apps
  /\ \A k \in Docs \cup {NoKey, Top, Synthetic} :
       /\ \A p \in Paths : k # DraftKey(p)
       /\ \A s \in 1..MaxScratch : k # <<"scratch", s>>
  /\ NoKey \notin Docs
  /\ IsFiniteSet(Paths) /\ Rank \in [Paths -> 1..Cardinality(Paths)]
  /\ MaxScratch \in Nat
  /\ \A m \in Menus : m.at \in [Docs -> Paths \cup {Nowhere}] /\ m.edits \in Nat

VARIABLES srv,      \* documents and this user's draft rows
          told,     \* document -> revisions the user was shown, or published
          up, view, known, fresh,  \* _tree, _token, and _checked_at + poll > now
          fetch,    \* the refresh that holds the lock
          checkedOut, content, scratch, scratchSeq,
          handle,   \* application -> the file it has open
          buffer,   \* application -> the text it edits
          task, running,
          dentry,   \* the kernel's cache: name -> inode, 0 for none
          menu, calls, events, edits, faults

serverVars == <<srv, told>>
treeVars   == <<view, known, fresh, fetch>>
fileVars   == <<checkedOut, content, scratch, scratchSeq, handle, buffer, edits>>
runVars    == <<task, running, up>>
boundVars  == <<menu, calls, events, faults>>
vars == <<serverVars, treeVars, fileVars, runVars, boundVars, dentry, inodeVars>>

-----------------------------------------------------------------------------
(* The server, as the mount's requests see it                              *)

Listed(d) ==
  IF srv.path[d] = Nowhere \/ srv.may[d] = "nothing" THEN Hidden
  ELSE [path |-> srv.path[d], tip |-> srv.tip[d], mine |-> srv.mine[d],
        may |-> srv.may[d]]

Manifest == [d \in Docs |-> Listed(d)]

InOrder == CHOOSE f \in [Paths -> 1..Cardinality(Paths)] :
             \A p, q \in Paths : p # q => f[p] # f[q]

Places(rows) ==
  IF \E p, q \in Paths : /\ p # q /\ rows[p] # NoRow /\ rows[q] # NoRow
                         /\ rows[p].doc = rows[q].doc /\ rows[p].doc # Nowhere
  THEN {f \in [Paths -> 1..Cardinality(Paths)] :
          \A p, q \in Paths : p # q => f[p] # f[q]}
  ELSE {InOrder}

RootListed == \E d \in Docs : Listed(d) # Hidden

Changed(s) == [s EXCEPT !.token = @ + 1]

Fault == faults < menu.faults /\ faults' = faults + 1
NoFault == UNCHANGED faults

-----------------------------------------------------------------------------
(* Tasks                                                                   *)

Idle == [op |-> "none", todo |-> <<>>,
         name |-> Nowhere, to |-> Nowhere, ino |-> 0,     \* what was asked for
         writing |-> FALSE, trunc |-> FALSE,
         key |-> NoKey, node |-> NoRow, text |-> NoText,  \* the entry it works on
         path |-> Nowhere, row |-> NoRow, dropped |-> Nowhere,  \* its requests
         old |-> NoKey, new |-> NoKey, left |-> {}]

Call(op, step) == [Idle EXCEPT !.op = op, !.todo = <<"current", step>>]

At(a) == IF task[a].todo = <<>> THEN "none" ELSE Head(task[a].todo)

Awaits(step) == step \in {"current", "refresh", "content", "put", "drop", "readdir"}

(* The task goes on with its list: at once, unless an await comes first.   *)
Go(a, t) ==
  /\ task' = [task EXCEPT ![a] = t]
  /\ running' = IF Awaits(Head(t.todo)) THEN NoApp ELSE a

Then(a, t, todo) == Go(a, [t EXCEPT !.todo = todo])

Proceed(a) == Then(a, task[a], Tail(task[a].todo))

Return(a) == task' = [task EXCEPT ![a] = Idle] /\ running' = NoApp

(* Mutant of Raise: a flush that failed leaves a clean handle.             *)
RaiseClean(a) ==
  /\ Return(a)
  /\ handle' = CASE task[a].op = "close" -> [handle EXCEPT ![a] = NoHandle]
                 [] task[a].op = "fsync" -> [handle EXCEPT ![a].dirty = FALSE]
                 [] OTHER -> handle

(* close() gives the handle up whether or not its flush succeeded.         *)
Raise(a) ==
  /\ Return(a)
  /\ handle' = IF task[a].op = "close" THEN [handle EXCEPT ![a] = NoHandle] ELSE handle

Now(a, step) == up /\ running = a /\ At(a) = step

Answered(a, step) == up /\ running = NoApp /\ At(a) = step

(* The kernel holds the directory's lock while it searches or changes it.  *)
DirOps == {"look", "list", "create", "unlink", "rename"}

Request(a, t) ==
  /\ up /\ running = NoApp /\ task[a] = Idle
  /\ a \in menu.apps /\ t.op \in menu.calls
  /\ t.op \in DirOps => \A b \in Apps : task[b].op \notin DirOps
  /\ IF t.op = "stat" \/ (t.op = "look" /\ dentry[t.name] = 0) THEN UNCHANGED calls
     ELSE calls < menu.max /\ calls' = calls + 1
  /\ Go(a, t)
  /\ UNCHANGED <<serverVars, treeVars, fileVars, up, menu, events, faults,
                 dentry, inodeVars>>

-----------------------------------------------------------------------------
(* Keeping the tree fresh                                                  *)

(* The poll window has passed, which matters when somebody asks.           *)
Expire ==
  /\ up /\ running = NoApp /\ \E a \in Apps : At(a) = "current"
  /\ fresh /\ fresh' = FALSE
  /\ UNCHANGED <<serverVars, view, known, fetch, fileVars, runVars, boundVars,
                 dentry, inodeVars>>

(* _current() with a fresh tree does not wait for anybody.                 *)
Current(a) ==
  /\ Answered(a, "current") /\ fresh /\ Proceed(a)
  /\ UNCHANGED <<serverVars, treeVars, fileVars, up, boundVars, dentry, inodeVars>>

(* Whoever gets the lock looks again whether there is still a reason.      *)
TakeLock(a) ==
  /\ fetch = NoFetch
  /\ Answered(a, "refresh") \/ (Answered(a, "current") /\ ~fresh)
  /\ fetch' = [by |-> a, phase |-> "token", token |-> NoToken,
               root |-> FALSE, docs |-> view.docs, rows |-> view.rows]
  /\ UNCHANGED <<serverVars, view, known, fresh, fileVars, runVars, boundVars,
                 dentry, inodeVars>>

Fetching(phase) == up /\ running = NoApp /\ fetch # NoFetch /\ fetch.phase = phase

(* Mutant of Unchanged: the tree that is there is good enough.             *)
UnchangedAnyway == At(fetch.by) = "current"

Unchanged == At(fetch.by) = "current" /\ srv.token = known

(* The token is sampled before the rows it is to stand for.                *)
AnswerToken ==
  /\ Fetching("token")
  /\ \/ /\ NoFault
        /\ fetch' = [fetch EXCEPT !.token = srv.token,
                                  !.phase = IF Unchanged THEN "same" ELSE "manifest"]
     \/ Fault /\ fetch' = [fetch EXCEPT !.phase = "manifest"]
  /\ UNCHANGED <<serverVars, view, known, fresh, fileVars, runVars, menu, calls,
                 events, dentry, inodeVars>>

Same ==
  /\ Fetching("same")
  /\ fresh' = TRUE /\ fetch' = NoFetch
  /\ Proceed(fetch.by)
  /\ UNCHANGED <<serverVars, view, known, fileVars, up, boundVars, dentry, inodeVars>>

AnswerManifest ==
  /\ Fetching("manifest")
  /\ fetch' = [fetch EXCEPT !.phase = "drafts", !.root = RootListed, !.docs = Manifest]
  /\ UNCHANGED <<serverVars, view, known, fresh, fileVars, runVars, boundVars,
                 dentry, inodeVars>>

(* Mutant of AnswerDrafts: the token is sampled after the manifest.        *)
SampledLast ==
  /\ Fetching("drafts")
  /\ fetch' = [fetch EXCEPT !.phase = "install", !.rows = srv.rows, !.token = srv.token]
  /\ UNCHANGED <<serverVars, view, known, fresh, fileVars, runVars, boundVars,
                 dentry, inodeVars>>

AnswerDrafts ==
  /\ Fetching("drafts")
  /\ fetch' = [fetch EXCEPT !.phase = "install", !.rows = srv.rows]
  /\ UNCHANGED <<serverVars, view, known, fresh, fileVars, runVars, boundVars,
                 dentry, inodeVars>>

Install ==
  /\ Fetching("install")
  /\ \E place \in Places(fetch.rows) :
       view' = Answer(fetch.root, fetch.docs, fetch.rows, place)
  /\ known' = fetch.token /\ fresh' = TRUE /\ fetch' = NoFetch
  /\ PinRoot(RootKey(view'))
  /\ Proceed(fetch.by)
  /\ UNCHANGED <<serverVars, fileVars, up, boundVars, dentry>>

(* A soft refresh that fails serves the tree there is.  A forced one is    *)
(* called outside any try: the exception leaves the handler and the mount. *)
RefreshFails ==
  /\ Fetching("manifest") \/ Fetching("drafts")
  /\ Fault
  /\ fetch' = NoFetch
  /\ IF At(fetch.by) = "current"
     THEN Proceed(fetch.by) /\ UNCHANGED up
     ELSE up' = FALSE /\ UNCHANGED <<task, running>>
  /\ UNCHANGED <<serverVars, view, known, fresh, fileVars, menu, calls, events,
                 dentry, inodeVars>>

-----------------------------------------------------------------------------
(* Looking things up                                                       *)

ScratchKey(s) == <<"scratch", s>>
ScratchKeys == {ScratchKey(s) : s \in 1..MaxScratch}

ScratchAt(n) == {s \in DOMAIN scratch : /\ scratch[s].name = n
                                        /\ scratch[s].parent = RootKey(view)}

(* _dir_entries: what a name of the directory stands for.                  *)
Entry(n) ==
  IF ScratchAt(n) # {}
  THEN ScratchKey(CHOOSE s \in ScratchAt(n) : \A r \in ScratchAt(n) : r <= s)
  ELSE IF n \in Paths THEN KeyAt(view, n) ELSE NoKey

(* _resolve                                                                *)
Resolved(i) ==
  IF i \notin DOMAIN byInode THEN NoKey
  ELSE LET k == byInode[i]
       IN IF \/ k \in ScratchKeys /\ k[2] \in DOMAIN scratch
             \/ k \in NodeKeys(view)
          THEN k ELSE NoKey

(* Only a look that may find something new is worth a step.                *)
Stat(a) ==
  /\ srv.token # known
  /\ Request(a, Call("stat", "stat"))

StatStep(a) ==
  /\ Now(a, "stat") /\ Return(a)
  /\ UNCHANGED <<serverVars, treeVars, fileVars, up, boundVars, dentry, inodeVars>>

Lookup(a, n) ==
  /\ n \in menu.names /\ (dentry[n] = 0 \/ "again" \in menu.calls)
  /\ Request(a, [Call("look", "look") EXCEPT !.name = n])

LookupStep(a) ==
  LET n == task[a].name IN
  /\ Now(a, "look") /\ Return(a)
  /\ IF Entry(n) = NoKey
     THEN dentry' = [dentry EXCEPT ![n] = 0] /\ UNCHANGED inodeVars
     ELSE dentry' = [dentry EXCEPT ![n] = InodeOf(Entry(n))] /\ Hand(Entry(n))
  /\ UNCHANGED <<serverVars, treeVars, fileVars, up, boundVars>>

List(a) == Request(a, Call("list", "opendir"))

(* opendir takes a snapshot, which readdir answers from, call after call.  *)
OpendirStep(a) ==
  LET entries == {n \in Names : Entry(n) # NoKey} IN
  /\ Now(a, "opendir")
  /\ Then(a, [task[a] EXCEPT !.left = {<<n, Entry(n)>> : n \in entries}], <<"readdir">>)
  /\ UNCHANGED <<serverVars, treeVars, fileVars, up, boundVars, dentry, inodeVars>>

(* The next entry fits in the reply, or it does not and is asked for again. *)
ReaddirStep(a) ==
  /\ Answered(a, "readdir") /\ task[a].left # {}
  /\ LET e == CHOOSE x \in task[a].left : TRUE IN
       \/ /\ Hand(e[2])
          /\ dentry' = [dentry EXCEPT ![e[1]] = InodeOf(e[2])]
          /\ task' = [task EXCEPT ![a].left = @ \ {e}]
       \/ /\ e[2] \notin DOMAIN byKey /\ Mint(e[2])
          /\ UNCHANGED <<dentry, task>>
  /\ UNCHANGED <<serverVars, treeVars, fileVars, running, up, boundVars>>

Releasedir(a) ==
  /\ Answered(a, "readdir") /\ task[a].left = {} /\ Return(a)
  /\ UNCHANGED <<serverVars, treeVars, fileVars, up, boundVars, dentry, inodeVars>>

InUse(i) == \E a \in Apps : \/ handle[a] # NoHandle /\ handle[a].ino = i
                            \/ task[a].ino = i

(* The kernel drops an inode it has no file open on: forget()              *)
Forgets(i) ==
  /\ up /\ running = NoApp /\ "forget" \in menu.events
  /\ i # Root /\ ~InUse(i)
  /\ events < menu.others /\ events' = events + 1
  /\ \A a \in Apps : task[a].op \notin DirOps
  /\ Forget(i, held[i])
  /\ dentry' = [n \in Names |-> IF dentry[n] = i THEN 0 ELSE dentry[n]]
  /\ UNCHANGED <<serverVars, treeVars, fileVars, runVars, menu, calls, faults>>

-----------------------------------------------------------------------------
(* Open files                                                              *)

Loaded(a, k, text, seen) ==
  handle' = [handle EXCEPT ![a] =
    [ino |-> task[a].ino, key |-> k, text |-> text, seen |-> seen,
     writing |-> task[a].writing, dirty |-> FALSE, raced |-> FALSE, saved |-> text]]

Truncated(a, k) ==
  handle' = [handle EXCEPT ![a] =
    [ino |-> task[a].ino, key |-> k, text |-> Empty, seen |-> 0,
     writing |-> task[a].writing, dirty |-> task[a].writing, raced |-> FALSE,
     saved |-> NoText]]

(* Mutant of Shown: one further than what the tree says.                   *)
ShownNext(n) == n.tip + 1

(* What _record_checkout() writes down.                                    *)
Shown(n) == IF n.row # NoRow /\ n.row.base # 0 THEN n.row.base ELSE n.tip

(* Mutant of Cached: any body of the page will do.                         *)
CachedAnyway(n) == content[n.doc].etag # 0

(* The cache is right about a body only for the revision it was read as.   *)
Cached(n) == content[n.doc].etag = n.tip

RecordCheckout(n) ==
  IF n.doc = Nowhere THEN UNCHANGED <<checkedOut, told>>
  ELSE /\ checkedOut' = [checkedOut EXCEPT ![n.doc] = Shown(n)]
       /\ told' = [told EXCEPT ![n.doc] = @ \cup {Shown(n)}]

Open(a, n, writing, trunc) ==
  /\ dentry[n] # 0 /\ handle[a] = NoHandle
  /\ Request(a, [Call("open", "open") EXCEPT !.ino = dentry[n], !.writing = writing,
                                             !.trunc = trunc])

OpenScratch(a) ==
  LET k == Resolved(task[a].ino) IN
  /\ Now(a, "open") /\ k \in ScratchKeys /\ ~(task[a].writing /\ menu.readOnly)
  /\ Return(a)
  /\ IF task[a].trunc THEN Truncated(a, k) /\ UNCHANGED buffer
     ELSE /\ Loaded(a, k, scratch[k[2]].text, 0)
          /\ buffer' = [buffer EXCEPT ![a] = scratch[k[2]].text]
  /\ UNCHANGED <<serverVars, treeVars, checkedOut, content, scratch, scratchSeq,
                 edits, up, boundVars, dentry, inodeVars>>

OpenRefused(a) ==
  LET k == Resolved(task[a].ino) IN
  /\ Now(a, "open")
  /\ \/ k = NoKey
     \/ task[a].writing /\ menu.readOnly
     \/ task[a].writing /\ k \in Docs /\ Node(view, k).may # "edit"
  /\ Raise(a)
  /\ UNCHANGED <<serverVars, treeVars, checkedOut, content, scratch, scratchSeq,
                 buffer, edits, up, boundVars, dentry, inodeVars>>

(* A truncating open is handed nothing and says nothing about what its     *)
(* application has seen; any other is recorded before the body is loaded.  *)
OpenNode(a) ==
  LET k == Resolved(task[a].ino)
      n == Node(view, k)
      own == n.row # NoRow /\ n.row.text # NoText
  IN
  /\ Now(a, "open") /\ k \in NodeKeys(view)
  /\ task[a].writing => ~menu.readOnly /\ n.may = "edit"
  /\ IF task[a].trunc
     THEN /\ Return(a) /\ Truncated(a, k) /\ UNCHANGED <<checkedOut, told, buffer>>
     ELSE /\ RecordCheckout(n)
          /\ \/ /\ own /\ Return(a) /\ Loaded(a, k, n.row.text, 0)
                /\ buffer' = [buffer EXCEPT ![a] = n.row.text]
             \/ /\ ~own /\ Cached(n)
                /\ Return(a) /\ Loaded(a, k, content[k].body, Shown(n))
                /\ buffer' = [buffer EXCEPT ![a] = content[k].body]
             \/ /\ ~own /\ ~Cached(n)
                /\ Then(a, [task[a] EXCEPT !.key = k, !.node = n], <<"content">>)
                /\ UNCHANGED <<handle, buffer>>
  /\ UNCHANGED <<srv, treeVars, content, scratch, scratchSeq, edits, up, boundVars,
                 dentry, inodeVars>>

(* The body is the live one, whatever revision the tree named.             *)
AnswerContent(a) ==
  LET d == task[a].key
      body == Text(srv.tip[d], 0)
  IN
  /\ Answered(a, "content") /\ Listed(d) # Hidden
  /\ Return(a) /\ Loaded(a, d, body, Shown(task[a].node))
  /\ content' = [content EXCEPT ![d] = [etag |-> task[a].node.tip, body |-> body]]
  /\ buffer' = [buffer EXCEPT ![a] = body]
  /\ UNCHANGED <<serverVars, treeVars, checkedOut, scratch, scratchSeq, edits, up,
                 boundVars, dentry, inodeVars>>

ContentFails(a) ==
  /\ Answered(a, "content")
  /\ \/ Listed(task[a].key) = Hidden /\ NoFault
     \/ Fault
  /\ Raise(a)
  /\ UNCHANGED <<serverVars, treeVars, checkedOut, content, scratch, scratchSeq,
                 buffer, edits, up, menu, calls, events, dentry, inodeVars>>

(* Another thread of the application may write while its fsync waits.      *)
Write(a) ==
  LET h == handle[a]
      from == IF h.text = Empty THEN buffer[a].from ELSE h.text.from
      text == Text(from, edits + 1)
  IN
  /\ up /\ running = NoApp /\ h # NoHandle /\ h.writing
  /\ task[a].op \in {"none", "fsync"} /\ edits < menu.edits
  /\ edits' = edits + 1
  /\ handle' = [handle EXCEPT ![a].text = text, ![a].dirty = TRUE,
                              ![a].raced = h.raced \/ task[a].op = "fsync"]
  /\ buffer' = [buffer EXCEPT ![a] = text]
  /\ UNCHANGED <<serverVars, treeVars, checkedOut, content, scratch, scratchSeq,
                 runVars, boundVars, dentry, inodeVars>>

(* setattr(size): through the handle, or on a scratch file; without either *)
(* it does nothing at all.                                                 *)
Truncate(a, n) ==
  /\ up /\ running = NoApp /\ task[a] = Idle /\ dentry[n] # 0
  /\ "truncate" \in menu.calls /\ edits < menu.edits /\ edits' = edits + 1
  /\ \/ /\ handle[a] # NoHandle /\ handle[a].ino = dentry[n] /\ handle[a].writing
        /\ handle' = [handle EXCEPT ![a].text = Text(@.from, edits + 1),
                                    ![a].dirty = TRUE]
        /\ UNCHANGED scratch
     \/ LET k == Resolved(dentry[n]) IN
        /\ handle[a] = NoHandle /\ k \in ScratchKeys
        /\ scratch' = [scratch EXCEPT ![k[2]].text = Text(@.from, edits + 1)]
        /\ UNCHANGED handle
  /\ UNCHANGED <<serverVars, treeVars, checkedOut, content, scratchSeq, buffer,
                 runVars, boundVars, dentry, inodeVars>>

-----------------------------------------------------------------------------
(* Saving                                                                  *)

Flush(a, op) ==
  /\ op \in {"close", "fsync"} /\ handle[a] # NoHandle
  /\ Request(a, [Idle EXCEPT !.op = op, !.todo = <<"persist">>])

(* A clean handle, or a scratch file: nothing leaves the process.          *)
PersistLocally(a) ==
  LET h == handle[a] IN
  /\ Now(a, "persist")
  /\ Return(a)
  /\ \/ ~h.dirty /\ UNCHANGED scratch
        /\ handle' = IF task[a].op = "close" THEN [handle EXCEPT ![a] = NoHandle]
                     ELSE handle
     \/ /\ h.dirty /\ h.key \in ScratchKeys /\ h.key[2] \in DOMAIN scratch
        /\ scratch' = [scratch EXCEPT ![h.key[2]].text = h.text]
        /\ handle' = IF task[a].op = "close" THEN [handle EXCEPT ![a] = NoHandle]
                     ELSE [handle EXCEPT ![a].dirty = FALSE, ![a].saved = h.text]
  /\ UNCHANGED <<serverVars, treeVars, checkedOut, content, scratchSeq, buffer,
                 edits, up, boundVars, dentry, inodeVars>>

(* ESTALE: what the handle was opened on is not in the tree any more.      *)
PersistStale(a) ==
  LET h == handle[a] IN
  /\ Now(a, "persist") /\ h.dirty
  /\ h.key \notin NodeKeys(view)
  /\ h.key \in ScratchKeys => h.key[2] \notin DOMAIN scratch
  /\ Raise(a)
  /\ UNCHANGED <<serverVars, treeVars, checkedOut, content, scratch, scratchSeq,
                 buffer, edits, up, boundVars, dentry, inodeVars>>

Row(op, d, base, text) == [op |-> op, doc |-> d, base |-> base, text |-> text]

(* The task has a row to put, which makes a page of its own of the text.   *)
Putting(t, p, row) == [t EXCEPT !.path = p, !.row = row]
Creating(t, p, text) == Putting(t, p, Row("create", Nowhere, 0, text))

(* _write_draft: a published page is judged against a tree newer than the  *)
(* poll window; an unpublished one needs no base.                          *)
WriteDraft(a, t, k, text, after) ==
  LET n == Node(view, k) IN
  IF n.doc = Nowhere
  THEN /\ UNCHANGED fresh
       /\ Then(a, Creating(t, n.path, text), <<"put", "refresh", after>>)
  ELSE /\ fresh' = FALSE
       /\ Then(a, [t EXCEPT !.key = k, !.node = n, !.text = text],
               <<"current", "save", "put", "refresh", after>>)

PersistDraft(a) ==
  LET h == handle[a] IN
  /\ Now(a, "persist") /\ h.dirty /\ h.key \in NodeKeys(view)
  /\ WriteDraft(a, task[a], h.key, h.text, "saved")
  /\ handle' = [handle EXCEPT ![a].raced = FALSE]
  /\ UNCHANGED <<serverVars, view, known, fetch, checkedOut, content, scratch,
                 scratchSeq, buffer, edits, up, boundVars, dentry, inodeVars>>

(* _base_version_for                                                       *)
Blind(n) == (n.row = NoRow \/ n.row.base = 0) /\ checkedOut[n.doc] = 0

(* Mutant of BaseFor: whatever the tree says now.                          *)
BaseOfTree(n) == n.tip

BaseFor(n) ==
  IF n.row # NoRow /\ n.row.base # 0 THEN n.row.base
  ELSE IF checkedOut[n.doc] = 0 THEN n.tip
  ELSE IF n.tip > checkedOut[n.doc] /\ n.mine THEN n.tip
  ELSE checkedOut[n.doc]

SaveStep(a) ==
  LET t == task[a]
      n == IF t.key \in NodeKeys(view) THEN Node(view, t.key) ELSE t.node
  IN
  /\ Now(a, "save")
  /\ Then(a, Putting(t, n.path, Row("update", n.doc, BaseFor(n), t.text)), Tail(t.todo))
  /\ told' = IF Blind(n) THEN [told EXCEPT ![n.doc] = @ \cup {n.tip}] ELSE told
  /\ UNCHANGED <<srv, treeVars, fileVars, up, boundVars, dentry, inodeVars>>

Stored(a) == Changed([srv EXCEPT !.rows[task[a].path] = task[a].row])

AnswerPut(a) ==
  /\ Answered(a, "put")
  /\ srv' = Stored(a) /\ Proceed(a)
  /\ handle' = IF task[a].op \in {"close", "fsync"}
               THEN [handle EXCEPT ![a].saved = task[a].row.text] ELSE handle
  /\ UNCHANGED <<told, treeVars, checkedOut, content, scratch, scratchSeq, buffer,
                 edits, up, boundVars, dentry, inodeVars>>

(* The request or its answer is lost, or the server refuses it.            *)
PutFails(a) ==
  /\ Answered(a, "put") /\ Fault
  /\ srv' = Stored(a) \/ srv' = srv
  /\ Raise(a)
  /\ UNCHANGED <<told, treeVars, checkedOut, content, scratch, scratchSeq, buffer,
                 edits, up, menu, calls, events, dentry, inodeVars>>

(* flush() clears the mark only when everything above went well.           *)
SavedStep(a) ==
  /\ Now(a, "saved") /\ Return(a)
  /\ handle' = IF task[a].op = "close" THEN [handle EXCEPT ![a] = NoHandle]
               ELSE [handle EXCEPT ![a].dirty = FALSE]
  /\ UNCHANGED <<serverVars, treeVars, checkedOut, content, scratch, scratchSeq,
                 buffer, edits, up, boundVars, dentry, inodeVars>>

-----------------------------------------------------------------------------
(* Creating, removing, renaming                                            *)

Create(a, n) ==
  /\ n \in menu.names /\ handle[a] = NoHandle
  /\ n \in Locals => scratchSeq < MaxScratch
  /\ Request(a, [Call("create", "create") EXCEPT !.name = n])

CreateRefused(a) ==
  /\ Now(a, "create")
  /\ menu.readOnly \/ Entry(task[a].name) # NoKey
  /\ Raise(a)
  /\ UNCHANGED <<serverVars, treeVars, checkedOut, content, scratch, scratchSeq,
                 buffer, edits, up, boundVars, dentry, inodeVars>>

(* The entry and the open handle of a file that has just been made.        *)
Made(a, k) ==
  /\ Return(a) /\ Hand(k)
  /\ dentry' = [dentry EXCEPT ![task[a].name] = InodeOf(k)]
  /\ handle' = [handle EXCEPT ![a] =
       [ino |-> InodeOf(k), key |-> k, text |-> Empty, seen |-> 0, writing |-> TRUE,
        dirty |-> FALSE, raced |-> FALSE, saved |-> Empty]]

CreateScratch(a) ==
  LET n == task[a].name IN
  /\ Now(a, "create") /\ ~menu.readOnly /\ Entry(n) = NoKey /\ n \in Locals
  /\ scratchSeq' = scratchSeq + 1
  /\ scratch' = With(scratch, scratchSeq',
                      [name |-> n, parent |-> RootKey(view), text |-> Empty])
  /\ Made(a, ScratchKey(scratchSeq'))
  /\ UNCHANGED <<serverVars, treeVars, checkedOut, content, buffer, edits, up, boundVars>>

CreatePage(a) ==
  LET n == task[a].name IN
  /\ Now(a, "create") /\ ~menu.readOnly /\ Entry(n) = NoKey /\ n \in Paths
  /\ Then(a, Creating(task[a], n, Empty), <<"put", "refresh", "made">>)
  /\ UNCHANGED <<serverVars, treeVars, fileVars, up, boundVars, dentry, inodeVars>>

MadeStep(a) ==
  LET k == DraftKey(task[a].path) IN
  /\ Now(a, "made")
  /\ IF k \in NodeKeys(view) THEN Made(a, k)
     ELSE Raise(a) /\ UNCHANGED <<dentry, inodeVars>>
  /\ UNCHANGED <<serverVars, treeVars, checkedOut, content, scratch, scratchSeq,
                 buffer, edits, up, boundVars>>

Unlink(a, n) ==
  /\ dentry[n] # 0
  /\ Request(a, [Call("unlink", "unlink") EXCEPT !.name = n])

UnlinkRefused(a) ==
  LET k == Entry(task[a].name) IN
  /\ Now(a, "unlink")
  /\ \/ menu.readOnly \/ k = NoKey
     \/ k \in Docs /\ Node(view, k).may # "edit"
  /\ Raise(a)
  /\ UNCHANGED <<serverVars, treeVars, checkedOut, content, scratch, scratchSeq,
                 buffer, edits, up, boundVars, dentry, inodeVars>>

UnlinkScratch(a) ==
  LET k == Entry(task[a].name) IN
  /\ Now(a, "unlink") /\ ~menu.readOnly /\ k \in ScratchKeys
  /\ scratch' = Without(scratch, {k[2]})
  /\ Return(a) /\ dentry' = [dentry EXCEPT ![task[a].name] = 0]
  /\ UNCHANGED <<serverVars, treeVars, checkedOut, content, scratchSeq, handle,
                 buffer, edits, up, boundVars, inodeVars>>

(* An unpublished draft is withdrawn, a published page gets a delete draft. *)
UnlinkNode(a) ==
  LET k == Entry(task[a].name)
      n == Node(view, k)
  IN
  /\ Now(a, "unlink") /\ ~menu.readOnly /\ k \in NodeKeys(view)
  /\ IF n.doc = Nowhere
     THEN Then(a, [task[a] EXCEPT !.dropped = n.path], <<"drop", "refresh", "unlinked">>)
     ELSE /\ n.may = "edit"
          /\ Then(a, Putting(task[a], n.path, Row("delete", n.doc, n.tip, NoText)),
                  <<"put", "refresh", "unlinked">>)
  /\ UNCHANGED <<serverVars, treeVars, fileVars, up, boundVars, dentry, inodeVars>>

UnlinkedStep(a) ==
  /\ Now(a, "unlinked") /\ Return(a)
  /\ dentry' = [dentry EXCEPT ![task[a].name] = 0]
  /\ UNCHANGED <<serverVars, treeVars, fileVars, up, boundVars, inodeVars>>

Dropped(p) == Changed([srv EXCEPT !.rows[p] = NoRow])

AnswerDrop(a) ==
  /\ Answered(a, "drop")
  /\ srv' = Dropped(task[a].dropped) /\ Proceed(a)
  /\ UNCHANGED <<told, treeVars, fileVars, up, boundVars, dentry, inodeVars>>

DropFails(a) ==
  /\ Answered(a, "drop") /\ Fault
  /\ srv' = Dropped(task[a].dropped) \/ srv' = srv
  /\ Raise(a)
  /\ UNCHANGED <<told, treeVars, checkedOut, content, scratch, scratchSeq, buffer,
                 edits, up, menu, calls, events, dentry, inodeVars>>

Rename(a, n, to) ==
  /\ dentry[n] # 0 /\ n # to /\ to \in menu.names
  /\ Request(a, [Call("rename", "rename") EXCEPT !.name = n, !.to = to])

RenameRefused(a) ==
  LET from == Entry(task[a].name)
      to == task[a].to
  IN
  /\ Now(a, "rename")
  /\ \/ menu.readOnly \/ from = NoKey
     \/ from \in NodeKeys(view) /\ (to \in Locals \/ Entry(to) # NoKey)
  /\ Raise(a)
  /\ UNCHANGED <<serverVars, treeVars, checkedOut, content, scratch, scratchSeq,
                 buffer, edits, up, boundVars, dentry, inodeVars>>

(* The kernel files the source inode under the new name.                   *)
Moved(a) == dentry' = [dentry EXCEPT ![task[a].to] = dentry[task[a].name],
                                     ![task[a].name] = 0]

RenameLocally(a) ==
  LET from == Entry(task[a].name)
      over == Entry(task[a].to)
  IN
  /\ Now(a, "rename") /\ ~menu.readOnly
  /\ from \in ScratchKeys /\ task[a].to \in Locals
  /\ scratch' = [Without(scratch, IF over = NoKey THEN {} ELSE {over[2]})
                   EXCEPT ![from[2]].name = task[a].to]
  /\ Return(a) /\ Moved(a)
  /\ UNCHANGED <<serverVars, treeVars, checkedOut, content, scratchSeq, handle,
                 buffer, edits, up, boundVars, inodeVars>>

(* An atomic save: the bytes of the scratch file become a draft.           *)
RenameScratch(a) ==
  LET from == Entry(task[a].name)
      to == task[a].to
      over == KeyAt(view, to)
      text == scratch[from[2]].text
  IN
  /\ Now(a, "rename") /\ ~menu.readOnly /\ from \in ScratchKeys /\ to \in Paths
  /\ IF over \in Docs
     THEN WriteDraft(a, [task[a] EXCEPT !.old = from, !.new = over], over, text, "renamed")
     ELSE /\ Then(a, Creating([task[a] EXCEPT !.old = from, !.new = DraftKey(to)], to, text),
                  <<"put", "refresh", "renamed">>)
          /\ UNCHANGED fresh
  /\ UNCHANGED <<serverVars, view, known, fetch, fileVars, up, boundVars, dentry,
                 inodeVars>>

(* A draft that was never published is written anew, then dropped where it *)
(* was; a published page gets a move draft, at the revision of the tree,   *)
(* whether or not the user has been shown that one.                        *)
RenameNode(a) ==
  LET from == Entry(task[a].name)
      to == task[a].to
      n == Node(view, from)
  IN
  /\ Now(a, "rename") /\ ~menu.readOnly /\ from \in NodeKeys(view)
  /\ to \in Paths /\ Entry(to) = NoKey
  /\ IF n.doc = Nowhere
     THEN Then(a, Creating([task[a] EXCEPT !.old = from, !.new = DraftKey(to),
                                           !.dropped = n.path], to, n.row.text),
               <<"put", "refresh", "drop", "refresh", "renamed">>)
     ELSE Then(a, Putting(task[a], to, Row("move", n.doc, n.tip, NoText)),
               <<"put", "refresh", "renamed">>)
  /\ IF n.doc = Nowhere THEN UNCHANGED told
     ELSE told' = [told EXCEPT ![n.doc] = @ \cup {n.tip}]
  /\ UNCHANGED <<srv, treeVars, fileVars, up, boundVars, dentry, inodeVars>>

RenamedStep(a) ==
  LET t == task[a] IN
  /\ Now(a, "renamed") /\ Return(a) /\ Moved(a)
  /\ scratch' = IF t.old \in ScratchKeys THEN Without(scratch, {t.old[2]}) ELSE scratch
  /\ Rekey(t.old, t.new)
  /\ UNCHANGED <<serverVars, treeVars, checkedOut, content, scratchSeq, handle,
                 buffer, edits, up, boundVars>>

-----------------------------------------------------------------------------
(* Everybody else: the CLI of this user, other authors, the administrator  *)

Elsewhere(kind) ==
  /\ kind \in menu.events /\ running = NoApp
  /\ events < menu.others /\ events' = events + 1
  /\ UNCHANGED <<treeVars, fileVars, runVars, menu, calls, faults, dentry, inodeVars>>

Told(d, n) == told' = [told EXCEPT ![d] = @ \cup {n}]

(* A revision by another author, or by this user on another machine.       *)
OtherPublishes(d, mine) ==
  /\ Elsewhere("publish") /\ srv.path[d] # Nowhere
  /\ srv' = Changed([srv EXCEPT !.tip[d] = @ + 1, !.mine[d] = mine])
  /\ IF mine THEN Told(d, srv.tip[d] + 1) ELSE UNCHANGED told

OtherRetires(d) ==
  /\ Elsewhere("retire") /\ srv.path[d] # Nowhere
  /\ srv' = Changed([srv EXCEPT !.path[d] = Nowhere]) /\ UNCHANGED told

OtherMoves(d, p) ==
  /\ Elsewhere("move") /\ srv.path[d] # Nowhere /\ \A e \in Docs : srv.path[e] # p
  /\ srv' = Changed([srv EXCEPT !.path[d] = p, !.tip[d] = @ + 1, !.mine[d] = FALSE])
  /\ UNCHANGED told

Grants(d, may) ==
  /\ Elsewhere("grant") /\ srv.may[d] # may
  /\ srv' = Changed([srv EXCEPT !.may[d] = may]) /\ UNCHANGED told

(* fswiki push of one path: published, if nothing has changed since base.  *)
CliPush(p) ==
  LET r == srv.rows[p] IN
  /\ Elsewhere("push") /\ r # NoRow
  /\ \E d \in Docs :
       /\ IF r.op = "create"
          THEN /\ srv.path[d] = Nowhere /\ srv.tip[d] = 0
               /\ \A e \in Docs : srv.path[e] # p
          ELSE d = r.doc /\ srv.path[d] # Nowhere /\ srv.tip[d] = r.base
       /\ r.op = "move" => \A e \in Docs : srv.path[e] # p
       /\ srv' = Changed([srv EXCEPT
                   !.rows[p] = NoRow, !.tip[d] = @ + 1, !.mine[d] = TRUE,
                   !.path[d] = CASE r.op = "delete" -> Nowhere
                                 [] r.op \in {"create", "move"} -> p
                                 [] OTHER -> @])
       /\ Told(d, srv.tip[d] + 1)

(* fswiki merge, and resolve: the draft now descends from the tip.         *)
CliMerge(p) ==
  LET r == srv.rows[p]
      tip == srv.tip[r.doc]
  IN
  /\ Elsewhere("merge") /\ r # NoRow /\ r.op = "update" /\ r.base < tip
  /\ srv' = Changed([srv EXCEPT !.rows[p] = [r EXCEPT !.base = tip, !.text.from = tip]])
  /\ Told(r.doc, tip)

CliRevert(p) ==
  /\ Elsewhere("revert") /\ srv.rows[p] # NoRow
  /\ srv' = Dropped(p) /\ UNCHANGED told

-----------------------------------------------------------------------------
(* The mount ends, for whatever reason, and is started again               *)

Started ==
  /\ up' = TRUE /\ running' = NoApp /\ task' = [a \in Apps |-> Idle]
  /\ \E place \in Places(srv.rows) :
       view' = Answer(RootListed, Manifest, srv.rows, place)
  /\ known' = srv.token /\ fresh' = TRUE /\ fetch' = NoFetch
  /\ checkedOut' = [d \in Docs |-> 0]
  /\ content' = [d \in Docs |-> [etag |-> 0, body |-> NoText]]
  /\ scratch' = <<>> /\ scratchSeq' = 0
  /\ handle' = [a \in Apps |-> NoHandle]
  /\ dentry' = [n \in Names |-> 0]

Restart ==
  /\ "restart" \in menu.events
  /\ ~up \/ running = NoApp
  /\ Fault /\ Started
  /\ InodesReset(RootKey(view'))
  /\ UNCHANGED <<serverVars, buffer, edits, menu, calls, events>>

-----------------------------------------------------------------------------
Init ==
  /\ menu \in Menus
  /\ srv = [path |-> menu.at, tip |-> [d \in Docs |-> IF menu.at[d] = Nowhere THEN 0 ELSE 1],
            mine |-> [d \in Docs |-> FALSE], may |-> [d \in Docs |-> "edit"],
            rows |-> [p \in Paths |-> NoRow], token |-> 0]
  /\ told = [d \in Docs |-> {}]
  /\ up = TRUE /\ running = NoApp /\ task = [a \in Apps |-> Idle]
  /\ view = Answer(RootListed, Manifest, srv.rows, InOrder)
  /\ known = srv.token /\ fresh = TRUE /\ fetch = NoFetch
  /\ checkedOut = [d \in Docs |-> 0]
  /\ content = [d \in Docs |-> [etag |-> 0, body |-> NoText]]
  /\ scratch = <<>> /\ scratchSeq = 0
  /\ handle = [a \in Apps |-> NoHandle] /\ buffer = [a \in Apps |-> Empty]
  /\ dentry = [n \in Names |-> 0]
  /\ InodesInit /\ Root \in DOMAIN byInode /\ byInode[Root] = RootKey(view)
  /\ calls = 0 /\ events = 0 /\ edits = 0 /\ faults = 0

Kernel(a) ==
  \/ \E n \in Names : \/ Lookup(a, n) \/ Create(a, n) \/ Unlink(a, n) \/ Truncate(a, n)
                      \/ \E to \in Names : Rename(a, n, to)
                      \/ \E trunc \in BOOLEAN : Open(a, n, TRUE, trunc)
                      \/ Open(a, n, FALSE, FALSE)
  \/ List(a) \/ Write(a) \/ \E op \in {"close", "fsync"} : Flush(a, op)

(* What the handlers do without being asked again, and without a fault.    *)
Handler(a) ==
  \/ Current(a) \/ TakeLock(a) \/ StatStep(a)
  \/ LookupStep(a) \/ OpendirStep(a) \/ ReaddirStep(a) \/ Releasedir(a)
  \/ OpenScratch(a) \/ OpenRefused(a) \/ OpenNode(a) \/ AnswerContent(a) \/ ContentFails(a)
  \/ PersistLocally(a) \/ PersistStale(a) \/ PersistDraft(a) \/ SaveStep(a)
  \/ AnswerPut(a) \/ PutFails(a) \/ SavedStep(a)
  \/ CreateRefused(a) \/ CreateScratch(a) \/ CreatePage(a) \/ MadeStep(a)
  \/ UnlinkRefused(a) \/ UnlinkScratch(a) \/ UnlinkNode(a) \/ UnlinkedStep(a)
  \/ AnswerDrop(a) \/ DropFails(a)
  \/ RenameRefused(a) \/ RenameLocally(a) \/ RenameScratch(a) \/ RenameNode(a)
  \/ RenamedStep(a)

Refreshing ==
  \/ AnswerToken \/ Same \/ AnswerManifest \/ AnswerDrafts \/ Install \/ RefreshFails

Others ==
  \/ \E d \in Docs : \/ \E mine \in BOOLEAN : OtherPublishes(d, mine)
                     \/ OtherRetires(d) \/ \E p \in Paths : OtherMoves(d, p)
                     \/ \E may \in {"nothing", "read", "edit"} : Grants(d, may)
  \/ \E p \in Paths : CliPush(p) \/ CliMerge(p) \/ CliRevert(p)

Next ==
  \/ \E a \in Apps : Stat(a) \/ Kernel(a) \/ Handler(a)
  \/ Expire \/ Refreshing
  \/ Others
  \/ \E i \in Numbers : Forgets(i)
  \/ Restart

(* The event loop runs every handler that can run, requests are answered,  *)
(* the poll window ends, and somebody looks at the mount now and then.     *)
Fairness ==
  /\ \A a \in Apps : WF_vars(Handler(a)) /\ WF_vars(Stat(a))
  /\ WF_vars(Refreshing) /\ SF_vars(Expire)

Spec == Init /\ [][Next]_vars /\ Fairness

-----------------------------------------------------------------------------
(* Properties                                                              *)

(* What every variable holds; a checkout is of a revision there is, and a  *)
(* draft row has base, document and text as its operation asks (the        *)
(* table's draft_shape), whatever the handlers of fs.py write.             *)
TypeOK ==
  /\ up \in BOOLEAN /\ fresh \in BOOLEAN
  /\ running \in Apps \cup {NoApp}
  /\ running # NoApp => task[running] # Idle
  /\ DOMAIN scratch \subseteq 1..scratchSeq /\ scratchSeq \in 0..MaxScratch
  /\ \A d \in Docs : /\ checkedOut[d] \in 0..srv.tip[d]
                     /\ told[d] \subseteq 1..srv.tip[d]
                     /\ content[d].etag <= srv.tip[d]
  /\ \A n \in Names : dentry[n] \in {0} \cup Numbers
  /\ \A a \in Apps : handle[a] # NoHandle => handle[a].ino \in Numbers
  /\ \A p \in Paths : srv.rows[p] # NoRow =>
       /\ (srv.rows[p].op = "create") = (srv.rows[p].doc = Nowhere)
       /\ (srv.rows[p].op = "create") = (srv.rows[p].base = 0)
       /\ (srv.rows[p].op \in {"create", "update"}) = (srv.rows[p].text # NoText)

(* A tree that is held under the server's current token is the server's    *)
(* current answer: the token may be older than the tree, never newer, or a *)
(* change would never be fetched.                                          *)
TokenCoversTree ==
  up /\ known = srv.token =>
    view.docs = Manifest /\ view.rows = srv.rows /\ view.root = RootListed

(* The poller alone never rebases: the base of a saved edit is a revision  *)
(* the user was shown, published or merged, or chose to write over or to   *)
(* move without reading.                                                   *)
NoUnseenBase ==
  \A p \in Paths :
    srv.rows[p] # NoRow /\ srv.rows[p].op = "update" =>
      srv.rows[p].base \in told[srv.rows[p].doc]

(* What open() hands out is never older than the revision it recorded.     *)
BaseNotNewerThanBody ==
  \A a \in Apps : handle[a] # NoHandle => handle[a].seen <= handle[a].text.from

(* A handle marked clean holds what was last accepted, unless a write came *)
(* while an fsync of the same handle was waiting.                          *)
CleanMeansSaved ==
  \A a \in Apps :
    up /\ handle[a] # NoHandle /\ ~handle[a].dirty /\ ~handle[a].raced =>
      handle[a].text = handle[a].saved

(* The inode the kernel files under a new name is what was renamed, if its *)
(* entry for the old name was not out of date: if its number is a number   *)
(* of that file, and for a draft never published the one the table knows,  *)
(* for a draft made where another had been may leave a number behind.      *)
RenameResolves ==
  [][\A a \in Apps : RenamedStep(a) =>
       LET t == task[a]
           i == dentry[t.name] IN
       /\ t.new # NoKey
       /\ i \in DOMAIN byInode /\ byInode[i] = t.old
       /\ t.old \in ScratchKeys \/ InodeOf(t.old) = i
       => byInode'[dentry'[t.to]] = t.new]_vars

(* When the server is left alone the tree becomes what the server would    *)
(* answer.                                                                 *)
Converges ==
  <>[](up => view.docs = Manifest /\ view.rows = srv.rows)

(* Nothing the network does may end the process: an exception out of a     *)
(* handler of fs.py would, and takes the filesystem down.                  *)
MountStaysUp == up
=============================================================================
