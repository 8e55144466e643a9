# A formal model of fswiki

fswiki is a wiki whose state is a PostgreSQL schema (`src/server/schema`)
behind PostgREST: every request of a client is one transaction, under row
policies that decide who may see and change what.  Clients are a FUSE mount
(`src/fuse`), a command line (`src/cli`), a preview and a browser
(`src/core/fswiki_core/pages.py`, `src/server/fswiki_server`).  Saving makes a
*draft*; pushing publishes the drafts of one author as one changeset; published
history is temporal (each revision has a validity interval) and never rewritten.

This directory models that system in TLA+, checks it with TLC on small
instances, and proves what matters most with TLAPS for all instances.

## Inventory

| Component | State | Operations | What is hard | What makes it correct |
|---|---|---|---|---|
| Published revisions (`tables/030`, `tables/080`) | per-document history | publish | – (the promise) | history only grows; one author per changeset; no revision skips another |
| Drafts, push, publish_revision (`runtime/080`, `030`, `085`, `075`, `050`) | `document`, `document_version`, `draft`, the change counter's row lock | put/delete draft, begin/resolve/abort merge, push, publish_revision, attach, detach | READ COMMITTED snapshots per statement, two cursors over one query, `now()` fixed at start, lock order, aborts half way | intervals tile, no silent overwrite, no draft lost, atomic changesets, progress |
| ACL (`runtime/040`, `tables/035`, `110`, `120`) | ACEs, roles, closure table | can, can_ctx, can_traverse, explain_acl | precomputed context and closure against the definition; deny, inheritance flags, blocking | the fast paths agree with the definition |
| Document tree (`runtime/030`) | `parent_id`, `slug`, `path` | insert, move, rename with cascade | cascade under the caller's policies and snapshot; concurrent moves | path = parent's path + slug; no cycles |
| Change token and refresh (`runtime/075`, `fs.py`) | counter; token, tree, checked_at | poll, forced refresh | token, manifest and drafts are three requests; overlapping refreshes | a change is never missed for good |
| FUSE mount (`fs.py`, `model.py`) | handles, scratch files, checked-out revisions, tree | open, write, flush, create, rename, unlink | awaits between read and write of its own state; base_version of a save | a save never claims to have seen what it did not |
| Inodes (`inodes.py`) | key ↔ inode, lookup counts | lookup, forget, rekey, pin_root | rekey onto a used key; forget after rekey | one inode per key, alive as long as the kernel knows it |
| Audit queue (`audit.py`, `runtime/090`) | live and sending file, size, dropped | queue, flush, crash | crash between ship and unlink; cap accounting | each kept event is recorded exactly once |
| Impersonation (`runtime/100`) | grants, session log | pre_request, begin_impersonation | record before switching identity | nobody acts as another without a record |
| CLI session (`cli/__main__.py`, `core/merge.py`) | the drafts a command listed, revisions it fetched | push, merge --apply, merge --abort, revert --apply | a command acts, request by request, on a list that goes stale; two terminals and an editor | no edit lost or thrown away unasked, no markers published, the backup is the user's |
| Migrations and server start (`migrate.py`, `postgrest.py`, `server/__main__.py`) | ledger, tables, runtime, advisory lock; the PostgREST child | migrate, seed, start, stop, probe | several releases over one database, failure half way, an address that is taken, databases older than the ledger | the ledger is true, clients see one release, starts end |
| Serving (`app.py`, `pages.py`, `render/`) | cache of rendered bodies; requests under way | page, contents, search, neutral link, probes | body and links come from two requests, one cache for all readers | every reader gets their own page, of the time they asked |

How they interact: all clients reach the database only through requests
(drafts by upsert and delete on `wiki.draft`, everything else by RPC).  Within
the database, each write statement on what clients can see fires
`note_change`, which updates the one row of `wiki.change_counter`; that makes
write transactions serialise from the end of their first write to their end,
and is what the mount polls.

## Modules

Done:

* `Revisions` – what publishing promises, and nothing about how: a log per
  document, extended by one changeset of one author per step.
* `Push` – drafts and publishing, one action per SQL statement that matters.
* `MCPush` – instances of `Push`.
* `PushProofs`, `PushHistoryProofs`, `PushRefinement` – the proofs about it.
* `Acl` – the rule of access control, the way it is answered once per
  statement, and edits of the ACL.
* `MCAcl` – instances of `Acl`; `AclProofs` – the proofs about it.
* `Inodes` – the mount's inode table.
* `WorkingTree` – the tree a mount builds from a manifest and draft rows, as
  pure definitions.
* `Mount` – the mount: extends `WorkingTree` and `Inodes`, and has the kernel,
  the applications and the server around them.  `MCMount` – its instances;
  `MountProofs` – the proofs about the table and the mount.
* `Lists` – lists of events: what is on one, and the list without some of it.
* `AuditTrail` – what auditing promises: spooled events are recorded in order.
* `AuditQueue` – the queue of a mount, its files and `record_opens`, with
  crashes; implements `AuditTrail`.  `MCAudit` – its instance; `AuditProofs`.
* `Session` – commands of the CLI as sequences of requests.  `MCSession` – its
  instances; `SessionProofs`.
* `Start` – servers that migrate a database and start a PostgREST.
* `Serve` – extends `Start`: a server that has started answers readers.
  `MCStart` – instances of both; `StartProofs` – the proofs about both.

The modules meet where the components do.  What `Acl` computes is the constant
`Caps` of `Push`.  `Push` has the inside of each request; `Session` and `Mount`
make the same requests in one step each, which is what a client can see of a
transaction that serialises on the change counter, and have what clients do
between them.  `Serve` runs inside `Start`: a server answers only while `Start`
says it serves, through whatever PostgREST `Start` has at its address.

### Push and the code

| Variable | Stands for |
|---|---|
| `db` | committed rows: `document.path` of pages (`place`), folders, revisions (`hist`, in order of `version`), drafts by (author, path) |
| `work`, `writer` | the rows as the transaction that holds the change counter sees them; that transaction |
| `clock`, `now` | transaction start times; `now()` is the time the transaction *started* |
| `locks` | rows and unique-index keys a transaction has written and not yet released |
| `pc`, `scope`, `todo`, `cur`, `prev` | where each request is: `p_paths`, the rows pass 2's cursor has yet to yield, the draft or `publish_revision` call in hand, `v_prev.version` |

A request is a session's run from `idle` to `idle`.  Its statements:

* Draft statements (`put_draft`, `delete_draft`, `begin_merge`,
  `resolve_merge`, `abort_merge`): `DraftStatement` locks the row and computes
  the new one, subject to `draft_shape` and `draft_merge_shape`; `SaveDraft`
  is the trigger's counter update and the commit.
* `wiki.push`: `PushStart`, `PushValidate` (pass 1), `PushOpen` (pass 2's
  cursor), `PushNext` (one draft: moves, deletes, updates, creates, each by
  level and path), `CreateDocument` (ensure_folder and the insert),
  `MoveDocument`, `PushDone`, `PushClear` (the final delete), `PublishCommit`.
* `publish_revision`: `ReadLive` (select and the two checks), `CloseLive`,
  `InsertRevision`.  `attach`, `detach` and the RPC itself reach it through
  `AttachStart`/`Attach`, `DetachStart`/`Detach` and `PublishStart`.
* PostgreSQL: `LockRows` (a first write whose trigger has to wait for the
  counter), `Deadlock`, `Cancel`, `Abort`.

Why two copies of the database are enough: a transaction that has written holds
the counter until it ends, and a second one cannot finish its first write
statement before that.  What a waiting first write has done to its rows is
visible to nobody, so it is represented by its locks alone and the statement is
evaluated when the counter comes free, against what is committed then
(READ COMMITTED re-evaluates a row it had to wait for).

### Abstractions

* Bodies, messages, content types and attachments are one set `Bodies`; text
  and binary bodies behave alike in publishing.
* Two levels of path: folders (the root and its children) and pages in them.
  A page is `place[d]`; folders are a set, because they have no revisions.
* The outcome of ACL resolution is the constant `Caps`, per user and path; it
  does not change while requests run.  `read` comes with every other capability,
  as `capability_requires` has it.  A folder that is the ancestor of a readable
  page can be traversed (`SeesFolder`), as `document_select` allows.
* Pass 1 of a push is one step.  Its statements have snapshots of their own,
  but it writes nothing and pass 2 reads again everything it acts on, so what
  a mixed snapshot adds is a validation that says yes or no for a state that
  existed only in parts; either answer is already reachable at another moment.
* A changeset that is refused and a transaction that fails are both `Abort`:
  neither leaves anything in the database.
* Foreign-key share locks of draft statements are left out: they add another
  way for the owner of the counter to wait for a request that waits for the
  counter, which `PushClear` already gives.
* Clients are taken at their word: a draft's `base_version` is the live revision
  at the time the client saves.  What the mount and the CLI really send is
  the subject of `Mount` and `Session`.

### Acl and the code

The rule is a set of operators named after the SQL functions: `AclChain`,
`ResolveAce`, `Can`, `CanRow` (a policy on `wiki.document`), `HasCapability`,
with `EffectivePrincipals`, `RoleCapabilities`, `CapabilityDownward`,
`CapabilityUpward`, `AceCoversUncached` and `AceClosure` under them.  The
recursive queries are least fixed points (`Reach`).  `AclContext` is what a
statement precomputes, and `can_ctx` is the state machine:

| Variable | Stands for |
|---|---|
| `documents`, `aces` | `wiki.document` (folder or page, owner, blocked, retired), `wiki.ace` |
| `pc`, `ask`, `ctx` | the call of `can_ctx` a statement is in, its arguments and its context |
| `cuts`, `sources` | what the two `foreach` loops have not looked at |
| `floor_depth`, `best`, `verdict`, `answer` | the function's variables and its result |

| Action | Code |
|---|---|
| `CanCtx` | entry, the superuser's and the owner's early returns (040:606-617) |
| `LookAtCut`, `CutsDone` | one turn of the first loop, its end (040:622-631) |
| `LookAtSource`, `Return` | one turn of the second loop, the `coalesce` (040:633-677) |
| `EndStatement` | the statement is over and the snapshot gone |
| `InsertAce`, `UpdateAce`, `DeleteAce` | what `ace_insert`, `ace_update`, `ace_delete` and `ace_key` let a caller do |
| `Expire` | `expires_at` passes |

`CanTraverse`, `DocumentSelect`, `CurrentDocument` and `SyncableDocument` are
what the policies and views show of a state.

Abstractions of `Acl`:

* The arrays of a context are sets, taken in any order.  Two equal sources
  become one, which the loop could not tell apart.  A hash of a path is the
  path; the memo `keys` is a function of the path and left out.
* A caller is a member of `Subjects` with `Seeds`, the principals its closure
  starts from: one for an account, none for nobody, the groups for somebody
  looked at as a member of them.  Who may look as whom is not modelled.
* The ACL does not change while a call runs: a statement has one snapshot.
  Between calls it does.
* `expires_at` is a flag that time sets.
* A `NULL` path is not asked about; `can` and `can_ctx` both say no to it.
* Documents do not move while entries stand on them; every initial tree is a
  tree a series of moves may have led to.  Nothing is asked of the parents: a
  push can create a page below a page (runtime/080:243-273; only a move asks,
  302) and the upper one can be retired or kept from somebody.  A mirror then
  has a page without its directory, as server/README.md:511 lets it, and
  `FoldersLeadOn` says what is left: the live folders on the way are in it.
* The role tables are constants.  `AceClosure` is the table right after
  `rebuild_ace_closure`; whether the triggers always leave it so is not
  modelled.
* `CanTraverse` asks `Can` where the code asks `can_ctx` with a context of
  its own; that these agree is `ContextAgrees`.

### Mount and the code

The handlers of `fs.py` run on one thread and interleave where they await.  A
handler is a *task*: an operation with the list of steps it has yet to take.  A
step that awaits the server lets others run; between two awaits a task runs
alone (`running`).

| Variable | Stands for |
|---|---|
| `srv` | documents (path, tip, author of the tip, what this user may do), the user's draft rows, the change token |
| `view`, `known`, `fresh`, `fetch` | `_tree`, `_token`, whether the poll interval has not passed, the refresh that holds the lock and what it has so far |
| `checkedOut`, `content` | `_checked_out`, the client's content cache with its ETags |
| `scratch`, `scratchSeq` | `_scratch`, the counter of its keys |
| `handle`, `buffer` | the open file of each application, the text it works on |
| `byInode`, `byKey`, `lookups`, ... (`Inodes`) | the inode table |
| `dentry` | the kernel's directory cache |
| `told` | history: per document, the revisions the user was told of (shown, merged, published, or overwritten by choice) |
| `up` | the process has not ended with an exception |

| Action | Code |
|---|---|
| `Expire`, `Current`, `TakeLock`, `AnswerToken`, `Same`, `AnswerManifest`, `AnswerDrafts`, `Install`, `RefreshFails` | `_current`, `refresh` (fs.py:199-300) and the tree built in `model.py` |
| `Stat`, `Lookup`, `List`, `OpendirStep`, `ReaddirStep`, `Forgets` | getattr, lookup, opendir, readdir, forget |
| `Open`…, `AnswerContent`, `ContentFails` | open, the content fetch, `_checked_out` |
| `Write`, `Truncate`, `Flush`, `Persist…`, `SaveStep`, `AnswerPut`, `PutFails`, `SavedStep` | write, setattr, flush/fsync/release, `_persist`, `_write_draft` |
| `Create`…, `Unlink`…, `Rename`… | create, unlink, rename with every early return |
| `OtherPublishes`, `OtherRetires`, `OtherMoves`, `Grants`, `CliPush`, `CliMerge`, `CliRevert` | what else changes the server |
| `Restart` | the mount is killed and started again |

Abstractions: one directory; a text is known by the revision it descends from
and the edit it carries.  Not in the model: mkdir, rmdir and files in
subdirectories, extended attributes, statfs, the `.fswiki` metadata file, names
`.` and `..`, the choice between the text and binary columns, a server without a
change token, mounts that hide drafts, documents with no revision.  A restart
installs its first tree in one step.  `Stat` fetches only when it would find
something new.  An application edits what it opened.

What the invariants leave out, because the code does it: a user is taken to have
seen what any of their applications opened, even if the load then failed, what
they published on any machine, what the CLI merged, and what they chose to
overwrite or move without reading.  A moved draft takes the live revision as its
base (fs.py:1070-1086), so `mv` followed by a save hides a revision nobody
looked at.  `CleanMeansSaved` leaves out a write that comes while an fsync of
the same handle is waiting: that one is lost.

### AuditQueue and the code

`live` and `sending` are `audit.jsonl` and `audit.sending.jsonl`; `size` and
`dropped` are `_size` and `_dropped`; `todo` is what a shipment has yet to send;
`trail` is `wiki.access_event`; `late` holds batches the server may still be
given after the client gave up on them.  `Record` is `queue`; `Fetch`,
`Fetched` and `FetchFails` are a content fetch that carries its event along;
`Flush`, `Shipped`, `ShipFails` are `flush`; `Unmount`, `Exit`, `Killed` and
`Mounted` the process.  A crash may tear the line that is being written; the next
line then glues to it and both are unreadable.  The property `TrailSpec` maps
the spooled events that are not recorded yet to `AuditTrail`'s queue.  The
operator that selects them, `Only` of `Lists`, takes the n-th chosen element by
its rank; it is `SelectSeq` without the recursion, which could not be reasoned
about.

Not in the model: two mounts of one user that share the default `--audit-dir`,
and an event the server refuses for its date (a client clock before 2020), which
stops its whole batch.

### Session and the code

A text is a function from sections that lie apart to the edits readable in
them; more than one in a section are the sides of a conflict between markers.
Every edit is unique and remembers (`over`) what its author saw in its place,
so that "lost" can be told from "seen and replaced".  A command lists the drafts
first (`list`), and then takes a step for each request: `resolve_merge` and
push; the manifest, the live revisions and `begin_merge`; `abort_merge`;
the fetch and the draft of a revert.  Beside it the user edits through the
mount, from a buffer that may be old, and others publish.

The properties leave out the pages where a command changed a draft other than
the one it had listed (`raced`), and those saved from an editor older than the
draft says (`outdated`).  These are real: `begin_merge` carries no
precondition and overwrites a newer save, or a draft made after a push;
the resolve step of a push can clear the merge another terminal has just begun
and publish its markers; an editor opened before `merge --apply` and saved after
it undoes the merged revision without a conflict.  After a push that failed the
merges are resolved already, so `merge --abort` finds nothing, although
report.py:283 says the drafts are untouched.

`BackupIsTheUsers` leaves out one more set of pages, `marked`: those where the
user saved a text with markers as a new draft.  The invariant once had no such
exception and TLC agreed, with three edits.  Its proof did not go through, and
with four edits TLC shows why: a merge conflicts and the editor shows the
markers; the draft is withdrawn elsewhere; the editor saves what it shows,
which is now a draft like any other; the next merge keeps it as the text to go
back to.  The code does what it says (the backup is what the user last saved),
so the property, and not the code, was wrong.

Not in the model: drafts that create, delete or move (their requests are in
`Push`); commands that write nothing; a draft for which the server has no base
text.

### Start, Serve and the code

`work[s]` is the transaction of server `s`, `db` what is committed, `lock` the
advisory lock, `pc` the place in `main`: `Lock` … `Commit` are migrate.py from
the lock to the commit, `Spawn`, `Poll`, `Answers`, `TimeOut` are
`Postgrest.start`, `Stop` and `Probed` the end of `main` and `/healthz`.
`Connect`, `ReadSchema`, `Reload` and `Dies` are PostgREST, as `start` and the
notification use it: it listens, then reads the schema, and exits if its
address is taken.  `Refused` is a file that meets tables it was not written for.

In `Serve`, `view[r]` is a reader's request, `cache[s]` the cache of a server.
`Document` is the first request of a page with everything up to the next await,
the cache included; `Compose` is `outline` and the links.  `Index`, `Search` and
`Follow` are the other routes, `BadGateway` the 502.  `live`, `ever` and `always`
record what was published and what the reader could see while the request was
under way, which is all a reader can hold an answer to.

Abstractions: a rendered body is known by its page and revision; one process has
one renderer per content type, so that part of the key is left out; a document
keeps its path.  Not in the model: the settings and the authenticator's password,
the configuration file, attachments, tokens PostgREST refuses, the preview.  Two
things `Start` shows and the properties therefore do not deny: `start()` takes
any answer at the address for its own child's, so a server can serve through its
predecessor's PostgREST until a probe ends it; and an old release that meets a
database older than the ledger, made by a newer one, records itself as its
schema (`guessed`), after which the newer release's chain is refused for ever.

What the files of `runtime/` leave in the database is of two kinds.  Functions,
views, policies and triggers (`runtime`, with the grants on functions and views)
are dropped by `DROP_RUNTIME` and created again.  Grants on tables, columns and the
schema (`grants`) are not dropped; `Replay` adds those of its file, and the one
file that revokes (`Revoking`, 060_roles.sql:112) takes from `fswiki_anon` its table
privileges first.  Files run in load order, since that revoke is safe only before
the grants to visitors (060:123, 085:237).  So a privilege that an older release
gave the accounts stays in force under a newer one that no longer grants it.
migrate.py:21-25 says otherwise ("every grant" is dropped and replayed, "and the
repository is the only place they are described"), and so does
test/test_server_migrate.py:3-7; the test there that a rebuild gives what a fresh
load gives (line 133) loads the same files twice, where the two agree.
`OneRelease` therefore asks for the objects of one release, for all it grants, and for
nothing beyond that in the hands of visitors; it says nothing of what accounts have
beyond it, and `AccountsKeepGrants` proves that they keep it.  Default privileges
(950_lockdown.sql:31) and role memberships (060:11) stay as well; every
release sets the same and the model leaves them out.

## Runs

| Run | Instance | What it shows |
|---|---|---|
| `push` | 2 users, one request each at a time; 2 documents, 2 paths, 2 folders (`bob` may neither create nor retire in one of them); all requests; 2 publishing transactions and 2 draft statements | `TypeOK`, `HistoryTiles`, `NoSilentOverwrite`, `StablePast`, `NoDraftLost`, and that `Push` implements `Revisions` |
| `push_merge` | 2 users, one page, 4 draft statements, 2 publishing transactions | stale drafts that are merged, re-merged, resolved, backed out, withdrawn, pushed: `NoDraftLost` (that no revision skips another is checked by `push` and proved) |
| `push_live` | one user, two requests at once, fairness | every request ends although draft writers and pushes can deadlock |
| `push_draft_lost` | one user, two requests at once | finding: a push deletes a draft it did not publish |
| `push_stale_path` | 2 users, one page, 2 paths | finding: a merged update publishes at a path where the page no longer is |
| `acl_ctx` | root, folder, page, and the name of a row that is being inserted; blocking at any of four combinations; 4 callers; 17 entries, up to 3 at a time; 15 calls | `TypeOK`; `ContextAgrees`: the loop answers what the rule answers |
| `acl_rules` | the same tree; 4 roles, 4 capabilities; 15 entries, up to 2 at a time; and a page below a page, which may be retired | `RequiresHold`, `TraverseAgrees`, `FoldersLeadOn`, `EditsAreMonotone` |
| `mount` | 2 pages and paths, 2 names the server cannot hold, 2 applications; ten menus of what is done (edit in place, fsync, push and merge by the CLI, restart, atomic save, scratch files, rearranging names, renaming a draft, access that changes, read-only) | `TypeOK`, `TokenCoversTree`, `NoUnseenBase`, `BaseNotNewerThanBody`, `CleanMeansSaved`, `InodesAgree`, `RenameResolves`, `Converges` |
| `mount_down` | the menu with fsync and a fault | finding: a network error after a save ends the mount |
| `audit` | 4 events, cap 7 with lines of 2, batches of 2, 2 faults, an unmount | `TypeOK`, `RecordedOnce`, `NothingLost`, `CapHolds`, `Delivered`, and that `AuditQueue` implements `AuditTrail` |
| `session` | two terminals, 3 edits; one page with 3 commands and a fault, two pages with 2 commands | `TypeOK`, `NoLostUpdate`, `NoMarkersPublished`, `EditsKept`, `BackupIsTheUsers` |
| `start` | an old and a new release at one address, 3 starts, over an empty database with 2 faults and over ones older than the ledger with 1; the new release beside a server that runs with `--no-migrate`, 2 starts, 1 fault; and one server with 2 readers, 2 pages, 3 requests around an edit, 1 around two, 1 with a PostgREST that dies | `ServeTypeOK`, `LedgerIsTrue`, `OneRelease`, `ServesItsSchema`, `ReadersOwnPage`, `CachesCatchUp`, `StartsEnd` |

Bounds: `MaxClock` counts publishing transactions (the first one is the import
of the initial pages), `MaxSaves` draft statements, `Requests` the kinds of
request clients make.  Two concurrent publishers are enough for every race
there is on one counter row; two paths give moves onto, out of and around each
other; a draft that goes stale, is merged and then published needs two or three
saves and two publishing transactions.  The runs stop when the budget is spent and
no request is in flight, hence `CHECK_DEADLOCK FALSE`; that no request hangs is
what `EveryRequestEnds` says.

For `Acl`: three levels are the least on which an entry, a block and a document
can all be at different depths; three entries let two tie at one distance and
a third, nearer or farther, be looked at before, between or after them.
`MaxAces` bounds the table; entries come and go without end, and no run needs
`CHECK_DEADLOCK FALSE`.

`push` has one request per user at a time, and there `NoDraftLost` holds; with
two requests of one user it does not, which is the first finding.  Both are
kept: the first says that nothing else in a push loses a draft.

For `Mount`: a behaviour picks one menu, which says who acts, on which names, with
which calls, and how often; each menu is the least in which its case happens
(two applications for the base of one document; two edits and an fsync for a
write that races it; two changes by others, so that two answers can be of two
moments).  `MaxInode`, `MaxHeld` and `MaxScratch` are large enough never to stop a
handler half way: they and the counters of a menu guard requests only.  The
mount may be down for good, hence `CHECK_DEADLOCK FALSE`.

For `AuditQueue`: a cap of seven bytes over lines of two leaves one byte, which a
torn line can take; batches of two make four events two requests, so that a
crash can fall between them.  For `Session`: three edits are one base and two
sides; three commands are a merge, what goes wrong, and a push.  For `Start`: three
starts let one release run before and after the other; two faults a crash and
what follows it.  `runtime/` is two files, one that revokes and grants and one that
only grants (060 and what comes after it), and the old release grants the accounts
and visitors something the new one does not.  For `Serve`: the cache holds a revision of each page and no
more, so the third body evicts one; one edit makes a cached body old, two change
the rights of a reader twice between two requests.  These runs stop when their
budget is spent (`CHECK_DEADLOCK FALSE`).

### Fairness

`FairSpec` asks weak fairness of `Statement(s)` for each request: PostgreSQL
executes every statement it was given, grants a lock once it is free, and runs
its deadlock detector.  Nothing is asked of clients (they may stop making
requests), nor of `Cancel`.  Weak fairness is enough because a statement that
is ready stays ready: the counter and the rows it waits for are released once
and, within the budget, not taken again for ever.

`Mount`'s `Fairness` asks that a handler that can go on does, that the answer to a
refresh comes (or fails), and that the kernel keeps asking: `Converges` is
about a tree that is looked at (`Stat`), since an idle mount fetches nothing.
`Expire` needs strong fairness: the poll interval passes again and again and each
refresh makes the tree fresh anew.  Faults and others' changes are budgeted, so
they end, and nothing is asked of them.

`AuditQueue`: the flush task runs on (`flush` is called on a timer), requests end
one way or the other, an unmount ends, and a mount that is down is mounted
again, without which nobody would ship what it left.

`Start`: PostgreSQL executes a statement it was given and grants a lock that is
free; the wait for PostgREST has a deadline; PostgREST acts on a notification;
and `/healthz` is asked and acted upon, as server/README.md:115 has it.
`Session` and `Serve`'s requests have safety properties only and need none.

### Findings

1. `push_draft_lost`: README.md:43-45 promises a draft "stays yours until you
   push it".  `wiki.push` reads the drafts twice and then deletes by author and
   scope (runtime/080:404-406); a draft the mount saves after the second read
   and before the push's first write is deleted without having been published.
2. `push_stale_path`: tables/030:87 says a revision's path is "the path this
   version was published at, so a rename is visible in history".  After
   somebody moves a page, a merged and resolved update draft is published at
   its old path (runtime/080:359).
3. `mount_down`: fs.py:37-42 says an exception out of a handler "takes the whole
   filesystem down", and test/test_mount_offline.py:8-9 that "nothing the
   network does may end the process".  The forced refresh after a save that was
   accepted (fs.py:784, and 858, 942, 950, 1089, 1103) is outside any `try`.

## Proofs

`Push` first.  Assumptions: `PushAssumption` only (typing of the constants, distinct null
values, the root folder exists, `read` comes with any capability).  TLC evaluates it on
every run.  No bound on users, sessions, documents, paths, clock or saves is
used.

* `PushProofs!TypeCorrect`: `Spec => []TypeOK`.  The strengthening `Typed`
  adds what each statement knows of its call record (`CallOK`).
* `PushHistoryProofs!HistoryAlwaysTiles` and `NobodyOverwrites`.  The two
  properties speak of `db` alone and are not inductive.  The invariant
  `HistInv` adds (`HistOK`) that `work` tiles as well, except for the one
  document whose live revision `writer` has closed and not yet replaced, which
  ends at `now[writer]`; that `work` extends `db`; and (`StepOK`) what each
  request knows of the revision it read: it is still there and older than the
  request, the base is the revision read, and at the insert it is the last.
  The interesting step is a commit: it must leave `StepOK` true of the other
  requests, whose view of the database it changes.
* `PushRefinement!PushPublishes`: `Spec => PublishedSpec`.  The refinement
  mapping reads each committed history as a log of (author, body, base).
  `GrowthInv` says that `writer` has added at most one revision to each
  document, its own, opened at its `now()`; that is what makes a commit one
  step of `Revisions`, and every other step a stutter.
* `PushRefinement!PastIsStable`: `Spec => StablePast`, what a reader of the
  history at an instant was once told stays true.  A commit does change rows
  that were there, by closing them.  `PastInv` says (`Dates`) that what
  `writer` has closed was open and was closed at the `now()` of `writer`, and
  (`Timed`) that a request has that `now()` from its first statement; what is
  new begins at that instant (`GrowthInv`), so what a history says of any
  earlier instant does not change.
* `PushRefinement!UndisturbedPushesLoseNothing` and `SinglePushesLoseNothing`:
  `NoDraftLost`, which is false when a user saves while their own push runs
  (finding 1), so a theorem about it must say what excludes that.  The first
  says it of the behaviour (`LeftAlone`: no other request of a push's author
  changes, by its commit, a draft under the scope of that push), the second of
  the instance (`OneRequestEach`: no user has two requests at a time, as in the
  run `push`), from which the first's condition follows.  `LossInv` follows each
  draft through a push: once validated it is clean, and from then on it is yet to
  be done (`Pending`), the call under way is the one it asks for (`InHand`), or
  `work` has its page with a newest revision that is what it asked for (`Made`), on
  which no later draft of the push can put another.  So when the final `DELETE`
  takes all drafts under the scope, all of them have been published.

`AclProofs` assumes `AclAssumption`: typing of the constants, that `sync`
requires `read`, and that nothing is called `Null`.  The tree, its depth, what
lies below what in it, the requirement relation (cycles included), roles, groups
and entries are arbitrary.

* `TypeCorrect`; the strengthening `Typed` types the loop's variables against
  the context the call was made with.
* `ContextIsRule`: `Spec => []ContextAgrees`.  The invariant `LoopInv` says what
  the loops know half way: `floor_depth` is the deepest of the cuts looked at
  that contains the path (`FloorOK`), and `best` and `verdict` are the nearest
  eligible source looked at, deny first (`BestOK`).  When both loops are done,
  `EligibleIsApplicable` turns depths above the floor into the chain of
  `acl_chain`: this is where leaving out the cuts without an entry above them
  is justified, since two ancestors of one path contain one another
  (`AncestorsNest`).
* `AllowNearerThanDenies` restates `ORDER BY distance, deny first LIMIT 1`
  without a first row: access is allowed exactly if some allow is nearer than
  every deny.  It needs a nearest entry to exist, which is the well-foundedness
  of the naturals.  With it the rest is short: `RequirementsHold` (allows grow
  and denies shrink along a requirement), `TraverseIsExact`,
  `FoldersAlwaysLeadOn` (from the two before: the folder has what is syncable
  below it, for `sync` and so for `read`), and `EditsMonotone` (allows that
  stay, denies that do not come).

`MountProofs` assumes `InodesAssumption` and `MountAssumption`: typing, distinct
null values and keys, paths that are finitely many and ranked.  Documents,
applications, menus and bounds are arbitrary.  Its invariants come in layers, each
proved from those before it:

* `Table`, of the inode table: counts are what the kernel holds (`HeldKept`), and
  a key leads to a number that leads back (`KeysLead`).  `TableAlwaysAgrees` and
  `OpenFilesKeepTheirKey` are about the table under any sequence of calls;
  `InodesAlwaysAgree` is about the calls the mount makes.
* `Shapes` types the mount's state, with what each operation may yet have to do
  (a list of steps is a tail of the operation's).  It is an invariant of
  its own since everything below needs it.
* `TokensHold`, hence `TokenAlwaysCoversTree`: a token is never ahead of the
  server's, and of a refresh under way each answer that was taken at the
  server's token is the server's.  A write between two of its requests moves
  the token on, and then nothing is claimed of the rest.
* `Seen`, hence `BasesAreSeen`: not only the rows the server has, but each row
  in the tree, in a refresh, in `checkedOut`, in a handle or in the hands of a
  task waiting for an answer has a base its user was told of.
* `TreeAhead`, `BodiesFresh`, `HandlesFresh`, hence `BasesNotNewerThanBodies`: a
  listing is not behind what the user was told, a cached body not behind the
  revision it is cached for, so what `open` puts together is in order although
  the listing and the body are two answers.
* `HandlesClean`, hence `CleanHandlesAreSaved`: what a flush knows at each of its
  steps of the text it is saving, whatever was written to the handle meanwhile.
* `Turns`, hence `MountTypeCorrect`: between two awaits a task runs alone.
* `ScratchesLead` and `Aims`, hence `RenamesResolve`: a number whose key is a scratch
  file's is the one that key leads to, since nothing is ever renamed to such a
  key; and a task half way through a rename still has the two names it was
  called with.  The same is not true of the key of a draft, and this proof found
  it out: `RenameResolves` once asked of the kernel's entry only that it leads to
  the file, which holds on the run but not in general.  A draft is pushed and its
  page moved, and the kernel files its number under the new name; another file is
  saved at the first name, so that the draft key leads to the new number while
  the old one keeps the key; that draft is reverted, the page moved back, the
  move reverted and the page retired; and a third file is saved there by a
  request whose answer is lost.  Now the kernel has the old number for a draft
  whose key leads to the other, and a rename of it moves the key of the other
  (`rekey` lets two numbers keep one key, inodes.py:84-85).  Until the kernel's
  entry expires the file reads back as missing, though test/test_mount.py:337 has
  it that "that inode has to start resolving to the new draft".  TLC follows
  these steps to the violation when nothing else may happen; the run `mount`
  does not reach them (eleven calls, four changes by others and a fault).  The
  property therefore also asks that the kernel's number for a draft be the
  table's; of an atomic save it asks no more than before.

`AuditProofs` assumes `AuditAssumption`: typing, distinct null values, events
numbered without gaps, and lines and batches that are not empty.

* `CapAlwaysHolds`.  The strengthening `Sizes`: a process that runs counts at
  least what is on disk (`size` runs ahead when a line was cut short, and never
  behind), and a line that found room by that count has room; one that died may
  have written part of a line it had not counted.
* `AuditTypeCorrect`, from `Sizes` and the states a shipment can be in.
* `AlwaysRecordedOnce` and `NothingIsLost`.  The invariant `Listed`: an event is
  in one place of one file and not while a fetch carries it (`Apart`); what a
  shipment has yet to send is the rest of the file, and all in front of it has
  been recorded; a batch that may still arrive after its request was given up is
  a stretch of the file with everything before it recorded, or of one event, or
  brings nothing new (`Ordered`); every event is somewhere or was dropped
  (`Accounted`).  The middle part is what makes order survive a batch that
  comes late and is sent again.
* `QueueKeepsTrail`: `Spec => TrailSpec`, by the mapping `Owed`.  Each action
  either puts one event at the end of what is owed (`PutKept`), moves a prefix of
  it or one event the server saw itself to the trail (`DueShipped`,
  `SeenWitnessed`), or leaves it alone (`Unseen`); a crash does the last, since a
  torn line was never owed.  Under it are lemmas on `Only`: the rank of a
  place, the selection from a concatenation, from a tail, and by a smaller set.

`SessionProofs` assumes `SessionAssumption`: typing, and that no text and no draft
are values of their own.  Pages, sections, terminals, menus and edits are
arbitrary.  A command is many requests and touches many pages, so the proofs
split a step twice: `Happens` lists all that can happen to one page, whoever does
it, and `Goes` all that can happen to one command.

* `SessionTypeCorrect`, from `Shapes`, which also bounds the edits in every text,
  draft and list by those made so far.
* `MarkersStayUnpublished`.  `Markers` adds (`ListsClear`) that a push has no markers
  in any draft it goes by.
* `BackupStaysTheUsers`.  `OwnTexts` adds that a draft without a backup has no
  markers itself (outside `marked` and `raced`).
* `SavedEditsAreKept`.  `EditsSafe` says where each edit is: published or
  replaced by something that is, in the row, in the backup, in the
  buffer, or thrown away by the user.  `AllFetched` says that what a merge is about
  to write was made from a revision and a draft it knew.
* `NoUpdateIsLost`.  `AllAccounted`: a revision covers all before it, the buffer the
  revision it shows, the draft the revision it claims, the backup the base;
  and what one sees behind an edit is closed.

`StartProofs` assumes `StartAssumption` and `ServeAssumption`: typing of the
constants, distinct null values, and databases to begin with that are empty or
were made by one release, and that no file before the one that revokes grants
visitors a table.  The bounds may be any numbers.

* `OneMigratesAtATime`, `LedgerStaysTrue`, `OneReleaseAtATime`, `AccountsKeepGrants`.
  `Inv`: whoever is
  past the lock holds it, only they have a transaction (`Exclusive`), and ledger
  and tables agree in each transaction and in the database, or the database has
  never been migrated (`Ledgers`).  `Schema` adds what a transaction half way
  through the chain has run, so that what it commits is whole; of the grants it
  says (`GrantsReplayed`) that what the files so far grant is granted, which
  survives the revoke because no earlier file grants visitors anything, that
  visitors have no more once it has run, and that the accounts have lost nothing.
* `ServersServeTheirSchema` and `StartTypeCorrect`.  `Children` says that a server has a
  child only while it waits for it or serves, and that a child that is up has
  read a schema no older than its server left.  That a process number is always left
  for a server that starts one is a count (`Counted`): numbers in use and servers on
  their way are at most the starts there were.
* `ServeRefinesStart`: every step of `Serve` is a step of `Start` or leaves all
  of it alone, so `Start`'s properties carry over (`ServedLedgerStaysTrue`,
  `ServedSchemaIsWhole`).
* `ReadersGetTheirOwn`.  `Reading`: every entry of a cache is a revision's own body
  (`Caches`, through eviction and reordering), and a request half way holds
  a body that was live in its window, for a page it may see in it (`ViewOf`).
* `ServeTypeCorrect`.  `Tally`: a cache's count is the weight of its entries, within
  the cap, and no two have one key (`CountedTo`), which a hit that moves an entry to
  the end, an entry put for a key not held and an eviction of the first few
  all keep.  `Weight` is the cardinality of the set of the entries' bytes, not a sum
  over a sequence: a sum is a recursion, which the prover cannot reason by,
  while that the weight of a concatenation is the sum of the weights
  (`WeightConcat`) follows from what is known of finite disjoint sets.

Model-checked only, every other property the runs check being proved:

* Liveness (`EveryRequestEnds`, `Converges`, `Delivered`, `CachesCatchUp`,
  `StartsEnd`): under fairness it is out of the prover's reach, as is `ENABLED`.

The prover has no induction over data and no `RECURSIVE` operators, so the modules
that are proved about have none.

## Plan

1. **Done**: `Revisions`, `Push`, their runs and seven theorems.
2. **Done**: `Acl`, its runs and six theorems.
3. **Done**: `Inodes`, `WorkingTree`, `Mount`, which has the refresh as well; its
   safety properties are proved.
4. **Done**: `Lists`, `AuditTrail`, `AuditQueue`; invariants and refinement proved.
5. **Done**: `Session`; its invariants are proved.
6. **Done**: `Start`, `Serve`; their safety properties are proved.
7. Left: `explain_acl`; concurrent edits of the role tables, where each rebuild
   of the closure sees its own snapshot; `Impersonation`; subdirectories in
   `Mount`.

## Not modelled

* The cascade over a renamed folder and the cycle check (`runtime/030`): neither
  the mount nor `wiki.push` moves a folder, so only SQL reaches them.
* Impersonation (`runtime/100`): all in the transaction of one request, before
  anything else modelled begins; what it must guarantee is about SQL privileges.
* Rebuilding the ACL closure and the cycle checks of the role tables: `Acl` takes
  the role tables as constants.
* Text: the line diff under a merge, rendering, highlighting, sanitising, search
  ranking, excerpts, reports.  They are functions without state; the models have
  what the rest depends on (conflict or not, which revision, which links).
* The connection pool, the token file, the preview and its live reload,
  packaging, development tools and the NixOS module.
