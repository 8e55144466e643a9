------------------------------- MODULE Start -------------------------------
(***************************************************************************)
(* fswiki-serve starting (server/__main__.py): bring the database to the   *)
(* schema of this release (migrate.py), start a PostgREST and wait until   *)
(* it answers (postgrest.py), serve.  Several servers of different         *)
(* releases start, stop and crash over one database.                       *)
(*                                                                         *)
(* A migration is one transaction under a session lock: work is what it    *)
(* has done so far, db what is committed.                                  *)
(***************************************************************************)
EXTENDS Naturals, FiniteSets

CONSTANTS Servers,
          Release,   \* server -> the release it runs, a number from 1 up
          Migrates,  \* the servers that run without --no-migrate
          Address,   \* server -> where its PostgREST listens
          Parts,     \* the files of runtime/, numbers in load order
          Grants,    \* release -> file -> what it grants on tables and schema
          Anonymous, \* the privileges of fswiki_anon on tables
          Revoking,  \* the file that revokes them, 060_roles.sql
          Existing,  \* the databases there can be before the first start
          Nobody, NoWork, NoProcess,
          MaxStarts, \* bound: servers started, in all
          MaxFaults  \* bound: crashes, failed statements, timeouts

Releases == {Release[s] : s \in Servers}

(* The chain is append-only: a release has all the files of those before.  *)
Tables(r) == 1..r

TableFiles == UNION {Tables(r) : r \in Releases}

(* What its files grant on tables, their columns and the schema.  What they*)
(* grant on functions and views comes and goes with those.                 *)
GrantsOf(r) == UNION {Grants[r][p] : p \in Parts}

Privileges == UNION {GrantsOf(r) : r \in Releases}

Database == [ledger  : SUBSET TableFiles,        \* wiki.schema_migration
             tables  : SUBSET TableFiles,        \* what is really there
             guessed : BOOLEAN,                  \* history: the ledger is the baseline of
                                                 \* a database older than it
             runtime : SUBSET (Releases \X Parts),   \* functions, views, policies, triggers
             grants  : SUBSET Privileges,
             root    : {"absent", "broken", "there"},
             changes : Nat]                      \* migrations so far

Process == [at : {Address[s] : s \in Servers}, state : {"starting", "loading", "up", "exited"},
            cache : Nat,       \* the database its schema cache is of
            told  : BOOLEAN]   \* a notification it has yet to act on

(* A schema that is all there: root; the runtime/ objects of one release  *)
(* and of no other, over its tables; whatever that release grants; and for *)
(* fswiki_anon no table that it does not grant.  The accounts may have kept*)
(* more from another release: nothing drops that.                          *)
Whole(d) ==
  /\ d.root = "there"
  /\ \E r \in Releases : /\ d.runtime = {r} \X Parts
                         /\ GrantsOf(r) \subseteq d.grants
                         /\ d.grants \cap Anonymous \subseteq GrantsOf(r)
                         /\ (d.guessed \/ Tables(r) \subseteq d.tables)

(* A database is new, or this program has loaded it before.                *)
ASSUME StartAssumption ==
  /\ Release \in [Servers -> Nat \ {0}] /\ Migrates \subseteq Servers
  /\ Parts \subseteq Nat /\ Revoking \in Parts
  /\ \A r \in Releases, p \in Parts : p < Revoking => Grants[r][p] \cap Anonymous = {}
  /\ Existing \subseteq Database
  /\ \A d \in Existing : /\ d.changes = 0 /\ (d.ledger = {} \/ d.ledger = d.tables)
                         /\ (d.tables = {} /\ d.root = "absent") \/ Whole(d)
  /\ Nobody \notin Servers /\ NoWork \notin Database /\ NoProcess \notin Process
  /\ MaxStarts \in Nat /\ MaxFaults \in Nat

VARIABLES db, work,    \* the database, and each server's transaction
          lock,        \* the server that holds MIGRATION_LOCK, or Nobody
          pc,          \* server -> what it does next
          left,        \* server -> table files it has yet to run
          proc,        \* the PostgREST processes, by the start they belong to
          child,       \* server -> its PostgREST, or 0
          since,       \* history: server -> db.changes when it had migrated
          starts, faults

vars == <<db, work, lock, pc, left, proc, child, since, starts, faults>>

Goto(s, step) == pc' = [pc EXCEPT ![s] = step]

-----------------------------------------------------------------------------
(* Migrating                                                               *)

(* A server is started: without --no-migrate it connects first.            *)
Begin(s) ==
  /\ pc[s] = "off" /\ starts < MaxStarts
  /\ starts' = starts + 1
  /\ Goto(s, IF s \in Migrates THEN "lock" ELSE "spawn")
  /\ since' = [since EXCEPT ![s] = 0]
  /\ UNCHANGED <<db, work, lock, left, proc, child, faults>>

(* Mutant of Lock: whoever would have to wait goes on.                     *)
LockOrNot(s) ==
  /\ pc[s] = "lock"
  /\ lock' = (IF lock = Nobody THEN s ELSE lock) /\ Goto(s, "ledger")
  /\ UNCHANGED <<db, work, left, proc, child, since, starts, faults>>

(* pg_try_advisory_lock, and pg_advisory_lock when it has to wait.         *)
Lock(s) ==
  /\ pc[s] = "lock" /\ lock = Nobody
  /\ lock' = s /\ Goto(s, "ledger")
  /\ UNCHANGED <<db, work, left, proc, child, since, starts, faults>>

(* Mutant of HasSchema: keyed on the schema the ledger has just created.   *)
HasSchemaByName == TRUE

HasSchema == db.tables # {}

(* The ledger is created and read; a database older than it is recorded as *)
(* being up to date, without running anything.                             *)
Ledger(s) ==
  LET mine == Tables(Release[s])
      baseline == db.ledger = {} /\ HasSchema
  IN
  /\ pc[s] = "ledger" /\ Goto(s, "chain")
  /\ work' = [work EXCEPT ![s] = IF baseline
                                 THEN [db EXCEPT !.ledger = mine, !.guessed = (db.tables # {})]
                                 ELSE db]
  /\ left' = [left EXCEPT ![s] = IF baseline THEN {} ELSE mine \ db.ledger]
  /\ UNCHANGED <<db, lock, proc, child, since, starts, faults>>

IsNext(s, f) == f \in left[s] /\ \A g \in left[s] : f <= g

(* One file, and the row that says it has run.                             *)
Chain(s) ==
  /\ pc[s] = "chain"
  /\ \E f \in left[s] :
       /\ IsNext(s, f) /\ f \notin work[s].tables
       /\ left' = [left EXCEPT ![s] = @ \ {f}]
       /\ work' = [work EXCEPT ![s].tables = @ \cup {f}, ![s].ledger = @ \cup {f}]
  /\ UNCHANGED <<db, lock, pc, proc, child, since, starts, faults>>

(* Mutant of DropRuntime: the drop is committed by itself.                 *)
DropRuntimeForGood(s) ==
  /\ pc[s] = "chain" /\ left[s] = {} /\ Goto(s, "replay")
  /\ work' = [work EXCEPT ![s].runtime = {}]
  /\ db' = work'[s]
  /\ UNCHANGED <<lock, left, proc, child, since, starts, faults>>

(* What the files of runtime/ made is dropped: policies, triggers,         *)
(* functions and views, the grants on those with them.  A grant on a table,*)
(* a column or the schema stays.                                           *)
DropRuntime(s) ==
  /\ pc[s] = "chain" /\ left[s] = {} /\ Goto(s, "replay")
  /\ work' = [work EXCEPT ![s].runtime = {}]
  /\ UNCHANGED <<db, lock, left, proc, child, since, starts, faults>>

(* Mutant of Revoked: nothing is taken back.                               *)
RevokedNot(granted, p) == granted

(* One file takes from fswiki_anon what it may do on tables, before any    *)
(* grants it something: new here, or a release before.                     *)
Revoked(granted, p) == IF p = Revoking THEN granted \ Anonymous ELSE granted

(* The next file of runtime/: it creates its objects and grants.           *)
Replay(s) ==
  /\ pc[s] = "replay"
  /\ \E p \in Parts :
       /\ <<Release[s], p>> \notin work[s].runtime
       /\ \A q \in Parts : q < p => <<Release[s], q>> \in work[s].runtime
       /\ work' = [work EXCEPT ![s].runtime = @ \cup {<<Release[s], p>>},
                               ![s].grants = Revoked(@, p) \cup Grants[Release[s]][p]]
  /\ UNCHANGED <<db, lock, pc, left, proc, child, since, starts, faults>>

Replayed(s) == {Release[s]} \X Parts \subseteq work[s].runtime

(* The rows the wiki needs.  A trigger of runtime/ computes root's path.   *)
Seed(s) ==
  /\ pc[s] = "replay" /\ Replayed(s) /\ Goto(s, "commit")
  /\ work' = [work EXCEPT ![s].root = IF @ # "absent" THEN @
                                      ELSE IF Replayed(s) THEN "there" ELSE "broken"]
  /\ UNCHANGED <<db, lock, left, proc, child, since, starts, faults>>

(* Mutant of Notified: nobody is told.                                     *)
NotifiedNone(ps) == ps

(* pg_notify reaches whoever listens when the transaction commits.         *)
Notified(ps) ==
  [i \in DOMAIN ps |-> IF ps[i] # NoProcess /\ ps[i].state \in {"loading", "up"}
                       THEN [ps[i] EXCEPT !.told = TRUE] ELSE ps[i]]

(* The connection closes with the commit, and that releases the lock.      *)
Commit(s) ==
  /\ pc[s] = "commit" /\ Goto(s, "spawn")
  /\ db' = [work[s] EXCEPT !.changes = @ + 1]
  /\ since' = [since EXCEPT ![s] = db.changes + 1]
  /\ proc' = Notified(proc)
  /\ work' = [work EXCEPT ![s] = NoWork]
  /\ lock' = Nobody
  /\ UNCHANGED <<left, child, starts, faults>>

Migrating(s) == pc[s] \in {"lock", "ledger", "chain", "replay", "commit"}

(* Mutant of Released: a connection that outlives the failure.             *)
ReleasedNot(s) == lock

Released(s) == IF lock = s THEN Nobody ELSE lock

(* Mutant of AfterFailure: main goes on without the schema.                *)
AfterFailureServe == "spawn"

AfterFailure == "off"

Fault == faults < MaxFaults /\ faults' = faults + 1

(* MigrationError: the transaction is rolled back.                         *)
RolledBack(s) ==
  /\ lock' = Released(s) /\ Goto(s, AfterFailure)
  /\ work' = [work EXCEPT ![s] = NoWork] /\ left' = [left EXCEPT ![s] = {}]
  /\ UNCHANGED <<db, proc, child, since, starts>>

(* A file meets tables it was not written for: the table is there already, *)
(* or one that runtime/ speaks of is not.                                  *)
Refused(s) ==
  /\ \/ pc[s] = "chain" /\ \E f \in work[s].tables : IsNext(s, f)
     \/ pc[s] = "replay" /\ ~ (Tables(Release[s]) \subseteq work[s].tables)
  /\ RolledBack(s) /\ UNCHANGED faults

(* The database is out of reach, or a statement fails.                     *)
MigrationFails(s) == Migrating(s) /\ Fault /\ RolledBack(s)

-----------------------------------------------------------------------------
(* PostgREST                                                               *)

Processes == 1..MaxStarts

Alive(i) == proc[i] # NoProcess /\ proc[i].state # "exited"
Up(i) == proc[i] # NoProcess /\ proc[i].state = "up"

UpAt(a) == \E i \in Processes : Up(i) /\ proc[i].at = a

Fresh == CHOOSE i \in Processes : proc[i] = NoProcess

(* Popen.                                                                  *)
Spawn(s) ==
  /\ pc[s] = "spawn" /\ Goto(s, "poll")
  /\ child' = [child EXCEPT ![s] = Fresh]
  /\ proc' = [proc EXCEPT ![Fresh] = [at |-> Address[s], state |-> "starting",
                                      cache |-> 0, told |-> FALSE]]
  /\ UNCHANGED <<db, work, lock, left, since, starts, faults>>

Same == UNCHANGED <<db, work, lock, pc, left, child, since, starts, faults>>

(* It connects and listens on the channel, and then reads the schema.      *)
Connect(i) ==
  /\ Alive(i) /\ proc[i].state = "starting"
  /\ proc' = [proc EXCEPT ![i].state = "loading"]
  /\ Same

(* The address may be taken: it exits.                                     *)
ReadSchema(i) ==
  /\ Alive(i) /\ proc[i].state = "loading"
  /\ proc' = [proc EXCEPT ![i].cache = db.changes,
                          ![i].state = IF UpAt(proc[i].at) THEN "exited" ELSE "up"]
  /\ Same

Reload(i) ==
  /\ Up(i) /\ proc[i].told
  /\ proc' = [proc EXCEPT ![i].cache = db.changes, ![i].told = FALSE]
  /\ Same

Dies(i) ==
  /\ Alive(i) /\ Fault
  /\ proc' = [proc EXCEPT ![i].state = "exited"]
  /\ UNCHANGED <<db, work, lock, pc, left, child, since, starts>>

(* One round of the wait: first whether the child has exited ...           *)
Poll(s) ==
  /\ pc[s] = "poll"
  /\ \/ Alive(child[s]) /\ Goto(s, "answers") /\ UNCHANGED child
     \/ ~ Alive(child[s]) /\ Goto(s, "off") /\ child' = [child EXCEPT ![s] = 0]
  /\ UNCHANGED <<db, work, lock, left, proc, since, starts, faults>>

(* ... and then whether anything answers at the address.                   *)
Answers(s) ==
  /\ pc[s] = "answers"
  /\ Goto(s, IF UpAt(Address[s]) THEN "serving" ELSE "poll")
  /\ UNCHANGED <<db, work, lock, left, proc, child, since, starts, faults>>

(* Postgrest.stop                                                          *)
Stopped(s) ==
  /\ proc' = [proc EXCEPT ![child[s]].state = "exited"]
  /\ child' = [child EXCEPT ![s] = 0]

(* No answer within the time start() allows.                               *)
TimeOut(s) ==
  /\ pc[s] \in {"poll", "answers"} /\ Goto(s, "off")
  /\ Stopped(s)
  /\ UNCHANGED <<db, work, lock, left, since, starts, faults>>

(* uvicorn returns, or never could bind its own port.                      *)
Stop(s) ==
  /\ pc[s] = "serving" /\ Goto(s, "off")
  /\ Stopped(s)
  /\ UNCHANGED <<db, work, lock, left, since, starts, faults>>

(* /healthz answers 503 once the child has stopped, and the server is      *)
(* restarted.                                                              *)
Probed(s) == Stop(s) /\ ~ Alive(child[s])

(* The server is killed: its connection closes, its PostgREST lives on.    *)
Crash(s) ==
  /\ pc[s] # "off" /\ Fault /\ Goto(s, "off")
  /\ lock' = Released(s)
  /\ work' = [work EXCEPT ![s] = NoWork] /\ left' = [left EXCEPT ![s] = {}]
  /\ child' = [child EXCEPT ![s] = 0]
  /\ UNCHANGED <<db, proc, since, starts>>

-----------------------------------------------------------------------------

Init ==
  /\ db \in Existing
  /\ work = [s \in Servers |-> NoWork]
  /\ lock = Nobody
  /\ pc = [s \in Servers |-> "off"]
  /\ left = [s \in Servers |-> {}]
  /\ proc = [i \in Processes |-> NoProcess]
  /\ child = [s \in Servers |-> 0]
  /\ since = [s \in Servers |-> 0]
  /\ starts = 0 /\ faults = 0

Statement(s) == Ledger(s) \/ Chain(s) \/ DropRuntime(s) \/ Replay(s) \/ Seed(s) \/ Commit(s)

Next ==
  \/ \E s \in Servers : \/ Begin(s) \/ Lock(s)
                        \/ Statement(s)
                        \/ Refused(s) \/ MigrationFails(s)
                        \/ Spawn(s) \/ Poll(s) \/ Answers(s)
                        \/ TimeOut(s) \/ Stop(s) \/ Probed(s) \/ Crash(s)
  \/ \E i \in Processes : Connect(i) \/ ReadSchema(i) \/ Reload(i) \/ Dies(i)

(* Statements end; a lock that is free is granted; the wait for PostgREST  *)
(* has a deadline; a notification reaches a connection that lasts; and     *)
(* somebody asks for /healthz.                                             *)
Fairness ==
  /\ \A s \in Servers : /\ WF_vars(Lock(s))
                        /\ WF_vars(Statement(s) \/ Refused(s))
                        /\ WF_vars(Spawn(s))
                        /\ WF_vars(TimeOut(s))
                        /\ WF_vars(Probed(s))
  /\ \A i \in Processes : WF_vars(ReadSchema(i)) /\ WF_vars(Reload(i))

Spec == Init /\ [][Next]_vars /\ Fairness

-----------------------------------------------------------------------------
(* Properties                                                              *)

(* What every variable holds; and whoever has a transaction under way      *)
(* holds the advisory lock of migrate().                                   *)
TypeOK ==
  /\ db \in Database
  /\ work \in [Servers -> Database \cup {NoWork}]
  /\ lock \in Servers \cup {Nobody}
  /\ pc \in [Servers -> {"off", "lock", "ledger", "chain", "replay", "commit",
                         "spawn", "poll", "answers", "serving"}]
  /\ left \in [Servers -> SUBSET TableFiles]
  /\ proc \in [Processes -> Process \cup {NoProcess}]
  /\ child \in [Servers -> Processes \cup {0}]
  /\ since \in [Servers -> Nat]
  /\ starts \in 0..MaxStarts /\ faults \in 0..MaxFaults
  /\ \A s \in Servers : work[s] # NoWork => lock = s

(* Once this program has migrated a database, wiki.schema_migration names  *)
(* the table files that are really in it, neither more nor fewer; only     *)
(* where it baselined a database older than the ledger did it guess.       *)
LedgerIsTrue == db.changes > 0 /\ ~ db.guessed => db.ledger = db.tables

(* At every moment a client can look, the functions, views, policies and   *)
(* triggers are all of one release and none of another, over tables that   *)
(* release knows; what it grants is granted, and a visitor without an      *)
(* account has no table beyond that; and root is there with its path.      *)
(* Drop, replay and seed show up together or not at all.  For the accounts *)
(* it does not say that no grant of another release is left: migrate.py:21 *)
(* counts every grant among what is dropped and replayed, and those on     *)
(* tables are not dropped.                                                 *)
OneRelease == db.tables # {} => Whole(db)

(* A server that serves has migrated, the tables of its release are there, *)
(* and its own PostgREST, while it is up, has read a schema at least as    *)
(* new as the one the server left behind.                                  *)
ServesItsSchema ==
  \A s \in Migrates : pc[s] = "serving" =>
    /\ since[s] # 0
    /\ (db.guessed \/ Tables(Release[s]) \subseteq db.tables)
    /\ child[s] # 0 /\ Up(child[s]) => proc[child[s]].cache >= since[s]

(* A PostgREST that stays up gets to answer from the schema as it is, also *)
(* when it is another server that migrates: that is what the notification  *)
(* in migrate()'s transaction is for.                                      *)
CachesCatchUp ==
  \A i \in Processes : [](Up(i) => <>(~ Up(i) \/ proc[i].cache = db.changes))

(* A start comes to an end, serving through a PostgREST of its own that is *)
(* alive or not at all: nobody keeps the lock, start() does not wait for   *)
(* ever, and a server whose child has died does not stay up to answer 502, *)
(* not even one whose start() took another server's PostgREST for its own. *)
StartsEnd ==
  \A s \in Servers :
    [](pc[s] # "off" => <>(pc[s] = "off" \/ (pc[s] = "serving" /\ Alive(child[s]))))
=============================================================================
