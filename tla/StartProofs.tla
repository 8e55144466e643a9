---------------------------- MODULE StartProofs ----------------------------
(* What holds of every set of servers, releases and databases: one         *)
(* migration at a time, and a ledger that says what was run; and of every  *)
(* set of readers and pages: each is answered their own page, and a cache  *)
(* counts what it holds.                                                   *)
EXTENDS Serve, SequenceTheorems, FiniteSetTheorems, TLAPS

Inside == {"chain", "replay", "commit"}

Outside == {"off", "lock", "spawn", "poll", "answers", "serving"}

Types ==
  /\ db \in Database
  /\ work \in [Servers -> Database \cup {NoWork}]
  /\ pc \in [Servers -> Inside \cup Outside \cup {"ledger"}]
  /\ left \in [Servers -> SUBSET TableFiles]

(* Who is past the lock holds it, and only inside is there a transaction.  *)
Exclusive ==
  \A s \in Servers : /\ pc[s] \in Inside \cup {"ledger"} => lock = s
                     /\ work[s] # NoWork <=> pc[s] \in Inside

Agree(d) == d.guessed \/ d.ledger = d.tables

Ledgers ==
  /\ Agree(db) \/ (db.ledger = {} /\ db.changes = 0)
  /\ \A s \in Servers : work[s] # NoWork => Agree(work[s])

Inv == Types /\ Exclusive /\ Ledgers

(* Before any server has started, on any database there may be.            *)
LEMMA InitInv == Init => Inv
<1> SUFFICES ASSUME Init PROVE Inv
  OBVIOUS
<1> USE StartAssumption DEF Init
<1>1. Types
  BY DEF Types, Inside, Outside
<1>2. Exclusive
  BY DEF Exclusive, Inside
<1>3. Ledgers
  BY DEF Ledgers, Agree
<1> QED
  BY <1>1, <1>2, <1>3 DEF Inv

(* A release's files are among all the files.                              *)
LEMMA FilesOfServer ==
  ASSUME NEW s \in Servers PROVE Tables(Release[s]) \subseteq TableFiles
BY DEF TableFiles, Releases

(* A server's release is among the releases.                               *)
LEMMA ReleaseOfServer ==
  ASSUME NEW s \in Servers PROVE Release[s] \in Releases
BY DEF Releases

(* What a file grants is among what its release grants, and all there is.  *)
LEMMA GrantsOfFile ==
  ASSUME NEW s \in Servers, NEW p \in Parts
  PROVE  /\ Grants[Release[s]][p] \subseteq GrantsOf(Release[s])
         /\ GrantsOf(Release[s]) \subseteq Privileges
BY ReleaseOfServer DEF GrantsOf, Privileges

(* The ledger is read, or the baseline written: they agree from there on.  *)
LEMMA LedgerStep ==
  ASSUME Inv, NEW s \in Servers, Ledger(s) PROVE Inv'
<1> DEFINE mine == Tables(Release[s])
           baseline == db.ledger = {} /\ HasSchema
           d == IF baseline THEN [db EXCEPT !.ledger = mine, !.guessed = (db.tables # {})]
                ELSE db
<1>1. work' = [work EXCEPT ![s] = d] /\ pc' = [pc EXCEPT ![s] = "chain"]
      /\ left' = [left EXCEPT ![s] = IF baseline THEN {} ELSE mine \ db.ledger]
      /\ pc[s] = "ledger" /\ UNCHANGED <<db, lock>>
  BY DEF Ledger, Goto
<1>2. mine \subseteq TableFiles
  BY FilesOfServer
<1>3. d \in Database
  BY <1>2 DEF Inv, Types, Database
<1>4. d # NoWork
  BY <1>3, StartAssumption
<1>5. Agree(d)
  BY DEF Inv, Ledgers, Agree, HasSchema, Types, Database
<1> HIDE DEF d
<1>6. Types'
  BY <1>1, <1>2, <1>3 DEF Inv, Types, Inside, Outside
<1>7. Exclusive'
  BY <1>1, <1>4 DEF Inv, Types, Exclusive, Inside, Outside
<1>8. Ledgers'
  BY <1>1, <1>5 DEF Inv, Types, Ledgers, Agree
<1> QED
  BY <1>6, <1>7, <1>8 DEF Inv

(* A step inside the transaction that leaves db alone.                     *)
LEMMA WorkStep ==
  ASSUME Inv, NEW s \in Servers, NEW d \in Database, NEW p \in Inside,
         pc[s] \in Inside, Agree(d), db' = db, lock' = lock,
         work' = [work EXCEPT ![s] = d], pc' = [pc EXCEPT ![s] = p],
         left' \in [Servers -> SUBSET TableFiles]
  PROVE  Inv'
<1>1. d # NoWork
  BY StartAssumption
<1>2. Types'
  BY DEF Inv, Types, Inside, Outside
<1>3. Exclusive'
  BY <1>1 DEF Inv, Types, Exclusive, Inside, Outside
<1>4. Ledgers'
  BY DEF Inv, Types, Ledgers, Agree
<1> QED
  BY <1>2, <1>3, <1>4 DEF Inv

(* A server that leaves the transaction, or has none: nothing is committed.*)
LEMMA OutStep ==
  ASSUME Inv, NEW s \in Servers, NEW p \in Outside,
         db' = db, lock' = lock \/ lock' = Released(s),
         work' = [work EXCEPT ![s] = NoWork], pc' = [pc EXCEPT ![s] = p],
         left' \in [Servers -> SUBSET TableFiles]
  PROVE  Inv'
<1>1. Types'
  BY DEF Inv, Types
<1>2. Exclusive'
  BY DEF Inv, Types, Exclusive, Inside, Outside, Released
<1>3. Ledgers'
  BY DEF Inv, Types, Ledgers, Agree
<1> QED
  BY <1>1, <1>2, <1>3 DEF Inv

(* A file of the chain and its row come together.                          *)
LEMMA ChainStep ==
  ASSUME Inv, NEW s \in Servers, Chain(s) PROVE Inv'
<1>1. PICK f \in left[s] :
        /\ left' = [left EXCEPT ![s] = @ \ {f}]
        /\ work' = [work EXCEPT ![s].tables = @ \cup {f}, ![s].ledger = @ \cup {f}]
  BY DEF Chain
<1>2. pc[s] = "chain" /\ UNCHANGED <<db, lock, pc>>
  BY DEF Chain
<1>3. work[s] \in Database /\ Agree(work[s])
  BY <1>2 DEF Inv, Types, Exclusive, Inside, Ledgers
<1>4. f \in TableFiles
  BY DEF Inv, Types
<1> DEFINE d == [work[s] EXCEPT !.tables = @ \cup {f}, !.ledger = @ \cup {f}]
<1>5. d \in Database /\ Agree(d)
  BY <1>3, <1>4 DEF Database, Agree
<1>6. work' = [work EXCEPT ![s] = d]
  BY <1>1 DEF Inv, Types
<1>7. pc' = [pc EXCEPT ![s] = "chain"] /\ "chain" \in Inside
  BY <1>2 DEF Inv, Types, Inside
<1>8. left' \in [Servers -> SUBSET TableFiles]
  BY <1>1 DEF Inv, Types
<1> HIDE DEF d
<1> QED
  BY <1>2, <1>5, <1>6, <1>7, <1>8, WorkStep

(* What is done to runtime/ and to root leaves tables and ledger alone.    *)
LEMMA RuntimeStep ==
  ASSUME Inv, NEW s \in Servers, DropRuntime(s) \/ Replay(s) \/ Seed(s) PROVE Inv'
<1>1. pc[s] \in Inside /\ UNCHANGED <<db, lock, left>>
  BY DEF DropRuntime, Replay, Seed, Inside
<1>2. work[s] \in Database /\ Agree(work[s])
  BY <1>1 DEF Inv, Types, Exclusive, Ledgers
<1>3. left' \in [Servers -> SUBSET TableFiles]
  BY <1>1 DEF Inv, Types
<1>4. CASE DropRuntime(s)
  <2> DEFINE d == [work[s] EXCEPT !.runtime = {}]
  <2>1. d \in Database /\ Agree(d)
    BY <1>2 DEF Database, Agree
  <2>2. work' = [work EXCEPT ![s] = d] /\ pc' = [pc EXCEPT ![s] = "replay"]
    BY <1>4 DEF DropRuntime, Goto, Inv, Types
  <2>3. "replay" \in Inside
    BY DEF Inside
  <2> HIDE DEF d
  <2> QED
    BY <1>1, <1>3, <2>1, <2>2, <2>3, WorkStep
<1>5. CASE Replay(s)
  <2>1. PICK p \in Parts :
          work' = [work EXCEPT ![s].runtime = @ \cup {<<Release[s], p>>},
                               ![s].grants = Revoked(@, p) \cup Grants[Release[s]][p]]
    BY <1>5 DEF Replay
  <2> DEFINE g == Revoked(work[s].grants, p) \cup Grants[Release[s]][p]
             d == [work[s] EXCEPT !.runtime = @ \cup {<<Release[s], p>>}, !.grants = g]
  <2>5. g \subseteq Privileges
    BY <1>2, GrantsOfFile DEF Revoked, Database
  <2>3. work' = [work EXCEPT ![s] = d] /\ pc' = [pc EXCEPT ![s] = "replay"]
    BY <1>5, <2>1 DEF Replay, Inv, Types
  <2> HIDE DEF g
  <2>6. d \in Database
    <3>1. work[s].runtime \cup {<<Release[s], p>>} \subseteq Releases \X Parts
      BY <1>2, ReleaseOfServer DEF Database
    <3> QED
      BY <1>2, <2>5, <3>1 DEF Database
  <2>7. d.guessed = work[s].guessed /\ d.ledger = work[s].ledger /\ d.tables = work[s].tables
    BY <1>2 DEF Database
  <2>2. d \in Database /\ Agree(d)
    BY <1>2, <2>6, <2>7 DEF Agree
  <2>4. "replay" \in Inside
    BY DEF Inside
  <2> HIDE DEF d
  <2> QED
    BY <1>1, <1>3, <2>2, <2>3, <2>4, WorkStep
<1>6. CASE Seed(s)
  <2> DEFINE root == IF work[s].root # "absent" THEN work[s].root
                     ELSE IF Replayed(s) THEN "there" ELSE "broken"
             d == [work[s] EXCEPT !.root = root]
  <2>1. root \in {"absent", "broken", "there"}
    BY <1>2 DEF Database
  <2> HIDE DEF root
  <2>2. d \in Database /\ Agree(d)
    BY <1>2, <2>1 DEF Database, Agree
  <2>3. work' = [work EXCEPT ![s] = d] /\ pc' = [pc EXCEPT ![s] = "commit"]
    BY <1>6 DEF Seed, Goto, Inv, Types, root
  <2>4. "commit" \in Inside
    BY DEF Inside
  <2> HIDE DEF d
  <2> QED
    BY <1>1, <1>3, <2>2, <2>3, <2>4, WorkStep
<1> QED
  BY <1>4, <1>5, <1>6

(* What is committed is what was agreed; lock and transaction end together.*)
LEMMA CommitStep ==
  ASSUME Inv, NEW s \in Servers, Commit(s) PROVE Inv'
<1>1. pc[s] = "commit" /\ pc' = [pc EXCEPT ![s] = "spawn"] /\ lock' = Nobody
      /\ db' = [work[s] EXCEPT !.changes = @ + 1] /\ left' = left
      /\ work' = [work EXCEPT ![s] = NoWork]
  BY DEF Commit, Goto
<1>2. work[s] \in Database /\ Agree(work[s])
  BY <1>1 DEF Inv, Types, Exclusive, Inside, Ledgers
<1>3. db' \in Database /\ Agree(db')
  BY <1>1, <1>2 DEF Database, Agree
<1>4. lock = s
  BY <1>1 DEF Inv, Exclusive, Inside
<1>5. Types'
  BY <1>1, <1>3 DEF Inv, Types, Inside, Outside
<1>6. Exclusive'
  BY <1>1, <1>4, StartAssumption DEF Inv, Types, Exclusive, Inside, Outside
<1>7. Ledgers'
  BY <1>1, <1>3 DEF Inv, Types, Ledgers, Agree
<1> QED
  BY <1>5, <1>6, <1>7 DEF Inv

(* The lock is granted to one who has no transaction yet.                  *)
LEMMA LockStep ==
  ASSUME Inv, NEW s \in Servers, Lock(s) PROVE Inv'
<1>1. pc[s] = "lock" /\ lock = Nobody /\ lock' = s /\ pc' = [pc EXCEPT ![s] = "ledger"]
      /\ UNCHANGED <<db, work, left>>
  BY DEF Lock, Goto
<1>2. Types'
  BY <1>1 DEF Inv, Types, Inside, Outside
<1>3. Exclusive'
  BY <1>1, StartAssumption DEF Inv, Types, Exclusive, Inside, Outside
<1>4. Ledgers'
  BY <1>1 DEF Inv, Ledgers, Agree
<1> QED
  BY <1>2, <1>3, <1>4 DEF Inv

(* Steps of a server that has no transaction before or after.              *)
LEMMA ServerStep ==
  ASSUME Inv, NEW s \in Servers,
         Begin(s) \/ Spawn(s) \/ Poll(s) \/ Answers(s) \/ TimeOut(s) \/ Stop(s) \/ Probed(s)
  PROVE  Inv'
<1>1. pc[s] \in {"off", "spawn", "poll", "answers", "serving"}
      /\ UNCHANGED <<db, work, lock, left>>
  BY DEF Begin, Spawn, Poll, Answers, TimeOut, Stop, Probed
<1>2. PICK p \in Outside : pc' = [pc EXCEPT ![s] = p]
  BY DEF Begin, Spawn, Poll, Answers, TimeOut, Stop, Probed, Goto, Outside
<1>3. work[s] = NoWork
  BY <1>1 DEF Inv, Exclusive, Inside
<1>4. work' = [work EXCEPT ![s] = NoWork]
  BY <1>1, <1>3 DEF Inv, Types
<1>5. left' \in [Servers -> SUBSET TableFiles]
  BY <1>1 DEF Inv, Types
<1> QED
  BY <1>1, <1>2, <1>4, <1>5, OutStep

(* A migration that fails, and a server that is killed at any moment.      *)
LEMMA RollbackStep ==
  ASSUME Inv, NEW s \in Servers, Refused(s) \/ MigrationFails(s) \/ Crash(s)
  PROVE  Inv'
<1>1. /\ lock' = Released(s) /\ pc' = [pc EXCEPT ![s] = "off"] /\ db' = db
      /\ work' = [work EXCEPT ![s] = NoWork] /\ left' = [left EXCEPT ![s] = {}]
  BY DEF Refused, MigrationFails, Crash, RolledBack, Goto, AfterFailure
<1>2. "off" \in Outside
  BY DEF Outside
<1>3. left' \in [Servers -> SUBSET TableFiles]
  BY <1>1 DEF Inv, Types
<1> QED
  BY <1>1, <1>2, <1>3, OutStep

(* PostgREST touches none of it.                                           *)
LEMMA ProcessStep ==
  ASSUME Inv, NEW i \in Processes, Connect(i) \/ ReadSchema(i) \/ Reload(i) \/ Dies(i)
  PROVE  Inv'
<1>1. UNCHANGED <<db, work, lock, pc, left>>
  BY DEF Connect, ReadSchema, Reload, Dies, Same
<1> QED
  BY <1>1 DEF Inv, Types, Exclusive, Ledgers, Agree

(* Every step preserves the invariant.                                     *)
LEMMA NextInv == Inv /\ [Next]_vars => Inv'
<1> SUFFICES ASSUME Inv, [Next]_vars PROVE Inv'
  OBVIOUS
<1>1. CASE UNCHANGED vars
  BY <1>1 DEF vars, Inv, Types, Exclusive, Ledgers, Agree
<1>2. ASSUME NEW s \in Servers, Statement(s) PROVE Inv'
  BY <1>2, LedgerStep, ChainStep, RuntimeStep, CommitStep DEF Statement
<1>3. ASSUME NEW s \in Servers,
             \/ Begin(s) \/ Lock(s) \/ Refused(s) \/ MigrationFails(s) \/ Spawn(s)
             \/ Poll(s) \/ Answers(s) \/ TimeOut(s) \/ Stop(s) \/ Probed(s) \/ Crash(s)
      PROVE  Inv'
  BY <1>3, LockStep, ServerStep, RollbackStep
<1> QED
  BY <1>1, <1>2, <1>3, ProcessStep DEF Next

(* The inductive invariant of migrate(): transactions only under the lock, *)
(* and a ledger that agrees with the tables, in each of them.              *)
THEOREM InvHolds == Spec => []Inv
BY InitInv, NextInv, PTL DEF Spec

(* Whatever servers start, overlap, fail or are killed: no two of them are *)
(* in a migration at the same time (migrate.py, the advisory lock).        *)
THEOREM OneMigratesAtATime ==
  Spec => [](\A s, t \in Servers :
               pc[s] \in Inside /\ pc[t] \in Inside => s = t)
<1>1. Inv => \A s, t \in Servers : pc[s] \in Inside /\ pc[t] \in Inside => s = t
  BY DEF Inv, Exclusive
<1> QED
  BY <1>1, InvHolds, PTL

(* The ledger names exactly the table files that were run, for any chain   *)
(* of releases; only the baseline of an older database is taken on trust.  *)
THEOREM LedgerStaysTrue == Spec => []LedgerIsTrue
<1>1. Inv => LedgerIsTrue
  BY DEF Inv, Ledgers, Agree, LedgerIsTrue, Types, Database
<1> QED
  BY <1>1, InvHolds, PTL

-----------------------------------------------------------------------------
(* What is committed, and what a server that has migrated relies on        *)

Past == {"spawn", "poll", "answers", "serving"}

(* The files of a release run in order; what those so far grant is granted,*)
(* and fswiki_anon has no more than that once the one that revokes has run.*)
GrantsReplayed(runtime, grants, r) ==
  /\ \A p \in Parts, q \in Parts : q < p /\ <<r, p>> \in runtime => <<r, q>> \in runtime
  /\ \A p \in Parts : <<r, p>> \in runtime => Grants[r][p] \subseteq grants
  /\ <<r, Revoking>> \in runtime => grants \cap Anonymous \subseteq GrantsOf(r)

(* The next file keeps that: no file before the one that revokes grants    *)
(* what it takes away.                                                     *)
LEMMA NextFileGrants ==
  ASSUME NEW s \in Servers, NEW p \in Parts, NEW runtime, NEW grants,
         GrantsReplayed(runtime, grants, Release[s]),
         <<Release[s], p>> \notin runtime,
         \A q \in Parts : q < p => <<Release[s], q>> \in runtime
  PROVE  GrantsReplayed(runtime \cup {<<Release[s], p>>},
                        Revoked(grants, p) \cup Grants[Release[s]][p], Release[s])
<1> DEFINE r == Release[s]
           then == runtime \cup {<<r, p>>}
           now == Revoked(grants, p) \cup Grants[r][p]
<1>1. r \in Releases /\ Parts \subseteq Nat /\ Grants[r][p] \subseteq GrantsOf(r)
  BY ReleaseOfServer, GrantsOfFile, StartAssumption
<1>2. /\ \A q \in Parts, t \in Parts : t < q /\ <<r, q>> \in runtime => <<r, t>> \in runtime
      /\ \A q \in Parts : <<r, q>> \in runtime => Grants[r][q] \subseteq grants
      /\ <<r, Revoking>> \in runtime => grants \cap Anonymous \subseteq GrantsOf(r)
      /\ <<r, p>> \notin runtime
      /\ \A q \in Parts : q < p => <<r, q>> \in runtime
  BY DEF GrantsReplayed
<1> HIDE DEF r
<1>3. ASSUME NEW q \in Parts PROVE <<r, q>> \in then <=> q = p \/ <<r, q>> \in runtime
  OBVIOUS
<1>4. ASSUME NEW q \in Parts, <<r, q>> \in runtime PROVE q < p
  <2>1. q # p /\ ~ (p < q)
    BY <1>2, <1>4
  <2> QED
    BY <1>1, <2>1
<1> HIDE DEF then
<1>5. \A q \in Parts, t \in Parts : t < q /\ <<r, q>> \in then => <<r, t>> \in then
  BY <1>2, <1>3
<1>6. ASSUME NEW q \in Parts, <<r, q>> \in then PROVE Grants[r][q] \subseteq now
  <2>1. CASE q = p
    BY <2>1
  <2>2. CASE <<r, q>> \in runtime
    <3>1. Grants[r][q] \subseteq grants /\ q < p
      BY <1>2, <1>4, <2>2
    <3>2. p = Revoking => Grants[r][q] \cap Anonymous = {}
      BY <1>1, <3>1, StartAssumption
    <3> QED
      BY <3>1, <3>2 DEF Revoked
  <2> QED
    BY <1>3, <1>6, <2>1, <2>2
<1>7. <<r, Revoking>> \in then => now \cap Anonymous \subseteq GrantsOf(r)
  <2>1. CASE p = Revoking
    BY <1>1, <2>1 DEF Revoked
  <2>2. CASE p # Revoking
    <3>1. Revoking \in Parts
      BY StartAssumption
    <3> QED
      BY <1>1, <1>2, <1>3, <2>2, <3>1 DEF Revoked
  <2> QED
    BY <2>1, <2>2
<1> QED
  BY <1>5, <1>6, <1>7 DEF GrantsReplayed, r, then

(* A transaction builds on what is committed and takes nothing from the    *)
(* accounts; when its chain is through, the tables of its release are      *)
(* there, and only its release is replayed.  A server that is past it      *)
(* finds them in the database from then on.                                *)
SchemaOf(s) ==
  /\ pc[s] \in Inside =>
       /\ work[s].root \in {"absent", "there"}
       /\ work[s].guessed \/ Tables(Release[s]) \subseteq work[s].tables \cup left[s]
       /\ db.tables \subseteq work[s].tables /\ (db.guessed => work[s].guessed)
       /\ work[s].changes = db.changes
       /\ db.grants \ Anonymous \subseteq work[s].grants
  /\ pc[s] \in {"replay", "commit"} =>
       /\ left[s] = {} /\ work[s].runtime \subseteq {Release[s]} \X Parts
       /\ GrantsReplayed(work[s].runtime, work[s].grants, Release[s])
  /\ pc[s] = "commit" => Replayed(s) /\ work[s].root = "there"
  /\ since[s] \in Nat /\ since[s] <= db.changes
  /\ s \in Migrates /\ pc[s] \in Past =>
       since[s] # 0 /\ (db.guessed \/ Tables(Release[s]) \subseteq db.tables)

NewOrWhole(d) == (d.tables = {} /\ d.root = "absent") \/ Whole(d)

Schema ==
  /\ NewOrWhole(db)
  /\ since \in [Servers -> Nat]
  /\ \A s \in Servers : SchemaOf(s)

(* Before any server has started.                                          *)
LEMMA InitSchema == Init => Schema
<1> SUFFICES ASSUME Init PROVE Schema
  OBVIOUS
<1>1. NewOrWhole(db) /\ db.changes \in Nat
  BY StartAssumption DEF Init, NewOrWhole, Database
<1>2. ASSUME NEW s \in Servers PROVE SchemaOf(s)
  BY <1>1 DEF Init, SchemaOf, Inside, Past
<1> QED
  BY <1>1, <1>2 DEF Schema, Init

(* A step of one server that commits nothing changes nothing for another.  *)
LEMMA OtherSchema ==
  ASSUME Inv, Schema, NEW s \in Servers, NEW t \in Servers, t # s,
         db' = db, pc'[t] = pc[t], work'[t] = work[t], left'[t] = left[t],
         since'[t] = since[t]
  PROVE  SchemaOf(t)'
BY DEF Schema, SchemaOf, Replayed

(* What the ledger's reader starts from.                                   *)
LEMMA LedgerSchema ==
  ASSUME Inv, Schema, NEW s \in Servers, Ledger(s) PROVE Schema'
<1> DEFINE mine == Tables(Release[s])
           baseline == db.ledger = {} /\ HasSchema
           d == IF baseline THEN [db EXCEPT !.ledger = mine, !.guessed = (db.tables # {})]
                ELSE db
           l == IF baseline THEN {} ELSE mine \ db.ledger
<1>1. work' = [work EXCEPT ![s] = d] /\ pc' = [pc EXCEPT ![s] = "chain"]
      /\ left' = [left EXCEPT ![s] = l] /\ UNCHANGED <<db, since>>
  BY DEF Ledger, Goto
<1>2. d.root = db.root /\ d.tables = db.tables /\ d.changes = db.changes
      /\ d.grants = db.grants
  BY DEF Inv, Types, Database
<1>3. (db.guessed => d.guessed) /\ (d.guessed \/ mine \subseteq d.tables \cup l)
  BY DEF Inv, Types, Database, Ledgers, Agree, HasSchema
<1>4. db.root \in {"absent", "there"}
  BY DEF Schema, NewOrWhole, Whole
<1> HIDE DEF d, l
<1>5. work'[s] = d /\ left'[s] = l /\ pc'[s] = "chain" /\ since'[s] = since[s]
  BY <1>1 DEF Inv, Types, Schema
<1>6. SchemaOf(s)'
  BY <1>1, <1>2, <1>3, <1>4, <1>5 DEF Schema, SchemaOf, Past, Inside
<1>7. ASSUME NEW t \in Servers, t # s PROVE SchemaOf(t)'
  BY <1>1, <1>7, OtherSchema DEF Inv, Types
<1> QED
  BY <1>1, <1>6, <1>7 DEF Schema, NewOrWhole, Whole

(* A file of the chain moves from what is left to what is there.           *)
LEMMA ChainSchema ==
  ASSUME Inv, Schema, NEW s \in Servers, Chain(s) PROVE Schema'
<1>1. PICK f \in left[s] :
        /\ left' = [left EXCEPT ![s] = @ \ {f}]
        /\ work' = [work EXCEPT ![s].tables = @ \cup {f}, ![s].ledger = @ \cup {f}]
  BY DEF Chain
<1>2. pc[s] = "chain" /\ UNCHANGED <<db, pc, since>>
  BY DEF Chain
<1>3. work[s] \in Database
  BY <1>2 DEF Inv, Types, Exclusive, Inside
<1> DEFINE d == [work[s] EXCEPT !.tables = @ \cup {f}, !.ledger = @ \cup {f}]
<1>4. work'[s] = d /\ left'[s] = left[s] \ {f}
  BY <1>1 DEF Inv, Types
<1>5. /\ d.root = work[s].root /\ d.tables = work[s].tables \cup {f}
      /\ d.changes = work[s].changes /\ d.guessed = work[s].guessed
      /\ d.grants = work[s].grants
  BY <1>3 DEF Database
<1> HIDE DEF d
<1>6. SchemaOf(s)'
  BY <1>2, <1>4, <1>5 DEF Schema, SchemaOf, Past, Inside
<1>7. ASSUME NEW t \in Servers, t # s PROVE SchemaOf(t)'
  BY <1>1, <1>2, <1>7, OtherSchema DEF Inv, Types
<1> QED
  BY <1>2, <1>6, <1>7 DEF Schema, NewOrWhole, Whole

(* Drop, replay and seed: one release's objects, and root, once they are   *)
(* all there.                                                              *)
LEMMA RuntimeSchema ==
  ASSUME Inv, Schema, NEW s \in Servers, DropRuntime(s) \/ Replay(s) \/ Seed(s)
  PROVE  Schema'
<1>1. pc[s] \in Inside /\ UNCHANGED <<db, left, since>>
  BY DEF DropRuntime, Replay, Seed, Inside
<1>2. work[s] \in Database
  BY <1>1 DEF Inv, Types, Exclusive, Inside
<1>3. SchemaOf(s)
  BY DEF Schema
<1>4. CASE DropRuntime(s)
  <2> DEFINE d == [work[s] EXCEPT !.runtime = {}]
  <2>1. work' = [work EXCEPT ![s] = d] /\ pc' = [pc EXCEPT ![s] = "replay"] /\ left[s] = {}
    BY <1>4 DEF DropRuntime, Goto, Inv, Types
  <2>2. /\ d.root = work[s].root /\ d.tables = work[s].tables /\ d.runtime = {}
        /\ d.changes = work[s].changes /\ d.guessed = work[s].guessed
        /\ d.grants = work[s].grants
    BY <1>2 DEF Database
  <2> HIDE DEF d
  <2>3. work'[s] = d /\ pc'[s] = "replay"
    BY <2>1 DEF Inv, Types
  <2>6. GrantsReplayed({}, d.grants, Release[s])
    BY DEF GrantsReplayed
  <2>4. SchemaOf(s)'
    BY <1>1, <1>3, <2>1, <2>2, <2>3, <2>6 DEF SchemaOf, Past, Inside
  <2>5. ASSUME NEW t \in Servers, t # s PROVE SchemaOf(t)'
    BY <1>1, <2>1, <2>5, OtherSchema DEF Inv, Types
  <2> QED
    BY <1>1, <2>4, <2>5 DEF Schema, NewOrWhole, Whole
<1>5. CASE Replay(s)
  <2>1. PICK p \in Parts :
          /\ <<Release[s], p>> \notin work[s].runtime
          /\ \A q \in Parts : q < p => <<Release[s], q>> \in work[s].runtime
          /\ work' = [work EXCEPT ![s].runtime = @ \cup {<<Release[s], p>>},
                                  ![s].grants = Revoked(@, p) \cup Grants[Release[s]][p]]
    BY <1>5 DEF Replay
  <2> DEFINE g == Revoked(work[s].grants, p) \cup Grants[Release[s]][p]
             d == [work[s] EXCEPT !.runtime = @ \cup {<<Release[s], p>>}, !.grants = g]
  <2>2. work' = [work EXCEPT ![s] = d] /\ pc' = pc /\ pc[s] = "replay"
    BY <1>5, <2>1 DEF Replay, Inv, Types
  <2> HIDE DEF g
  <2>3. /\ d.root = work[s].root /\ d.tables = work[s].tables
        /\ d.runtime = work[s].runtime \cup {<<Release[s], p>>} /\ d.grants = g
        /\ d.changes = work[s].changes /\ d.guessed = work[s].guessed
    BY <1>2 DEF Database
  <2> HIDE DEF d
  <2>4. work'[s] = d
    BY <2>2 DEF Inv, Types
  <2>7. GrantsReplayed(d.runtime, d.grants, Release[s])
    <3>1. GrantsReplayed(work[s].runtime, work[s].grants, Release[s])
      BY <1>3, <2>2 DEF SchemaOf
    <3>2. GrantsReplayed(work[s].runtime \cup {<<Release[s], p>>}, g, Release[s])
      BY <2>1, <3>1, NextFileGrants DEF g
    <3> QED
      BY <2>3, <3>2
  <2>8. db.grants \ Anonymous \subseteq g
    BY <1>3, <2>2 DEF SchemaOf, Inside, g, Revoked
  <2>9. d.runtime \subseteq {Release[s]} \X Parts /\ left[s] = {}
    BY <1>3, <2>2, <2>3 DEF SchemaOf
  <2>10. /\ d.root \in {"absent", "there"} /\ d.changes = db.changes
         /\ d.guessed \/ Tables(Release[s]) \subseteq d.tables \cup left[s]
         /\ db.tables \subseteq d.tables /\ (db.guessed => d.guessed)
         /\ db.grants \ Anonymous \subseteq d.grants
    BY <1>3, <2>2, <2>3, <2>8 DEF SchemaOf, Inside
  <2>11. since[s] \in Nat /\ since[s] <= db.changes
    BY <1>3 DEF SchemaOf
  <2>5. SchemaOf(s)'
    BY <1>1, <2>2, <2>4, <2>7, <2>9, <2>10, <2>11 DEF SchemaOf, Past
  <2>6. ASSUME NEW t \in Servers, t # s PROVE SchemaOf(t)'
    BY <1>1, <2>2, <2>6, OtherSchema DEF Inv, Types
  <2> QED
    BY <1>1, <2>5, <2>6 DEF Schema, NewOrWhole, Whole
<1>6. CASE Seed(s)
  <2> DEFINE d == [work[s] EXCEPT !.root = "there"]
  <2>1. work[s].root \in {"absent", "there"} /\ Replayed(s)
    BY <1>1, <1>3, <1>6 DEF SchemaOf, Seed
  <2>2. work' = [work EXCEPT ![s] = d] /\ pc' = [pc EXCEPT ![s] = "commit"] /\ pc[s] = "replay"
    BY <1>2, <1>6, <2>1 DEF Seed, Goto, Inv, Types, Database
  <2>3. /\ d.root = "there" /\ d.tables = work[s].tables /\ d.runtime = work[s].runtime
        /\ d.changes = work[s].changes /\ d.guessed = work[s].guessed
        /\ d.grants = work[s].grants
    BY <1>2 DEF Database
  <2> HIDE DEF d
  <2>4. work'[s] = d /\ pc'[s] = "commit"
    BY <2>2 DEF Inv, Types
  <2>5. SchemaOf(s)'
    BY <1>1, <1>3, <2>1, <2>2, <2>3, <2>4 DEF SchemaOf, Past, Inside, Replayed
  <2>6. ASSUME NEW t \in Servers, t # s PROVE SchemaOf(t)'
    BY <1>1, <2>2, <2>6, OtherSchema DEF Inv, Types
  <2> QED
    BY <1>1, <2>5, <2>6 DEF Schema, NewOrWhole, Whole
<1> QED
  BY <1>4, <1>5, <1>6

(* What is committed is whole; whoever migrated before still finds its     *)
(* tables, and nobody else is in the middle of a migration.                *)
LEMMA CommitSchema ==
  ASSUME Inv, Schema, NEW s \in Servers, Commit(s) PROVE Schema'
<1>1. /\ pc[s] = "commit" /\ pc' = [pc EXCEPT ![s] = "spawn"]
      /\ db' = [work[s] EXCEPT !.changes = @ + 1]
      /\ since' = [since EXCEPT ![s] = db.changes + 1]
  BY DEF Commit, Goto
<1>2. work[s] \in Database /\ lock = s /\ db.changes \in Nat
  BY <1>1 DEF Inv, Types, Exclusive, Inside, Database
<1>3. SchemaOf(s) /\ pc[s] \in Inside
  BY <1>1 DEF Schema, Inside
<1>4. /\ db'.root = "there" /\ db'.tables = work[s].tables /\ db'.runtime = work[s].runtime
      /\ db'.guessed = work[s].guessed /\ db'.changes = db.changes + 1
      /\ db'.grants = work[s].grants
  BY <1>1, <1>2, <1>3 DEF Database, SchemaOf
<1>5. /\ db.tables \subseteq db'.tables /\ (db.guessed => db'.guessed)
      /\ db'.guessed \/ Tables(Release[s]) \subseteq db'.tables
  BY <1>1, <1>3, <1>4 DEF SchemaOf
<1>6. db'.runtime = {Release[s]} \X Parts
  BY <1>1, <1>3, <1>4 DEF SchemaOf, Replayed
<1>11. /\ GrantsOf(Release[s]) \subseteq db'.grants
       /\ db'.grants \cap Anonymous \subseteq GrantsOf(Release[s])
  <2>1. GrantsReplayed(db'.runtime, db'.grants, Release[s])
    BY <1>1, <1>3, <1>4 DEF SchemaOf
  <2>2. \A p \in Parts : <<Release[s], p>> \in db'.runtime
    BY <1>6
  <2>3. Revoking \in Parts
    BY StartAssumption
  <2> QED
    BY <2>1, <2>2, <2>3 DEF GrantsReplayed, GrantsOf
<1>7. Whole(db')
  BY <1>4, <1>5, <1>6, <1>11, ReleaseOfServer DEF Whole
<1>8. SchemaOf(s)'
  <2>1. pc'[s] = "spawn" /\ since'[s] = db.changes + 1
    BY <1>1 DEF Inv, Types, Schema
  <2> QED
    BY <1>2, <1>4, <1>5, <2>1 DEF SchemaOf, Inside, Past
<1>9. ASSUME NEW t \in Servers, t # s PROVE SchemaOf(t)'
  <2>1. pc'[t] = pc[t] /\ since'[t] = since[t] /\ SchemaOf(t)
    BY <1>1, <1>9 DEF Inv, Types, Schema
  <2>2. pc[t] \notin Inside
    BY <1>2, <1>9 DEF Inv, Exclusive
  <2> QED
    BY <1>2, <1>4, <1>5, <2>1, <2>2 DEF SchemaOf, Inside
<1>10. since' \in [Servers -> Nat]
  BY <1>1, <1>2 DEF Schema
<1> QED
  BY <1>7, <1>8, <1>9, <1>10 DEF Schema, NewOrWhole

(* The steps around a migration: nothing is past it that was not before.   *)
LEMMA QuietSchema ==
  ASSUME Inv, Schema, NEW s \in Servers,
         \/ Begin(s) \/ Lock(s) \/ Refused(s) \/ MigrationFails(s) \/ Spawn(s)
         \/ Poll(s) \/ Answers(s) \/ TimeOut(s) \/ Stop(s) \/ Probed(s) \/ Crash(s)
  PROVE  Schema'
<1>1. db' = db /\ since' \in [Servers -> Nat]
  BY DEF Begin, Lock, Refused, MigrationFails, Spawn, Poll, Answers, TimeOut, Stop, Probed,
         Crash, RolledBack, Schema
<1>2. ASSUME NEW t \in Servers, t # s
      PROVE  pc'[t] = pc[t] /\ work'[t] = work[t] /\ left'[t] = left[t] /\ since'[t] = since[t]
  BY <1>2 DEF Begin, Lock, Refused, MigrationFails, Spawn, Poll, Answers, TimeOut, Stop, Probed,
         Crash, RolledBack, Goto, AfterFailure, Inv, Types, Schema
<1>3. pc'[s] \notin Inside
  BY DEF Begin, Lock, Refused, MigrationFails, Spawn, Poll, Answers, TimeOut, Stop, Probed,
         Crash, RolledBack, Goto, AfterFailure, Inv, Types, Inside
<1>4. since'[s] = since[s] \/ since'[s] = 0
  BY DEF Begin, Lock, Refused, MigrationFails, Spawn, Poll, Answers, TimeOut, Stop, Probed,
         Crash, RolledBack, Schema
<1>5. s \in Migrates /\ pc'[s] \in Past => pc[s] \in Past /\ since'[s] = since[s]
  BY DEF Begin, Lock, Refused, MigrationFails, Spawn, Poll, Answers, TimeOut, Stop, Probed,
         Crash, RolledBack, Goto, AfterFailure, Inv, Types, Past
<1>6. SchemaOf(s)'
  <2>1. SchemaOf(s) /\ db.changes \in Nat
    BY DEF Schema, Inv, Types, Database
  <2> QED
    BY <1>1, <1>3, <1>4, <1>5, <2>1 DEF SchemaOf, Inside
<1>7. ASSUME NEW t \in Servers, t # s PROVE SchemaOf(t)'
  BY <1>1, <1>2, <1>7, OtherSchema
<1> QED
  BY <1>1, <1>6, <1>7 DEF Schema, NewOrWhole, Whole

(* Every step preserves it.                                                *)
LEMMA NextSchema == Inv /\ Schema /\ [Next]_vars => Schema'
<1> SUFFICES ASSUME Inv, Schema, [Next]_vars PROVE Schema'
  OBVIOUS
<1>1. ASSUME UNCHANGED <<db, work, pc, left, since>> PROVE Schema'
  BY <1>1 DEF Schema, NewOrWhole, Whole, SchemaOf, Replayed
<1>2. CASE UNCHANGED vars
  BY <1>1, <1>2 DEF vars
<1>3. ASSUME NEW s \in Servers, Statement(s) PROVE Schema'
  BY <1>3, LedgerSchema, ChainSchema, RuntimeSchema, CommitSchema DEF Statement
<1>4. ASSUME NEW s \in Servers,
             \/ Begin(s) \/ Lock(s) \/ Refused(s) \/ MigrationFails(s) \/ Spawn(s)
             \/ Poll(s) \/ Answers(s) \/ TimeOut(s) \/ Stop(s) \/ Probed(s) \/ Crash(s)
      PROVE  Schema'
  BY <1>4, QuietSchema
<1>5. ASSUME NEW i \in Processes, Connect(i) \/ ReadSchema(i) \/ Reload(i) \/ Dies(i)
      PROVE  Schema'
  BY <1>1, <1>5 DEF Connect, ReadSchema, Reload, Dies, Same
<1> QED
  BY <1>2, <1>3, <1>4, <1>5 DEF Next

(* The inductive invariant of what is committed and of what is under way.  *)
THEOREM SchemaHolds == Spec => []Schema
<1>1. Inv /\ Schema /\ [Next]_vars => Schema'
  BY NextSchema
<1> QED
  BY InitSchema, InvHolds, <1>1, PTL DEF Spec

(* A client that looks at any moment finds the functions, views, policies  *)
(* and triggers of one release or none at all, with everything it grants   *)
(* granted and no table open to visitors that it does not open (migrate.py:*)
(* the drop, the replay and the seed are one transaction; 060_roles:112),  *)
(* whatever servers of whatever releases come and go.                      *)
THEOREM OneReleaseAtATime == Spec => []OneRelease
<1>1. Schema => OneRelease
  BY DEF Schema, NewOrWhole, OneRelease
<1> QED
  BY <1>1, SchemaHolds, PTL

(* What a start does to the grants of the accounts: nothing is taken back. *)
AccountsKeep == [][db.grants \ Anonymous \subseteq db'.grants]_vars

(* What a release granted on tables, their columns or the schema to others *)
(* than visitors stays granted under every release that comes after it:    *)
(* DROP_RUNTIME drops no such grant (migrate.py:87-124), although          *)
(* migrate.py:21 counts them among what is dropped and replayed.           *)
THEOREM AccountsKeepGrants == Spec => AccountsKeep
<1>1. Inv /\ Schema /\ [Next]_vars => [db.grants \ Anonymous \subseteq db'.grants]_vars
  <2> SUFFICES ASSUME Inv, Schema, Next PROVE db.grants \ Anonymous \subseteq db'.grants
    OBVIOUS
  <2>1. ASSUME NEW s \in Servers, Commit(s) PROVE db.grants \ Anonymous \subseteq db'.grants
    <3>1. work[s] \in Database /\ db' = [work[s] EXCEPT !.changes = @ + 1]
      BY <2>1 DEF Commit, Inv, Types, Exclusive, Inside
    <3>2. db'.grants = work[s].grants
      BY <3>1 DEF Database
    <3> QED
      BY <2>1, <3>2 DEF Commit, Schema, SchemaOf, Inside
  <2>2. ASSUME NEW s \in Servers,
               \/ Begin(s) \/ Lock(s) \/ Ledger(s) \/ Chain(s) \/ DropRuntime(s) \/ Replay(s)
               \/ Seed(s) \/ Refused(s) \/ MigrationFails(s) \/ Spawn(s)
               \/ Poll(s) \/ Answers(s) \/ TimeOut(s) \/ Stop(s) \/ Probed(s) \/ Crash(s)
        PROVE  db' = db
    BY <2>2 DEF Begin, Lock, Ledger, Chain, DropRuntime, Replay, Seed, Refused, MigrationFails,
           Spawn, Poll, Answers, TimeOut, Stop, Probed, Crash, RolledBack
  <2>3. ASSUME NEW i \in Processes, Connect(i) \/ ReadSchema(i) \/ Reload(i) \/ Dies(i)
        PROVE  db' = db
    BY <2>3 DEF Connect, ReadSchema, Reload, Dies, Same
  <2> QED
    BY <2>1, <2>2, <2>3 DEF Next, Statement
<1> QED
  BY <1>1, InvHolds, SchemaHolds, PTL DEF Spec, AccountsKeep

-----------------------------------------------------------------------------
(* The PostgREST of a server                                               *)

(* Started, and no process of its own yet.                                 *)
ToCome == {"lock", "ledger", "chain", "replay", "commit", "spawn"}

Waiting == {s \in Servers : pc[s] \in ToCome}

Used == {i \in Processes : proc[i] # NoProcess}

(* There is a number for the process of every start.                       *)
Counted ==
  /\ starts \in 0..MaxStarts
  /\ IsFiniteSet(Waiting)
  /\ Cardinality(Used) + Cardinality(Waiting) <= starts

(* A server has a child only while it waits for it or serves; one that is  *)
(* up has read a schema no older than the one the server left.             *)
ChildOf(s) ==
  child[s] # 0 =>
    /\ pc[s] \in {"poll", "answers", "serving"}
    /\ proc[child[s]] # NoProcess
    /\ s \in Migrates /\ proc[child[s]].state = "up" => proc[child[s]].cache >= since[s]

ProcTypes ==
  /\ lock \in Servers \cup {Nobody}
  /\ proc \in [Processes -> Process \cup {NoProcess}]
  /\ child \in [Servers -> Processes \cup {0}]
  /\ faults \in 0..MaxFaults

Children == ProcTypes /\ Counted /\ \A s \in Servers : ChildOf(s)

(* The numbers in use are finitely many.                                   *)
LEMMA UsedFinite == IsFiniteSet(Used) /\ Cardinality(Used) \in Nat
<1>1. IsFiniteSet(Processes)
  BY FS_Interval, StartAssumption DEF Processes
<1>2. Used \in SUBSET Processes
  BY DEF Used
<1> QED
  BY <1>1, <1>2, FS_Subset, FS_CardinalityType

(* Nobody is waiting before anybody has started.                           *)
LEMMA InitChildren == Init => Children
<1> SUFFICES ASSUME Init PROVE Children
  OBVIOUS
<1>1. ProcTypes
  BY StartAssumption DEF Init, ProcTypes
<1>2. Used = {} /\ Waiting = {}
  BY DEF Init, Used, Waiting, ToCome
<1>3. starts \in 0..MaxStarts /\ starts = 0
  BY StartAssumption DEF Init
<1>4. Counted
  BY <1>2, <1>3, FS_EmptySet DEF Counted
<1>5. \A s \in Servers : ChildOf(s)
  BY DEF Init, ChildOf
<1> QED
  BY <1>1, <1>4, <1>5 DEF Children

(* As long as nobody is added, the numbers suffice.                        *)
LEMMA StillCounted ==
  ASSUME Counted, Waiting' \subseteq Waiting, Used' = Used, starts' = starts
  PROVE  Counted'
<1>1. IsFiniteSet(Waiting') /\ Cardinality(Waiting') <= Cardinality(Waiting)
  BY FS_Subset DEF Counted
<1>2. Cardinality(Waiting) \in Nat /\ Cardinality(Waiting') \in Nat
  BY <1>1, FS_CardinalityType DEF Counted
<1>3. Cardinality(Used') = Cardinality(Used)
  OBVIOUS
<1> QED
  BY <1>1, <1>2, <1>3, UsedFinite DEF Counted

(* Popen never runs out of numbers.                                        *)
LEMMA FreshIsFree ==
  ASSUME Counted, NEW s \in Servers, pc[s] = "spawn"
  PROVE  Fresh \in Processes /\ proc[Fresh] = NoProcess
<1>1. \E i \in Processes : proc[i] = NoProcess
  <2> SUFFICES ASSUME \A i \in Processes : proc[i] # NoProcess PROVE FALSE
    OBVIOUS
  <2>1. Used = 1..MaxStarts
    BY DEF Used, Processes
  <2>2. Cardinality(Used) = MaxStarts
    <3>1. Cardinality(1..MaxStarts) = IF 1 > MaxStarts THEN 0 ELSE MaxStarts - 1 + 1
      BY FS_Interval, StartAssumption
    <3> QED
      BY <2>1, <3>1, StartAssumption
  <2>3. s \in Waiting
    BY DEF Waiting, ToCome
  <2>4. Cardinality(Waiting) # 0 /\ Cardinality(Waiting) \in Nat
    BY <2>3, FS_EmptySet, FS_CardinalityType DEF Counted
  <2> QED
    BY <2>2, <2>4, StartAssumption DEF Counted
<1> QED
  BY <1>1 DEF Fresh

(* Popen: the number of the start becomes the number of its process.       *)
LEMMA SpawnChildren ==
  ASSUME Inv, Schema, Children, NEW s \in Servers, Spawn(s) PROVE Children'
<1> DEFINE p == [at |-> Address[s], state |-> "starting", cache |-> 0, told |-> FALSE]
<1>1. /\ pc[s] = "spawn" /\ pc' = [pc EXCEPT ![s] = "poll"]
      /\ child' = [child EXCEPT ![s] = Fresh] /\ proc' = [proc EXCEPT ![Fresh] = p]
      /\ UNCHANGED <<db, since, lock, starts, faults>>
  BY DEF Spawn, Goto
<1>2. Fresh \in Processes /\ proc[Fresh] = NoProcess
  BY <1>1, FreshIsFree DEF Children
<1>3. p \in Process /\ p # NoProcess /\ p.state = "starting"
  <2>1. p \in Process
    BY DEF Process
  <2>2. p # NoProcess
    BY <2>1, StartAssumption
  <2> QED
    BY <2>1, <2>2
<1> HIDE DEF p
<1>4. ProcTypes'
  BY <1>1, <1>2, <1>3 DEF Children, ProcTypes
<1>5. Used' = Used \cup {Fresh} /\ Fresh \notin Used
  BY <1>1, <1>2, <1>3 DEF Used, Children, ProcTypes
<1>6. Waiting' = Waiting \ {s} /\ s \in Waiting
  BY <1>1 DEF Waiting, ToCome, Inv, Types
<1>7. Cardinality(Used') = Cardinality(Used) + 1
  BY <1>5, UsedFinite, FS_AddElement
<1>8. IsFiniteSet(Waiting') /\ Cardinality(Waiting') = Cardinality(Waiting) - 1
  BY <1>6, FS_RemoveElement DEF Children, Counted
<1>9. Counted'
  BY <1>1, <1>7, <1>8, UsedFinite, FS_CardinalityType DEF Children, Counted
<1>10. ASSUME NEW t \in Servers PROVE ChildOf(t)'
  <2>1. CASE t = s
    BY <1>1, <1>2, <1>3, <2>1 DEF Children, ProcTypes, ChildOf, Inv, Types
  <2>2. CASE t # s
    <3>1. child'[t] = child[t] /\ pc'[t] = pc[t] /\ since'[t] = since[t]
      BY <1>1, <2>2 DEF Children, ProcTypes, Inv, Types
    <3>2. child[t] # 0 => proc[child[t]] # NoProcess /\ child[t] # Fresh
      BY <1>2 DEF Children, ChildOf
    <3>3. child[t] # 0 => proc'[child[t]] = proc[child[t]]
      BY <1>1, <3>2 DEF Children, ProcTypes
    <3> QED
      BY <3>1, <3>2, <3>3 DEF Children, ChildOf
  <2> QED
    BY <2>1, <2>2
<1> QED
  BY <1>4, <1>9, <1>10 DEF Children

(* A start that has begun is waited for.                                   *)
LEMMA BeginChildren ==
  ASSUME Inv, Schema, Children, NEW s \in Servers, Begin(s) PROVE Children'
<1>1. /\ pc[s] = "off" /\ starts < MaxStarts /\ starts' = starts + 1
      /\ pc' = [pc EXCEPT ![s] = IF s \in Migrates THEN "lock" ELSE "spawn"]
      /\ since' = [since EXCEPT ![s] = 0]
      /\ UNCHANGED <<lock, proc, child, faults>>
  BY DEF Begin, Goto
<1>2. ProcTypes'
  BY <1>1 DEF Children, ProcTypes
<1>3. Used' = Used
  BY <1>1 DEF Used
<1>4. Waiting' = Waiting \cup {s}
  BY <1>1 DEF Waiting, ToCome, Inv, Types
<1>5. IsFiniteSet(Waiting') /\ Cardinality(Waiting') <= Cardinality(Waiting) + 1
  <2>1. IsFiniteSet(Waiting) /\ Cardinality(Waiting) \in Nat
    BY FS_CardinalityType DEF Children, Counted
  <2>2. /\ IsFiniteSet(Waiting \cup {s})
        /\ Cardinality(Waiting \cup {s}) = IF s \in Waiting THEN Cardinality(Waiting)
                                                           ELSE Cardinality(Waiting) + 1
    BY <2>1, FS_AddElement
  <2> HIDE DEF Waiting
  <2> QED
    BY <1>4, <2>1, <2>2
<1>6. Counted'
  <2>1. Cardinality(Waiting') \in Nat /\ Cardinality(Waiting) \in Nat
    BY <1>5, FS_CardinalityType DEF Children, Counted
  <2>2. Cardinality(Used') = Cardinality(Used) /\ starts' \in 0..MaxStarts
    BY <1>1, <1>3, StartAssumption DEF Children, Counted
  <2> QED
    BY <1>1, <1>5, <2>1, <2>2, UsedFinite DEF Children, Counted
<1>7. ASSUME NEW t \in Servers PROVE ChildOf(t)'
  BY <1>1 DEF Children, ProcTypes, ChildOf, Inv, Types, Schema
<1> QED
  BY <1>2, <1>6, <1>7 DEF Children

(* While it migrates a server has no child, and the processes go on.       *)
LEMMA MigrateChildren ==
  ASSUME Inv, Schema, Children, NEW s \in Servers,
         \/ Lock(s) \/ Ledger(s) \/ Chain(s) \/ DropRuntime(s) \/ Replay(s) \/ Seed(s)
         \/ Refused(s) \/ MigrationFails(s)
  PROVE  Children'
<1>1. UNCHANGED <<proc, child, since, starts>>
  BY DEF Lock, Ledger, Chain, DropRuntime, Replay, Seed, Refused, MigrationFails, RolledBack
<1>2. lock' \in Servers \cup {Nobody} /\ faults' \in 0..MaxFaults
  BY StartAssumption DEF Lock, Ledger, Chain, DropRuntime, Replay, Seed, Refused,
     MigrationFails, RolledBack, Released, Fault, Children, ProcTypes
<1>3. pc[s] \in {"lock", "ledger", "chain", "replay", "commit"}
  BY DEF Lock, Ledger, Chain, DropRuntime, Replay, Seed, Refused, MigrationFails, Migrating
<1>4. PICK q : pc' = [pc EXCEPT ![s] = q]
  BY DEF Lock, Ledger, Chain, DropRuntime, Replay, Seed, Refused, MigrationFails,
     RolledBack, Goto, Inv, Types
<1>5. ProcTypes'
  BY <1>1, <1>2 DEF Children, ProcTypes
<1>6. Waiting' \subseteq Waiting /\ Used' = Used
  BY <1>1, <1>3, <1>4 DEF Waiting, ToCome, Used, Inv, Types
<1>7. Counted'
  BY <1>1, <1>6, StillCounted DEF Children
<1>8. ASSUME NEW t \in Servers PROVE ChildOf(t)'
  BY <1>1, <1>3, <1>4 DEF Children, ChildOf, Inv, Types
<1> QED
  BY <1>5, <1>7, <1>8 DEF Children

(* The notification changes what a process is told, nothing else of it.    *)
LEMMA NotifiedKeeps ==
  ASSUME ProcTypes, NEW i \in Processes
  PROVE  LET q == Notified(proc)[i] IN
         /\ q \in Process \cup {NoProcess}
         /\ q = NoProcess <=> proc[i] = NoProcess
         /\ q # NoProcess => q.state = proc[i].state /\ q.cache = proc[i].cache
<1> DEFINE d == [proc[i] EXCEPT !.told = TRUE]
<1>1. Notified(proc)[i] = IF proc[i] # NoProcess /\ proc[i].state \in {"loading", "up"}
                          THEN d ELSE proc[i]
  BY DEF Notified, ProcTypes
<1>2. proc[i] # NoProcess => proc[i] \in Process
  BY DEF ProcTypes
<1>3. proc[i] \in Process => d \in Process
  BY DEF Process
<1>4. proc[i] \in Process => d.state = proc[i].state /\ d.cache = proc[i].cache
  BY DEF Process
<1> HIDE DEF d
<1> QED
  BY <1>1, <1>2, <1>3, <1>4, StartAssumption

(* A migration ends: everybody who listens is told.                        *)
LEMMA CommitChildren ==
  ASSUME Inv, Schema, Children, NEW s \in Servers, Commit(s) PROVE Children'
<1>1. /\ pc[s] = "commit" /\ pc' = [pc EXCEPT ![s] = "spawn"] /\ lock' = Nobody
      /\ since' = [since EXCEPT ![s] = db.changes + 1] /\ proc' = Notified(proc)
      /\ UNCHANGED <<child, starts, faults>>
  BY DEF Commit, Goto
<1>2. DOMAIN proc' = Processes
  BY <1>1 DEF Notified, Children, ProcTypes
<1>3. ASSUME NEW i \in Processes
      PROVE  /\ proc'[i] \in Process \cup {NoProcess}
             /\ proc'[i] = NoProcess <=> proc[i] = NoProcess
             /\ proc'[i] # NoProcess => proc'[i].state = proc[i].state
                                      /\ proc'[i].cache = proc[i].cache
  BY <1>1, NotifiedKeeps DEF Children
<1>4. proc' \in [Processes -> Process \cup {NoProcess}]
  <2>1. proc' = [i \in Processes |-> proc'[i]]
    BY <1>1, <1>2 DEF Notified
  <2> QED
    BY <2>1, <1>3
<1>5. ProcTypes'
  BY <1>1, <1>4 DEF Children, ProcTypes
<1>6. Waiting' \subseteq Waiting /\ Used' = Used
  BY <1>1, <1>3 DEF Waiting, ToCome, Used, Inv, Types
<1>7. Counted'
  BY <1>1, <1>6, StillCounted DEF Children
<1>8. ASSUME NEW t \in Servers PROVE ChildOf(t)'
  <2>1. CASE t = s
    BY <1>1, <2>1 DEF Children, ChildOf
  <2>2. CASE t # s
    <3>1. pc'[t] = pc[t] /\ since'[t] = since[t] /\ child'[t] = child[t]
      BY <1>1, <2>2 DEF Inv, Types, Schema
    <3>2. child[t] # 0 => child[t] \in Processes
      BY DEF Children, ProcTypes
    <3> QED
      BY <3>1, <3>2, <1>3 DEF Children, ChildOf
  <2> QED
    BY <2>1, <2>2
<1> QED
  BY <1>5, <1>7, <1>8 DEF Children

(* A process that exits: whoever has it for a child has one that is not up.*)
LEMMA ExitKeeps ==
  ASSUME ProcTypes, NEW i \in Processes, proc[i] # NoProcess
  PROVE  LET after == [proc EXCEPT ![i].state = "exited"] IN
         /\ after \in [Processes -> Process \cup {NoProcess}]
         /\ \A j \in Processes :
              /\ after[j] = NoProcess <=> proc[j] = NoProcess
              /\ after[j].state = "up" => after[j] = proc[j]
<1> DEFINE d == [proc[i] EXCEPT !.state = "exited"]
           after == [proc EXCEPT ![i].state = "exited"]
<1>1. proc[i] \in Process
  BY DEF ProcTypes
<1>2. d \in Process /\ d.state = "exited"
  BY <1>1 DEF Process
<1>3. after = [proc EXCEPT ![i] = d]
  BY DEF ProcTypes
<1>4. d # NoProcess
  BY <1>2, StartAssumption
<1> HIDE DEF d
<1> QED
  BY <1>2, <1>3, <1>4 DEF ProcTypes

(* The wait, the serving and their ends.                                   *)
LEMMA WatchChildren ==
  ASSUME Inv, Schema, Children, NEW s \in Servers,
         Poll(s) \/ Answers(s) \/ TimeOut(s) \/ Stop(s) \/ Probed(s) \/ Crash(s)
  PROVE  Children'
<1>1. UNCHANGED <<since, starts>>
  BY DEF Poll, Answers, TimeOut, Stop, Probed, Crash
<1>2. lock' \in Servers \cup {Nobody} /\ faults' \in 0..MaxFaults
  BY StartAssumption DEF Poll, Answers, TimeOut, Stop, Probed, Crash, Released, Fault,
     Children, ProcTypes
<1>3. PICK q \in {"off", "poll", "answers", "serving"} : pc' = [pc EXCEPT ![s] = q]
  BY DEF Poll, Answers, TimeOut, Stop, Probed, Crash, Goto
<1>4. \/ child' = [child EXCEPT ![s] = 0]
      \/ /\ child' = child
         /\ pc'[s] # "off" /\ pc[s] \in {"poll", "answers", "serving"}
  BY DEF Poll, Answers, TimeOut, Stop, Probed, Crash, Stopped, Goto, Inv, Types
<1>5. /\ proc' \in [Processes -> Process \cup {NoProcess}]
      /\ \A j \in Processes : /\ proc'[j] = NoProcess <=> proc[j] = NoProcess
                              /\ proc'[j].state = "up" => proc'[j] = proc[j]
  <2>1. CASE proc' = proc
    BY <2>1 DEF Children, ProcTypes
  <2>2. CASE proc' = [proc EXCEPT ![child[s]].state = "exited"]
    <3>1. CASE child[s] = 0
      <4>1. 0 \notin Processes
        BY DEF Processes
      <4>2. proc' = proc
        BY <2>2, <3>1, <4>1 DEF Children, ProcTypes
      <4> QED
        BY <4>2, <2>1
    <3>2. CASE child[s] # 0
      <4>1. child[s] \in Processes /\ proc[child[s]] # NoProcess
        BY <3>2 DEF Children, ProcTypes, ChildOf
      <4> QED
        BY <2>2, <4>1, ExitKeeps DEF Children
    <3> QED
      BY <3>1, <3>2
  <2> QED
    BY <2>1, <2>2 DEF Poll, Answers, TimeOut, Stop, Probed, Crash, Stopped
<1>6. ProcTypes'
  BY <1>2, <1>4, <1>5 DEF Children, ProcTypes
<1>7. Waiting' \subseteq Waiting /\ Used' = Used
  BY <1>3, <1>5 DEF Waiting, ToCome, Used, Inv, Types
<1>8. Counted'
  BY <1>1, <1>7, StillCounted DEF Children
<1>9. ASSUME NEW t \in Servers PROVE ChildOf(t)'
  <2>1. child'[t] # 0 => /\ child'[t] = child[t] /\ child[t] \in Processes
                         /\ pc'[t] \in {"poll", "answers", "serving"}
    BY <1>3, <1>4 DEF Children, ProcTypes, ChildOf, Inv, Types
  <2> QED
    BY <1>1, <1>5, <2>1 DEF Children, ChildOf
<1> QED
  BY <1>6, <1>8, <1>9 DEF Children

(* PostgREST reads the schema as it is, which no server that waits for it  *)
(* or serves through it is ahead of.                                       *)
LEMMA ProcessChildren ==
  ASSUME Inv, Schema, Children, NEW i \in Processes,
         Connect(i) \/ ReadSchema(i) \/ Reload(i) \/ Dies(i)
  PROVE  Children'
<1>1. UNCHANGED <<pc, lock, child, since, starts>>
  BY DEF Connect, ReadSchema, Reload, Dies, Same
<1>2. faults' \in 0..MaxFaults
  BY StartAssumption DEF Connect, ReadSchema, Reload, Dies, Same, Fault, Children, ProcTypes
<1>3. proc[i] # NoProcess /\ proc[i] \in Process
  BY DEF Connect, ReadSchema, Reload, Dies, Alive, Up, Children, ProcTypes
<1>4. db.changes \in Nat
  BY DEF Inv, Types, Database
<1>5. PICK d \in Process : /\ proc' = [proc EXCEPT ![i] = d]
                           /\ d.state = "up" => d.cache = db.changes
  <2>1. CASE Connect(i)
    <3> DEFINE d == [proc[i] EXCEPT !.state = "loading"]
    <3>1. d \in Process /\ d.state = "loading"
      BY <1>3 DEF Process
    <3>2. proc' = [proc EXCEPT ![i] = d]
      BY <2>1 DEF Connect, Children, ProcTypes
    <3> HIDE DEF d
    <3> QED
      BY <3>1, <3>2
  <2>2. CASE ReadSchema(i)
    <3> DEFINE x == IF UpAt(proc[i].at) THEN "exited" ELSE "up"
               d == [proc[i] EXCEPT !.cache = db.changes, !.state = x]
    <3>1. x \in {"exited", "up"}
      OBVIOUS
    <3> HIDE DEF x
    <3>2. d \in Process /\ d.cache = db.changes
      BY <1>3, <1>4, <3>1 DEF Process
    <3>3. proc' = [proc EXCEPT ![i] = d]
      BY <2>2 DEF ReadSchema, Children, ProcTypes, x
    <3> HIDE DEF d
    <3> QED
      BY <3>2, <3>3
  <2>3. CASE Reload(i)
    <3> DEFINE d == [proc[i] EXCEPT !.cache = db.changes, !.told = FALSE]
    <3>1. d \in Process /\ d.cache = db.changes
      BY <1>3, <1>4 DEF Process
    <3>2. proc' = [proc EXCEPT ![i] = d]
      BY <2>3 DEF Reload, Children, ProcTypes
    <3> HIDE DEF d
    <3> QED
      BY <3>1, <3>2
  <2>4. CASE Dies(i)
    <3> DEFINE d == [proc[i] EXCEPT !.state = "exited"]
    <3>1. d \in Process /\ d.state = "exited"
      BY <1>3 DEF Process
    <3>2. proc' = [proc EXCEPT ![i] = d]
      BY <2>4 DEF Dies, Children, ProcTypes
    <3> HIDE DEF d
    <3> QED
      BY <3>1, <3>2
  <2> QED
    BY <2>1, <2>2, <2>3, <2>4
<1>6. /\ proc' = [proc EXCEPT ![i] = d]
      /\ d \in Process \cup {NoProcess} /\ d # NoProcess
  BY <1>5, StartAssumption
<1>7. ProcTypes'
  BY <1>1, <1>2, <1>6 DEF Children, ProcTypes
<1>8. Waiting' \subseteq Waiting /\ Used' = Used
  BY <1>1, <1>3, <1>6 DEF Waiting, Used, Children, ProcTypes
<1>9. Counted'
  BY <1>1, <1>8, StillCounted DEF Children
<1>10. ASSUME NEW t \in Servers PROVE ChildOf(t)'
  <2>1. since[t] \in Nat /\ since[t] <= db.changes
    BY DEF Schema, SchemaOf
  <2>2. child[t] \in Processes \cup {0}
    BY DEF Children, ProcTypes
  <2>3. CASE child[t] = i
    <3>1. proc'[child[t]] = d
      BY <1>6, <2>3 DEF Children, ProcTypes
    <3>2. d.state = "up" => d.cache >= since[t]
      BY <1>4, <1>5, <2>1
    <3> QED
      BY <1>1, <1>6, <2>3, <3>1, <3>2 DEF Children, ChildOf
  <2>4. CASE child[t] # i
    <3>1. child[t] # 0 => proc'[child[t]] = proc[child[t]]
      BY <1>6, <2>2, <2>4 DEF Children, ProcTypes
    <3> QED
      BY <1>1, <3>1 DEF Children, ChildOf
  <2> QED
    BY <2>3, <2>4
<1> QED
  BY <1>7, <1>9, <1>10 DEF Children

(* Every step preserves it.                                                *)
LEMMA NextChildren == Inv /\ Schema /\ Children /\ [Next]_vars => Children'
<1> SUFFICES ASSUME Inv, Schema, Children, [Next]_vars PROVE Children'
  OBVIOUS
<1>1. CASE UNCHANGED vars
  BY <1>1 DEF vars, Children, ProcTypes, ChildOf, Counted, Waiting, Used
<1>2. ASSUME NEW s \in Servers, Statement(s) PROVE Children'
  BY <1>2, MigrateChildren, CommitChildren DEF Statement
<1>3. ASSUME NEW s \in Servers,
             \/ Begin(s) \/ Lock(s) \/ Refused(s) \/ MigrationFails(s) \/ Spawn(s)
             \/ Poll(s) \/ Answers(s) \/ TimeOut(s) \/ Stop(s) \/ Probed(s) \/ Crash(s)
      PROVE  Children'
  BY <1>3, BeginChildren, MigrateChildren, SpawnChildren, WatchChildren
<1> QED
  BY <1>1, <1>2, <1>3, ProcessChildren DEF Next

(* The inductive invariant of the processes: a number for each, and a      *)
(* child that is up has read what its server relies on.                    *)
THEOREM ChildrenHold == Spec => []Children
BY InitChildren, NextChildren, InvHolds, SchemaHolds, PTL DEF Spec

(* Every variable stays in its set, for any number of servers, releases    *)
(* and starts; and a transaction is under way only under the lock.         *)
THEOREM StartTypeCorrect == Spec => []TypeOK
<1>1. Inv /\ Schema /\ Children => TypeOK
  <2> SUFFICES ASSUME Inv, Schema, Children PROVE TypeOK
    OBVIOUS
  <2>1. pc \in [Servers -> {"off", "lock", "ledger", "chain", "replay", "commit",
                           "spawn", "poll", "answers", "serving"}]
    BY DEF Inv, Types, Inside, Outside
  <2>2. \A s \in Servers : work[s] # NoWork => lock = s
    BY DEF Inv, Exclusive
  <2> QED
    BY <2>1, <2>2 DEF TypeOK, Inv, Types, Schema, Children, ProcTypes, Counted
<1> QED
  BY <1>1, InvHolds, SchemaHolds, ChildrenHold, PTL

(* A server that serves finds the tables of its release, and its own       *)
(* PostgREST, while it is up, has read a schema no older than the one the  *)
(* server left behind (postgrest.py), also when servers of other releases  *)
(* migrate meanwhile.                                                      *)
THEOREM ServersServeTheirSchema == Spec => []ServesItsSchema
<1>1. ASSUME Schema, Children PROVE ServesItsSchema
  <2> SUFFICES ASSUME NEW s \in Migrates, pc[s] = "serving"
               PROVE  /\ since[s] # 0
                      /\ db.guessed \/ Tables(Release[s]) \subseteq db.tables
                      /\ child[s] # 0 /\ Up(child[s]) => proc[child[s]].cache >= since[s]
    BY DEF ServesItsSchema
  <2>1. s \in Servers
    BY StartAssumption
  <2>2. SchemaOf(s)
    BY <1>1, <2>1 DEF Schema
  <2>3. ChildOf(s)
    BY <1>1, <2>1 DEF Children
  <2> QED
    BY <2>2, <2>3 DEF SchemaOf, Past, ChildOf, Up
<1> QED
  BY <1>1, SchemaHolds, ChildrenHold, PTL

-----------------------------------------------------------------------------
(* The servers that answer readers start, stop and migrate as in Start:    *)
(* what is proved above holds of them.                                     *)

(* A request, an edit or a grant leaves migrate.py and postgrest.py alone. *)
LEMMA RequestStutters ==
  ASSUME ServeNext, ~ StartStep
  PROVE  UNCHANGED vars
<1>1. ASSUME NEW r \in Readers, NEW s \in Servers, NEW p \in Pages, Ask(r, s, p)
      PROVE  UNCHANGED vars
  BY <1>1 DEF Ask, Rest
<1>2. ASSUME NEW r \in Readers, Request(r)
      PROVE  UNCHANGED vars
  BY <1>2 DEF Request, Document, Compose, Index, Search, Follow, BadGateway, Rest
<1>3. ASSUME NEW p \in Pages, Publish(p) \/ \E r \in Readers : Grant(r, p)
      PROVE  UNCHANGED vars
  BY <1>3 DEF Publish, Grant, Edit
<1> QED
  BY <1>1, <1>2, <1>3 DEF ServeNext

(* Serving refines starting: the same database, locks and processes, and   *)
(* the same fairness, with reads, edits and the render cache beside them.  *)
THEOREM ServeRefinesStart == ServeSpec => Spec
<1>1. ServeInit => Init
  BY DEF ServeInit
<1>2. [ServeNext]_serveVars => [Next]_vars
  <2>1. ServeNext => [Next]_vars
    BY RequestStutters DEF StartStep
  <2>2. UNCHANGED serveVars => UNCHANGED vars
    BY DEF serveVars
  <2> QED
    BY <2>1, <2>2
<1> QED
  BY <1>1, <1>2, PTL DEF ServeSpec, Spec

(* While readers read and servers come and go, wiki.schema_migration names *)
(* the table files that are in the database (migrate.py), whatever the set *)
(* of servers, releases, readers and pages.                                *)
THEOREM ServedLedgerStaysTrue == ServeSpec => []LedgerIsTrue
BY ServeRefinesStart, LedgerStaysTrue, PTL

(* The same of the committed schema, of the servers that serve it and of   *)
(* what every variable of Start holds.                                     *)
THEOREM ServedSchemaIsWhole == ServeSpec => [](OneRelease /\ ServesItsSchema /\ TypeOK)
BY ServeRefinesStart, OneReleaseAtATime, ServersServeTheirSchema, StartTypeCorrect, PTL

-----------------------------------------------------------------------------
(* The render cache                                                        *)

Stock == [page : Pages, version : Nat, links : SUBSET Pages]

(* A body as render made it: its links are those of its page.              *)
Right(b) == b \in Stock /\ b.links = Mentions[b.page]

(* What is stored under a key is the body of that page and version.        *)
Entry == {e \in [key : Pages \X Nat, html : Stock, size : Nat] :
            e.key = <<e.html.page, e.html.version>> /\ Right(e.html)}

(* There is a first among the numbers that have a property.                *)
LEMMA LeastOf ==
  ASSUME NEW T \in SUBSET Nat, T # {}
  PROVE  \E m \in T : \A n \in T : m <= n
<1> DEFINE R == OpToRel(<, Nat)
<1>1. IsWellFoundedOn(R, Nat)
  BY NatLessThanWellFounded
<1>2. \A n, m \in Nat : n < m => <<n, m>> \in R
  BY DEF OpToRel
<1> HIDE DEF R
<1>3. PICK m \in T : \A n \in T : ~(<<n, m>> \in R)
  BY <1>1, WFMin
<1>4. \A n \in T : ~(n < m)
  BY <1>2, <1>3
<1> QED
  BY <1>4

(* How many have to go is the first number of them that is enough.         *)
LEMMA ExcessFits ==
  ASSUME NEW c, Len(c.entries) \in Nat
  PROVE  Excess(c) \in 0..Len(c.entries) /\ Fits(c, Excess(c))
<1> DEFINE T == {k \in 0..Len(c.entries) : Fits(c, k)}
<1>1. Len(c.entries) \in T
  BY DEF Fits
<1>2. PICK m \in T : \A n \in T : m <= n
  <2>1. T \in SUBSET Nat /\ T # {}
    BY <1>1
  <2> HIDE DEF T
  <2> QED
    BY <2>1, LeastOf
<1>3. m \in 0..Len(c.entries) /\ Fits(c, m)
  BY <1>2
<1>4. ASSUME NEW j \in 0..(m - 1) PROVE ~ Fits(c, j)
  <2>1. j \in 0..Len(c.entries) /\ ~ (m <= j)
    BY <1>3
  <2> QED
    BY <1>2, <2>1
<1>5. \E k \in 0..Len(c.entries) : Fits(c, k) /\ \A j \in 0..(k - 1) : ~ Fits(c, j)
  BY <1>3, <1>4
<1> HIDE DEF T
<1> QED
  BY <1>5 DEF Excess

(* Eviction keeps some of the entries.                                     *)
LEMMA EvictKeeps ==
  ASSUME NEW c, c.entries \in Seq(Entry)
  PROVE  Evict(c).entries \in Seq(Entry)
<1> DEFINE es == c.entries
           n == Excess(c)
<1>1. Len(es) \in Nat /\ n \in 0..Len(es)
  BY ExcessFits, LenProperties
<1>2. \A i \in (n + 1)..Len(es) : es[i] \in Entry
  BY <1>1, ElementOfSeq
<1> HIDE DEF n
<1>3. SubSeq(es, n + 1, Len(es)) \in Seq(Entry)
  BY <1>1, <1>2, SubSeqProperties
<1>4. Evict(c).entries = SubSeq(es, n + 1, Len(es))
  BY DEF Evict, n
<1> QED
  BY <1>3, <1>4

(* What is put is stored at most, beside what was there.                   *)
LEMMA PutKeeps ==
  ASSUME ServeAssumption, NEW c, c.entries \in Seq(Entry), NEW b, Right(b)
  PROVE  Put(c, <<b.page, b.version>>, b).entries \in Seq(Entry)
<1> DEFINE k == <<b.page, b.version>>
           e == [key |-> k, html |-> b, size |-> Size[b.page]]
           d == [entries |-> Append(c.entries, e), bytes |-> c.bytes + Size[b.page]]
<1>1. b \in Stock /\ b.page \in Pages /\ b.version \in Nat
  BY DEF Right, Stock
<1>2. Size[b.page] \in Nat
  BY <1>1 DEF ServeAssumption
<1>3. e \in [key : Pages \X Nat, html : Stock, size : Nat]
  BY <1>1, <1>2
<1>4. e.key = k /\ e.html = b
  OBVIOUS
<1> HIDE DEF e
<1>5. e \in Entry
  BY <1>3, <1>4 DEF Entry
<1>6. d.entries \in Seq(Entry)
  BY <1>5
<1> HIDE DEF d
<1>7. Evict(d).entries \in Seq(Entry)
  BY <1>6, EvictKeeps
<1>8. Put(c, k, b) = c \/ Put(c, k, b) = Evict(d)
  BY DEF Put, d, e
<1> QED
  BY <1>7, <1>8

(* What is found under a key is the body of that page and version.         *)
LEMMA StoredIsRight ==
  ASSUME NEW c, c.entries \in Seq(Entry), NEW p \in Pages, NEW n \in Nat, Holds(c, <<p, n>>)
  PROVE  LET b == Stored(c, <<p, n>>).html IN Right(b) /\ b.page = p /\ b.version = n
<1> DEFINE k == <<p, n>>
<1>1. Place(c, k) \in 1..Len(c.entries) /\ c.entries[Place(c, k)].key = k
  BY DEF Holds, Place
<1>2. Stored(c, k) \in Entry /\ Stored(c, k).key = k
  BY <1>1, ElementOfSeq DEF Stored
<1> HIDE DEF k
<1> DEFINE e == Stored(c, k)
<1>3. e.key = <<e.html.page, e.html.version>> /\ Right(e.html) /\ e.key = k
  BY <1>2 DEF Entry
<1> HIDE DEF e
<1>4. e.html.page = p /\ e.html.version = n
  BY <1>3 DEF k
<1> QED
  BY <1>3, <1>4 DEF e, k

(* A hit keeps the entries, in another order.                              *)
LEMMA TouchKeeps ==
  ASSUME NEW c, c.entries \in Seq(Entry), NEW k, Holds(c, k)
  PROVE  Touch(c, k).entries \in Seq(Entry)
<1> DEFINE es == c.entries
           i == Place(c, k)
<1>1. i \in 1..Len(es) /\ Len(es) \in Nat
  BY LenProperties DEF Holds, Place
<1>2. Touch(c, k).entries = Append(SubSeq(es, 1, i - 1) \o SubSeq(es, i + 1, Len(es)), es[i])
  BY DEF Touch
<1> HIDE DEF i
<1>3. \A j \in 1..Len(es) : es[j] \in Entry
  BY ElementOfSeq
<1> HIDE DEF es
<1>4. SubSeq(es, 1, i - 1) \in Seq(Entry)
  BY <1>1, <1>3, SubSeqProperties
<1>5. SubSeq(es, i + 1, Len(es)) \in Seq(Entry)
  BY <1>1, <1>3, SubSeqProperties
<1>6. SubSeq(es, 1, i - 1) \o SubSeq(es, i + 1, Len(es)) \in Seq(Entry)
  BY <1>4, <1>5, ConcatProperties
<1> QED
  BY <1>1, <1>2, <1>3, <1>6

-----------------------------------------------------------------------------
(* What a reader gets                                                      *)

(* As ReadersOwnPage says of the last answer.                              *)
Answered(v) ==
  /\ v.status = 200 /\ v.route # "index" /\ v.route # "search" => v.page \in v.ever
  /\ v.status = 200 /\ v.route = "page" => v.body.page = v.page /\ v.body.version \in v.live
  /\ v.links \subseteq v.ever
  /\ v.status = 200 /\ v.route = "index" => v.always \subseteq v.links
  /\ v.status = 200 /\ v.route = "page" => Mentions[v.page] \cap v.always \subseteq v.links
  /\ v.status = 404 => v.page \notin v.always

(* While a request is under way, what is live and what its reader may see  *)
(* are within its window; and the body it has got is that of the page, in  *)
(* a revision of the window.                                               *)
Awaited(v, live, may_) ==
  /\ live \in v.live /\ may_ \subseteq v.ever /\ v.always \subseteq may_
  /\ v.links = {}
  /\ v.step = "tree" /\ v.route = "page" =>
       /\ v.page \in v.ever
       /\ Right(v.body) /\ v.body.page = v.page /\ v.body.version \in v.live

Looks == [at : Servers, route : {"page", "index", "search", "link"}, page : Pages,
          step : {"document", "tree", "done"}, status : {0, 200, 404, 502},
          body : Stock \cup {NoBody}, links : SUBSET Pages,
          live : SUBSET Nat, ever : SUBSET Pages, always : SUBSET Pages]

ViewOf(r) ==
  view[r] # NoView =>
    IF view[r].step = "done" THEN Answered(view[r])
    ELSE Awaited(view[r], version[view[r].page], may[r])

WikiTypes ==
  /\ version \in [Pages -> Nat]
  /\ may \in [Readers -> SUBSET Pages]
  /\ view \in [Readers -> Looks \cup {NoView}]

Caches ==
  /\ cache = [s \in Servers |-> cache[s]]
  /\ \A s \in Servers : cache[s].entries \in Seq(Entry)

Reading == WikiTypes /\ Caches /\ \A r \in Readers : ViewOf(r)

(* Before the first request.                                               *)
LEMMA InitReading == ServeInit => Reading
<1> SUFFICES ASSUME ServeInit PROVE Reading
  OBVIOUS
<1>1. WikiTypes /\ \A r \in Readers : ViewOf(r)
  BY DEF ServeInit, WikiTypes, ViewOf
<1>2. NoCache.entries \in Seq(Entry)
  BY DEF NoCache
<1>3. cache = [s \in Servers |-> NoCache]
  BY DEF ServeInit
<1>4. Caches
  BY <1>2, <1>3 DEF Caches
<1> QED
  BY <1>1, <1>4 DEF Reading

(* A step of one request leaves the wiki and the other requests alone.     *)
LEMMA OneView ==
  ASSUME Reading, NEW r \in Readers, NEW v \in Looks,
         view' = [view EXCEPT ![r] = v], UNCHANGED wiki, Caches',
         v.step = "done" => Answered(v),
         v.step # "done" => Awaited(v, version[v.page], may[r])
  PROVE  Reading'
<1>1. WikiTypes'
  BY DEF Reading, WikiTypes, wiki
<1>2. ASSUME NEW q \in Readers PROVE ViewOf(q)'
  <2>1. CASE q = r
    <3>1. view'[q] = v
      BY <2>1 DEF Reading, WikiTypes
    <3> QED
      BY <2>1, <3>1 DEF ViewOf, wiki
  <2>2. CASE q # r
    <3>1. view'[q] = view[q] /\ version' = version /\ may' = may
      BY <2>2 DEF Reading, WikiTypes, wiki
    <3> QED
      BY <3>1 DEF Reading, ViewOf
  <2> QED
    BY <2>1, <2>2
<1> QED
  BY <1>1, <1>2 DEF Reading

(* A request that is answered, without links and with them.                *)
Closed(v, status) == [v EXCEPT !.status = status, !.step = "done"]

ClosedWith(v, links, status) == [v EXCEPT !.links = links, !.status = status, !.step = "done"]

(* An answer is of the type of a request.                                  *)
LEMMA AnswerTyped ==
  ASSUME NEW v \in Looks, NEW status \in {200, 404, 502}, NEW links \in SUBSET Pages
  PROVE  Closed(v, status) \in Looks /\ ClosedWith(v, links, status) \in Looks
<1>1. status \in {0, 200, 404, 502} /\ "done" \in {"document", "tree", "done"}
  OBVIOUS
<1> DEFINE steps == {"document", "tree", "done"}
           codes == {0, 200, 404, 502}
           routes == {"page", "index", "search", "link"}
           bodies == Stock \cup {NoBody}
           T == [at : Servers, route : routes, page : Pages, step : steps, status : codes,
                 body : bodies, links : SUBSET Pages,
                 live : SUBSET Nat, ever : SUBSET Pages, always : SUBSET Pages]
<1>2. Looks = T
  BY DEF Looks
<1> HIDE DEF steps, codes, routes, bodies
<1>3. v \in T /\ status \in codes /\ "done" \in steps
  BY <1>1, <1>2 DEF steps, codes
<1>4. Closed(v, status) \in T
  BY <1>3 DEF Closed
<1>5. ClosedWith(v, links, status) \in T
  BY <1>3 DEF ClosedWith
<1> QED
  BY <1>2, <1>4, <1>5

(* A request begins: its window is the moment.                             *)
LEMMA AskReading ==
  ASSUME Reading, NEW r \in Readers, NEW s \in Servers, NEW p \in Pages, Ask(r, s, p)
  PROVE  Reading'
<1>1. PICK route \in {"page", "index", "search", "link"} :
        view' = [view EXCEPT ![r] = [at |-> s, route |-> route, page |-> p,
          step |-> IF route = "page" THEN "document" ELSE "tree", status |-> 0,
          body |-> NoBody, links |-> {},
          live |-> {version[p]}, ever |-> may[r], always |-> may[r]]]
  BY DEF Ask
<1> DEFINE step == IF route = "page" THEN "document" ELSE "tree"
           v == [at |-> s, route |-> route, page |-> p, step |-> step, status |-> 0,
                 body |-> NoBody, links |-> {},
                 live |-> {version[p]}, ever |-> may[r], always |-> may[r]]
<1>2. step \in {"document", "tree"} /\ (route = "page" => step # "tree")
  OBVIOUS
<1>3. view' = [view EXCEPT ![r] = v]
  BY <1>1
<1> HIDE DEF step
<1>4. version[p] \in Nat /\ may[r] \in SUBSET Pages
  BY DEF Reading, WikiTypes
<1>5. v \in Looks
  BY <1>2, <1>4 DEF Looks
<1>6. v.step # "done" /\ Awaited(v, version[v.page], may[r])
  BY <1>2 DEF Awaited
<1>7. UNCHANGED <<wiki, cache>>
  BY DEF Ask, Rest
<1>8. Caches'
  BY <1>7 DEF Reading, Caches
<1> HIDE DEF v
<1> QED
  BY <1>3, <1>5, <1>6, <1>7, <1>8, OneView

(* The page is read and its body found in the cache, or rendered and put   *)
(* there: right for this page and this revision, whoever asked first.      *)
LEMMA DocumentReading ==
  ASSUME ServeAssumption, Reading, NEW r \in Readers, Document(r)
  PROVE  Reading'
<1> DEFINE v == view[r]
           c == cache[v.at]
           k == <<v.page, version[v.page]>>
           body == IF Holds(c, k) THEN Stored(c, k).html ELSE Render(v.page)
<1>1. v \in Looks /\ v # NoView /\ v.step = "document"
  BY DEF Reading, WikiTypes, Document, Asking
<1>2. v.at \in Servers /\ v.page \in Pages /\ version[v.page] \in Nat /\ may[r] \in SUBSET Pages
  BY <1>1 DEF Looks, Reading, WikiTypes
<1>3. Awaited(v, version[v.page], may[r])
  BY <1>1 DEF Reading, ViewOf
<1>4. c.entries \in Seq(Entry)
  BY <1>2 DEF Reading, Caches
<1>5. UNCHANGED wiki
  BY DEF Document, Rest
<1>6. CASE /\ v.page \notin may[r]
           /\ Answer(r, 404) /\ UNCHANGED cache
  <2> DEFINE w == Closed(v, 404)
  <2>1. view' = [view EXCEPT ![r] = w]
    BY <1>6 DEF Answer, Closed, Reading, WikiTypes
  <2>2. w \in Looks
    BY <1>1, AnswerTyped
  <2>3. w.step = "done" /\ Answered(w)
    BY <1>1, <1>3, <1>6 DEF Looks, Answered, Awaited, Closed, ClosedWith
  <2>4. Caches'
    BY <1>6 DEF Reading, Caches
  <2> HIDE DEF w
  <2> QED
    BY <1>5, <2>1, <2>2, <2>3, <2>4, OneView
<1>7. CASE /\ v.page \in may[r]
           /\ cache' = [cache EXCEPT ![v.at] = IF Holds(c, k) THEN Touch(c, k)
                                              ELSE Put(c, k, body)]
           /\ view' = [view EXCEPT ![r].body = body, ![r].step = "tree"]
  <2>1. Right(body) /\ body.page = v.page /\ body.version = version[v.page]
    <3>1. CASE Holds(c, k)
      BY <1>2, <1>4, <3>1, StoredIsRight
    <3>2. CASE ~ Holds(c, k)
      <4>1. body = [page |-> v.page, version |-> version[v.page], links |-> Mentions[v.page]]
        BY <3>2 DEF Render
      <4>2. Mentions[v.page] \in SUBSET Pages
        BY <1>2 DEF ServeAssumption
      <4> HIDE DEF body, v
      <4> QED
        BY <1>2, <4>1, <4>2 DEF Right, Stock
    <3> QED
      BY <3>1, <3>2
  <2>2. Touch(c, k).entries \in Seq(Entry) \/ ~ Holds(c, k)
    BY <1>4, TouchKeeps
  <2>3. Put(c, k, body).entries \in Seq(Entry)
    <3>1. k = <<body.page, body.version>>
      BY <2>1
    <3> HIDE DEF k, body, c
    <3> QED
      BY <1>4, <2>1, <3>1, PutKeeps
  <2> DEFINE d == IF Holds(c, k) THEN Touch(c, k) ELSE Put(c, k, body)
             w == [v EXCEPT !.body = body, !.step = "tree"]
  <2>4. d.entries \in Seq(Entry)
    BY <2>2, <2>3
  <2>5. cache' = [cache EXCEPT ![v.at] = d] /\ view' = [view EXCEPT ![r] = w]
    BY <1>7 DEF Reading, WikiTypes
  <2> HIDE DEF d, body
  <2>6. Caches'
    <3>1. \A s \in Servers : cache'[s] = IF s = v.at THEN d ELSE cache[s]
      BY <2>5 DEF Reading, Caches
    <3>2. cache' = [s \in Servers |-> cache'[s]]
      BY <2>5 DEF Reading, Caches
    <3> QED
      BY <2>4, <3>1, <3>2 DEF Reading, Caches
  <2>7. w \in Looks
    <3>1. body \in Stock \cup {NoBody}
      BY <2>1 DEF Right
    <3> QED
      BY <1>1, <3>1 DEF Looks
  <2>8. w.step # "done" /\ Awaited(w, version[w.page], may[r])
    BY <1>1, <1>3, <1>7, <2>1 DEF Looks, Awaited
  <2> HIDE DEF w
  <2> QED
    BY <1>5, <2>5, <2>6, <2>7, <2>8, OneView
<1> QED
  BY <1>6, <1>7 DEF Document, Row, Key

(* An answer, field by field, is one new record for its reader.            *)
LEMMA AnswerAtOnce ==
  ASSUME NEW D, NEW R, NEW f \in [D -> R], NEW r \in D, NEW status
  PROVE  [f EXCEPT ![r].status = status, ![r].step = "done"]
           = [f EXCEPT ![r] = Closed(f[r], status)]
BY DEF Closed

(* The answers: what the reader may see now, and that is in the window.    *)
LEMMA AnswerReading ==
  ASSUME ServeAssumption, Reading, NEW r \in Readers,
         Compose(r) \/ Index(r) \/ Search(r) \/ Follow(r) \/ BadGateway(r)
  PROVE  Reading'
<1> DEFINE v == view[r]
<1>1. v \in Looks /\ v # NoView /\ v.step # "done"
  BY DEF Reading, WikiTypes, Compose, Index, Search, Follow, BadGateway, Asking
<1>2. v.page \in Pages /\ may[r] \in SUBSET Pages
  BY <1>1 DEF Looks, Reading, WikiTypes
<1>3. Awaited(v, version[v.page], may[r])
  BY <1>1 DEF Reading, ViewOf
<1>4. UNCHANGED <<cache, wiki>>
  BY DEF Compose, Index, Search, Follow, BadGateway, Rest
<1>5. Caches'
  BY <1>4 DEF Reading, Caches
<1>12. \A status : [view EXCEPT ![r].status = status, ![r].step = "done"]
                    = [view EXCEPT ![r] = Closed(v, status)]
  <2>1. view \in [Readers -> Looks \cup {NoView}]
    BY DEF Reading, WikiTypes
  <2> QED
    BY <2>1, AnswerAtOnce
<1>6. CASE Compose(r)
  <2> DEFINE links == v.body.links \cap may[r]
             w == ClosedWith(v, links, 200)
  <2>1. view' = [view EXCEPT ![r] = w] /\ v.step = "tree" /\ v.route = "page"
    BY <1>6 DEF Compose, ClosedWith, Links, Reading, WikiTypes
  <2>2. Right(v.body) /\ v.body.page = v.page
    BY <1>3, <2>1 DEF Awaited
  <2>3. /\ links \in SUBSET Pages /\ links \subseteq may[r]
        /\ Mentions[v.page] \cap may[r] \subseteq links
    BY <1>2, <2>2 DEF Right
  <2> HIDE DEF links
  <2>4. w \in Looks
    BY <1>1, <2>3, AnswerTyped
  <2>5. w.step = "done" /\ Answered(w)
    BY <1>1, <1>3, <2>1, <2>3 DEF Looks, Answered, Awaited, Closed, ClosedWith
  <2> HIDE DEF w
  <2> QED
    BY <1>4, <1>5, <2>1, <2>4, <2>5, OneView
<1>7. CASE Index(r)
  <2> DEFINE w == ClosedWith(v, may[r], 200)
  <2>1. view' = [view EXCEPT ![r] = w] /\ v.route = "index"
    BY <1>7 DEF Index, ClosedWith, Reading, WikiTypes
  <2>2. w \in Looks
    BY <1>1, <1>2, AnswerTyped
  <2>3. w.step = "done" /\ Answered(w)
    BY <1>1, <1>2, <1>3, <2>1 DEF Looks, Answered, Awaited, Closed, ClosedWith
  <2> HIDE DEF w
  <2> QED
    BY <1>4, <1>5, <2>1, <2>2, <2>3, OneView
<1>8. CASE Search(r)
  <2>1. PICK found \in SUBSET may[r] :
          view' = [view EXCEPT ![r].links = found, ![r].status = 200, ![r].step = "done"]
    BY <1>8 DEF Search
  <2> DEFINE w == ClosedWith(v, found, 200)
  <2>2. view' = [view EXCEPT ![r] = w] /\ v.route = "search"
    BY <1>8, <2>1 DEF Search, ClosedWith, Reading, WikiTypes
  <2>3. w \in Looks
    BY <1>1, <1>2, AnswerTyped
  <2>4. w.step = "done" /\ Answered(w)
    BY <1>1, <1>2, <1>3, <2>2 DEF Looks, Answered, Awaited, Closed, ClosedWith
  <2> HIDE DEF w
  <2> QED
    BY <1>4, <1>5, <2>2, <2>3, <2>4, OneView
<1>9. CASE Follow(r)
  <2> DEFINE status == IF v.page \in may[r] THEN 200 ELSE 404
             w == Closed(v, status)
  <2>1. view' = [view EXCEPT ![r] = w] /\ v.route = "link"
    BY <1>9, <1>12 DEF Follow, Answer
  <2>2. /\ status \in {200, 404}
        /\ status = 200 => v.page \in may[r]
        /\ status = 404 => v.page \notin may[r]
    OBVIOUS
  <2> HIDE DEF status
  <2>3. w \in Looks
    BY <1>1, <2>2, AnswerTyped
  <2>4. /\ w.step = "done" /\ w.status = status /\ w.route = "link"
        /\ w.page = v.page /\ w.links = v.links
        /\ w.ever = v.ever /\ w.always = v.always
    BY <1>1, <2>1 DEF Looks, Closed, ClosedWith
  <2>5. v.links = {} /\ may[r] \subseteq v.ever /\ v.always \subseteq may[r]
    BY <1>3 DEF Awaited
  <2>6. Answered(w)
    <3> HIDE DEF w
    <3> QED
      BY <2>2, <2>4, <2>5 DEF Answered
  <2> HIDE DEF w
  <2> QED
    BY <1>4, <1>5, <2>1, <2>3, <2>4, <2>6, OneView
<1>10. CASE BadGateway(r)
  <2> DEFINE w == Closed(v, 502)
  <2>1. view' = [view EXCEPT ![r] = w]
    BY <1>10, <1>12 DEF BadGateway, Answer
  <2>2. w \in Looks
    BY <1>1, AnswerTyped
  <2>3. w.step = "done" /\ Answered(w)
    BY <1>1, <1>3 DEF Looks, Answered, Awaited, Closed, ClosedWith
  <2> HIDE DEF w
  <2> QED
    BY <1>4, <1>5, <2>1, <2>2, <2>3, OneView
<1> QED
  BY <1>6, <1>7, <1>8, <1>9, <1>10

(* A publication widens the window of who reads the page; a grant or a     *)
(* denial moves what its reader may see, and the window with it.           *)
LEMMA EditReading ==
  ASSUME Reading, NEW p \in Pages, Publish(p) \/ \E r \in Readers : Grant(r, p)
  PROVE  Reading'
<1>1. Caches'
  BY DEF Publish, Grant, Edit, Reading, Caches
<1>2. CASE Publish(p)
  <2> DEFINE n == version[p] + 1
             wider(r) == [view[r] EXCEPT !.live = @ \cup {n}]
  <2>1. /\ version' = [version EXCEPT ![p] = n] /\ may' = may
        /\ view' = [r \in Readers |-> IF Asking(r) /\ view[r].page = p THEN wider(r)
                                      ELSE view[r]]
    BY <1>2 DEF Publish
  <2>2. n \in Nat
    BY DEF Reading, WikiTypes
  <2> HIDE DEF n
  <2>3. ASSUME NEW r \in Readers
        PROVE  view'[r] \in Looks \cup {NoView} /\ ViewOf(r)'
    <3>1. view[r] \in Looks \cup {NoView} /\ ViewOf(r)
      BY DEF Reading, WikiTypes
    <3>2. CASE Asking(r) /\ view[r].page = p
      <4> DEFINE v == view[r]
                 w == wider(r)
      <4>1. v \in Looks /\ v.step # "done" /\ v.page = p
        BY <3>1, <3>2 DEF Asking
      <4>2. Awaited(v, version[p], may[r])
        BY <3>1, <3>2, <4>1 DEF Asking, ViewOf
      <4>3. w \in Looks /\ w.step # "done" /\ w.page = p
        BY <2>2, <4>1 DEF Looks
      <4>4. Awaited(w, n, may[r])
        BY <4>1, <4>2 DEF Looks, Awaited
      <4>5. version'[p] = n /\ view'[r] = w
        BY <2>1, <3>2 DEF Reading, WikiTypes
      <4> HIDE DEF w
      <4> QED
        BY <2>1, <4>3, <4>4, <4>5 DEF ViewOf
    <3>3. CASE ~ (Asking(r) /\ view[r].page = p)
      <4>1. view'[r] = view[r] /\ may'[r] = may[r]
        BY <2>1, <3>3
      <4>2. view[r] # NoView /\ view[r].step # "done" =>
              view[r].page # p /\ version'[view[r].page] = version[view[r].page]
        BY <2>1, <3>3 DEF Asking, Reading, WikiTypes
      <4> QED
        BY <3>1, <4>1, <4>2 DEF ViewOf
    <3> QED
      BY <3>2, <3>3
  <2>4. WikiTypes'
    BY <2>1, <2>2, <2>3 DEF Reading, WikiTypes
  <2> QED
    BY <1>1, <2>3, <2>4 DEF Reading
<1>3. ASSUME NEW r \in Readers, Grant(r, p) PROVE Reading'
  <2> DEFINE pages == IF p \in may[r] THEN may[r] \ {p} ELSE may[r] \cup {p}
             v == view[r]
             w == [v EXCEPT !.ever = @ \cup pages, !.always = @ \cap pages]
  <2>1. /\ may' = [may EXCEPT ![r] = pages] /\ version' = version
        /\ view' = IF Asking(r)
                   THEN [view EXCEPT ![r].ever = @ \cup pages, ![r].always = @ \cap pages]
                   ELSE view
    BY <1>3 DEF Grant
  <2>2. pages \in SUBSET Pages
    BY DEF Reading, WikiTypes
  <2> HIDE DEF pages
  <2>3. v \in Looks \cup {NoView} /\ ViewOf(r)
    BY DEF Reading, WikiTypes
  <2>4. Asking(r) => /\ view' = [view EXCEPT ![r] = w]
                     /\ w \in Looks /\ w.step # "done"
                     /\ Awaited(w, version[w.page], pages)
    <3> SUFFICES ASSUME Asking(r)
                 PROVE  /\ view' = [view EXCEPT ![r] = w]
                        /\ w \in Looks /\ w.step # "done"
                        /\ Awaited(w, version[w.page], pages)
      OBVIOUS
    <3>1. v \in Looks /\ v.step # "done"
      BY <2>3 DEF Asking
    <3>2. Awaited(v, version[v.page], may[r])
      BY <2>3, <3>1 DEF ViewOf, Asking
    <3>3. view' = [view EXCEPT ![r] = w]
      BY <2>1 DEF Reading, WikiTypes
    <3>4. w \in Looks /\ w.step # "done"
      BY <2>2, <3>1 DEF Looks
    <3>5. Awaited(w, version[w.page], pages)
      BY <3>1, <3>2 DEF Looks, Awaited
    <3> QED
      BY <3>3, <3>4, <3>5
  <2> HIDE DEF w
  <2>5. WikiTypes'
    BY <2>1, <2>2, <2>4 DEF Reading, WikiTypes
  <2>6. ASSUME NEW q \in Readers PROVE ViewOf(q)'
    <3>1. CASE q = r /\ Asking(r)
      <4>1. view'[q] = w /\ may'[q] = pages /\ version' = version
        BY <2>1, <2>4, <3>1 DEF Reading, WikiTypes
      <4> QED
        BY <2>4, <3>1, <4>1 DEF ViewOf
    <3>2. CASE q = r /\ ~ Asking(r)
      BY <2>1, <2>3, <3>2 DEF ViewOf, Asking
    <3>3. CASE q # r
      <4>1. view'[q] = view[q] /\ may'[q] = may[q] /\ version' = version
        BY <2>1, <2>4, <3>3 DEF Reading, WikiTypes
      <4> QED
        BY <4>1 DEF Reading, ViewOf
    <3> QED
      BY <3>1, <3>2, <3>3
  <2> QED
    BY <1>1, <2>5, <2>6 DEF Reading
<1> QED
  BY <1>2, <1>3

(* A server that stops takes its cache and its requests with it.           *)
LEMMA StartReading ==
  ASSUME Reading, StartStep PROVE Reading'
<1>1. /\ cache' = [s \in Servers |-> IF pc'[s] = "serving" THEN cache[s] ELSE NoCache]
      /\ view' = [r \in Readers |-> IF Asking(r) /\ pc'[view[r].at] # "serving" THEN NoView
                                    ELSE view[r]]
      /\ version' = version /\ may' = may
  BY DEF StartStep, wiki
<1>2. NoCache.entries \in Seq(Entry)
  BY DEF NoCache
<1>3. Caches'
  <2>1. ASSUME NEW s \in Servers PROVE cache'[s].entries \in Seq(Entry)
    <3>1. cache'[s] = cache[s] \/ cache'[s] = NoCache
      BY <1>1
    <3> QED
      BY <1>2, <3>1 DEF Reading, Caches
  <2>2. cache' = [s \in Servers |-> cache'[s]]
    BY <1>1
  <2> QED
    BY <2>1, <2>2 DEF Caches
<1>4. ASSUME NEW r \in Readers PROVE view'[r] = view[r] \/ view'[r] = NoView
  BY <1>1
<1>5. WikiTypes'
  BY <1>1, <1>4 DEF Reading, WikiTypes
<1>6. ASSUME NEW r \in Readers PROVE ViewOf(r)'
  BY <1>1, <1>4 DEF Reading, ViewOf
<1> QED
  BY <1>3, <1>5, <1>6 DEF Reading

(* Every step preserves it.                                                *)
LEMMA NextReading == Reading /\ [ServeNext]_serveVars => Reading'
<1> SUFFICES ASSUME Reading, [ServeNext]_serveVars PROVE Reading'
  OBVIOUS
<1>1. CASE UNCHANGED serveVars
  BY <1>1 DEF serveVars, Reading, WikiTypes, Caches, ViewOf
<1>2. ASSUME NEW r \in Readers, Request(r) PROVE Reading'
  BY <1>2, ServeAssumption, DocumentReading, AnswerReading DEF Request
<1>3. CASE StartStep
  BY <1>3, StartReading
<1>4. ASSUME NEW p \in Pages, Publish(p) \/ \E r \in Readers : Grant(r, p) PROVE Reading'
  BY <1>4, EditReading
<1> QED
  BY <1>1, <1>2, <1>3, <1>4, AskReading DEF ServeNext

(* The inductive invariant of a request: what the cache holds is right     *)
(* under its key, and what is being put together is within its window.     *)
THEOREM ReadingHolds == ServeSpec => []Reading
BY InitReading, NextReading, PTL DEF ServeSpec

(* What a reader gets is of the time of their request and for them alone   *)
(* (pages.py, cache.py), whatever others publish and grant meanwhile and   *)
(* whoever filled the cache, for any number of readers, pages and servers. *)
THEOREM ReadersGetTheirOwn == ServeSpec => []ReadersOwnPage
<1>1. Reading => ReadersOwnPage
  BY DEF Reading, ViewOf, Answered, ReadersOwnPage
<1> QED
  BY <1>1, ReadingHolds, PTL

-----------------------------------------------------------------------------
(* What a cache counts                                                     *)

(* A byte of some entries is a byte of one of them.                        *)
LEMMA ByteOf ==
  ASSUME NEW es, NEW x
  PROVE  x \in BytesOf(es) <=> \E i \in DOMAIN es : \E b \in 1..es[i].size : x = <<i, b>>
BY DEF BytesOf

(* However many they are, they can be counted.                             *)
LEMMA WeightType ==
  ASSUME NEW es \in Seq(Entry)
  PROVE  IsFiniteSet(BytesOf(es)) /\ Weight(es) \in Nat
<1> DEFINE f == [i \in DOMAIN es |-> {i} \X (1..es[i].size)]
           T == {{i} \X (1..es[i].size) : i \in DOMAIN es}
<1>1. DOMAIN es = 1..Len(es) /\ Len(es) \in Nat
  OBVIOUS
<1>2. IsFiniteSet(DOMAIN es)
  BY <1>1, FS_Interval
<1>3. f \in Surjection(DOMAIN es, T)
  BY DEF Surjection
<1>4. IsFiniteSet(T)
  <2> HIDE DEF f, T
  <2> QED BY <1>2, <1>3, FS_Surjection
<1>5. ASSUME NEW S \in T PROVE IsFiniteSet(S)
  <2>1. PICK i \in DOMAIN es : S = {i} \X (1..es[i].size)
    OBVIOUS
  <2>2. es[i] \in Entry
    BY <1>1, ElementOfSeq
  <2>3. es[i].size \in Nat
    BY <2>2 DEF Entry
  <2>4. IsFiniteSet(1..es[i].size)
    <3>1. \A m \in Nat : IsFiniteSet(1..m)
      BY FS_Interval
    <3> QED BY <2>3, <3>1
  <2>5. IsFiniteSet({i})
    BY FS_Singleton
  <2> QED BY <2>1, <2>4, <2>5, FS_Product
<1>6. IsFiniteSet(BytesOf(es))
  <2>1. BytesOf(es) = UNION T
    BY DEF BytesOf
  <2> HIDE DEF T
  <2> QED BY <1>4, <1>5, <2>1, FS_UNION
<1> QED BY <1>6, FS_CardinalityType DEF Weight

(* The bytes of two stretches of entries are those of either.              *)
LEMMA WeightConcat ==
  ASSUME NEW s \in Seq(Entry), NEW t \in Seq(Entry)
  PROVE  Weight(s \o t) = Weight(s) + Weight(t)
<1> DEFINE st == s \o t
           n == Len(s)
           S == BytesOf(s)
           T == BytesOf(t)
           U == {x \in BytesOf(st) : x[1] > n}
           f == [x \in T |-> <<x[1] + n, x[2]>>]
<1>1. /\ st \in Seq(Entry) /\ Len(st) = n + Len(t) /\ n \in Nat /\ Len(t) \in Nat
      /\ \A i \in 1..n : st[i] = s[i]
      /\ \A i \in 1..Len(t) : st[i + n] = t[i]
      /\ DOMAIN s = 1..n /\ DOMAIN t = 1..Len(t) /\ DOMAIN st = 1..(n + Len(t))
  BY ConcatProperties
<1> HIDE DEF st, n
<1>2. \A x : x \in S <=> x \in BytesOf(st) /\ ~ (x[1] > n)
  <2>1. ASSUME NEW x \in S PROVE x \in BytesOf(st) /\ ~ (x[1] > n)
    <3>1. PICK i \in 1..n : \E b \in 1..s[i].size : x = <<i, b>>
      BY <1>1, ByteOf
    <3>2. i \in DOMAIN st /\ st[i] = s[i] /\ x[1] = i
      BY <1>1, <3>1
    <3> QED BY <1>1, <3>1, <3>2, ByteOf
  <2>2. ASSUME NEW x \in BytesOf(st), ~ (x[1] > n) PROVE x \in S
    <3>1. PICK i \in DOMAIN st : \E b \in 1..st[i].size : x = <<i, b>>
      BY ByteOf
    <3>2. i \in 1..n /\ st[i] = s[i]
      BY <1>1, <2>2, <3>1
    <3> QED BY <1>1, <3>1, <3>2, ByteOf
  <2> QED BY <2>1, <2>2
<1>3. f \in Bijection(T, U)
  <2>1. ASSUME NEW x \in T
        PROVE  /\ x[1] \in 1..Len(t) /\ x[2] \in 1..t[x[1]].size /\ x = <<x[1], x[2]>>
               /\ f[x] \in U
    <3>0. PICK i \in 1..Len(t) : \E b \in 1..t[i].size : x = <<i, b>>
      BY <1>1, ByteOf
    <3>1. PICK b \in 1..t[i].size : x = <<i, b>>
      BY <3>0
    <3>2. i + n \in DOMAIN st /\ st[i + n] = t[i] /\ i + n > n
      BY <1>1
    <3>3. <<i + n, b>> \in BytesOf(st)
      BY <3>1, <3>2, ByteOf
    <3> QED BY <3>1, <3>2, <3>3
  <2>2. ASSUME NEW x \in T, NEW y \in T, f[x] = f[y] PROVE x = y
    <3>1. x[1] + n = y[1] + n /\ x[2] = y[2]
      BY <2>2
    <3>2. x[1] \in 1..Len(t) /\ y[1] \in 1..Len(t)
      BY <2>1
    <3> HIDE DEF f, T
    <3>3. x[1] = y[1]
      BY <1>1, <3>1, <3>2
    <3>4. x = <<x[1], x[2]>> /\ y = <<y[1], y[2]>>
      BY <2>1
    <3> QED BY <3>1, <3>3, <3>4
  <2>3. ASSUME NEW y \in U PROVE \E x \in T : f[x] = y
    <3>0. PICK i \in DOMAIN st : \E b \in 1..st[i].size : y = <<i, b>>
      BY ByteOf
    <3>1. PICK b \in 1..st[i].size : y = <<i, b>>
      BY <3>0
    <3>2. i > n
      BY <2>3, <3>1
    <3>3. i - n \in 1..Len(t) /\ (i - n) + n = i
      BY <1>1, <3>2
    <3>4. st[i] = t[i - n]
      BY <1>1, <3>3
    <3>5. <<i - n, b>> \in T
      BY <1>1, <3>1, <3>3, <3>4, ByteOf
    <3>6. f[<<i - n, b>>] = y
      BY <3>1, <3>3, <3>5
    <3> QED BY <3>5, <3>6
  <2>4. f \in [T -> U]
    BY <2>1
  <2> QED BY <2>2, <2>3, <2>4 DEF Bijection, Injection, Surjection, IsInjective
<1>4. BytesOf(st) = S \cup U /\ S \cap U = {}
  BY <1>2
<1>5. IsFiniteSet(S) /\ IsFiniteSet(T)
  BY WeightType
<1> HIDE DEF S, T, U, f
<1>6. IsFiniteSet(U) /\ Cardinality(U) = Cardinality(T)
  BY <1>3, <1>5, FS_Bijection DEF ExistsBijection
<1>7. Cardinality(S \cup U) = Cardinality(S) + Cardinality(U)
  <2>1. Cardinality({}) = 0
    BY FS_EmptySet
  <2>2. Cardinality(S) \in Nat /\ Cardinality(U) \in Nat
    BY <1>5, <1>6, FS_CardinalityType
  <2>3. Cardinality(S \cup U) = Cardinality(S) + Cardinality(U) - Cardinality(S \cap U)
    BY <1>5, <1>6, FS_Union
  <2>4. Cardinality(S \cap U) = 0
    BY <1>4, <2>1, Zenon
  <2> QED BY <2>2, <2>3, <2>4
<1> QED BY <1>4, <1>6, <1>7 DEF Weight, S, T, st

(* One entry takes what its body takes.                                    *)
LEMMA WeightOne ==
  ASSUME NEW e \in Entry
  PROVE  Weight(<<e>>) = e.size
<1>1. e.size \in Nat
  BY DEF Entry
<1>2. BytesOf(<<e>>) = {1} \X (1..e.size)
  BY DEF BytesOf
<1>3. IsFiniteSet({1}) /\ Cardinality({1}) = 1
  BY FS_Singleton
<1>4. \A m \in Nat : IsFiniteSet(1..m) /\ Cardinality(1..m) = m
  BY FS_Interval
<1>5. Cardinality({1} \X (1..e.size)) = Cardinality({1}) * Cardinality(1..e.size)
  BY <1>1, <1>3, <1>4, FS_Product
<1>6. \A m \in Nat : 1 * m = m
  OBVIOUS
<1> QED BY <1>1, <1>2, <1>3, <1>4, <1>5, <1>6 DEF Weight

(* Nothing takes nothing.                                                  *)
LEMMA WeightNone == Weight(<<>>) = 0
<1>1. BytesOf(<<>>) = {}
  BY DEF BytesOf
<1> QED BY <1>1, FS_EmptySet DEF Weight

(* What goes and what stays take what there was.                           *)
LEMMA WeightSplit ==
  ASSUME NEW es \in Seq(Entry), NEW k \in 0..Len(es)
  PROVE  /\ SubSeq(es, 1, k) \in Seq(Entry) /\ SubSeq(es, k + 1, Len(es)) \in Seq(Entry)
         /\ Weight(es) = Weight(SubSeq(es, 1, k)) + Weight(SubSeq(es, k + 1, Len(es)))
<1> DEFINE a == SubSeq(es, 1, k)
           b == SubSeq(es, k + 1, Len(es))
<1>1. /\ a \in Seq(Entry) /\ Len(a) = k /\ \A i \in 1..k : a[i] = es[i]
      /\ b \in Seq(Entry) /\ Len(b) = Len(es) - k
      /\ \A i \in 1..(Len(es) - k) : b[i] = es[k + i]
  BY SubSeqProperties
<1> HIDE DEF a, b
<1>2. /\ a \o b \in Seq(Entry) /\ Len(a \o b) = Len(a) + Len(b)
      /\ \A i \in 1..(Len(a) + Len(b)) :
           (a \o b)[i] = IF i <= Len(a) THEN a[i] ELSE b[i - Len(a)]
  BY <1>1, ConcatProperties
<1>3. Len(a \o b) = Len(es) /\ Len(es) \in Nat
  BY <1>1, <1>2
<1>4. ASSUME NEW i \in 1..Len(es) PROVE (a \o b)[i] = es[i]
  <2>1. CASE i <= k
    BY <1>1, <1>2, <1>3, <2>1
  <2>2. CASE ~ (i <= k)
    <3>1. i - k \in 1..(Len(es) - k) /\ k + (i - k) = i
      BY <1>3, <2>2
    <3> QED BY <1>1, <1>2, <1>3, <2>2, <3>1
  <2> QED BY <2>1, <2>2
<1>5. a \o b = es
  BY <1>2, <1>3, <1>4, SeqEqual
<1> QED BY <1>1, <1>5, WeightConcat DEF a, b

-----------------------------------------------------------------------------
(* The count of the cache                                                  *)

(* One entry to a key, with the size of its page, in a revision that has   *)
(* been published.                                                         *)
Neat(es, n) ==
  /\ \A i, j \in DOMAIN es : es[i].key = es[j].key => i = j
  /\ \A i \in DOMAIN es : /\ es[i].size = Size[es[i].html.page]
                          /\ es[i].html.version \in 1..n

(* The count is that of the entries, and within the bound.                 *)
CountedTo(c, n) ==
  /\ c.bytes = Weight(c.entries) /\ c.bytes <= MaxBytes
  /\ Neat(c.entries, n)

(* Some of the entries, in any order, are as neat as all of them.          *)
LEMMA SomeAreNeat ==
  ASSUME NEW es \in Seq(Entry), NEW gs \in Seq(Entry), NEW n, Neat(es, n),
         NEW f \in [1..Len(gs) -> 1..Len(es)],
         \A i \in 1..Len(gs) : gs[i] = es[f[i]],
         \A i, j \in 1..Len(gs) : f[i] = f[j] => i = j
  PROVE  Neat(gs, n)
<1>1. DOMAIN es = 1..Len(es) /\ DOMAIN gs = 1..Len(gs)
  OBVIOUS
<1>2. ASSUME NEW i \in 1..Len(gs), NEW j \in 1..Len(gs), gs[i].key = gs[j].key
      PROVE  i = j
  <2>1. f[i] \in DOMAIN es /\ f[j] \in DOMAIN es /\ es[f[i]].key = es[f[j]].key
    BY <1>1, <1>2
  <2>2. f[i] = f[j]
    BY <2>1 DEF Neat
  <2> QED BY <2>2
<1>3. ASSUME NEW i \in 1..Len(gs)
      PROVE  gs[i].size = Size[gs[i].html.page] /\ gs[i].html.version \in 1..n
  <2>1. f[i] \in DOMAIN es /\ gs[i] = es[f[i]]
    BY <1>1
  <2> QED BY <2>1 DEF Neat
<1> QED BY <1>1, <1>2, <1>3 DEF Neat

(* A revision more changes nothing for what is stored.                     *)
LEMMA NeatLater ==
  ASSUME NEW es, NEW n \in Nat, Neat(es, n)
  PROVE  Neat(es, n + 1)
<1>1. 1..n \subseteq 1..(n + 1)
  OBVIOUS
<1> QED BY <1>1 DEF Neat

(* Evicting counts what goes, and stops when the rest fits.                *)
LEMMA EvictCounts ==
  ASSUME ServeAssumption, NEW c, c.entries \in Seq(Entry), NEW n,
         c.bytes = Weight(c.entries), Neat(c.entries, n)
  PROVE  CountedTo(Evict(c), n)
<1> DEFINE es == c.entries
           k == Excess(c)
           a == SubSeq(es, 1, k)
           b == SubSeq(es, k + 1, Len(es))
<1>1. Len(es) \in Nat /\ k \in 0..Len(es) /\ Fits(c, k)
  BY ExcessFits, LenProperties
<1>2. Evict(c).entries = b /\ Evict(c).bytes = c.bytes - Weight(a)
  BY DEF Evict
<1> HIDE DEF k
<1>3. /\ a \in Seq(Entry) /\ b \in Seq(Entry)
      /\ Weight(es) = Weight(a) + Weight(b)
  BY <1>1, WeightSplit
<1>4. Weight(a) \in Nat /\ Weight(b) \in Nat
  BY <1>3, WeightType
<1>5. Evict(c).bytes = Weight(b)
  BY <1>2, <1>3, <1>4
<1>6. Weight(b) <= MaxBytes
  <2>1. CASE c.bytes - Weight(a) <= MaxBytes
    BY <1>2, <1>5, <2>1
  <2>2. CASE k = Len(es)
    <3>1. Len(b) = 0
      BY <1>1, <2>2, SubSeqProperties
    <3>2. b = <<>>
      BY <1>3, <3>1
    <3>3. Weight(b) = 0
      BY <3>2, WeightNone, Zenon
    <3>4. MaxBytes \in Nat
      BY ServeAssumption DEF ServeAssumption
    <3> QED BY <3>3, <3>4
  <2>3. c.bytes - Weight(a) <= MaxBytes \/ k = Len(es)
    BY <1>1, Zenon DEF Fits
  <2> QED BY <2>1, <2>2, <2>3, Zenon
<1>7. Neat(b, n)
  <2>1. /\ Len(b) = Len(es) - k
        /\ \A i \in 1..(Len(es) - k) : b[i] = es[k + i]
    BY <1>1, <1>3, SubSeqProperties
  <2> DEFINE f == [i \in 1..Len(b) |-> k + i]
  <2> HIDE DEF b
  <2>2. f \in [1..Len(b) -> 1..Len(es)]
    BY <1>1, <2>1
  <2>3. \A i \in 1..Len(b) : b[i] = es[f[i]]
    BY <2>1
  <2>4. \A i, j \in 1..Len(b) : f[i] = f[j] => i = j
    BY <1>1, <2>1
  <2> HIDE DEF f
  <2> QED BY <1>3, <2>2, <2>3, <2>4, SomeAreNeat
<1> QED BY <1>2, <1>5, <1>6, <1>7 DEF CountedTo

(* A body that is put is counted, and is the only one under its key.       *)
LEMMA PutCounts ==
  ASSUME ServeAssumption, NEW c, c.entries \in Seq(Entry), NEW n, CountedTo(c, n),
         NEW b, Right(b), b.version \in 1..n, ~ Holds(c, <<b.page, b.version>>)
  PROVE  CountedTo(Put(c, <<b.page, b.version>>, b), n)
<1> DEFINE k == <<b.page, b.version>>
           e == [key |-> k, html |-> b, size |-> Size[b.page]]
           es == Append(c.entries, e)
           d == [entries |-> es, bytes |-> c.bytes + Size[b.page]]
<1>1. b \in Stock /\ b.page \in Pages /\ b.version \in Nat
  BY DEF Right, Stock
<1>2. Size[b.page] \in Nat
  BY <1>1 DEF ServeAssumption
<1>3. e \in [key : Pages \X Nat, html : Stock, size : Nat]
  BY <1>1, <1>2
<1>4. e.key = k /\ e.html = b /\ e.size = Size[b.page]
  OBVIOUS
<1> HIDE DEF e
<1>5. e \in Entry
  BY <1>3, <1>4 DEF Entry
<1>6. es \in Seq(Entry) /\ es = c.entries \o <<e>> /\ <<e>> \in Seq(Entry)
  BY <1>5
<1>7. Weight(es) = Weight(c.entries) + e.size
  BY <1>5, <1>6, WeightConcat, WeightOne
<1>8. d.bytes = Weight(d.entries) /\ d.entries = es
  BY <1>4, <1>7 DEF CountedTo
<1>9. Neat(es, n)
  <2>1. /\ Len(c.entries) \in Nat /\ Len(es) = Len(c.entries) + 1
        /\ DOMAIN es = 1..Len(es) /\ DOMAIN c.entries = 1..Len(c.entries)
        /\ \A i \in 1..Len(c.entries) : es[i] = c.entries[i]
        /\ es[Len(es)] = e
    BY <1>5
  <2> HIDE DEF es, k
  <2>2. \A i \in 1..Len(c.entries) : c.entries[i].key # k
    BY DEF Holds, k
  <2>3. ASSUME NEW i \in DOMAIN es, NEW j \in DOMAIN es, es[i].key = es[j].key
        PROVE  i = j
    <3>1. CASE i = Len(es) \/ j = Len(es)
      BY <1>4, <2>1, <2>2, <2>3, <3>1
    <3>2. CASE i # Len(es) /\ j # Len(es)
      <4>1. i \in DOMAIN c.entries /\ j \in DOMAIN c.entries
        BY <2>1, <3>2
      <4> QED BY <2>1, <2>3, <4>1 DEF CountedTo, Neat
    <3> QED BY <3>1, <3>2
  <2>4. ASSUME NEW i \in DOMAIN es
        PROVE  es[i].size = Size[es[i].html.page] /\ es[i].html.version \in 1..n
    <3>1. CASE i = Len(es)
      BY <1>4, <2>1, <3>1
    <3>2. CASE i # Len(es)
      <4>1. i \in DOMAIN c.entries
        BY <2>1, <3>2
      <4> QED BY <2>1, <4>1 DEF CountedTo, Neat
    <3> QED BY <3>1, <3>2
  <2> QED BY <2>3, <2>4 DEF Neat
<1>10. Put(c, k, b) = c \/ Put(c, k, b) = Evict(d)
  BY DEF Put, e
<1> HIDE DEF d, es
<1>11. CountedTo(Evict(d), n)
  BY <1>6, <1>8, <1>9, EvictCounts
<1> QED BY <1>10, <1>11

(* One entry before others, and one after them.                            *)
LEMMA OneMore ==
  ASSUME NEW e \in Entry, NEW s \in Seq(Entry)
  PROVE  /\ <<e>> \in Seq(Entry)
         /\ <<e>> \o s \in Seq(Entry) /\ Len(<<e>> \o s) = Len(s) + 1
         /\ (<<e>> \o s)[1] = e
         /\ \A j \in 2..(Len(s) + 1) : (<<e>> \o s)[j] = s[j - 1]
         /\ Append(s, e) = s \o <<e>> /\ Append(s, e) \in Seq(Entry)
         /\ Len(Append(s, e)) = Len(s) + 1 /\ Append(s, e)[Len(s) + 1] = e
         /\ \A j \in 1..Len(s) : Append(s, e)[j] = s[j]
<1>1. <<e>> \in Seq(Entry) /\ Len(<<e>>) = 1 /\ <<e>>[1] = e /\ Len(s) \in Nat
  OBVIOUS
<1>2. /\ Append(s, e) = s \o <<e>> /\ Append(s, e) \in Seq(Entry)
      /\ Len(Append(s, e)) = Len(s) + 1 /\ Append(s, e)[Len(s) + 1] = e
      /\ \A j \in 1..Len(s) : Append(s, e)[j] = s[j]
  BY <1>1
<1> DEFINE o == <<e>>
<1> HIDE DEF o
<1>3. /\ o \o s \in Seq(Entry) /\ Len(o \o s) = Len(o) + Len(s)
      /\ \A j \in 1..(Len(o) + Len(s)) : (o \o s)[j] = IF j <= Len(o) THEN o[j] ELSE s[j - Len(o)]
  BY <1>1, ConcatProperties DEF o
<1>4. /\ Len(o \o s) = Len(s) + 1 /\ (o \o s)[1] = e
      /\ \A j \in 2..(Len(s) + 1) : (o \o s)[j] = s[j - 1]
  BY <1>1, <1>3 DEF o
<1> QED BY <1>1, <1>2, <1>3, <1>4 DEF o

(* A hit changes the order and nothing else.                               *)
LEMMA TouchCounts ==
  ASSUME NEW c, c.entries \in Seq(Entry), NEW k, Holds(c, k), NEW n, CountedTo(c, n)
  PROVE  CountedTo(Touch(c, k), n)
<1> DEFINE es == c.entries
           m == Len(es)
           i == Place(c, k)
           a == SubSeq(es, 1, i - 1)
           b == SubSeq(es, i + 1, m)
           gs == Append(a \o b, es[i])
<1>1. i \in 1..m /\ m \in Nat
  BY LenProperties DEF Holds, Place
<1>2. Touch(c, k).entries = gs /\ Touch(c, k).bytes = c.bytes
  BY DEF Touch
<1> HIDE DEF i
<1>3. es[i] \in Entry
  BY <1>1, ElementOfSeq
<1>4. /\ a \in Seq(Entry) /\ Weight(es) = Weight(a) + Weight(SubSeq(es, i, m))
      /\ SubSeq(es, i, m) \in Seq(Entry)
  <2>1. i - 1 \in 0..Len(es) /\ (i - 1) + 1 = i
    BY <1>1
  <2> QED BY <2>1, WeightSplit
<1>5. /\ b \in Seq(Entry)
      /\ SubSeq(es, i, m) = <<es[i]>> \o b
  <2>1. /\ b \in Seq(Entry) /\ Len(b) = m - i
        /\ \A j \in 1..(m - i) : b[j] = es[i + j]
    BY <1>1, WeightSplit, SubSeqProperties
  <2>2. /\ Len(SubSeq(es, i, m)) = m - i + 1
        /\ \A j \in 1..(m - i + 1) : SubSeq(es, i, m)[j] = es[i + j - 1]
    BY <1>1, <1>4, SubSeqProperties
  <2> HIDE DEF b
  <2>3. /\ <<es[i]>> \o b \in Seq(Entry)
        /\ Len(<<es[i]>> \o b) = m - i + 1
        /\ (<<es[i]>> \o b)[1] = es[i]
        /\ \A j \in 2..(m - i + 1) : (<<es[i]>> \o b)[j] = b[j - 1]
    BY <1>3, <2>1, OneMore
  <2>4. ASSUME NEW j \in 1..(m - i + 1) PROVE SubSeq(es, i, m)[j] = (<<es[i]>> \o b)[j]
    <3>1. CASE j = 1
      BY <1>1, <2>2, <2>3, <3>1
    <3>2. CASE j # 1
      <4>1. j - 1 \in 1..(m - i) /\ i + (j - 1) = i + j - 1 /\ j \in 2..(m - i + 1)
        BY <1>1, <3>2
      <4> QED BY <2>1, <2>2, <2>3, <4>1
    <3> QED BY <3>1, <3>2
  <2> DEFINE t == <<es[i]>> \o b
             g == SubSeq(es, i, m)
  <2>5. /\ g \in Seq(Entry) /\ t \in Seq(Entry) /\ Len(g) = Len(t)
        /\ \A j \in 1..Len(g) : g[j] = t[j]
    BY <1>4, <2>2, <2>3, <2>4
  <2> HIDE DEF t, g
  <2>6. g = t
    BY <2>5, SeqEqual
  <2> QED BY <2>1, <2>6 DEF t, g
<1>6. /\ a \o b \in Seq(Entry) /\ <<es[i]>> \in Seq(Entry)
      /\ gs = (a \o b) \o <<es[i]>> /\ gs \in Seq(Entry)
  <2>1. a \o b \in Seq(Entry)
    BY <1>4, <1>5, ConcatProperties
  <2> DEFINE ab == a \o b
  <2>2. ab \in Seq(Entry) /\ gs = Append(ab, es[i])
    BY <2>1
  <2> HIDE DEF ab, gs
  <2>3. <<es[i]>> \in Seq(Entry) /\ gs = ab \o <<es[i]>> /\ gs \in Seq(Entry)
    BY <1>3, <2>2, OneMore
  <2> QED BY <2>1, <2>3 DEF ab
<1>7. Weight(gs) = Weight(es)
  <2>1. Weight(gs) = Weight(a \o b) + Weight(<<es[i]>>)
    BY <1>6, WeightConcat
  <2>2. Weight(a \o b) = Weight(a) + Weight(b)
    BY <1>4, <1>5, WeightConcat
  <2>3. Weight(SubSeq(es, i, m)) = Weight(<<es[i]>>) + Weight(b)
    BY <1>5, <1>6, WeightConcat
  <2>4. Weight(a) \in Nat /\ Weight(b) \in Nat /\ Weight(<<es[i]>>) \in Nat
    BY <1>4, <1>5, <1>6, WeightType
  <2> HIDE DEF a, b, gs
  <2> QED BY <1>4, <2>1, <2>2, <2>3, <2>4
<1>8. Neat(gs, n)
  <2> DEFINE f == [j \in 1..m |-> IF j < i THEN j ELSE IF j < m THEN j + 1 ELSE i]
  <2>1. /\ Len(a) = i - 1 /\ \A j \in 1..(i - 1) : a[j] = es[j]
        /\ Len(b) = m - i /\ \A j \in 1..(m - i) : b[j] = es[i + j]
    BY <1>1, <1>4, <1>5, SubSeqProperties
  <2> HIDE DEF a, b
  <2> DEFINE ab == a \o b
  <2>2. /\ Len(ab) = m - 1
        /\ \A j \in 1..(m - 1) : /\ j < i => ab[j] = a[j]
                                 /\ ~ (j < i) => ab[j] = b[j - (i - 1)]
    <3>1. /\ Len(ab) = Len(a) + Len(b)
          /\ \A j \in 1..(Len(a) + Len(b)) :
               ab[j] = IF j <= Len(a) THEN a[j] ELSE b[j - Len(a)]
      BY <1>4, <1>5, ConcatProperties
    <3> HIDE DEF ab
    <3> QED BY <1>1, <2>1, <3>1
  <2>3. /\ Len(gs) = m
        /\ \A j \in 1..(m - 1) : gs[j] = ab[j]
        /\ gs[m] = es[i]
    <3>1. ab \in Seq(Entry) /\ gs = Append(ab, es[i])
      BY <1>6
    <3> HIDE DEF ab, gs
    <3>2. /\ Len(gs) = Len(ab) + 1 /\ gs[Len(ab) + 1] = es[i]
          /\ \A j \in 1..Len(ab) : gs[j] = ab[j]
      BY <1>3, <3>1, OneMore
    <3> QED BY <1>1, <2>2, <3>2
  <2> HIDE DEF ab
  <2> HIDE DEF gs
  <2>4. f \in [1..Len(gs) -> 1..Len(es)]
    BY <1>1, <2>3
  <2>5. ASSUME NEW j \in 1..Len(gs) PROVE gs[j] = es[f[j]]
    <3>1. CASE j = m
      BY <1>1, <2>3, <3>1
    <3>2. CASE j # m /\ j < i
      BY <1>1, <2>1, <2>2, <2>3, <3>2
    <3>3. CASE j # m /\ ~ (j < i)
      <4>1. j \in 1..(m - 1) /\ j - (i - 1) \in 1..(m - i) /\ i + (j - (i - 1)) = j + 1
        BY <1>1, <2>3, <3>3
      <4>2. gs[j] = b[j - (i - 1)]
        BY <2>2, <2>3, <3>3, <4>1
      <4>3. f[j] = j + 1
        BY <1>1, <3>3, <4>1
      <4> QED BY <2>1, <4>1, <4>2, <4>3
    <3> QED BY <3>1, <3>2, <3>3
  <2>6. ASSUME NEW j \in 1..Len(gs), NEW l \in 1..Len(gs), f[j] = f[l] PROVE j = l
    BY <1>1, <2>3, <2>6
  <2>7. Neat(es, n)
    BY DEF CountedTo
  <2> HIDE DEF f
  <2> QED BY <1>6, <2>4, <2>5, <2>6, <2>7, SomeAreNeat
<1> HIDE DEF gs
<1> QED BY <1>2, <1>7, <1>8 DEF CountedTo

-----------------------------------------------------------------------------
(* The types of serving                                                    *)

(* A request is about revisions that there are.                            *)
Recent(v, n) ==
  /\ v.live \subseteq 1..n
  /\ v.body # NoBody => v.body.version \in 1..n

Tally ==
  /\ edits \in Nat
  /\ \A p \in Pages : version[p] \in 1..(1 + edits)
  /\ \A s \in Servers : CountedTo(cache[s], 1 + edits)
  /\ \A r \in Readers : view[r] # NoView => Recent(view[r], 1 + edits)

(* A cache with nothing in it.                                             *)
LEMMA NoCacheCounts == ASSUME ServeAssumption, NEW n PROVE CountedTo(NoCache, n)
<1>1. NoCache.entries = <<>> /\ NoCache.bytes = 0 /\ DOMAIN <<>> = {}
  BY DEF NoCache
<1>2. MaxBytes \in Nat
  BY DEF ServeAssumption
<1>3. Weight(NoCache.entries) = 0
  BY <1>1, WeightNone, Zenon
<1>4. Neat(NoCache.entries, n)
  BY <1>1 DEF Neat
<1> QED BY <1>1, <1>2, <1>3, <1>4 DEF CountedTo

(* Before the first request.                                               *)
LEMMA InitTally == ServeInit => Tally
<1> SUFFICES ASSUME ServeInit PROVE Tally
  OBVIOUS
<1>1. ASSUME NEW s \in Servers PROVE CountedTo(cache[s], 1 + edits)
  <2>1. cache[s] = NoCache
    BY DEF ServeInit
  <2> QED BY <2>1, ServeAssumption, NoCacheCounts
<1>2. edits = 0 /\ \A p \in Pages : version[p] = 1
  BY DEF ServeInit
<1>3. \A r \in Readers : view[r] = NoView
  BY DEF ServeInit
<1> QED BY <1>1, <1>2, <1>3 DEF Tally

(* An answer is about the same revisions as its request.                   *)
LEMMA SameTally ==
  ASSUME Tally, UNCHANGED <<version, edits, cache>>,
         \A r \in Readers : view'[r] # NoView =>
            \/ view[r] # NoView /\ view'[r].live = view[r].live /\ view'[r].body = view[r].body
            \/ Recent(view'[r], 1 + edits)
  PROVE  Tally'
BY DEF Tally, Recent

(* A request begins with the live revision.                                *)
LEMMA AskTally ==
  ASSUME Reading, Tally, NEW r \in Readers, NEW s \in Servers, NEW p \in Pages, Ask(r, s, p)
  PROVE  Tally'
<1>1. PICK route \in {"page", "index", "search", "link"} :
        view' = [view EXCEPT ![r] = [at |-> s, route |-> route, page |-> p,
          step |-> IF route = "page" THEN "document" ELSE "tree", status |-> 0,
          body |-> NoBody, links |-> {},
          live |-> {version[p]}, ever |-> may[r], always |-> may[r]]]
  BY DEF Ask
<1>2. view'[r].live = {version[p]} /\ view'[r].body = NoBody
  BY <1>1 DEF Reading, WikiTypes
<1>3. Recent(view'[r], 1 + edits)
  BY <1>2 DEF Recent, Tally
<1>4. \A q \in Readers \ {r} : view'[q] = view[q]
  BY <1>1 DEF Reading, WikiTypes
<1>5. UNCHANGED <<version, edits, cache>>
  BY DEF Ask, Rest, wiki
<1> QED BY <1>3, <1>4, <1>5, SameTally

(* The body of a page comes from the cache, or goes there, and is counted. *)
LEMMA DocumentTally ==
  ASSUME ServeAssumption, Reading, Tally, NEW r \in Readers, Document(r)
  PROVE  Tally'
<1> DEFINE v == view[r]
           c == cache[v.at]
           k == <<v.page, version[v.page]>>
           body == IF Holds(c, k) THEN Stored(c, k).html ELSE Render(v.page)
           n == 1 + edits
<1>1. v \in Looks /\ v # NoView
  BY DEF Reading, WikiTypes, Document, Asking
<1>2. v.at \in Servers /\ v.page \in Pages /\ version[v.page] \in Nat
  BY <1>1 DEF Looks, Reading, WikiTypes
<1>3. c.entries \in Seq(Entry) /\ CountedTo(c, n) /\ version[v.page] \in 1..n
  BY <1>2 DEF Reading, Caches, Tally
<1>4. UNCHANGED <<version, edits>>
  BY DEF Document, Rest, wiki
<1>5. Recent(v, n)
  BY <1>1 DEF Tally
<1>6. CASE Answer(r, 404) /\ UNCHANGED cache
  <2>1. \A q \in Readers : view'[q] # NoView =>
          view[q] # NoView /\ view'[q].live = view[q].live /\ view'[q].body = view[q].body
    BY <1>1, <1>6 DEF Answer, Reading, WikiTypes, Looks
  <2> QED BY <1>4, <1>6, <2>1, SameTally
<1>7. CASE /\ cache' = [cache EXCEPT ![v.at] = IF Holds(c, k) THEN Touch(c, k)
                                              ELSE Put(c, k, body)]
           /\ view' = [view EXCEPT ![r].body = body, ![r].step = "tree"]
  <2> DEFINE d == IF Holds(c, k) THEN Touch(c, k) ELSE Put(c, k, body)
             w == [v EXCEPT !.body = body, !.step = "tree"]
  <2>1. CountedTo(d, n) /\ body.version \in 1..n
    <3>1. CASE Holds(c, k)
      <4>1. CountedTo(Touch(c, k), n)
        BY <1>3, <3>1, TouchCounts
      <4>2. Stored(c, k).html.version = version[v.page]
        BY <1>2, <1>3, <3>1, StoredIsRight
      <4> QED BY <1>3, <3>1, <4>1, <4>2
    <3>2. CASE ~ Holds(c, k)
      <4>1. body = [page |-> v.page, version |-> version[v.page], links |-> Mentions[v.page]]
        BY <3>2 DEF Render
      <4>2. Mentions[v.page] \in SUBSET Pages
        BY <1>2 DEF ServeAssumption
      <4>3. d = Put(c, k, body)
        BY <3>2
      <4> HIDE DEF body, v, c, d
      <4>4. Right(body) /\ body.page = v.page /\ body.version = version[v.page]
        BY <1>2, <4>1, <4>2 DEF Right, Stock
      <4>5. k = <<body.page, body.version>> /\ body.version \in 1..n
        BY <1>3, <4>4
      <4> HIDE DEF k
      <4>6. CountedTo(Put(c, k, body), n)
        BY <1>3, <3>2, <4>4, <4>5, PutCounts
      <4> QED BY <4>3, <4>5, <4>6
    <3> QED BY <3>1, <3>2
  <2>2. cache' = [cache EXCEPT ![v.at] = d] /\ view' = [view EXCEPT ![r] = w]
    BY <1>7 DEF Reading, WikiTypes
  <2> HIDE DEF d, body
  <2>3. \A s \in Servers : cache'[s] = IF s = v.at THEN d ELSE cache[s]
    BY <2>2 DEF Reading, Caches
  <2>4. w.live = v.live /\ w.body = body
    BY <1>1 DEF Looks
  <2>5. Recent(w, n)
    BY <1>5, <2>1, <2>4 DEF Recent
  <2> HIDE DEF w
  <2>6. \A q \in Readers : view'[q] = IF q = r THEN w ELSE view[q]
    BY <2>2 DEF Reading, WikiTypes
  <2> QED BY <1>4, <2>1, <2>3, <2>5, <2>6 DEF Tally
<1> QED BY <1>6, <1>7 DEF Document, Row, Key
(* An answer leaves the revisions and the cache alone.                     *)
LEMMA AnswerTally ==
  ASSUME Reading, Tally, NEW r \in Readers,
         Compose(r) \/ Index(r) \/ Search(r) \/ Follow(r) \/ BadGateway(r)
  PROVE  Tally'
<1>1. view[r] \in Looks /\ view[r] # NoView
  BY DEF Reading, WikiTypes, Compose, Index, Search, Follow, BadGateway, Asking
<1>2. UNCHANGED <<version, edits, cache>>
  BY DEF Compose, Index, Search, Follow, BadGateway, Rest, wiki
<1> DEFINE Said(status) == [view EXCEPT ![r].status = status, ![r].step = "done"]
           Listed(links, status) ==
             [view EXCEPT ![r].links = links, ![r].status = status, ![r].step = "done"]
<1>3. (\E status : view' = Said(status)) \/ (\E links, status : view' = Listed(links, status))
  <2>1. CASE Compose(r)
    <3>1. view' = Listed(Links(r, view[r].body), 200)
      BY <2>1 DEF Compose
    <3> QED BY <3>1
  <2>2. CASE Index(r)
    <3>1. view' = Listed(may[r], 200)
      BY <2>2 DEF Index
    <3> QED BY <3>1
  <2>3. CASE Search(r)
    <3>1. PICK found \in SUBSET may[r] : view' = Listed(found, 200)
      BY <2>3 DEF Search
    <3> QED BY <3>1
  <2>4. CASE Follow(r)
    <3>1. view' = Said(IF view[r].page \in may[r] THEN 200 ELSE 404)
      BY <2>4 DEF Follow, Answer
    <3> QED BY <3>1
  <2>5. CASE BadGateway(r)
    <3>1. view' = Said(502)
      BY <2>5 DEF BadGateway, Answer
    <3> QED BY <3>1
  <2> QED BY <2>1, <2>2, <2>3, <2>4, <2>5
<1>4. view'[r].live = view[r].live /\ view'[r].body = view[r].body
  <2>1. r \in DOMAIN view /\ {"live", "body"} \subseteq DOMAIN view[r]
    BY <1>1 DEF Reading, WikiTypes, Looks
  <2>2. CASE \E status : view' = Said(status)
    <3>1. PICK status : view' = Said(status)
      BY <2>2
    <3>2. view'[r] = [view[r] EXCEPT !.status = status, !.step = "done"]
      BY <2>1, <3>1
    <3> QED BY <1>1, <3>2 DEF Looks
  <2>3. CASE \E links, status : view' = Listed(links, status)
    <3>1. PICK links, status : view' = Listed(links, status)
      BY <2>3
    <3>2. view'[r] = [view[r] EXCEPT !.links = links, !.status = status, !.step = "done"]
      BY <2>1, <3>1
    <3> QED BY <1>1, <3>2 DEF Looks
  <2> QED BY <1>3, <2>2, <2>3
<1>5. \A q \in Readers \ {r} : view'[q] = view[q]
  BY <1>3 DEF Reading, WikiTypes
<1> QED BY <1>1, <1>2, <1>4, <1>5, SameTally

(* A publication is one edit and one revision more.                        *)
LEMMA EditTally ==
  ASSUME Reading, Tally, NEW p \in Pages, Publish(p) \/ \E r \in Readers : Grant(r, p)
  PROVE  Tally'
<1> DEFINE n == 1 + edits
<1>1. edits \in Nat /\ edits' = edits + 1 /\ cache' = cache /\ 1 + edits' = n + 1 /\ n \in Nat
  <2>1. edits \in Nat
    BY DEF Tally
  <2>2. Edit
    BY DEF Publish, Grant
  <2>3. edits' = edits + 1 /\ cache' = cache
    BY <2>2 DEF Edit
  <2> QED BY <2>1, <2>3
<1>2. \A q \in Pages : version'[q] \in 1..(n + 1)
  <2>1. CASE Publish(p)
    <3>1. \A q \in Pages : version'[q] = IF q = p THEN version[p] + 1 ELSE version[q]
      BY <2>1 DEF Publish, Reading, WikiTypes
    <3>2. \A q \in Pages : version[q] \in 1..n
      BY DEF Tally
    <3> HIDE DEF n
    <3> QED BY <1>1, <3>1, <3>2
  <2>2. CASE \E r \in Readers : Grant(r, p)
    <3>1. version' = version
      BY <2>2 DEF Grant
    <3>2. \A q \in Pages : version[q] \in 1..n
      BY DEF Tally
    <3> HIDE DEF n
    <3> QED BY <1>1, <3>1, <3>2
  <2> QED BY <2>1, <2>2
<1>3. ASSUME NEW s \in Servers PROVE CountedTo(cache'[s], n + 1)
  <2>1. CountedTo(cache[s], n)
    BY DEF Tally
  <2> HIDE DEF n
  <2> QED BY <1>1, <2>1, NeatLater DEF CountedTo
<1>4. ASSUME NEW q \in Readers, view'[q] # NoView PROVE Recent(view'[q], n + 1)
  <2>1. CASE view[q] # NoView /\ view'[q].live = view[q].live /\ view'[q].body = view[q].body
    <3>1. Recent(view[q], n)
      BY <2>1 DEF Tally
    <3> HIDE DEF n
    <3>2. 1..n \subseteq 1..(n + 1)
      BY <1>1
    <3> QED BY <2>1, <3>1, <3>2 DEF Recent
  <2>2. CASE /\ view[q] # NoView /\ view'[q].live = view[q].live \cup {version[p] + 1}
             /\ view'[q].body = view[q].body
    <3>1. Recent(view[q], n) /\ version[p] \in 1..n
      BY <2>2 DEF Tally
    <3> HIDE DEF n
    <3>2. 1..n \subseteq 1..(n + 1) /\ version[p] + 1 \in 1..(n + 1)
      BY <1>1, <3>1
    <3> QED BY <2>2, <3>1, <3>2 DEF Recent
  <2>3. CASE Publish(p)
    <3>1. view' = [r \in Readers |-> IF Asking(r) /\ view[r].page = p
                                     THEN [view[r] EXCEPT !.live = @ \cup {version[p] + 1}]
                                     ELSE view[r]]
      BY <2>3 DEF Publish
    <3>2. CASE Asking(q) /\ view[q].page = p
      <4>1. view[q] \in Looks /\ view[q] # NoView
        BY <3>2 DEF Reading, WikiTypes, Asking
      <4>2. view'[q] = [view[q] EXCEPT !.live = @ \cup {version[p] + 1}]
        BY <3>1, <3>2
      <4>3. view'[q].live = view[q].live \cup {version[p] + 1} /\ view'[q].body = view[q].body
        BY <4>1, <4>2 DEF Looks
      <4> QED BY <2>2, <4>1, <4>3
    <3>3. CASE ~ (Asking(q) /\ view[q].page = p)
      <4>1. view'[q] = view[q]
        BY <3>1, <3>3
      <4> QED BY <1>4, <2>1, <4>1
    <3> QED BY <3>2, <3>3
  <2>4. ASSUME NEW r \in Readers, Grant(r, p)
        PROVE  view[q] # NoView /\ view'[q].live = view[q].live /\ view'[q].body = view[q].body
    <3>1. PICK pages : view' = IF Asking(r)
                THEN [view EXCEPT ![r].ever = @ \cup pages, ![r].always = @ \cap pages]
                ELSE view
      BY <2>4 DEF Grant
    <3>2. CASE Asking(r) /\ q = r
      <4>1. view[r] \in Looks /\ view[r] # NoView
        BY <3>2 DEF Reading, WikiTypes, Asking
      <4> QED BY <3>1, <3>2, <4>1 DEF Reading, WikiTypes, Looks
    <3>3. CASE ~ Asking(r) \/ q # r
      <4>1. view'[q] = view[q]
        BY <3>1, <3>3 DEF Reading, WikiTypes
      <4> QED BY <1>4, <4>1
    <3> QED BY <3>2, <3>3
  <2> QED BY <2>1, <2>3, <2>4
<1> QED BY <1>1, <1>2, <1>3, <1>4 DEF Tally

(* A server that stops takes its cache and its requests with it.           *)
LEMMA StartTally == ASSUME ServeAssumption, Tally, StartStep PROVE Tally'
<1>1. /\ cache' = [s \in Servers |-> IF pc'[s] = "serving" THEN cache[s] ELSE NoCache]
      /\ view' = [r \in Readers |-> IF Asking(r) /\ pc'[view[r].at] # "serving" THEN NoView
                                    ELSE view[r]]
      /\ version' = version /\ edits' = edits
  BY DEF StartStep, wiki
<1>2. ASSUME NEW s \in Servers PROVE CountedTo(cache'[s], 1 + edits)
  <2>1. cache'[s] = cache[s] \/ cache'[s] = NoCache
    BY <1>1
  <2>2. CountedTo(cache[s], 1 + edits)
    BY DEF Tally
  <2> QED BY <2>1, <2>2, NoCacheCounts
<1>3. \A r \in Readers : view'[r] = view[r] \/ view'[r] = NoView
  BY <1>1
<1> QED BY <1>1, <1>2, <1>3 DEF Tally

(* Every step preserves it.                                                *)
LEMMA NextTally == Reading /\ Tally /\ [ServeNext]_serveVars => Tally'
<1> SUFFICES ASSUME Reading, Tally, [ServeNext]_serveVars PROVE Tally'
  OBVIOUS
<1>1. CASE UNCHANGED serveVars
  BY <1>1 DEF serveVars, wiki, Tally
<1>2. ASSUME NEW r \in Readers, Request(r) PROVE Tally'
  BY <1>2, ServeAssumption, DocumentTally, AnswerTally DEF Request
<1>3. CASE StartStep
  BY <1>3, ServeAssumption, StartTally
<1>4. ASSUME NEW p \in Pages, Publish(p) \/ \E r \in Readers : Grant(r, p) PROVE Tally'
  BY <1>4, EditTally
<1> QED
  BY <1>1, <1>2, <1>3, <1>4, AskTally DEF ServeNext

(* What every variable holds, for any number of readers, pages, servers    *)
(* and releases; and the count a Cache keeps of its bytes (cache.py) is    *)
(* that of its entries, one to a key, within render_cache_bytes.           *)
THEOREM ServeTypeCorrect == ServeSpec => []ServeTypeOK
<1>1. TypeOK /\ Reading /\ Tally => ServeTypeOK
  <2> SUFFICES ASSUME TypeOK, Reading, Tally PROVE ServeTypeOK
    OBVIOUS
  <2> DEFINE n == 1 + edits
  <2>1. version \in [Pages -> 1..n]
    BY DEF Reading, WikiTypes, Tally
  <2>2. \A b \in Stock : b.version \in 1..n => b \in Body
    BY DEF Stock, Body
  <2>3. ASSUME NEW r \in Readers PROVE view[r] \in View \cup {NoView}
    <3>1. CASE view[r] = NoView
      BY <3>1
    <3>2. CASE view[r] # NoView
      <4> DEFINE v == view[r]
      <4>1. v \in Looks /\ Recent(v, n)
        BY <3>2 DEF Reading, WikiTypes, Tally
      <4>2. v.body \in Body \cup {NoBody} /\ v.live \in SUBSET (1..n)
        BY <2>2, <4>1 DEF Looks, Recent
      <4> HIDE DEF v
      <4>3. v \in View
        BY <4>1, <4>2 DEF Looks, View
      <4> QED BY <4>3 DEF v
    <3> QED BY <3>1, <3>2
  <2>4. view \in [Readers -> View \cup {NoView}] /\ may \in [Readers -> SUBSET Pages]
    BY <2>3 DEF Reading, WikiTypes
  <2>5. ASSUME NEW s \in Servers
        PROVE  LET es == cache[s].entries IN
               /\ cache[s].bytes = Weight(es) /\ cache[s].bytes <= MaxBytes
               /\ \A i \in DOMAIN es : es[i].html \in Body /\ es[i].size = Size[es[i].html.page]
               /\ \A i, j \in DOMAIN es : es[i].key = es[j].key => i = j
    <3> DEFINE es == cache[s].entries
    <3>1. es \in Seq(Entry) /\ CountedTo(cache[s], n)
      BY DEF Reading, Caches, Tally
    <3>2. ASSUME NEW i \in DOMAIN es PROVE es[i].html \in Body
      <4>1. es[i] \in Entry
        BY <3>1, <3>2
      <4>2. es[i].html \in Stock
        BY <4>1 DEF Entry
      <4>3. es[i].html.version \in 1..n
        BY <3>1, <3>2 DEF CountedTo, Neat
      <4> QED BY <2>2, <4>2, <4>3
    <3> QED BY <3>1, <3>2 DEF CountedTo, Neat
  <2> QED BY <2>1, <2>4, <2>5 DEF ServeTypeOK
<1>2. ServeSpec => []Tally
  BY InitTally, NextTally, ReadingHolds, PTL DEF ServeSpec
<1> QED
  BY <1>1, <1>2, ReadingHolds, ServedSchemaIsWhole, PTL
=============================================================================
