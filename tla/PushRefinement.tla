--------------------------- MODULE PushRefinement ---------------------------
(* Push implements Revisions: what is committed is a log of revisions that *)
(* grows by one changeset at a time.  The added invariant says what the    *)
(* owner of the counter has appended so far: at most one revision to each  *)
(* document, its own, opened at its now(), which is what keeps             *)
(* publish_revision from superseding it in the same transaction.  The same *)
(* invariant, with the dates the owner has written, shows that the past is *)
(* stable: what document_as_of answers.  A second invariant follows each   *)
(* draft of a push through the changeset, and shows which drafts a push    *)
(* can take: only what another request of its author wrote meanwhile.      *)
EXTENDS PushHistoryProofs

(* g has what h has, and perhaps one revision more, by u at t.             *)
Grown(g, h, u, t) ==
  /\ Len(g) = Len(h) + 1
  /\ g[Len(g)].by = u /\ g[Len(g)].from = t

Keeps(g, h) == \A n \in 1..Len(h) : EntryOf(g[n]) = EntryOf(h[n])

GrowthInv == \A d \in Docs :
  LET g == work.hist[d]  h == db.hist[d] IN
  /\ Keeps(g, h)
  /\ \/ Len(g) = Len(h)
     \/ writer \in Sessions /\ Grown(g, h, AuthorOf[writer], now[writer])

(* The owner of the counter is a request in flight.                        *)
OwnerRuns == writer \in Sessions => pc[writer] # "idle"

PubInv == Typed /\ HistInv /\ OwnerRuns /\ GrowthInv

-----------------------------------------------------------------------------
(* A step that leaves the revisions alone.                                 *)
LEMMA HistSame ==
  ASSUME PubInv, work'.hist = work.hist, db'.hist = db.hist,
         writer \in Sessions => writer' = writer /\ now'[writer] = now[writer]
  PROVE  GrowthInv'
BY DEF PubInv, GrowthInv

(* Without a new history there is no new log.                              *)
LEMMA LogSame ==
  ASSUME db'.hist = db.hist
  PROVE  UNCHANGED Log
BY DEF Log, LogOf

(* An error publishes nothing.                                             *)
LEMMA AbortGrowth ==
  ASSUME PubInv, NEW s \in Sessions, Abort(s)
  PROVE  GrowthInv' /\ UNCHANGED Log
<1>1. CASE writer = s
  BY <1>1, LogSame DEF Abort, GrowthInv, Keeps
<1>2. CASE writer # s
  <2>1. Ended(s) /\ UNCHANGED <<db, work>> /\ writer' = writer
    BY <1>2 DEF Abort, Ended
  <2>2. writer \in Sessions => now'[writer] = now[writer]
    BY <1>2, <2>1, EndedOthers DEF PubInv, SameRequest
  <2> QED BY <2>1, <2>2, HistSame, LogSame
<1> QED BY <1>1, <1>2

(* A log has an entry for every revision.                                  *)
LEMMA LogOfSeq ==
  ASSUME NEW h \in Seq(Revision)
  PROVE  /\ LogOf(h) \in Seq(Published!Entry)
         /\ Len(LogOf(h)) = Len(h)
         /\ \A n \in 1..Len(h) : LogOf(h)[n] = EntryOf(h[n])
<1>1. \A n \in 1..Len(h) : h[n] \in Revision
  OBVIOUS
<1>2. \A n \in 1..Len(h) : EntryOf(h[n]) \in Published!Entry
  BY <1>1 DEF EntryOf, Revision, Published!Entry
<1> QED BY <1>2 DEF LogOf

(* A commit publishes what its transaction appended.                       *)
LEMMA CommitGrowth ==
  ASSUME PubInv, NEW s \in Sessions, writer = s, db'.hist = work.hist, work' = db',
         \A d \in Docs : ~ Closing(d)
  PROVE  GrowthInv' /\ Published!Next
<1> DEFINE batch == {d \in Docs : Len(work.hist[d]) = Len(db.hist[d]) + 1}
           body == [d \in batch |-> work.hist[d][Len(work.hist[d])].body]
           u == AuthorOf[s]
<1>1. GrowthInv'
  BY DEF GrowthInv, Keeps
<1>2. u \in Users /\ batch \in SUBSET Docs
  BY PushAssumption
<1>3. \A d \in Docs : work.hist[d] \in Seq(Revision) /\ db.hist[d] \in Seq(Revision)
  BY DEF PubInv, Typed, TypeOK, Database
<1>4. body \in [batch -> AnyBody]
  <2>1. ASSUME NEW d \in batch PROVE work.hist[d][Len(work.hist[d])].body \in AnyBody
    <3>1. work.hist[d][Len(work.hist[d])] \in Revision
      BY <1>3
    <3> QED BY <3>1 DEF Revision
  <2> QED BY <2>1
<1>5. ASSUME NEW d \in batch
      PROVE  LogOf(work.hist[d]) = Append(LogOf(db.hist[d]),
               [by |-> u, body |-> body[d], base |-> Len(LogOf(db.hist[d]))])
  <2> DEFINE g == work.hist[d]  h == db.hist[d]
             e == [by |-> u, body |-> body[d], base |-> Len(LogOf(h))]
  <2>1. Len(g) = Len(h) + 1 /\ Len(h) \in Nat
    BY <1>3
  <2>2. Keeps(g, h) /\ g[Len(g)].by = u
    BY <2>1 DEF PubInv, GrowthInv, Grown
  <2>3. g[Len(g)].base = Len(h)
    <3>1. Based(g)
      BY DEF PubInv, HistInv, HistOK, Sound
    <3>2. Len(g) \in 1..Len(g) /\ Len(g) - 1 = Len(h)
      BY <2>1
    <3>3. g[Len(g)].base = Len(g) - 1
      BY <3>1, <3>2 DEF Based
    <3> QED BY <3>2, <3>3
  <2>4. EntryOf(g[Len(g)]) = e
    BY <1>3, <2>2, <2>3, LogOfSeq DEF EntryOf
  <2>5. /\ LogOf(g) \in Seq(Published!Entry) /\ Len(LogOf(g)) = Len(h) + 1
        /\ LogOf(h) \in Seq(Published!Entry) /\ Len(LogOf(h)) = Len(h)
    BY <1>3, <2>1, LogOfSeq
  <2>6. /\ \A n \in 1..Len(h) : LogOf(g)[n] = LogOf(h)[n]
        /\ LogOf(g)[Len(h) + 1] = e
    <3>1. ASSUME NEW n \in 1..Len(h) PROVE LogOf(g)[n] = LogOf(h)[n]
      <4>1. n \in 1..Len(g)
        BY <2>1
      <4>2. LogOf(g)[n] = EntryOf(g[n]) /\ LogOf(h)[n] = EntryOf(h[n])
        BY <1>3, <4>1, LogOfSeq
      <4> QED BY <2>2, <4>2 DEF Keeps
    <3>2. LogOf(g)[Len(g)] = EntryOf(g[Len(g)])
      <4>1. Len(g) \in 1..Len(g)
        BY <2>1
      <4> QED BY <1>3, <4>1, LogOfSeq
    <3> QED BY <2>1, <2>4, <3>1, <3>2
  <2>7. e \in Published!Entry
    BY <1>3, <2>1, <2>4, <2>5, LogOfSeq
  <2> HIDE DEF g, h, e
  <2>8. LogOf(g) = Append(LogOf(h), e)
    BY <2>1, <2>5, <2>6, <2>7
  <2> QED BY <2>8 DEF g, h, e
<1>6. ASSUME NEW d \in Docs \ batch PROVE LogOf(work.hist[d]) = LogOf(db.hist[d])
  <2>1. Keeps(work.hist[d], db.hist[d]) /\ Len(work.hist[d]) = Len(db.hist[d])
    BY DEF PubInv, GrowthInv, Grown
  <2> QED BY <2>1 DEF LogOf, Keeps
<1>7. Log' = [d \in Docs |-> LogOf(work.hist[d])]
  BY DEF Log
<1>8. Published!Publish(u, batch, body)
  BY <1>5, <1>6, <1>7 DEF Published!Publish, Log
<1> QED BY <1>1, <1>2, <1>4, <1>8 DEF Published!Next

-----------------------------------------------------------------------------
(* publish_revision                                                        *)

(* The owner of the counter stays the owner, at the same now().            *)
LEMMA Owner ==
  ASSUME PubInv, NEW s \in Sessions, writer \in {Nobody, s}, writer' = s, UNCHANGED now
  PROVE  /\ writer \in Sessions => writer' = writer /\ now'[writer] = now[writer]
         /\ writer = Nobody => work = db
BY PushAssumption DEF PubInv, Typed, TypeOK

(* Closing the live revision publishes nothing yet.                        *)
LEMMA CloseGrowth ==
  ASSUME PubInv, NEW s \in Sessions, CloseLive(s), ~ Abort(s)
  PROVE  GrowthInv' /\ UNCHANGED Log
<1> DEFINE e == cur[s].doc  h == work.hist[e]  g == Closed(h, prev[s], now[s])
<1>1. writer \in {Nobody, s} /\ e \in Docs /\ View(s) = work /\ pc[s] = "close"
  BY OwnerSeesWork DEF CloseLive, MayWrite, PubInv, Typed, CallOK
<1>2. /\ work' = [work EXCEPT !.hist[e] = g] /\ writer' = s
      /\ UNCHANGED <<db, now>>
  BY <1>1 DEF CloseLive, Took
<1>3. work \in Database /\ h \in Seq(Revision) /\ now[s] \in Nat
  BY <1>1 DEF PubInv, Typed, TypeOK, Database
<1>4. prev[s] \in 1..Len(h)
  BY <1>1 DEF PubInv, HistInv, StepOK
<1>5. /\ Len(g) = Len(h)
      /\ \A n \in 1..Len(h) : n # prev[s] => g[n] = h[n]
      /\ g[prev[s]] = [h[prev[s]] EXCEPT !.to = now[s]]
  <2> HIDE DEF h
  <2> QED BY <1>3, <1>4, ClosedType
<1>6. h[prev[s]] \in Revision
  BY <1>3, <1>4
<1>7. \A n \in 1..Len(h) : EntryOf(g[n]) = EntryOf(h[n]) /\ g[n].from = h[n].from
                           /\ g[n].by = h[n].by
  BY <1>5, <1>6 DEF EntryOf, Revision
<1>8. work'.hist[e] = g /\ \A d \in Docs \ {e} : work'.hist[d] = work.hist[d]
  BY <1>1, <1>2, <1>3 DEF Database
<1>9. /\ writer \in Sessions => writer' = writer /\ now'[writer] = now[writer]
      /\ writer = Nobody => work = db
  BY <1>1, <1>2, Owner
<1> HIDE DEF g
<1>10. ASSUME NEW d \in Docs
       PROVE  LET f == work'.hist[d]  k == db.hist[d] IN
              /\ Keeps(f, k)
              /\ \/ Len(f) = Len(k)
                 \/ writer' \in Sessions /\ Grown(f, k, AuthorOf[writer'], now'[writer'])
  <2>1. /\ Keeps(work.hist[d], db.hist[d])
        /\ \/ Len(work.hist[d]) = Len(db.hist[d])
           \/ /\ writer \in Sessions
              /\ Grown(work.hist[d], db.hist[d], AuthorOf[writer], now[writer])
    BY DEF PubInv, GrowthInv
  <2>2. CASE d # e
    BY <1>8, <1>9, <2>1, <2>2
  <2>3. CASE d = e
    <3>1. Len(h) \in Nat /\ Len(db.hist[e]) \in Nat
      BY <1>1, <1>3 DEF PubInv, Typed, TypeOK, Database
    <3>2. Keeps(g, db.hist[e])
      BY <1>7, <2>1, <2>3, <3>1 DEF Keeps, Grown
    <3>3. Grown(h, db.hist[e], AuthorOf[writer], now[writer]) =>
            Grown(g, db.hist[e], AuthorOf[writer], now[writer])
      <4>1. Len(h) \in 1..Len(h)
        BY <1>3, <1>4
      <4> QED BY <1>5, <1>7, <4>1 DEF Grown
    <3> QED BY <1>5, <1>8, <1>9, <2>1, <2>3, <3>2, <3>3
  <2> QED BY <2>2, <2>3
<1>11. GrowthInv'
  BY <1>2, <1>10 DEF GrowthInv
<1> QED BY <1>2, <1>11, LogSame

(* A history with one revision more.                                       *)
LEMMA Appended ==
  ASSUME NEW h \in Seq(Revision), NEW r \in Revision
  PROVE  /\ Len(Append(h, r)) = Len(h) + 1 /\ Append(h, r)[Len(h) + 1] = r
         /\ \A n \in 1..Len(h) : Append(h, r)[n] = h[n]
OBVIOUS

(* The insert of a revision publishes nothing yet.                         *)
LEMMA InsertGrowth ==
  ASSUME PubInv, NEW s \in Sessions, InsertRevision(s), ~ Abort(s)
  PROVE  GrowthInv' /\ UNCHANGED Log
<1> DEFINE e == cur[s].doc  h == work.hist[e]  k == db.hist[e]
           r == [path |-> cur[s].path, body |-> cur[s].body, tomb |-> cur[s].tomb,
                 by |-> AuthorOf[s], base |-> cur[s].base,
                 from |-> now[s], to |-> Open]
<1>1. /\ writer \in {Nobody, s} /\ e \in Docs /\ View(s) = work /\ pc[s] = "insert"
      /\ cur[s] \in Call
  BY OwnerSeesWork DEF InsertRevision, MayWrite, PubInv, Typed, CallOK
<1>2. /\ \A n \in 1..Len(h) : h[n].to # Open
      /\ work' = [work EXCEPT !.hist[e] = Append(@, r)] /\ writer' = s
      /\ UNCHANGED <<db, now>>
  BY <1>1 DEF InsertRevision, Took, ValidFrom, WithNext
<1>3. work \in Database /\ h \in Seq(Revision) /\ k \in Seq(Revision) /\ now[s] \in Nat
  BY <1>1 DEF PubInv, Typed, TypeOK, Database
<1>4. /\ writer \in Sessions => writer' = writer /\ now'[writer] = now[writer]
      /\ writer = Nobody => work = db
  BY <1>1, <1>2, Owner
<1>5. Keeps(h, k) /\ (Len(h) = Len(k) \/ (writer = s /\ Grown(h, k, AuthorOf[s], now[s])))
  BY <1>1, PushAssumption DEF PubInv, GrowthInv
<1>6. Len(h) = Len(k)
  <2>1. SUFFICES ASSUME Grown(h, k, AuthorOf[s], now[s]) PROVE FALSE
    BY <1>5
  <2>2. Len(h) \in 1..Len(h)
    BY <1>3, <2>1 DEF Grown
  <2>3. h[Len(h)].from = now[s] /\ h[Len(h)].to # Open
    BY <1>2, <2>1, <2>2 DEF Grown
  <2>4. CASE Closing(e)
    <3>1. writer = s
      BY <1>1, <2>4, PushAssumption DEF Closing
    <3>2. SoundTo(h, now[s])
      BY <1>1, <2>4, <3>1 DEF PubInv, HistInv, HistOK
    <3> QED BY <1>3, <2>2, <2>3, <3>2 DEF SoundTo
  <2>5. CASE ~ Closing(e)
    <3>1. Sound(h)
      BY <1>1, <2>5 DEF PubInv, HistInv, HistOK
    <3> QED BY <2>2, <2>3, <3>1 DEF Sound, Tiled
  <2> QED BY <2>4, <2>5
<1>7. /\ Len(Append(h, r)) = Len(k) + 1 /\ Append(h, r)[Len(k) + 1] = r
      /\ \A n \in 1..Len(k) : Append(h, r)[n] = h[n]
  <2>1. r \in Revision
    BY <1>1, <1>3, PushAssumption DEF Revision, Call, Open
  <2> HIDE DEF r, h, k
  <2> QED BY <1>3, <1>6, <2>1, Appended
<1>8. work'.hist[e] = Append(h, r) /\ \A d \in Docs \ {e} : work'.hist[d] = work.hist[d]
  BY <1>1, <1>2, <1>3 DEF Database
<1>9. Keeps(Append(h, r), k) /\ Grown(Append(h, r), k, AuthorOf[s], now[s])
  <2>1. r.by = AuthorOf[s] /\ r.from = now[s]
    OBVIOUS
  <2> HIDE DEF r
  <2> QED BY <1>5, <1>7, <2>1 DEF Keeps, Grown
<1>10. ASSUME NEW d \in Docs
       PROVE  LET f == work'.hist[d]  g == db.hist[d] IN
              /\ Keeps(f, g)
              /\ \/ Len(f) = Len(g)
                 \/ writer' \in Sessions /\ Grown(f, g, AuthorOf[writer'], now'[writer'])
  <2>1. CASE d = e
    BY <1>2, <1>8, <1>9, <2>1
  <2>2. CASE d # e
    <3>1. /\ Keeps(work.hist[d], db.hist[d])
          /\ \/ Len(work.hist[d]) = Len(db.hist[d])
             \/ /\ writer \in Sessions
                /\ Grown(work.hist[d], db.hist[d], AuthorOf[writer], now[writer])
      BY DEF PubInv, GrowthInv
    <3> QED BY <1>4, <1>8, <2>2, <3>1
  <2> QED BY <2>1, <2>2
<1>11. GrowthInv'
  BY <1>2, <1>10 DEF GrowthInv
<1> QED BY <1>2, <1>11, LogSame

-----------------------------------------------------------------------------
(* The owner of the counter                                                *)

(* Whoever writes is at work: the end of a request.                        *)
LEMMA EndedRuns ==
  ASSUME Typed, OwnerRuns, NEW s \in Sessions, Ended(s)
  PROVE  OwnerRuns'
BY EndedOthers, PushAssumption DEF OwnerRuns, SameRequest, Ended, Typed, TypeOK

(* Whoever writes is at work: every step.                                  *)
LEMMA NextRuns == PubInv /\ [Next]_vars => OwnerRuns'
<1> SUFFICES ASSUME PubInv, [Next]_vars PROVE OwnerRuns'
  OBVIOUS
<1> USE DEF PubInv
<1>1. ASSUME NEW s \in Sessions, pc'[s] # "idle", writer' \in {writer, s},
             \A t \in Sessions \ {s} : pc'[t] = pc[t]
      PROVE  OwnerRuns'
  BY <1>1 DEF OwnerRuns
<1>2. ASSUME NEW s \in Sessions, Abort(s) PROVE OwnerRuns'
  BY <1>2, EndedRuns DEF Abort
<1>3. CASE UNCHANGED vars
  BY <1>3 DEF vars, OwnerRuns
<1>4. ASSUME NEW s \in Sessions, DraftRequest(s) PROVE OwnerRuns'
  <2>1. PICK p, row : DraftStatement(s, p, row)
    BY <1>4 DEF DraftRequest, PutCreate, PutDraft, DeleteDraft, BeginMerge, ResolveMerge,
       AbortMerge
  <2> QED BY <1>1, <2>1 DEF DraftStatement, Typed, TypeOK
<1>5. ASSUME NEW s \in Sessions, PublishRequest(s) PROVE OwnerRuns'
  BY <1>1, <1>5 DEF PublishRequest, PushStart, AttachStart, DetachStart, PublishStart,
     Called, Start, Typed, TypeOK
<1>6. ASSUME NEW s \in Sessions, SaveDraft(s) \/ PublishCommit(s) PROVE OwnerRuns'
  BY <1>6, EndedRuns DEF SaveDraft, PublishCommit, Commit
<1>7. ASSUME NEW s \in Sessions, Push(s) PROVE OwnerRuns'
  BY <1>1, <1>2, <1>7 DEF Push, PushValidate, PushOpen, PushNext, PushDone, PushClear, Took,
     Typed, TypeOK
<1>8. ASSUME NEW s \in Sessions, Publish(s), ~ PublishCommit(s) PROVE OwnerRuns'
  BY <1>1, <1>2, <1>8 DEF Publish, Attach, Detach, Resolve, CreateDocument, MoveDocument,
     ReadLive, CloseLive, InsertRevision, Took, Typed, TypeOK
<1>9. ASSUME NEW s \in Sessions, LockRows(s) PROVE OwnerRuns'
  BY <1>9 DEF LockRows, OwnerRuns
<1>10. ASSUME NEW s \in Sessions, Deadlock(s) \/ Cancel(s) PROVE OwnerRuns'
  BY <1>2, <1>10 DEF Deadlock, Cancel
<1> QED
  BY <1>3, <1>4, <1>5, <1>6, <1>7, <1>8, <1>9, <1>10 DEF Next, Statement

-----------------------------------------------------------------------------
(* The refinement                                                          *)

(* The initial states are initial states of Revisions.                     *)
LEMMA InitPublished == Init => PubInv /\ Published!Init
<1> SUFFICES ASSUME Init PROVE PubInv /\ Published!Init
  OBVIOUS
<1>1. Typed /\ HistInv
  BY InitTyped, InitHist
<1>2. OwnerRuns
  BY PushAssumption DEF Init, OwnerRuns
<1>3. GrowthInv
  BY DEF Init, GrowthInv, Keeps
<1>4. \A d \in Docs : LogOf(db.hist[d]) \in Seq(Published!Entry)
  BY <1>1, LogOfSeq DEF Typed, TypeOK, Database
<1>5. Published!Init
  BY <1>4 DEF Published!Init, Log
<1> QED BY <1>1, <1>2, <1>3, <1>5 DEF PubInv

(* Every step is a step of Revisions, or none.                             *)
LEMMA NextPublished == PubInv /\ [Next]_vars => PubInv' /\ [Published!Next]_Log
<1> SUFFICES ASSUME PubInv, [Next]_vars
             PROVE  GrowthInv' /\ [Published!Next]_Log
  BY NextTyped, NextHist, NextRuns DEF PubInv
<1>1. ASSUME work'.hist = work.hist, UNCHANGED <<db, now, writer>>
      PROVE  GrowthInv' /\ UNCHANGED Log
  BY <1>1, HistSame, LogSame
<1>2. CASE UNCHANGED vars
  BY <1>1, <1>2 DEF vars
<1>3. ASSUME NEW s \in Sessions, DraftRequest(s) PROVE GrowthInv' /\ UNCHANGED Log
  <2>1. PICK p, row : DraftStatement(s, p, row)
    BY <1>3 DEF DraftRequest, PutCreate, PutDraft, DeleteDraft, BeginMerge, ResolveMerge,
       AbortMerge
  <2> QED BY <1>1, <2>1 DEF DraftStatement
<1>4. ASSUME NEW s \in Sessions, PublishRequest(s) PROVE GrowthInv' /\ UNCHANGED Log
  <2>1. /\ UNCHANGED <<db, work, writer>> /\ pc[s] = "idle"
        /\ \A t \in Sessions \ {s} : SameRequest(t)
    BY <1>4 DEF PublishRequest, PushStart, AttachStart, DetachStart, PublishStart, Called,
       Start, PubInv, Typed, TypeOK, SameRequest
  <2>2. db'.hist = db.hist /\ work'.hist = work.hist
    BY <2>1
  <2>3. writer \in Sessions => writer' = writer /\ now'[writer] = now[writer]
    BY <2>1 DEF PubInv, OwnerRuns, SameRequest
  <2> QED BY <2>2, <2>3, HistSame, LogSame
<1>5. ASSUME NEW s \in Sessions, SaveDraft(s) PROVE GrowthInv' /\ UNCHANGED Log
  <2>1. work = db /\ work' = db' /\ db'.hist = db.hist /\ writer = Nobody
    BY <1>5 DEF SaveDraft, PubInv, Typed, TypeOK, Database
  <2> QED BY <2>1, HistSame, LogSame, PushAssumption
<1>6. ASSUME NEW s \in Sessions, Push(s) \/ Attach(s) \/ Detach(s) \/ ReadLive(s)
                                   \/ CreateDocument(s) \/ MoveDocument(s)
      PROVE  GrowthInv' /\ UNCHANGED Log
  <2>1. CASE Abort(s)
    BY <2>1, AbortGrowth
  <2>2. CASE ~ Abort(s) /\ MayWrite(s) /\ Took(s)
    <3>1. View(s) = work /\ writer \in {Nobody, s} /\ writer' = s
      BY <2>2, OwnerSeesWork DEF MayWrite, Took, PubInv
    <3>2. work'.hist = work.hist /\ UNCHANGED <<db, now>>
      BY <1>6, <2>2, <3>1 DEF Push, PushClear, CreateDocument, MoveDocument, PushValidate,
         PushOpen, PushNext, PushDone, Attach, Detach, Resolve, ReadLive,
         PubInv, Typed, TypeOK, Database
    <3> QED BY <3>1, <3>2, Owner, HistSame, LogSame
  <2>3. CASE ~ Abort(s) /\ ~ (MayWrite(s) /\ Took(s))
    BY <1>1, <1>6, <2>3 DEF Push, PushClear, CreateDocument, MoveDocument, PushValidate,
       PushOpen, PushNext, PushDone, Attach, Detach, Resolve, ReadLive
  <2> QED BY <2>1, <2>2, <2>3
<1>7. ASSUME NEW s \in Sessions, CloseLive(s) \/ InsertRevision(s)
      PROVE  GrowthInv' /\ UNCHANGED Log
  BY <1>7, AbortGrowth, CloseGrowth, InsertGrowth
<1>8. ASSUME NEW s \in Sessions, PublishCommit(s) PROVE GrowthInv' /\ Published!Next
  <2>1. writer = s /\ pc[s] = "commit"
    BY <1>8 DEF PublishCommit, PubInv, HistInv, StepOK
  <2>2. db' = work /\ work' = work /\ \A d \in Docs : ~ Closing(d)
    BY <1>8, <2>1 DEF PublishCommit, Commit, View, Closing
  <2> QED BY <2>1, <2>2, CommitGrowth
<1>9. ASSUME NEW s \in Sessions, LockRows(s) PROVE GrowthInv' /\ UNCHANGED Log
  BY <1>1, <1>9 DEF LockRows
<1>10. ASSUME NEW s \in Sessions, Deadlock(s) \/ Cancel(s) PROVE GrowthInv' /\ UNCHANGED Log
  BY <1>10, AbortGrowth DEF Deadlock, Cancel
<1> QED
  BY <1>2, <1>3, <1>4, <1>5, <1>6, <1>7, <1>8, <1>9, <1>10
  DEF Next, Statement, Publish

(* What is committed behaves as Revisions says: history only grows, one    *)
(* changeset of one author at a time, each revision on top of the one it   *)
(* was made from, whatever the interleaving of requests and their aborts.  *)
THEOREM PushPublishes == Spec => PublishedSpec
BY InitPublished, NextPublished, PTL DEF Spec, PublishedSpec, Published!Spec

-----------------------------------------------------------------------------
(* The past                                                                *)

(* A transaction that publishes has its now() from its first statement on. *)
Timed ==
  /\ \A s \in Sessions : pc[s] \notin {"idle", "save"} => now[s] # 0
  /\ writer \in Sessions => now[writer] # 0

(* What the owner of the counter has closed was open, and it closed it at  *)
(* its own now().                                                          *)
Dated(g, h) == \A n \in 1..Len(h) :
  \/ g[n].to = h[n].to
  \/ h[n].to = Open /\ writer \in Sessions /\ g[n].to = now[writer]

Dates == \A d \in Docs : Dated(work.hist[d], db.hist[d])

PastInv == PubInv /\ Timed /\ Dates

(* A transaction takes its now() when it starts, and keeps it.             *)
LEMMA NextTimed == PubInv /\ Timed /\ [Next]_vars => Timed'
<1> SUFFICES ASSUME PubInv, Timed, [Next]_vars PROVE Timed'
  OBVIOUS
<1> USE DEF PubInv
<1>1. ASSUME NEW s \in Sessions, now' = now, writer' \in {writer, s},
             pc'[s] \in {"idle", "save"} \/ now[s] # 0, writer' = s => now[s] # 0,
             \A t \in Sessions \ {s} : pc'[t] = pc[t]
      PROVE  Timed'
  BY <1>1 DEF Timed
<1>2. ASSUME NEW s \in Sessions, Ended(s) PROVE Timed'
  <2>1. /\ pc' = [pc EXCEPT ![s] = "idle"] /\ now' = [now EXCEPT ![s] = 0]
        /\ writer' = (IF writer = s THEN Nobody ELSE writer)
    BY <1>2 DEF Ended
  <2> QED BY <2>1, PushAssumption DEF Timed, Typed, TypeOK
<1>3. CASE UNCHANGED vars
  BY <1>3 DEF vars, Timed
<1>4. ASSUME NEW s \in Sessions, DraftRequest(s) PROVE Timed'
  <2>1. PICK p, row : DraftStatement(s, p, row)
    BY <1>4 DEF DraftRequest, PutCreate, PutDraft, DeleteDraft, BeginMerge, ResolveMerge,
       AbortMerge
  <2>2. pc' = [pc EXCEPT ![s] = "save"] /\ now' = now /\ writer' = writer
    BY <2>1 DEF DraftStatement
  <2> QED BY <2>2 DEF Timed, Typed, TypeOK
<1>5. ASSUME NEW s \in Sessions, PublishRequest(s) PROVE Timed'
  <2>1. now' = [now EXCEPT ![s] = clock + 1] /\ writer' = writer
        /\ \A t \in Sessions \ {s} : pc'[t] = pc[t]
    BY <1>5 DEF PublishRequest, PushStart, AttachStart, DetachStart, PublishStart, Called,
       Start, Typed, TypeOK
  <2>2. now'[s] # 0 /\ \A t \in Sessions \ {s} : now'[t] = now[t]
    BY <2>1 DEF Typed, TypeOK
  <2> QED BY <2>1, <2>2 DEF Timed
<1>6. ASSUME NEW s \in Sessions, SaveDraft(s) \/ PublishCommit(s) \/ Abort(s) PROVE Timed'
  BY <1>2, <1>6 DEF SaveDraft, PublishCommit, Commit, Abort
<1>7. ASSUME NEW s \in Sessions, Push(s) \/ Publish(s), ~ PublishCommit(s), ~ Abort(s)
      PROVE  Timed'
  <2>1. /\ pc[s] \notin {"idle", "save"} /\ now' = now /\ writer' \in {writer, s}
        /\ \A t \in Sessions \ {s} : pc'[t] = pc[t]
    BY <1>7 DEF Push, PushValidate, PushOpen, PushNext, PushDone, PushClear, Took,
       Publish, Attach, Detach, Resolve, CreateDocument, MoveDocument, ReadLive, CloseLive,
       InsertRevision, Typed, TypeOK
  <2>2. now[s] # 0
    BY <2>1 DEF Timed
  <2> QED BY <1>1, <2>1, <2>2
<1>8. ASSUME NEW s \in Sessions, LockRows(s) PROVE Timed'
  BY <1>8 DEF LockRows, Timed
<1>9. ASSUME NEW s \in Sessions, Deadlock(s) \/ Cancel(s) PROVE Timed'
  BY <1>6, <1>9 DEF Deadlock, Cancel
<1> QED
  BY <1>3, <1>4, <1>5, <1>6, <1>7, <1>8, <1>9 DEF Next, Statement

-----------------------------------------------------------------------------
(* A step leaves all histories alone, or is a commit, or closes a revision *)
(* or adds one in a transaction.                                           *)

(* The histories, and the owner with its now(), stay as they are.          *)
Still ==
  /\ work'.hist = work.hist /\ db'.hist = db.hist
  /\ writer \in Sessions => writer' = writer /\ now'[writer] = now[writer]

(* An error, or a commit: nobody has written anything.                     *)
Met ==
  /\ work'.hist = db'.hist
  /\ \/ db'.hist = db.hist
     \/ writer \in Sessions /\ db'.hist = work.hist

(* A statement of publish_revision that writes.                            *)
Writes(s) == (CloseLive(s) \/ InsertRevision(s)) /\ ~ Abort(s)

(* Every step is one of these.                                             *)
LEMMA HistoryStep ==
  PubInv /\ [Next]_vars => Still \/ Met \/ \E s \in Sessions : Writes(s)
<1> SUFFICES ASSUME PubInv, [Next]_vars, \A s \in Sessions : ~ Writes(s)
             PROVE  Still \/ Met
  OBVIOUS
<1>1. ASSUME work'.hist = work.hist, UNCHANGED <<db, now, writer>> PROVE Still
  BY <1>1 DEF Still
<1>2. CASE UNCHANGED vars
  BY <1>1, <1>2 DEF vars
<1>3. ASSUME NEW s \in Sessions, DraftRequest(s) PROVE Still
  <2>1. PICK p, row : DraftStatement(s, p, row)
    BY <1>3 DEF DraftRequest, PutCreate, PutDraft, DeleteDraft, BeginMerge, ResolveMerge,
       AbortMerge
  <2> QED BY <1>1, <2>1 DEF DraftStatement
<1>4. ASSUME NEW s \in Sessions, PublishRequest(s) PROVE Still
  <2>1. /\ UNCHANGED <<db, work, writer>> /\ pc[s] = "idle"
        /\ \A t \in Sessions \ {s} : SameRequest(t)
    BY <1>4 DEF PublishRequest, PushStart, AttachStart, DetachStart, PublishStart, Called,
       Start, PubInv, Typed, TypeOK, SameRequest
  <2> QED BY <2>1 DEF Still, PubInv, OwnerRuns, SameRequest
<1>5. ASSUME NEW s \in Sessions, SaveDraft(s) PROVE Met
  BY <1>5 DEF Met, SaveDraft, PubInv, Typed, TypeOK, Database
<1>6. ASSUME NEW s \in Sessions, Abort(s) PROVE Still \/ Met
  <2>1. CASE writer = s
    BY <1>6, <2>1 DEF Abort, Met
  <2>2. CASE writer # s
    <3>1. Ended(s) /\ UNCHANGED <<db, work>> /\ writer' = writer
      BY <1>6, <2>2 DEF Abort, Ended
    <3>2. writer \in Sessions => now'[writer] = now[writer]
      BY <2>2, <3>1, EndedOthers DEF PubInv, SameRequest
    <3> QED BY <3>1, <3>2 DEF Still
  <2> QED BY <2>1, <2>2
<1>7. ASSUME NEW s \in Sessions, Push(s) \/ Attach(s) \/ Detach(s) \/ ReadLive(s)
                                   \/ CreateDocument(s) \/ MoveDocument(s)
      PROVE  Still \/ Met
  <2>1. CASE Abort(s)
    BY <1>6, <2>1
  <2>2. CASE ~ Abort(s) /\ MayWrite(s) /\ Took(s)
    <3>1. View(s) = work /\ writer \in {Nobody, s} /\ writer' = s
      BY <2>2, OwnerSeesWork DEF MayWrite, Took, PubInv
    <3>2. work'.hist = work.hist /\ UNCHANGED <<db, now>>
      BY <1>7, <2>2, <3>1 DEF Push, PushClear, CreateDocument, MoveDocument, PushValidate,
         PushOpen, PushNext, PushDone, Attach, Detach, Resolve, ReadLive,
         PubInv, Typed, TypeOK, Database
    <3> QED BY <3>1, <3>2, Owner DEF Still
  <2>3. CASE ~ Abort(s) /\ ~ (MayWrite(s) /\ Took(s))
    BY <1>1, <1>7, <2>3 DEF Push, PushClear, CreateDocument, MoveDocument, PushValidate,
       PushOpen, PushNext, PushDone, Attach, Detach, Resolve, ReadLive
  <2> QED BY <2>1, <2>2, <2>3
<1>8. ASSUME NEW s \in Sessions, CloseLive(s) \/ InsertRevision(s) PROVE Still \/ Met
  BY <1>6, <1>8 DEF Writes
<1>9. ASSUME NEW s \in Sessions, PublishCommit(s) PROVE Met
  <2>1. writer = s
    BY <1>9 DEF PublishCommit, PubInv, HistInv, StepOK
  <2> QED BY <1>9, <2>1 DEF PublishCommit, Commit, View, Met
<1>10. ASSUME NEW s \in Sessions, LockRows(s) PROVE Still
  BY <1>1, <1>10 DEF LockRows
<1>11. ASSUME NEW s \in Sessions, Deadlock(s) \/ Cancel(s) PROVE Still \/ Met
  BY <1>6, <1>11 DEF Deadlock, Cancel
<1>12. ASSUME NEW s \in Sessions, Statement(s) PROVE Still \/ Met
  BY <1>5, <1>7, <1>8, <1>9, <1>10, <1>11, <1>12 DEF Statement, Publish
<1>13. CASE Next
  BY <1>3, <1>4, <1>11, <1>12, <1>13 DEF Next
<1> QED BY <1>2, <1>13

(* Whatever is committed is there for the owner.                           *)
LEMMA StillThere ==
  ASSUME PubInv, NEW d \in Docs, NEW n \in 1..Len(db.hist[d])
  PROVE  n \in 1..Len(work.hist[d])
<1>1. Len(db.hist[d]) \in Nat /\ Len(work.hist[d]) \in Nat
  BY DEF PubInv, Typed, TypeOK, Database
<1>2. Len(db.hist[d]) <= Len(work.hist[d])
  BY DEF PubInv, HistInv, HistOK, Extends
<1> QED BY <1>1, <1>2

(* A revision that is closed was open, and is closed at the owner's now(). *)
LEMMA CloseDates ==
  ASSUME PastInv, NEW s \in Sessions, CloseLive(s), ~ Abort(s)
  PROVE  Dates'
<1> USE DEF PastInv
<1> DEFINE e == cur[s].doc  h == work.hist[e]  g == Closed(h, prev[s], now[s])
<1>1. writer \in {Nobody, s} /\ e \in Docs /\ View(s) = work /\ pc[s] = "close"
  BY OwnerSeesWork DEF CloseLive, MayWrite, PubInv, Typed, CallOK
<1>2. /\ work' = [work EXCEPT !.hist[e] = g] /\ writer' = s
      /\ UNCHANGED <<db, now>> /\ h[prev[s]].to = Open
  BY <1>1 DEF CloseLive, Took
<1>3. work \in Database /\ h \in Seq(Revision) /\ now[s] \in Nat
  BY <1>1 DEF PubInv, Typed, TypeOK, Database
<1>4. prev[s] \in 1..Len(h)
  BY <1>1 DEF PubInv, HistInv, StepOK
<1>5. /\ \A n \in 1..Len(h) : n # prev[s] => g[n] = h[n]
      /\ g[prev[s]] = [h[prev[s]] EXCEPT !.to = now[s]]
  <2> HIDE DEF h
  <2> QED BY <1>3, <1>4, ClosedType
<1>6. g[prev[s]].to = now[s]
  <2>1. h[prev[s]] \in Revision
    BY <1>3, <1>4
  <2> QED BY <1>5, <2>1 DEF Revision
<1>7. work'.hist[e] = g /\ \A d \in Docs \ {e} : work'.hist[d] = work.hist[d]
  BY <1>1, <1>2, <1>3 DEF Database
<1>8. /\ writer \in Sessions => writer' = writer /\ now'[writer] = now[writer]
      /\ writer = Nobody => work = db
  BY <1>1, <1>2, Owner
<1> HIDE DEF g
<1>9. ASSUME NEW d \in Docs, NEW n \in 1..Len(db.hist[d])
      PROVE  LET f == work'.hist[d]  k == db.hist[d] IN
             \/ f[n].to = k[n].to
             \/ k[n].to = Open /\ writer' \in Sessions /\ f[n].to = now'[writer']
  <2>1. \/ work.hist[d][n].to = db.hist[d][n].to
        \/ /\ db.hist[d][n].to = Open /\ writer \in Sessions
           /\ work.hist[d][n].to = now[writer]
    BY DEF Dates, Dated
  <2>2. CASE d # e
    BY <1>7, <1>8, <2>1, <2>2
  <2>3. CASE d = e /\ n # prev[s]
    <3>1. n \in 1..Len(h)
      BY <2>3, StillThere
    <3> QED BY <1>5, <1>7, <1>8, <2>1, <2>3, <3>1
  <2>4. CASE d = e /\ n = prev[s]
    <3>1. db.hist[d][n].to = Open
      BY <1>2, <2>1, <2>4 DEF Timed, Open
    <3>2. work'.hist[d][n].to = now'[writer'] /\ writer' \in Sessions
      BY <1>2, <1>6, <1>7, <2>4
    <3> QED BY <3>1, <3>2
  <2> QED BY <2>2, <2>3, <2>4
<1> QED BY <1>2, <1>9 DEF Dates, Dated

(* A revision that is added changes none that is there.                    *)
LEMMA InsertDates ==
  ASSUME PastInv, NEW s \in Sessions, InsertRevision(s), ~ Abort(s)
  PROVE  Dates'
<1> USE DEF PastInv
<1> DEFINE e == cur[s].doc  h == work.hist[e]
           r == [path |-> cur[s].path, body |-> cur[s].body, tomb |-> cur[s].tomb,
                 by |-> AuthorOf[s], base |-> cur[s].base,
                 from |-> now[s], to |-> Open]
<1>1. /\ writer \in {Nobody, s} /\ e \in Docs /\ View(s) = work /\ cur[s] \in Call
  BY OwnerSeesWork DEF InsertRevision, MayWrite, PubInv, Typed, CallOK
<1>2. /\ work' = [work EXCEPT !.hist[e] = Append(@, r)] /\ writer' = s
      /\ UNCHANGED <<db, now>>
  BY <1>1 DEF InsertRevision, Took, ValidFrom, WithNext
<1>3. work \in Database /\ h \in Seq(Revision) /\ now[s] \in Nat
  BY <1>1 DEF PubInv, Typed, TypeOK, Database
<1>4. /\ writer \in Sessions => writer' = writer /\ now'[writer] = now[writer]
      /\ writer = Nobody => work = db
  BY <1>1, <1>2, Owner
<1>5. \A n \in 1..Len(h) : Append(h, r)[n] = h[n]
  <2>1. r \in Revision
    BY <1>1, <1>3, PushAssumption DEF Revision, Call, Open
  <2> HIDE DEF r, h
  <2> QED BY <1>3, <2>1, Appended
<1>6. work'.hist[e] = Append(h, r) /\ \A d \in Docs \ {e} : work'.hist[d] = work.hist[d]
  BY <1>1, <1>2, <1>3 DEF Database
<1>7. ASSUME NEW d \in Docs, NEW n \in 1..Len(db.hist[d])
      PROVE  work'.hist[d][n] = work.hist[d][n]
  <2>1. n \in 1..Len(work.hist[d])
    BY StillThere
  <2> QED BY <1>5, <1>6, <2>1
<1>8. \A d \in Docs : \A n \in 1..Len(db.hist[d]) :
        \/ work.hist[d][n].to = db.hist[d][n].to
        \/ /\ db.hist[d][n].to = Open /\ writer \in Sessions
           /\ work.hist[d][n].to = now[writer]
  BY DEF Dates, Dated
<1> HIDE DEF r, h
<1> QED BY <1>2, <1>4, <1>7, <1>8 DEF Dates, Dated

(* Every step keeps the dates.                                             *)
LEMMA NextDates == PastInv /\ [Next]_vars => Dates'
<1> SUFFICES ASSUME PastInv, [Next]_vars PROVE Dates'
  OBVIOUS
<1>1. CASE Still
  BY <1>1 DEF Still, PastInv, Dates, Dated
<1>2. CASE Met
  BY <1>2 DEF Met, Dates, Dated
<1>3. ASSUME NEW s \in Sessions, Writes(s) PROVE Dates'
  BY <1>3, CloseDates, InsertDates DEF Writes
<1> QED BY <1>1, <1>2, <1>3, HistoryStep DEF PastInv

(* Before the owner's now(), what it wrote reads as what is committed.     *)
LEMMA PastSame ==
  ASSUME PastInv, writer \in Sessions, NEW d \in Docs, NEW t \in Nat, t < now[writer]
  PROVE  AsOf(work.hist[d], t) = AsOf(db.hist[d], t)
<1> DEFINE g == work.hist[d]  h == db.hist[d]
<1>1. g \in Seq(Revision) /\ h \in Seq(Revision) /\ now[writer] \in Nat
  BY DEF PastInv, PubInv, Typed, TypeOK, Database
<1>2. Extends(g, h)
  BY DEF PastInv, PubInv, HistInv, HistOK
<1>3. Dated(g, h) /\ now[writer] # 0
  BY DEF PastInv, Dates, Timed
<1>4. Len(g) = Len(h) \/ (Len(g) = Len(h) + 1 /\ g[Len(g)].from = now[writer])
  BY DEF PastInv, PubInv, GrowthInv, Grown
<1> HIDE DEF g, h
<1>5. Len(g) \in Nat /\ Len(h) \in Nat
  BY <1>1
<1>6. ASSUME NEW n \in 1..Len(h)
      PROVE  n \in AsOf(g, t) <=> n \in AsOf(h, t)
  <2>1. n \in 1..Len(g) /\ g[n].from = h[n].from
    BY <1>2, <1>5 DEF Extends
  <2>2. g[n].to = h[n].to \/ (h[n].to = Open /\ g[n].to = now[writer])
    BY <1>3 DEF Dated
  <2> QED BY <1>1, <2>1, <2>2 DEF AsOf
<1>7. ASSUME NEW n \in 1..Len(g), n \notin 1..Len(h)
      PROVE  n \notin AsOf(g, t)
  <2>1. n = Len(g) /\ g[n].from = now[writer]
    BY <1>4, <1>5, <1>7
  <2> QED BY <1>1, <2>1 DEF AsOf
<1>8. AsOf(g, t) \subseteq 1..Len(g) /\ AsOf(h, t) \subseteq 1..Len(h)
  BY DEF AsOf
<1>9. AsOf(g, t) = AsOf(h, t)
  BY <1>6, <1>7, <1>8
<1> QED BY <1>9 DEF g, h

(* What document_as_of answers for an instant is settled once every        *)
(* transaction that was running then has ended.                            *)
THEOREM PastIsStable == Spec => StablePast
<1>1. Init => PastInv
  <2>1. Init => Timed /\ Dates
    BY PushAssumption DEF Init, Timed, Dates, Dated
  <2> QED BY <2>1, InitPublished DEF PastInv
<1>2. PastInv /\ [Next]_vars => PastInv'
  BY NextPublished, NextTimed, NextDates DEF PastInv
<1>3. ASSUME PastInv, [Next]_vars, NEW t \in 1..MaxClock, Settled(t), NEW d \in Docs
      PROVE  AsOf(db'.hist[d], t) = AsOf(db.hist[d], t)
  <2>1. CASE db'.hist = db.hist
    BY <2>1
  <2>2. CASE writer \in Sessions /\ db'.hist = work.hist
    <3>1. t \in Nat /\ t < now[writer]
      BY <1>3, <2>2, PushAssumption DEF Settled, PastInv, Timed
    <3> QED BY <1>3, <2>2, <3>1, PastSame
  <2>3. ASSUME NEW s \in Sessions, Writes(s) PROVE db'.hist = db.hist
    BY <2>3 DEF Writes, CloseLive, InsertRevision
  <2> QED BY <1>3, <2>1, <2>2, <2>3, HistoryStep DEF Still, Met, PastInv
<1>4. PastInv /\ [Next]_vars =>
        [\A t \in 1..MaxClock : Settled(t) =>
           \A d \in Docs : AsOf(db'.hist[d], t) = AsOf(db.hist[d], t)]_vars
  BY <1>3
<1> QED BY <1>1, <1>2, <1>4, PTL DEF Spec, StablePast
-----------------------------------------------------------------------------
(* Drafts                                                                  *)

(* While a push is in flight nobody else changes its author's drafts under *)
(* the paths it was asked for.                                             *)
LeftAlone == \A s \in Sessions : scope'[s] = scope[s] =>
  \A p \in scope[s] : db'.drafts[AuthorOf[s]][p] = db.drafts[AuthorOf[s]][p]

(* Only the drafts a push has cleared are missing from what its owner sees.*)
DraftsOK == \A u \in Users, p \in Paths :
  work.drafts[u][p] =
    IF writer \in Sessions /\ pc[writer] = "commit" /\ u = AuthorOf[writer]
       /\ p \in scope[writer]
    THEN NoDraft ELSE db.drafts[u][p]

(* The scope is that of a push.                                            *)
ScopeOK == \A s \in Sessions :
  pc[s] \in {"idle", "save", "attach", "detach"} => scope[s] = {}

(* The call in hand is the one the draft r asks for, and its page is where *)
(* the draft wants it once it has been created or moved.  A page its       *)
(* author may not write was not moved, and then takes no revision.         *)
InHand(s, r) ==
  LET c == cur[s] IN
  /\ pc[s] \in {"create", "move", "read", "close", "insert"}
  /\ pc[s] \in {"create", "move"} => r.row.op = pc[s]
  /\ c.op = r.row.op /\ c.path = r.path /\ c.base = r.row.base
  /\ c.tomb = (r.row.op = "delete")
  /\ r.row.op \in {"create", "update"} => c.body = r.row.body
  /\ r.row.op # "create" => c.doc = r.row.doc
  /\ pc[s] \in {"read", "close", "insert"} /\ r.row.op \in {"create", "move"} =>
       /\ writer = s
       /\ \/ work.place[c.doc] = r.path
          \/ r.row.op = "move" /\ "write" \notin Caps[AuthorOf[s]][work.place[c.doc]]

(* The push has published r as the newest revision of the page d, which no *)
(* later draft of the changeset can touch: publish_revision supersedes     *)
(* nothing its own transaction wrote.                                      *)
MadeAs(s, r, d) ==
  LET h == work.hist[d] IN
  /\ h # <<>> /\ h[Len(h)].from = now[s] /\ h[Len(h)].by = AuthorOf[s]
  /\ h[Len(h)].path = r.path /\ h[Len(h)].base = r.row.base
  /\ h[Len(h)].tomb = (r.row.op = "delete")
  /\ r.row.op \in {"create", "update"} => h[Len(h)].body = r.row.body
  /\ r.row.op # "create" => d = r.row.doc
  /\ r.row.op \in {"create", "move"} =>
       work.place[d] = r.path \/ (pc[s] = "read" /\ cur[s].doc = d)

Made(s, r) == writer = s /\ \E d \in Docs : MadeAs(s, r, d)

Pending(s, r) == pc[s] \notin {"clear", "commit"} /\ r \in todo[s]

(* Every draft of a validated push is clean, and is to be published, being *)
(* published or published.                                                 *)
Followed(s, r) ==
  /\ pc[s] # "validate" => r.row.state = "clean"
  /\ pc[s] \notin {"validate", "open"} => Pending(s, r) \/ InHand(s, r) \/ Made(s, r)

PushOK == \A s \in Sessions : \A r \in Rows(db, s) : Followed(s, r)

LossInv == DraftsOK /\ ScopeOK /\ PushOK

-----------------------------------------------------------------------------
(* A page the owner of the counter has published is not closed again.      *)
LEMMA OwnIsLive ==
  ASSUME PubInv, writer \in Sessions, NEW d \in Docs, work.hist[d] # <<>>,
         work.hist[d][Len(work.hist[d])].from = now[writer]
  PROVE  /\ Live(work.hist[d]) = Len(work.hist[d])
         /\ Len(work.hist[d]) \in 1..Len(work.hist[d])
         /\ work.hist[d][Len(work.hist[d])].to = Open
         /\ Tiled(work.hist[d])
<1> DEFINE h == work.hist[d]
<1>1. h \in Seq(Revision) /\ now[writer] \in Nat
  BY DEF PubInv, Typed, TypeOK, Database
<1>2. Len(h) \in 1..Len(h)
  BY <1>1
<1>3. ~ Closing(d)
  <2>1. SUFFICES ASSUME Closing(d) PROVE FALSE
    OBVIOUS
  <2>2. SoundTo(h, now[writer])
    BY <2>1 DEF PubInv, HistInv, HistOK
  <2>3. h[Len(h)].from < h[Len(h)].to /\ h[Len(h)].to = now[writer]
    BY <1>2, <2>2 DEF SoundTo
  <2> QED BY <1>1, <2>3
<1>4. Tiled(h)
  BY <1>3 DEF PubInv, HistInv, HistOK, Sound
<1>5. h[Len(h)].to = Open
  BY <1>2, <1>4 DEF Tiled
<1>6. Live(h) \in 1..Len(h) /\ h[Live(h)].to = Open
  BY <1>2, <1>5 DEF Live
<1>7. Live(h) = Len(h)
  BY <1>1, <1>4, <1>6, OpenIsLast
<1> QED BY <1>2, <1>4, <1>5, <1>7

(* A push sees the same drafts as long as nobody changes them.             *)
LEMMA RowsKept ==
  ASSUME NEW s \in Sessions, scope'[s] = scope[s],
         \A p \in scope[s] : db'.drafts[AuthorOf[s]][p] = db.drafts[AuthorOf[s]][p]
  PROVE  Rows(db, s)' = Rows(db, s)
<1>1. {q \in scope'[s] : db'.drafts[AuthorOf[s]][q] # NoDraft}
        = {q \in scope[s] : db.drafts[AuthorOf[s]][q] # NoDraft}
  OBVIOUS
<1>2. \A p \in {q \in scope[s] : db.drafts[AuthorOf[s]][q] # NoDraft} :
        [path |-> p, row |-> db'.drafts[AuthorOf[s]][p]]
          = [path |-> p, row |-> db.drafts[AuthorOf[s]][p]]
  OBVIOUS
<1> QED BY <1>1, <1>2, Zenon DEF Rows

(* What a push knows of its drafts is safe from the steps of others.       *)
LEMMA OthersFollow ==
  ASSUME PushOK, NEW t \in Sessions, SameRequest(t), todo'[t] = todo[t],
         scope'[t] = scope[t],
         \A p \in scope[t] : db'.drafts[AuthorOf[t]][p] = db.drafts[AuthorOf[t]][p],
         writer = t => writer' = t /\ work'.hist = work.hist /\ work'.place = work.place
  PROVE  \A r \in Rows(db, t)' : Followed(t, r)'
<1> SUFFICES ASSUME NEW r \in Rows(db, t) PROVE Followed(t, r)'
  BY RowsKept
<1>1. Followed(t, r)
  BY DEF PushOK
<1>2. Pending(t, r)' = Pending(t, r)
  BY DEF Pending, SameRequest
<1>3. InHand(t, r) => InHand(t, r)'
  BY DEF InHand, SameRequest
<1>4. ASSUME writer = t, NEW d \in Docs, MadeAs(t, r, d) PROVE MadeAs(t, r, d)'
  BY <1>4 DEF MadeAs, SameRequest
<1>5. Made(t, r) => Made(t, r)'
  BY <1>4 DEF Made
<1> QED BY <1>1, <1>2, <1>3, <1>5 DEF Followed, SameRequest

(* A statement that leaves the drafts alone.                               *)
LEMMA StepLoss ==
  ASSUME PubInv, LossInv, NEW s \in Sessions, UNCHANGED db,
         \A t \in Sessions \ {s} : SameRequest(t) /\ todo'[t] = todo[t]
                                  /\ scope'[t] = scope[t],
         UNCHANGED <<work, writer>> \/ (writer \in {Nobody, s} /\ writer' = s),
         work'.drafts = work.drafts, pc[s] # "commit" \/ scope[s] = {},
         pc'[s] \in {"idle", "save", "attach", "detach", "commit"} => scope'[s] = {},
         \A r \in Rows(db, s)' : Followed(s, r)'
  PROVE  LossInv'
<1>1. DraftsOK'
  <2> SUFFICES ASSUME NEW u \in Users, NEW p \in Paths
               PROVE  work'.drafts[u][p] =
                        IF writer' \in Sessions /\ pc'[writer'] = "commit"
                           /\ u = AuthorOf[writer'] /\ p \in scope'[writer']
                        THEN NoDraft ELSE db'.drafts[u][p]
    BY DEF DraftsOK
  <2>1. work.drafts[u][p] =
          IF writer \in Sessions /\ pc[writer] = "commit" /\ u = AuthorOf[writer]
             /\ p \in scope[writer]
          THEN NoDraft ELSE db.drafts[u][p]
    BY DEF LossInv, DraftsOK
  <2>2. CASE writer \in Sessions \ {s}
    <3>1. writer' = writer /\ pc'[writer] = pc[writer] /\ scope'[writer] = scope[writer]
      BY <2>2, PushAssumption DEF SameRequest
    <3> QED BY <2>1, <2>2, <3>1
  <2>3. CASE writer \notin Sessions \ {s}
    <3>1. writer \in {Nobody, s} /\ writer' \in {Nobody, s}
      BY <2>3 DEF PubInv, Typed, TypeOK
    <3>2. work.drafts[u][p] = db.drafts[u][p]
      BY <2>1, <3>1, PushAssumption
    <3> QED BY <3>1, <3>2, PushAssumption
  <2> QED BY <2>2, <2>3
<1>2. ScopeOK'
  BY DEF LossInv, ScopeOK, SameRequest
<1>3. ASSUME NEW t \in Sessions \ {s} PROVE \A r \in Rows(db, t)' : Followed(t, r)'
  <2>1. writer = t => UNCHANGED <<work, writer>>
    BY PushAssumption
  <2> QED BY <2>1, OthersFollow DEF LossInv
<1>4. PushOK'
  BY <1>3 DEF PushOK
<1> QED BY <1>1, <1>2, <1>4 DEF LossInv

(* The end of a request.                                                   *)
LEMMA EndLoss ==
  ASSUME PubInv, LossInv, NEW s \in Sessions, Ended(s),
         \A t \in Sessions \ {s} : \A p \in scope[t] :
            db'.drafts[AuthorOf[t]][p] = db.drafts[AuthorOf[t]][p],
         IF writer \in Sessions \ {s} THEN UNCHANGED <<db, work>> ELSE work' = db'
  PROVE  LossInv'
<1>1. /\ \A t \in Sessions \ {s} : SameRequest(t) /\ todo'[t] = todo[t]
                                   /\ scope'[t] = scope[t]
      /\ writer' = (IF writer = s THEN Nobody ELSE writer)
      /\ scope'[s] = {}
  <2>1. \A t \in Sessions \ {s} : SameRequest(t)
    BY EndedOthers DEF PubInv
  <2> QED BY <2>1 DEF Ended, PubInv, Typed, TypeOK
<1>2. DraftsOK'
  <2>1. CASE writer \in Sessions \ {s}
    <3>1. /\ writer' = writer /\ pc'[writer] = pc[writer] /\ scope'[writer] = scope[writer]
          /\ UNCHANGED <<db, work>>
      BY <1>1, <2>1 DEF SameRequest
    <3> QED BY <3>1 DEF LossInv, DraftsOK
  <2>2. CASE writer \notin Sessions \ {s}
    <3>1. writer' = Nobody /\ work' = db'
      BY <1>1, <2>2 DEF PubInv, Typed, TypeOK
    <3> QED BY <3>1, PushAssumption DEF DraftsOK
  <2> QED BY <2>1, <2>2
<1>3. ScopeOK'
  BY <1>1 DEF LossInv, ScopeOK, SameRequest
<1>4. ASSUME NEW t \in Sessions \ {s} PROVE \A r \in Rows(db, t)' : Followed(t, r)'
  <2>1. writer = t => writer' = t /\ UNCHANGED <<work, writer>>
    BY <1>1
  <2> QED BY <1>1, <2>1, OthersFollow DEF LossInv
<1>5. Rows(db, s)' = {}
  BY <1>1 DEF Rows
<1> QED BY <1>2, <1>3, <1>4, <1>5 DEF LossInv, PushOK

(* An error takes no draft.                                                *)
LEMMA AbortLoss ==
  ASSUME PubInv, LossInv, NEW s \in Sessions, Abort(s)
  PROVE  LossInv'
<1>1. Ended(s) /\ UNCHANGED db
  BY DEF Abort
<1>2. IF writer \in Sessions \ {s} THEN UNCHANGED <<db, work>> ELSE work' = db'
  BY PushAssumption DEF Abort, PubInv, Typed, TypeOK
<1> QED BY <1>1, <1>2, EndLoss
-----------------------------------------------------------------------------
(* wiki.push and publish_revision                                          *)

(* What is published stays published, while its page is left alone or is   *)
(* the one in hand.                                                        *)
LEMMA MadeKept ==
  ASSUME NEW s \in Sessions, NEW r, Made(s, r), writer' = s, now'[s] = now[s],
         \A d \in Docs : MadeAs(s, r, d) =>
           /\ work'.hist[d] = work.hist[d]
           /\ \/ work'.place[d] = work.place[d] /\ ~ (pc[s] = "read" /\ cur[s].doc = d)
              \/ pc'[s] = "read" /\ cur'[s].doc = d
  PROVE  Made(s, r)'
<1>1. PICK d \in Docs : MadeAs(s, r, d)
  BY DEF Made
<1>2. MadeAs(s, r, d)'
  BY <1>1 DEF MadeAs
<1> QED BY <1>2 DEF Made

(* What the push does not have in hand is as it was.                       *)
LEMMA RestFollows ==
  ASSUME LossInv, NEW s \in Sessions, NEW r \in Rows(db, s),
         pc[s] \notin {"validate", "open", "clear", "commit"},
         pc'[s] \notin {"validate", "open", "clear", "commit"}, todo'[s] = todo[s],
         InHand(s, r) => InHand(s, r)' \/ Made(s, r)', Made(s, r) => Made(s, r)'
  PROVE  Followed(s, r)'
<1>1. Followed(s, r)
  BY DEF LossInv, PushOK
<1> QED BY <1>1 DEF Followed, Pending

(* A statement of a push leaves the other requests alone.                  *)
LEMMA PushFrame ==
  ASSUME Typed, NEW s \in Sessions, Push(s), ~ Abort(s)
  PROVE  /\ \A t \in Sessions \ {s} : SameRequest(t) /\ todo'[t] = todo[t]
         /\ UNCHANGED <<db, scope, now>>
BY DEF Push, PushValidate, PushOpen, PushNext, PushDone, PushClear, Typed, TypeOK, SameRequest

(* Of a push, everything up to its last statement.                         *)
LEMMA PushLoss ==
  ASSUME PubInv, LossInv, NEW s \in Sessions, Push(s), ~ Abort(s), ~ PushClear(s)
  PROVE  LossInv'
<1>1. /\ \A t \in Sessions \ {s} : SameRequest(t) /\ todo'[t] = todo[t]
      /\ UNCHANGED <<db, scope, now>>
  BY PushFrame DEF PubInv
<1>2. UNCHANGED <<work, writer>> /\ pc[s] \in {"validate", "open", "next"}
      /\ pc'[s] \in {"open", "next", "create", "move", "read", "clear"}
  BY DEF Push, PushValidate, PushOpen, PushNext, PushDone, PubInv, Typed, TypeOK
<1>3. ASSUME NEW r \in Rows(db, s) PROVE Followed(s, r)'
  <2>1. Followed(s, r)
    BY DEF LossInv, PushOK
  <2>2. ASSUME Made(s, r), pc[s] = "next" PROVE Made(s, r)'
    BY <1>1, <1>2, <2>2, MadeKept DEF Made
  <2>3. CASE PushValidate(s)
    <3>1. Publishable(db, AuthorOf[s], Rows(db, s), r.path, r.row) /\ pc'[s] = "open"
      BY <2>3 DEF PushValidate, PubInv, Typed, TypeOK
    <3> QED BY <3>1 DEF Publishable, Merged, Followed
  <2>4. CASE PushOpen(s)
    <3>1. pc[s] = "open" /\ pc'[s] = "next" /\ todo'[s] = Rows(db, s)
      BY <2>4 DEF PushOpen, PubInv, Typed, TypeOK
    <3> QED BY <2>1, <3>1 DEF Followed, Pending
  <2>5. CASE PushNext(s)
    <3>1. PICK x \in todo[s] :
            /\ todo' = [todo EXCEPT ![s] = @ \ {x}]
            /\ cur' = [cur EXCEPT ![s] = CallOf(View(s), x)]
            /\ pc' = [pc EXCEPT ![s] = CASE x.row.op = "create" -> "create"
                                         [] x.row.op = "move"   -> "move"
                                         [] OTHER               -> "read"]
      BY <2>5 DEF PushNext
    <3>2. /\ pc[s] = "next" /\ pc'[s] \in {"create", "move", "read"}
          /\ pc'[s] = "create" <=> x.row.op = "create"
          /\ pc'[s] = "move" <=> x.row.op = "move"
          /\ cur'[s] = CallOf(View(s), x) /\ todo'[s] = todo[s] \ {x}
      BY <2>5, <3>1 DEF PushNext, PubInv, Typed, TypeOK
    <3>3. CASE r = x
      <4>1. /\ cur'[s].op = r.row.op /\ cur'[s].path = r.path /\ cur'[s].base = r.row.base
            /\ cur'[s].tomb = (r.row.op = "delete") /\ cur'[s].doc = r.row.doc
        BY <3>2, <3>3 DEF CallOf
      <4>2. r.row.op \in {"create", "update"} => cur'[s].body = r.row.body
        BY <3>2, <3>3 DEF CallOf
      <4>3. pc'[s] \in {"create", "move", "read"}
            /\ (pc'[s] \in {"create", "move"} => r.row.op = pc'[s])
            /\ (pc'[s] = "read" => r.row.op \notin {"create", "move"})
        BY <3>2, <3>3
      <4>4. InHand(s, r)'
        BY <4>1, <4>2, <4>3 DEF InHand
      <4> QED BY <2>1, <3>2, <4>3, <4>4 DEF Followed
    <3>4. CASE r # x
      BY <2>1, <2>2, <3>2, <3>4 DEF Followed, Pending, InHand
    <3> QED BY <3>3, <3>4
  <2>6. CASE PushDone(s)
    <3>1. pc[s] = "next" /\ pc'[s] = "clear" /\ todo[s] = {}
      BY <2>6 DEF PushDone, PubInv, Typed, TypeOK
    <3> QED BY <2>1, <2>2, <3>1 DEF Followed, Pending, InHand
  <2> QED BY <2>3, <2>4, <2>5, <2>6 DEF Push
<1>4. \A r \in Rows(db, s)' : Followed(s, r)'
  BY <1>1, <1>3, RowsKept
<1> QED BY <1>1, <1>2, <1>4, StepLoss

(* The last statement of a push: what it deletes has been published.       *)
LEMMA ClearLoss ==
  ASSUME PubInv, LossInv, NEW s \in Sessions, PushClear(s)
  PROVE  LossInv'
<1> DEFINE v == AuthorOf[s]
<1>1. /\ \A t \in Sessions \ {s} : SameRequest(t) /\ todo'[t] = todo[t]
      /\ UNCHANGED <<db, scope, now>>
  BY DEF PushClear, SameRequest, PubInv, Typed, TypeOK
<1>2. /\ pc[s] = "clear" /\ pc'[s] = "commit" /\ writer \in {Nobody, s} /\ writer' = s
      /\ View(s) = work /\ v \in Users
  BY OwnerSeesWork, PushAssumption DEF PushClear, MayWrite, Took, PubInv, Typed, TypeOK
<1>3. work' = [work EXCEPT !.drafts[v] =
                 [p \in Paths |-> IF p \in scope[s] THEN NoDraft ELSE @[p]]]
  BY <1>2 DEF PushClear, Cleared
<1>4. /\ work'.hist = work.hist /\ work'.place = work.place
      /\ \A u \in Users, p \in Paths : work'.drafts[u][p] =
           IF u = v /\ p \in scope[s] THEN NoDraft ELSE work.drafts[u][p]
  BY <1>2, <1>3 DEF PubInv, Typed, TypeOK, Database
<1>5. DraftsOK'
  <2>1. \A u \in Users, p \in Paths : work.drafts[u][p] = db.drafts[u][p]
    BY <1>2, PushAssumption DEF LossInv, DraftsOK
  <2> QED BY <1>1, <1>2, <1>4, <2>1 DEF DraftsOK
<1>6. ScopeOK'
  BY <1>1, <1>2 DEF LossInv, ScopeOK, SameRequest
<1>7. ASSUME NEW r \in Rows(db, s) PROVE Followed(s, r)'
  <2>1. Followed(s, r)
    BY DEF LossInv, PushOK
  <2>2. Made(s, r)
    BY <1>2, <2>1 DEF Followed, Pending, InHand
  <2>3. Made(s, r)'
    BY <1>1, <1>2, <1>4, <2>2, MadeKept
  <2> QED BY <1>2, <2>1, <2>3 DEF Followed
<1>8. ASSUME NEW t \in Sessions \ {s} PROVE \A r \in Rows(db, t)' : Followed(t, r)'
  <2>1. writer # t
    BY <1>2, PushAssumption
  <2> QED BY <1>1, <2>1, OthersFollow DEF LossInv
<1>9. Rows(db, s)' = Rows(db, s)
  BY <1>1, RowsKept
<1>10. PushOK'
  BY <1>7, <1>8, <1>9 DEF PushOK
<1> QED BY <1>5, <1>6, <1>10 DEF LossInv

(* The insert into wiki.document gives the draft a page of its own.        *)
LEMMA CreateLoss ==
  ASSUME PubInv, LossInv, NEW s \in Sessions, CreateDocument(s), ~ Abort(s)
  PROVE  LossInv'
<1>1. /\ pc[s] = "create" /\ writer \in {Nobody, s} /\ View(s) = work
      /\ cur[s] \in Call
  BY OwnerSeesWork DEF CreateDocument, MayWrite, PubInv, Typed, CallOK
<1>2. PICK e \in Docs :
        /\ work.place[e] = Nowhere /\ work.hist[e] = <<>>
        /\ work' = [work EXCEPT !.place[e] = cur[s].path,
                                !.folders = @ \cup {FolderOf[cur[s].path]}]
        /\ cur' = [cur EXCEPT ![s].doc = e]
        /\ Took(s) /\ pc' = [pc EXCEPT ![s] = "read"]
        /\ UNCHANGED <<db, clock, saves, now, scope, todo, prev>>
  BY <1>1 DEF CreateDocument
<1>3. /\ \A t \in Sessions \ {s} : SameRequest(t) /\ todo'[t] = todo[t]
                                   /\ scope'[t] = scope[t]
      /\ writer' = s /\ pc'[s] = "read" /\ cur'[s] = [cur[s] EXCEPT !.doc = e]
  BY <1>2 DEF Took, SameRequest, PubInv, Typed, TypeOK
<1>4. /\ work'.hist = work.hist /\ work'.drafts = work.drafts
      /\ work'.place[e] = cur[s].path
      /\ \A d \in Docs \ {e} : work'.place[d] = work.place[d]
  BY <1>2 DEF PubInv, Typed, TypeOK, Database
<1>5. /\ cur'[s].doc = e /\ cur'[s].op = cur[s].op /\ cur'[s].path = cur[s].path
      /\ cur'[s].base = cur[s].base /\ cur'[s].tomb = cur[s].tomb
      /\ cur'[s].body = cur[s].body
  BY <1>1, <1>3 DEF Call
<1>6. ASSUME NEW r \in Rows(db, s) PROVE Followed(s, r)'
  <2>1. InHand(s, r) => InHand(s, r)'
    BY <1>1, <1>3, <1>4, <1>5 DEF InHand
  <2>2. ASSUME Made(s, r) PROVE Made(s, r)'
    <3>1. \A d \in Docs : MadeAs(s, r, d) => d # e
      BY <1>2 DEF MadeAs
    <3> QED BY <1>1, <1>2, <1>3, <1>4, <2>2, <3>1, MadeKept
  <2> QED BY <1>1, <1>2, <1>3, <2>1, <2>2, RestFollows
<1>7. \A r \in Rows(db, s)' : Followed(s, r)'
  BY <1>2, <1>6, RowsKept
<1> QED BY <1>1, <1>2, <1>3, <1>4, <1>7, StepLoss

(* The update of wiki.document puts the page where the draft wants it, or  *)
(* leaves a page its author may not write where it is.                     *)
LEMMA MoveLoss ==
  ASSUME PubInv, LossInv, NEW s \in Sessions, MoveDocument(s), ~ Abort(s)
  PROVE  LossInv'
<1> DEFINE e == cur[s].doc
           target == "write" \in Caps[AuthorOf[s]][work.place[e]]
<1>1. /\ pc[s] = "move" /\ writer \in {Nobody, s} /\ View(s) = work
      /\ cur[s] \in Call /\ e \in Docs
  BY OwnerSeesWork DEF MoveDocument, MayWrite, PubInv, Typed, CallOK
<1>2. /\ work' = IF target THEN [work EXCEPT !.place[e] = cur[s].path] ELSE work
      /\ Took(s) /\ pc' = [pc EXCEPT ![s] = "read"]
      /\ UNCHANGED <<db, clock, saves, now, scope, todo, cur, prev>>
  BY <1>1 DEF MoveDocument
<1>3. /\ \A t \in Sessions \ {s} : SameRequest(t) /\ todo'[t] = todo[t]
                                   /\ scope'[t] = scope[t]
      /\ writer' = s /\ pc'[s] = "read"
  BY <1>2 DEF Took, SameRequest, PubInv, Typed, TypeOK
<1>4. /\ work'.hist = work.hist /\ work'.drafts = work.drafts
      /\ work'.place[e] = IF target THEN cur[s].path ELSE work.place[e]
      /\ \A d \in Docs \ {e} : work'.place[d] = work.place[d]
  BY <1>1, <1>2 DEF PubInv, Typed, TypeOK, Database
<1>5. ASSUME NEW r \in Rows(db, s) PROVE Followed(s, r)'
  <2>1. InHand(s, r) => InHand(s, r)'
    BY <1>1, <1>2, <1>3, <1>4 DEF InHand
  <2>2. ASSUME Made(s, r) PROVE Made(s, r)'
    BY <1>1, <1>2, <1>3, <1>4, <2>2, MadeKept
  <2> QED BY <1>1, <1>2, <1>3, <2>1, <2>2, RestFollows
<1>6. \A r \in Rows(db, s)' : Followed(s, r)'
  BY <1>2, <1>5, RowsKept
<1> QED BY <1>1, <1>2, <1>3, <1>4, <1>6, StepLoss

(* publish_revision reads the live revision, which is not one of its own   *)
(* transaction.                                                            *)
LEMMA ReadLoss ==
  ASSUME PubInv, LossInv, NEW s \in Sessions, ReadLive(s), ~ Abort(s)
  PROVE  LossInv'
<1> DEFINE h == View(s).hist[cur[s].doc]
<1>1. /\ pc[s] = "read" /\ pc'[s] \in {"close", "insert"}
      /\ SeesBase(h, cur[s].base, now[s])
      /\ UNCHANGED <<db, work, writer, clock, saves, now, locks, scope, todo, cur>>
      /\ \A t \in Sessions \ {s} : SameRequest(t)
  BY DEF ReadLive, SameRequest, PubInv, Typed, TypeOK
<1>2. ASSUME NEW r \in Rows(db, s) PROVE Followed(s, r)'
  <2>1. InHand(s, r) => InHand(s, r)'
    BY <1>1 DEF InHand
  <2>2. ASSUME Made(s, r) PROVE Made(s, r)'
    <3>1. writer = s /\ now[s] \in Nat
      BY <2>2 DEF Made, PubInv, Typed, TypeOK
    <3>2. View(s) = work
      BY <3>1 DEF View
    <3>3. ASSUME NEW d \in Docs, MadeAs(s, r, d) PROVE cur[s].doc # d
      <4>1. SUFFICES ASSUME cur[s].doc = d PROVE FALSE
        OBVIOUS
      <4>2. Live(h) = Len(h) /\ Len(h) \in 1..Len(h) /\ h[Len(h)].from = now[s]
        BY <3>1, <3>2, <3>3, <4>1, OwnIsLive DEF MadeAs
      <4>3. Live(h) # 0 /\ h[Live(h)].from < now[s]
        BY <1>1, <4>2 DEF SeesBase
      <4> QED BY <3>1, <4>2, <4>3
    <3> QED BY <1>1, <2>2, <3>1, <3>3, MadeKept
  <2> QED BY <1>1, <2>1, <2>2, RestFollows
<1>3. \A r \in Rows(db, s)' : Followed(s, r)'
  BY <1>1, <1>2, RowsKept
<1> QED BY <1>1, <1>3, StepLoss

(* publish_revision closes the revision it read.                           *)
LEMMA CloseLoss ==
  ASSUME PubInv, LossInv, NEW s \in Sessions, CloseLive(s), ~ Abort(s)
  PROVE  LossInv'
<1> DEFINE e == cur[s].doc  h == work.hist[e]
<1>1. writer \in {Nobody, s} /\ e \in Docs /\ View(s) = work /\ pc[s] = "close"
  BY OwnerSeesWork DEF CloseLive, MayWrite, PubInv, Typed, CallOK
<1>2. /\ work' = [work EXCEPT !.hist[e] = Closed(@, prev[s], now[s])] /\ Took(s)
      /\ pc' = [pc EXCEPT ![s] = "insert"]
      /\ UNCHANGED <<db, clock, saves, now, scope, todo, cur, prev>>
      /\ h[prev[s]].to = Open
  BY <1>1 DEF CloseLive
<1>3. /\ \A t \in Sessions \ {s} : SameRequest(t) /\ todo'[t] = todo[t]
                                   /\ scope'[t] = scope[t]
      /\ writer' = s /\ pc'[s] = "insert"
  BY <1>2 DEF Took, SameRequest, PubInv, Typed, TypeOK
<1>4. /\ work'.place = work.place /\ work'.drafts = work.drafts
      /\ \A d \in Docs \ {e} : work'.hist[d] = work.hist[d]
  BY <1>1, <1>2 DEF PubInv, Typed, TypeOK, Database
<1>5. ASSUME NEW r \in Rows(db, s) PROVE Followed(s, r)'
  <2>1. InHand(s, r) => InHand(s, r)'
    BY <1>1, <1>2, <1>3, <1>4 DEF InHand
  <2>2. ASSUME Made(s, r) PROVE Made(s, r)'
    <3>1. writer = s /\ now[s] \in Nat /\ h \in Seq(Revision)
      BY <1>1, <2>2 DEF Made, PubInv, Typed, TypeOK, Database
    <3>2. prev[s] \in 1..Len(h) /\ h[prev[s]].from < now[s]
      BY <1>1 DEF PubInv, HistInv, StepOK
    <3>3. ASSUME NEW d \in Docs, MadeAs(s, r, d) PROVE d # e
      <4>1. SUFFICES ASSUME d = e PROVE FALSE
        OBVIOUS
      <4>2. Tiled(h) /\ h[Len(h)].from = now[s]
        BY <3>1, <3>3, <4>1, OwnIsLive DEF MadeAs
      <4>3. prev[s] = Len(h)
        BY <1>2, <3>1, <3>2, <4>2, OpenIsLast
      <4> QED BY <3>1, <3>2, <4>2, <4>3
    <3> QED BY <1>1, <1>2, <1>3, <1>4, <2>2, <3>3, MadeKept
  <2> QED BY <1>1, <1>2, <1>3, <2>1, <2>2, RestFollows
<1>6. \A r \in Rows(db, s)' : Followed(s, r)'
  BY <1>2, <1>5, RowsKept
<1> QED BY <1>1, <1>2, <1>3, <1>4, <1>6, StepLoss

(* The revision a draft asks for is the newest one of its page.            *)
LEMMA InsertLoss ==
  ASSUME PubInv, LossInv, NEW s \in Sessions, InsertRevision(s), ~ Abort(s)
  PROVE  LossInv'
<1> DEFINE e == cur[s].doc  h == work.hist[e]
           v == [path |-> cur[s].path, body |-> cur[s].body, tomb |-> cur[s].tomb,
                 by |-> AuthorOf[s], base |-> cur[s].base,
                 from |-> now[s], to |-> Open]
<1>1. writer \in {Nobody, s} /\ e \in Docs /\ View(s) = work /\ pc[s] = "insert"
  BY OwnerSeesWork DEF InsertRevision, MayWrite, PubInv, Typed, CallOK
<1>2. /\ \A n \in 1..Len(h) : h[n].to # Open
      /\ MayInsert(work, s)
      /\ work' = [work EXCEPT !.hist[e] = Append(@, v)] /\ Took(s)
      /\ pc' = [pc EXCEPT ![s] = IF scope[s] = {} THEN "commit" ELSE "next"]
      /\ UNCHANGED <<db, clock, saves, now, scope, todo, cur, prev>>
  BY <1>1 DEF InsertRevision, ValidFrom, WithNext
<1>3. /\ \A t \in Sessions \ {s} : SameRequest(t) /\ todo'[t] = todo[t]
                                   /\ scope'[t] = scope[t]
      /\ writer' = s /\ pc'[s] = IF scope[s] = {} THEN "commit" ELSE "next"
  BY <1>2 DEF Took, SameRequest, PubInv, Typed, TypeOK
<1>4. /\ work'.place = work.place /\ work'.drafts = work.drafts
      /\ work'.hist[e] = Append(h, v)
      /\ \A d \in Docs \ {e} : work'.hist[d] = work.hist[d]
  BY <1>1, <1>2 DEF PubInv, Typed, TypeOK, Database
<1>5. h \in Seq(Revision) /\ now[s] \in Nat
  BY <1>1 DEF PubInv, Typed, TypeOK, Database
<1>6. ASSUME NEW r \in Rows(db, s) PROVE Followed(s, r)'
  <2>1. pc'[s] = "next" /\ r.row \in Draft
    <3>1. r \in DraftRow
      BY RowsType DEF PubInv, Typed, TypeOK
    <3> QED BY <1>3, <1>6, <3>1 DEF Rows, DraftRow
  <2>2. ASSUME InHand(s, r) PROVE Made(s, r)'
    <3>1. /\ r.row.op # "create" => e = r.row.doc
          /\ r.row.op \in {"create", "move"} =>
               \/ work.place[e] = r.path
               \/ r.row.op = "move" /\ "write" \notin Caps[AuthorOf[s]][work.place[e]]
      BY <1>1, <2>2 DEF InHand
    <3>2. r.row.op = "move" => work.place[e] = r.path
      <4>1. SUFFICES ASSUME r.row.op = "move" PROVE "write" \in CapsOn(work, s)
        BY <3>1 DEF CapsOn
      <4>2. ~ cur[s].tomb
        BY <2>2, <4>1 DEF InHand
      <4>3. h # <<>>
        <5>1. cur[s].base # 0
          BY <2>1, <2>2, <4>1 DEF InHand, Draft, LegalDraft, DraftShape
        <5>2. prev[s] = Len(h) /\ prev[s] # 0
          BY <1>1, <5>1 DEF PubInv, HistInv, StepOK
        <5> QED BY <5>2
      <4> QED BY <1>2, <4>2, <4>3 DEF MayInsert
    <3>3. r.row.op \in {"create", "move"} => work'.place[e] = r.path
      BY <1>4, <3>1, <3>2
    <3>4. /\ v.from = now[s] /\ v.by = AuthorOf[s] /\ v.path = r.path
          /\ v.base = r.row.base /\ v.tomb = (r.row.op = "delete")
          /\ r.row.op \in {"create", "update"} => v.body = r.row.body
      BY <2>2 DEF InHand
    <3> HIDE DEF v
    <3>5. /\ work'.hist[e] # <<>>
          /\ work'.hist[e][Len(work'.hist[e])] = v
      BY <1>4, <1>5
    <3>6. PICK d \in Docs : d = e
      BY <1>1
    <3>7. MadeAs(s, r, d)'
      BY <1>1, <1>2, <3>1, <3>3, <3>4, <3>5, <3>6 DEF MadeAs
    <3> QED BY <1>3, <3>7 DEF Made
  <2>3. ASSUME Made(s, r) PROVE Made(s, r)'
    <3>1. writer = s
      BY <2>3 DEF Made
    <3>2. ASSUME NEW d \in Docs, MadeAs(s, r, d) PROVE d # e
      <4>1. SUFFICES ASSUME d = e PROVE FALSE
        OBVIOUS
      <4>2. Len(h) \in 1..Len(h) /\ h[Len(h)].to = Open
        BY <3>1, <3>2, <4>1, OwnIsLive DEF MadeAs
      <4> QED BY <1>2, <4>2
    <3>3. \A d \in Docs : MadeAs(s, r, d) =>
            work'.hist[d] = work.hist[d] /\ work'.place[d] = work.place[d]
      BY <1>4, <3>2
    <3>4. writer' = s /\ now'[s] = now[s] /\ pc[s] # "read"
      BY <1>1, <1>2, <1>3
    <3> QED BY <2>3, <3>3, <3>4, MadeKept
  <2> QED BY <1>1, <1>2, <2>1, <2>2, <2>3, RestFollows
<1>7. \A r \in Rows(db, s)' : Followed(s, r)'
  BY <1>2, <1>6, RowsKept
<1>8. pc'[s] \in {"next", "commit"} /\ (pc'[s] = "commit" => scope'[s] = {})
  BY <1>2, <1>3
<1> QED BY <1>1, <1>2, <1>3, <1>4, <1>7, <1>8, StepLoss

(* The end of a publishing transaction, and a draft statement: nobody else *)
(* changes the drafts of a push in flight.                                 *)
LEMMA EndsLoss ==
  ASSUME PubInv, LossInv, LeftAlone, NEW s \in Sessions, SaveDraft(s) \/ PublishCommit(s)
  PROVE  LossInv'
<1>1. writer \in {Nobody, s} /\ work' = db' /\ Ended(s)
  BY DEF SaveDraft, PublishCommit, Commit, PubInv, HistInv, StepOK
<1>2. writer \notin Sessions \ {s}
  BY <1>1, PushAssumption
<1>3. \A t \in Sessions \ {s} : scope'[t] = scope[t]
  BY <1>1 DEF Ended, PubInv, Typed, TypeOK
<1>4. \A t \in Sessions \ {s} : \A p \in scope[t] :
        db'.drafts[AuthorOf[t]][p] = db.drafts[AuthorOf[t]][p]
  BY <1>3 DEF LeftAlone
<1> QED BY <1>1, <1>2, <1>4, EndLoss

(* A request that has only begun has no draft to publish.                  *)
LEMMA IdleLoss ==
  ASSUME PubInv, LossInv, NEW s \in Sessions,
         pc[s] \in {"idle", "attach", "detach"}, UNCHANGED <<db, work, writer>>,
         \A t \in Sessions \ {s} : SameRequest(t) /\ todo'[t] = todo[t]
                                   /\ scope'[t] = scope[t],
         (scope'[s] = {} /\ pc'[s] # "commit") \/ pc'[s] = "validate"
  PROVE  LossInv'
<1>1. \A r \in Rows(db, s)' : Followed(s, r)'
  BY DEF Rows, Followed
<1> QED BY <1>1, StepLoss

(* Every step keeps them.                                                  *)
LEMMA NextLoss == PubInv /\ LossInv /\ [Next]_vars /\ [LeftAlone]_vars => LossInv'
<1> SUFFICES ASSUME PubInv, LossInv, [Next]_vars, [LeftAlone]_vars PROVE LossInv'
  OBVIOUS
<1>1. ASSUME UNCHANGED <<db, work, writer, pc, now, scope, todo, cur, prev>> PROVE LossInv'
  BY <1>1 DEF LossInv, DraftsOK, ScopeOK, PushOK, Rows, Followed, Pending, InHand, Made, MadeAs
<1>2. ASSUME NEW s \in Sessions, pc[s] \in {"idle", "attach", "detach"} PROVE scope[s] = {}
  BY <1>2 DEF LossInv, ScopeOK
<1>3. ASSUME NEW s \in Sessions, DraftRequest(s) PROVE LossInv'
  <2>1. PICK p, row : DraftStatement(s, p, row)
    BY <1>3 DEF DraftRequest, PutCreate, PutDraft, DeleteDraft, BeginMerge, ResolveMerge,
       AbortMerge
  <2>2. /\ pc[s] = "idle" /\ pc'[s] = "save" /\ UNCHANGED <<db, work, writer, scope>>
        /\ \A t \in Sessions \ {s} : SameRequest(t) /\ todo'[t] = todo[t]
    BY <2>1 DEF DraftStatement, SameRequest, PubInv, Typed, TypeOK
  <2> QED BY <1>2, <2>2, IdleLoss
<1>4. ASSUME NEW s \in Sessions, PublishRequest(s) PROVE LossInv'
  <2>1. /\ pc[s] = "idle" /\ UNCHANGED <<db, work, writer>>
        /\ \A t \in Sessions \ {s} : SameRequest(t) /\ todo'[t] = todo[t]
                                     /\ scope'[t] = scope[t]
    BY <1>4 DEF PublishRequest, PushStart, AttachStart, DetachStart, PublishStart, Called,
       Start, SameRequest, PubInv, Typed, TypeOK
  <2>2. (scope'[s] = scope[s] /\ pc'[s] # "commit") \/ pc'[s] = "validate"
    BY <1>4 DEF PublishRequest, PushStart, AttachStart, DetachStart, PublishStart, Called,
       Start, PubInv, Typed, TypeOK
  <2> QED BY <1>2, <2>1, <2>2, IdleLoss
<1>5. ASSUME NEW s \in Sessions, Attach(s) \/ Detach(s), ~ Abort(s) PROVE LossInv'
  <2>1. /\ pc[s] \in {"attach", "detach"} /\ pc'[s] # "commit"
        /\ UNCHANGED <<db, work, writer, scope>>
        /\ \A t \in Sessions \ {s} : SameRequest(t) /\ todo'[t] = todo[t]
    BY <1>5 DEF Attach, Detach, Resolve, SameRequest, PubInv, Typed, TypeOK
  <2> QED BY <1>2, <2>1, IdleLoss
<1>6. ASSUME NEW s \in Sessions, SaveDraft(s) \/ PublishCommit(s) PROVE LossInv'
  <2>1. pc' # pc
    BY <1>6 DEF SaveDraft, PublishCommit, Commit, Ended, PubInv, Typed, TypeOK
  <2> QED BY <1>6, <2>1, EndsLoss DEF vars
<1>7. ASSUME NEW s \in Sessions, Push(s) PROVE LossInv'
  BY <1>7, AbortLoss, PushLoss, ClearLoss
<1>8. ASSUME NEW s \in Sessions, Publish(s) PROVE LossInv'
  BY <1>5, <1>6, <1>8, AbortLoss, CreateLoss, MoveLoss, ReadLoss, CloseLoss, InsertLoss
     DEF Publish
<1>9. ASSUME NEW s \in Sessions, LockRows(s) PROVE LossInv'
  BY <1>1, <1>9 DEF LockRows
<1>10. ASSUME NEW s \in Sessions, Deadlock(s) \/ Cancel(s) PROVE LossInv'
  BY <1>10, AbortLoss DEF Deadlock, Cancel
<1>11. CASE UNCHANGED vars
  BY <1>1, <1>11 DEF vars
<1> QED
  BY <1>3, <1>4, <1>6, <1>7, <1>8, <1>9, <1>10, <1>11 DEF Next, Statement

-----------------------------------------------------------------------------
(* No draft is lost                                                        *)

(* Only the end of a transaction changes what is committed.                *)
LEMMA Commits ==
  ASSUME [Next]_vars, db' # db
  PROVE  \E t \in Sessions : SaveDraft(t) \/ PublishCommit(t)
<1>1. ASSUME NEW t \in Sessions, DraftRequest(t) PROVE db' = db
  <2>1. PICK p, row : DraftStatement(t, p, row)
    BY <1>1 DEF DraftRequest, PutCreate, PutDraft, DeleteDraft, BeginMerge, ResolveMerge,
       AbortMerge
  <2> QED BY <2>1 DEF DraftStatement
<1>2. ASSUME NEW t \in Sessions, PublishRequest(t) PROVE db' = db
  BY <1>2 DEF PublishRequest, PushStart, AttachStart, DetachStart, PublishStart, Called
<1>3. ASSUME NEW t \in Sessions, Abort(t) PROVE db' = db
  BY <1>3 DEF Abort
<1>4. ASSUME NEW t \in Sessions, Push(t) PROVE db' = db
  BY <1>3, <1>4 DEF Push, PushValidate, PushOpen, PushNext, PushDone, PushClear
<1>5. ASSUME NEW t \in Sessions, Publish(t), ~ PublishCommit(t) PROVE db' = db
  BY <1>3, <1>5 DEF Publish, Attach, Detach, Resolve, CreateDocument, MoveDocument,
     ReadLive, CloseLive, InsertRevision
<1>6. ASSUME NEW t \in Sessions, LockRows(t) \/ Deadlock(t) \/ Cancel(t) PROVE db' = db
  BY <1>3, <1>6 DEF LockRows, Deadlock, Cancel
<1> QED BY <1>1, <1>2, <1>4, <1>5, <1>6 DEF Next, Statement, vars

(* Of the end of a publishing transaction, only the commit takes drafts.   *)
LEMMA CommitTakes ==
  ASSUME PubInv, [Next]_vars, NEW s \in Sessions, pc[s] = "commit", pc'[s] = "idle",
         db' # db
  PROVE  PublishCommit(s)
<1>1. PICK t \in Sessions : SaveDraft(t) \/ PublishCommit(t)
  BY Commits
<1>2. Ended(t)
  BY <1>1 DEF SaveDraft, PublishCommit, Commit
<1>3. t = s
  BY <1>2, EndedOthers DEF PubInv, SameRequest
<1> QED BY <1>1, <1>3 DEF SaveDraft

(* A draft that a commit takes is the newest revision of its page.         *)
LEMMA TakenIsPublished ==
  ASSUME PubInv, LossInv, NEW s \in Sessions, PublishCommit(s),
         NEW u \in Users, NEW p \in Paths,
         db.drafts[u][p] # NoDraft, db'.drafts[u][p] = NoDraft
  PROVE  db.drafts[u][p].state = "clean" /\ Publishes(db', u, p, db.drafts[u][p])
<1> DEFINE r == [path |-> p, row |-> db.drafts[u][p]]
<1>1. pc[s] = "commit" /\ writer = s /\ db' = work
  BY DEF PublishCommit, Commit, View, PubInv, HistInv, StepOK
<1>2. u = AuthorOf[s] /\ p \in scope[s]
  BY <1>1 DEF LossInv, DraftsOK
<1>3. r \in Rows(db, s)
  BY <1>2 DEF Rows
<1>4. r.path = p /\ r.row = db.drafts[u][p]
  OBVIOUS
<1> HIDE DEF r
<1>5. Followed(s, r)
  BY <1>3 DEF LossInv, PushOK
<1>6. r.row.state = "clean" /\ Made(s, r)
  BY <1>1, <1>5 DEF Followed, Pending, InHand
<1>7. PICK d \in Docs : MadeAs(s, r, d)
  BY <1>6 DEF Made
<1>8. Publishes(db', u, p, r.row)
  BY <1>1, <1>2, <1>4, <1>7 DEF MadeAs, Publishes
<1> QED BY <1>4, <1>6, <1>8

(* Before the first request there is no draft to lose.                     *)
LEMMA InitLoss == Init => PubInv /\ LossInv
<1> SUFFICES ASSUME Init PROVE LossInv
  BY InitPublished
<1>1. work = db /\ writer = Nobody /\ scope = [s \in Sessions |-> {}]
  BY DEF Init
<1> QED BY <1>1, PushAssumption DEF LossInv, DraftsOK, ScopeOK, PushOK, Rows

(* A push whose author's drafts are left alone while it is in flight takes *)
(* none of them that it has not published: what a push can lose is what    *)
(* another request of the same author wrote in the meantime.               *)
THEOREM UndisturbedPushesLoseNothing == Spec /\ [][LeftAlone]_vars => NoDraftLost
<1>1. PubInv /\ LossInv /\ [Next]_vars /\ [LeftAlone]_vars => (PubInv /\ LossInv)'
  BY NextPublished, NextLoss
<1>2. PubInv /\ LossInv /\ [Next]_vars =>
        [\A s \in Sessions : pc[s] = "commit" /\ pc'[s] = "idle" =>
           \A u \in Users, p \in Paths :
             LET r == db.drafts[u][p] IN
             r # NoDraft /\ db'.drafts[u][p] = NoDraft =>
               r.state = "clean" /\ Publishes(db', u, p, r)]_vars
  BY CommitTakes, TakenIsPublished
<1> QED BY InitLoss, <1>1, <1>2, PTL DEF Spec, NoDraftLost

(* Every request that can be in flight has an author of its own.           *)
OneRequestEach == \A s, t \in Sessions : AuthorOf[s] = AuthorOf[t] => s = t

(* Without a second request of its author a push is left alone.            *)
LEMMA AloneTogether ==
  ASSUME OneRequestEach, PubInv, LossInv, [Next]_vars
  PROVE  LeftAlone
<1> SUFFICES ASSUME NEW s \in Sessions, scope'[s] = scope[s], NEW p \in scope[s]
             PROVE  db'.drafts[AuthorOf[s]][p] = db.drafts[AuthorOf[s]][p]
  BY DEF LeftAlone
<1>1. CASE db' = db
  BY <1>1
<1>2. CASE db' # db
  <2>1. PICK t \in Sessions : SaveDraft(t) \/ PublishCommit(t)
    BY <1>2, Commits
  <2>2. t # s
    BY <2>1 DEF SaveDraft, PublishCommit, Commit, Ended, PubInv, Typed, TypeOK
  <2>3. /\ AuthorOf[s] # AuthorOf[t] /\ AuthorOf[s] \in Users /\ AuthorOf[t] \in Users
        /\ p \in Paths
    BY <2>2, PushAssumption DEF OneRequestEach, PubInv, Typed, TypeOK
  <2>4. CASE SaveDraft(t)
    BY <2>3, <2>4 DEF SaveDraft, PubInv, Typed, TypeOK, Database
  <2>5. CASE PublishCommit(t)
    <3>1. writer = t /\ db' = work
      BY <2>5 DEF PublishCommit, Commit, View, PubInv, HistInv, StepOK
    <3> QED BY <2>3, <3>1 DEF LossInv, DraftsOK
  <2> QED BY <2>1, <2>4, <2>5
<1> QED BY <1>1, <1>2

(* An author with one request at a time loses no draft, whatever the other *)
(* authors do, and however requests fail.                                  *)
THEOREM SinglePushesLoseNothing == ASSUME OneRequestEach PROVE Spec => NoDraftLost
<1>1. PubInv /\ LossInv /\ [Next]_vars => [LeftAlone]_vars
  BY AloneTogether
<1>2. PubInv /\ LossInv /\ [Next]_vars => (PubInv /\ LossInv)'
  BY <1>1, NextPublished, NextLoss
<1> QED BY InitLoss, <1>1, <1>2, UndisturbedPushesLoseNothing, PTL DEF Spec
=============================================================================
