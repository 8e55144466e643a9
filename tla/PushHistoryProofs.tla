------------------------- MODULE PushHistoryProofs -------------------------
(* What is proved of the published history of Push.  HistoryTiles and      *)
(* NoSilentOverwrite speak of the committed revisions; what makes them     *)
(* inductive is what the owner of the counter has written so far (one page *)
(* at most has no live revision, between two statements of                 *)
(* publish_revision) and what each publish_revision still knows to be true *)
(* of the revision it read.                                                *)
EXTENDS PushProofs

(* Each revision was made from the one before it.                          *)
Based(h) == \A n \in 1..Len(h) : h[n].base = n - 1

Sound(h) == Tiled(h) /\ Based(h)

(* The live revision was closed at t and its successor is not there yet.   *)
SoundTo(h, t) ==
  /\ Based(h) /\ h # <<>>
  /\ \A n \in 1..Len(h) :
       /\ h[n].from < h[n].to
       /\ h[n].to = IF n = Len(h) THEN t ELSE h[n + 1].from

(* g has the revisions of h, perhaps closed, and perhaps more.             *)
Extends(g, h) ==
  /\ Len(h) <= Len(g)
  /\ \A n \in 1..Len(h) : g[n].from = h[n].from

(* The owner of the counter has closed a revision of d.                    *)
Closing(d) ==
  /\ writer \in Sessions
  /\ pc[writer] = "insert" /\ prev[writer] # 0 /\ cur[writer].doc = d

HistOK == \A d \in Docs :
  /\ Sound(db.hist[d])
  /\ IF Closing(d) THEN SoundTo(work.hist[d], now[writer]) ELSE Sound(work.hist[d])
  /\ Extends(work.hist[d], db.hist[d])

(* What publish_revision knows of the revision it read.                    *)
StepOK(s) ==
  LET h == View(s).hist[cur[s].doc] IN
  /\ pc[s] = "commit" => writer = s
  /\ pc[s] \in {"close", "insert"} => cur[s].base = prev[s]
  /\ pc[s] = "close" => prev[s] \in 1..Len(h) /\ h[prev[s]].from < now[s]
  /\ pc[s] = "insert" /\ prev[s] # 0 => writer = s /\ prev[s] = Len(h)

HistInv == HistOK /\ \A s \in Sessions : StepOK(s)

SameRequest(t) ==
  pc'[t] = pc[t] /\ cur'[t] = cur[t] /\ now'[t] = now[t] /\ prev'[t] = prev[t]

-----------------------------------------------------------------------------
(* A longer history keeps where each revision begins.                      *)
LEMMA ExtendsAt ==
  ASSUME NEW g \in Seq(Revision), NEW h \in Seq(Revision), Extends(g, h),
         NEW n \in 1..Len(h)
  PROVE  n \in 1..Len(g) /\ g[n].from = h[n].from
BY DEF Extends

(* Whoever may write sees the database as it is being written.             *)
LEMMA OwnerSeesWork ==
  ASSUME Typed, NEW s \in Sessions, writer \in {Nobody, s}
  PROVE  View(s) = work
BY DEF View, Typed, TypeOK

(* A statement that writes nothing.                                        *)
LEMMA ReadKeeps ==
  ASSUME Typed, HistInv, NEW s \in Sessions, UNCHANGED <<db, work, writer>>,
         \A t \in Sessions \ {s} : SameRequest(t),
         pc[s] # "insert", pc'[s] = "insert" => prev'[s] = 0, StepOK(s)'
  PROVE  HistInv'
<1>1. \A d \in Docs : Closing(d)' = Closing(d)
  BY DEF Closing, SameRequest
<1>2. \A d \in Docs : Closing(d) => now'[writer] = now[writer]
  BY DEF Closing, SameRequest
<1>3. HistOK'
  BY <1>1, <1>2 DEF HistInv, HistOK
<1>4. ASSUME NEW t \in Sessions \ {s} PROVE StepOK(t)'
  <2>1. StepOK(t) /\ SameRequest(t) /\ View(t)' = View(t)
    BY DEF HistInv, View
  <2> QED BY <2>1 DEF StepOK, SameRequest
<1> QED BY <1>3, <1>4 DEF HistInv

(* A statement that writes, seen by the other requests.                    *)
LEMMA OthersKeep ==
  ASSUME Typed, HistInv, NEW s \in Sessions, writer \in {Nobody, s}, writer' = s,
         UNCHANGED db, \A t \in Sessions \ {s} : SameRequest(t)
  PROVE  \A t \in Sessions \ {s} : StepOK(t)'
<1> SUFFICES ASSUME NEW t \in Sessions \ {s} PROVE StepOK(t)'
  OBVIOUS
<1>1. t # Nobody /\ writer # t
  BY PushAssumption
<1>2. StepOK(t) /\ SameRequest(t) /\ View(t)' = View(t)
  BY <1>1 DEF HistInv, View
<1> QED BY <1>1, <1>2 DEF StepOK, SameRequest

(* A write that touches no revision.                                       *)
LEMMA OtherWriteKeeps ==
  ASSUME Typed, HistInv, NEW s \in Sessions, writer \in {Nobody, s}, writer' = s,
         UNCHANGED db, work'.hist = work.hist,
         \A t \in Sessions \ {s} : SameRequest(t),
         pc[s] # "insert", pc'[s] \in {"read", "commit"}
  PROVE  HistInv'
<1>1. \A d \in Docs : ~ Closing(d) /\ ~ Closing(d)'
  BY PushAssumption DEF Closing
<1>2. HistOK'
  BY <1>1 DEF HistInv, HistOK
<1>3. StepOK(s)'
  BY DEF StepOK
<1> QED BY <1>2, <1>3, OthersKeep DEF HistInv

-----------------------------------------------------------------------------
(* The end of a transaction                                                *)

(* The end of a request is nothing to the others.                          *)
LEMMA EndedOthers ==
  ASSUME Typed, NEW s \in Sessions, Ended(s)
  PROVE  /\ \A t \in Sessions \ {s} : SameRequest(t)
         /\ pc'[s] = "idle"
         /\ \A t \in Sessions \ {s} : writer' = t <=> writer = t
         /\ writer' # s
BY PushAssumption DEF Ended, SameRequest, Typed, TypeOK

(* An error takes back what the transaction wrote.                         *)
LEMMA AbortKeeps ==
  ASSUME Typed, HistInv, NEW s \in Sessions, Abort(s)
  PROVE  HistInv'
<1>1. Ended(s) /\ UNCHANGED db
  BY DEF Abort
<1>2. StepOK(s)'
  BY <1>1, EndedOthers DEF StepOK
<1>3. ASSUME NEW t \in Sessions \ {s} PROVE StepOK(t)'
  <2>1. SameRequest(t) /\ (writer' = t <=> writer = t) /\ StepOK(t)
    BY <1>1, EndedOthers DEF HistInv
  <2>2. View(t)' = View(t)
    BY <1>1, <2>1 DEF View, Abort
  <2> QED BY <2>1, <2>2 DEF StepOK, SameRequest
<1>4. CASE writer = s
  <2>1. work' = db /\ writer' = Nobody
    BY <1>4 DEF Abort, Ended
  <2>2. \A d \in Docs : ~ Closing(d)'
    BY <2>1, PushAssumption DEF Closing
  <2>3. HistOK'
    BY <1>1, <2>1, <2>2 DEF HistInv, HistOK, Extends
  <2> QED BY <1>2, <1>3, <2>3 DEF HistInv
<1>5. CASE writer # s
  <2>1. work' = work /\ writer' = writer
    BY <1>5 DEF Abort, Ended
  <2>2. \A d \in Docs : /\ Closing(d)' = Closing(d)
                        /\ Closing(d) => now'[writer] = now[writer]
    BY <1>1, <1>5, <2>1, EndedOthers DEF Closing, SameRequest
  <2>3. HistOK'
    BY <1>1, <2>1, <2>2 DEF HistInv, HistOK
  <2> QED BY <1>2, <1>3, <2>3 DEF HistInv
<1> QED BY <1>4, <1>5

(* The commit of a transaction that left no document without a live        *)
(* revision: the other requests see what it wrote.                         *)
LEMMA CommitKeeps ==
  ASSUME Typed, HistInv, NEW s \in Sessions, Ended(s), writer \in {Nobody, s},
         db'.hist = work.hist, work' = db', \A d \in Docs : ~ Closing(d)
  PROVE  HistInv'
<1>1. writer' = Nobody
  BY DEF Ended
<1>2. \A d \in Docs : ~ Closing(d)'
  BY <1>1, PushAssumption DEF Closing
<1>3. HistOK'
  BY <1>2 DEF HistInv, HistOK, Extends
<1>4. StepOK(s)'
  BY EndedOthers DEF StepOK
<1>5. ASSUME NEW t \in Sessions \ {s} PROVE StepOK(t)'
  <2>1. SameRequest(t) /\ StepOK(t)
    BY EndedOthers DEF HistInv
  <2>2. writer # t /\ View(t) = db /\ View(t)' = db'
    BY <1>1, PushAssumption DEF View
  <2>3. ASSUME pc[t] = "close"
        PROVE  LET h == db'.hist[cur[t].doc] IN
               prev[t] \in 1..Len(h) /\ h[prev[t]].from < now[t]
    <3>1. cur[t].doc \in Docs
      BY <2>3 DEF Typed, CallOK
    <3>2. Extends(work.hist[cur[t].doc], db.hist[cur[t].doc])
      BY <3>1 DEF HistInv, HistOK
    <3>3. work.hist[cur[t].doc] \in Seq(Revision) /\ db.hist[cur[t].doc] \in Seq(Revision)
      BY <3>1 DEF Typed, TypeOK, Database
    <3>4. LET h == db.hist[cur[t].doc] IN
          prev[t] \in 1..Len(h) /\ h[prev[t]].from < now[t]
      BY <2>1, <2>2, <2>3 DEF StepOK
    <3>5. LET h == work.hist[cur[t].doc] IN
          prev[t] \in 1..Len(h) /\ h[prev[t]].from < now[t]
      BY <3>2, <3>3, <3>4, ExtendsAt
    <3> QED BY <3>5
  <2> QED BY <2>1, <2>2, <2>3 DEF StepOK, SameRequest
<1> QED BY <1>3, <1>4, <1>5 DEF HistInv

-----------------------------------------------------------------------------
(* publish_revision                                                        *)

(* The lookup of the live revision keeps the histories.                    *)
LEMMA ReadLiveKeeps ==
  ASSUME Typed, HistInv, NEW s \in Sessions, ReadLive(s)
  PROVE  HistInv'
<1> DEFINE h == View(s).hist[cur[s].doc]
<1>1. CASE Abort(s)
  BY <1>1, AbortKeeps
<1>2. CASE ~ Abort(s)
  <2>1. /\ SeesBase(h, cur[s].base, now[s])
        /\ prev' = [prev EXCEPT ![s] = Live(h)]
        /\ pc' = [pc EXCEPT ![s] = IF Live(h) = 0 THEN "insert" ELSE "close"]
        /\ UNCHANGED <<db, work, writer, clock, saves, now, locks, scope, todo, cur>>
        /\ pc[s] = "read"
    BY <1>2 DEF ReadLive
  <2>2. h \in Seq(Revision)
    BY <2>1, ViewType DEF Typed, CallOK, Database
  <2>3. /\ prev'[s] = Live(h) /\ pc'[s] = IF Live(h) = 0 THEN "insert" ELSE "close"
        /\ \A t \in Sessions \ {s} : SameRequest(t)
        /\ View(s)' = View(s)
    BY <2>1 DEF Typed, TypeOK, SameRequest, View
  <2>4. Live(h) # 0 => Live(h) \in 1..Len(h) /\ h[Live(h)].from < now[s]
    BY <2>1, <2>2, LiveType DEF SeesBase
  <2>5. StepOK(s)'
    BY <2>1, <2>3, <2>4 DEF StepOK, SeesBase
  <2> QED BY <2>1, <2>3, <2>5, ReadKeeps
<1> QED BY <1>1, <1>2

(* Of a sound history only the newest revision can be open.                *)
LEMMA OpenIsLast ==
  ASSUME NEW h \in Seq(Revision), Tiled(h), NEW n \in 1..Len(h), h[n].to = Open
  PROVE  n = Len(h)
<1>1. h[n] \in Revision
  OBVIOUS
<1>2. h[n].from \in Nat
  BY <1>1 DEF Revision
<1> QED BY <1>2 DEF Tiled, Open

(* Closing the live revision leaves a sound history up to now.             *)
LEMMA ClosedSound ==
  ASSUME NEW h \in Seq(Revision), Sound(h), NEW t \in Nat, h # <<>>,
         h[Len(h)].from < t
  PROVE  SoundTo(Closed(h, Len(h), t), t) /\ Extends(Closed(h, Len(h), t), h)
<1> DEFINE g == Closed(h, Len(h), t)
<1>1. Len(h) \in 1..Len(h)
  OBVIOUS
<1>2. /\ g \in Seq(Revision) /\ Len(g) = Len(h)
      /\ \A k \in 1..Len(h) : k # Len(h) => g[k] = h[k]
      /\ g[Len(h)] = [h[Len(h)] EXCEPT !.to = t]
  BY <1>1, ClosedType
<1>3. h[Len(h)] \in Revision
  BY <1>1
<1>4. /\ g[Len(h)].to = t /\ g[Len(h)].from = h[Len(h)].from
      /\ g[Len(h)].base = h[Len(h)].base
  BY <1>2, <1>3 DEF Revision
<1> HIDE DEF g
<1>5. \A k \in 1..Len(h) : g[k].from = h[k].from /\ g[k].base = h[k].base
  BY <1>2, <1>4
<1>6. Based(g)
  BY <1>2, <1>5 DEF Based, Sound
<1>7. g # <<>>
  BY <1>2
<1>8. ASSUME NEW n \in 1..Len(g)
      PROVE  g[n].from < g[n].to /\ g[n].to = IF n = Len(g) THEN t ELSE g[n + 1].from
  <2>1. CASE n = Len(h)
    BY <1>2, <1>4, <2>1
  <2>2. CASE n # Len(h)
    <3>1. n + 1 \in 1..Len(h) /\ g[n] = h[n]
      BY <1>2, <2>2
    <3>2. h[n].from < h[n].to /\ h[n].to = h[n + 1].from
      BY <1>2, <2>2 DEF Sound, Tiled
    <3> QED BY <1>2, <1>5, <2>2, <3>1, <3>2
  <2> QED BY <2>1, <2>2
<1>9. Extends(g, h)
  BY <1>2, <1>5 DEF Extends
<1> QED BY <1>6, <1>7, <1>8, <1>9 DEF SoundTo, g

(* The next revision opens where the last one was closed.                  *)
LEMMA AppendSound ==
  ASSUME NEW h \in Seq(Revision), NEW t \in Nat, NEW r \in Revision,
         r.base = Len(h), r.from = t, r.to = Open,
         h = <<>> \/ SoundTo(h, t)
  PROVE  Sound(Append(h, r)) /\ Extends(Append(h, r), h)
<1> DEFINE g == Append(h, r)
<1>1. /\ Len(g) = Len(h) + 1 /\ g[Len(h) + 1] = r
      /\ \A k \in 1..Len(h) : g[k] = h[k]
      /\ Len(h) \in Nat
  OBVIOUS
<1> HIDE DEF g
<1>2. ASSUME NEW n \in 1..Len(g)
      PROVE  /\ g[n].base = n - 1
             /\ IF n = Len(g) THEN g[n].to = Open
                ELSE g[n].from < g[n].to /\ g[n].to = g[n + 1].from
  <2>1. CASE n = Len(g)
    BY <1>1, <2>1
  <2>2. CASE n # Len(g)
    <3>1. n \in 1..Len(h) /\ g[n] = h[n] /\ h # <<>>
      BY <1>1, <2>2
    <3>2. /\ h[n].base = n - 1 /\ h[n].from < h[n].to
          /\ h[n].to = IF n = Len(h) THEN t ELSE h[n + 1].from
      BY <3>1 DEF SoundTo, Based
    <3>3. CASE n = Len(h)
      BY <1>1, <2>2, <3>1, <3>2, <3>3
    <3>4. CASE n # Len(h)
      <4>1. n + 1 \in 1..Len(h)
        BY <3>1, <3>4
      <4> QED BY <1>1, <2>2, <3>1, <3>2, <3>4, <4>1
    <3> QED BY <3>3, <3>4
  <2> QED BY <2>1, <2>2
<1>3. Sound(g)
  BY <1>2 DEF Sound, Tiled, Based
<1>4. Extends(g, h)
  BY <1>1 DEF Extends
<1> QED BY <1>3, <1>4 DEF g

(* Histories extend one another transitively.                              *)
LEMMA ExtendsTransitive ==
  ASSUME NEW f \in Seq(Revision), NEW g \in Seq(Revision), NEW h \in Seq(Revision),
         Extends(f, g), Extends(g, h)
  PROVE  Extends(f, h)
<1>1. Len(f) \in Nat /\ Len(g) \in Nat /\ Len(h) \in Nat
  OBVIOUS
<1>2. \A n \in 1..Len(h) : n \in 1..Len(g)
  BY <1>1 DEF Extends
<1> QED BY <1>1, <1>2 DEF Extends

(* Closing the live revision keeps the invariant.                          *)
LEMMA CloseKeeps ==
  ASSUME Typed, HistInv, NEW s \in Sessions, CloseLive(s)
  PROVE  HistInv'
<1> DEFINE e == cur[s].doc  h == work.hist[e]  g == Closed(h, Len(h), now[s])
<1>1. CASE Abort(s)
  BY <1>1, AbortKeeps
<1>2. CASE ~ Abort(s)
  <2>1. writer \in {Nobody, s} /\ pc[s] = "close" /\ e \in Docs /\ View(s) = work
    BY <1>2, OwnerSeesWork DEF CloseLive, MayWrite, Typed, CallOK
  <2>2. /\ h[prev[s]].to = Open
        /\ work' = [work EXCEPT !.hist[e] = Closed(@, prev[s], now[s])]
        /\ writer' = s /\ pc' = [pc EXCEPT ![s] = "insert"]
        /\ UNCHANGED <<db, clock, saves, now, scope, todo, cur, prev>>
    BY <1>2, <2>1 DEF CloseLive, Took
  <2>3. work \in Database /\ h \in Seq(Revision) /\ now[s] \in Nat
    BY <2>1 DEF Typed, TypeOK, Database
  <2>4. prev[s] \in 1..Len(h) /\ h[prev[s]].from < now[s] /\ cur[s].base = prev[s]
    BY <2>1 DEF HistInv, StepOK
  <2>5. \A d \in Docs : ~ Closing(d)
    BY <2>1, PushAssumption DEF Closing
  <2>6. \A d \in Docs : Sound(db.hist[d]) /\ Sound(work.hist[d])
                        /\ Extends(work.hist[d], db.hist[d])
    BY <2>5 DEF HistInv, HistOK
  <2>7. prev[s] = Len(h)
    BY <2>1, <2>2, <2>3, <2>4, <2>6, OpenIsLast DEF Sound
  <2>8. SoundTo(g, now[s]) /\ Extends(g, h) /\ Len(g) = Len(h) /\ g \in Seq(Revision)
    <3>1. Len(h) \in 1..Len(h) /\ h # <<>> /\ Sound(h) /\ h[Len(h)].from < now[s]
      BY <2>1, <2>3, <2>4, <2>6, <2>7
    <3> HIDE DEF h
    <3>2. SoundTo(g, now[s]) /\ Extends(g, h)
      BY <2>3, <3>1, ClosedSound
    <3>3. Len(g) = Len(h) /\ g \in Seq(Revision)
      BY <2>3, <3>1, ClosedType
    <3> QED BY <3>2, <3>3
  <2>9. /\ work'.hist[e] = g
        /\ \A d \in Docs \ {e} : work'.hist[d] = work.hist[d]
    BY <2>1, <2>2, <2>3, <2>7 DEF Database
  <2>10. pc'[s] = "insert" /\ \A t \in Sessions \ {s} : SameRequest(t)
    BY <2>2 DEF Typed, TypeOK, SameRequest
  <2>11. \A d \in Docs : Closing(d)' <=> d = e
    BY <2>1, <2>2, <2>4, <2>10 DEF Closing
  <2>12. HistOK'
    <3>1. SUFFICES ASSUME NEW d \in Docs
                   PROVE  /\ Sound(db.hist[d])
                          /\ IF d = e THEN SoundTo(work'.hist[d], now[s])
                             ELSE Sound(work'.hist[d])
                          /\ Extends(work'.hist[d], db.hist[d])
      BY <2>2, <2>11 DEF HistOK
    <3>2. db.hist[d] \in Seq(Revision)
      BY DEF Typed, TypeOK, Database
    <3>3. CASE d = e
      BY <2>3, <2>6, <2>8, <2>9, <3>2, <3>3, ExtendsTransitive
    <3>4. CASE d # e
      BY <2>6, <2>9, <3>4
    <3> QED BY <3>3, <3>4
  <2>13. View(s)' = work'
    BY <2>2 DEF View
  <2>14. StepOK(s)'
    BY <2>2, <2>4, <2>7, <2>8, <2>9, <2>10, <2>13 DEF StepOK
  <2> QED BY <2>1, <2>2, <2>10, <2>12, <2>14, OthersKeep DEF HistInv
<1> QED BY <1>1, <1>2

(* So does the insert of the new one.                                      *)
LEMMA InsertKeeps ==
  ASSUME Typed, HistInv, NEW s \in Sessions, InsertRevision(s)
  PROVE  HistInv'
<1> DEFINE e == cur[s].doc  h == work.hist[e]
           r == [path |-> cur[s].path, body |-> cur[s].body, tomb |-> cur[s].tomb,
                 by |-> AuthorOf[s], base |-> cur[s].base,
                 from |-> now[s], to |-> Open]
<1>1. CASE Abort(s)
  BY <1>1, AbortKeeps
<1>2. CASE ~ Abort(s)
  <2>1. /\ writer \in {Nobody, s} /\ pc[s] = "insert" /\ e \in Docs
        /\ View(s) = work /\ cur[s] \in Call
    BY <1>2, OwnerSeesWork DEF InsertRevision, MayWrite, Typed, CallOK
  <2>2. /\ \A n \in 1..Len(h) : h[n].to # Open
        /\ work' = [work EXCEPT !.hist[e] = Append(@, r)]
        /\ writer' = s
        /\ pc' = [pc EXCEPT ![s] = IF scope[s] = {} THEN "commit" ELSE "next"]
        /\ UNCHANGED <<db, clock, saves, now, scope, todo, cur, prev>>
    BY <1>2, <2>1 DEF InsertRevision, Took, ValidFrom, WithNext
  <2>3. work \in Database /\ h \in Seq(Revision) /\ now[s] \in Nat /\ prev[s] \in Nat
    BY <2>1 DEF Typed, TypeOK, Database
  <2>4. r \in Revision /\ r.base = cur[s].base /\ r.from = now[s] /\ r.to = Open
    BY <2>1, <2>3, PushAssumption DEF Revision, Call, Open
  <2>5. cur[s].base = prev[s]
    BY <2>1 DEF HistInv, StepOK
  <2>6. \A d \in Docs \ {e} : ~ Closing(d)
    BY <2>1, PushAssumption DEF Closing
  <2>7. \A d \in Docs : Sound(db.hist[d]) /\ Extends(work.hist[d], db.hist[d])
    BY DEF HistInv, HistOK
  <2>8. \A d \in Docs \ {e} : Sound(work.hist[d])
    BY <2>6 DEF HistInv, HistOK
  <2>9. prev[s] = Len(h) /\ (h = <<>> \/ SoundTo(h, now[s]))
    <3>1. CASE prev[s] # 0
      <4>1. writer = s /\ prev[s] = Len(h)
        BY <2>1, <3>1 DEF HistInv, StepOK
      <4>2. Closing(e)
        BY <2>1, <3>1, <4>1 DEF Closing
      <4> QED BY <2>1, <4>1, <4>2 DEF HistInv, HistOK
    <3>2. CASE prev[s] = 0
      <4>1. ~ Closing(e)
        BY <2>1, <3>2, PushAssumption DEF Closing
      <4>2. Sound(h)
        BY <2>1, <4>1 DEF HistInv, HistOK
      <4>3. Len(h) \notin 1..Len(h)
        BY <2>2, <4>2 DEF Sound, Tiled
      <4>4. Len(h) = 0
        BY <2>3, <4>3
      <4> QED BY <2>3, <3>2, <4>4
    <3> QED BY <3>1, <3>2
  <2>10. Sound(Append(h, r)) /\ Extends(Append(h, r), h) /\ Append(h, r) \in Seq(Revision)
    BY <2>3, <2>4, <2>5, <2>9, AppendSound
  <2>11. /\ work'.hist[e] = Append(h, r)
         /\ \A d \in Docs \ {e} : work'.hist[d] = work.hist[d]
    BY <2>1, <2>2, <2>3 DEF Database
  <2>12. pc'[s] \in {"commit", "next"} /\ \A t \in Sessions \ {s} : SameRequest(t)
    BY <2>2 DEF Typed, TypeOK, SameRequest
  <2>13. \A d \in Docs : ~ Closing(d)'
    BY <2>2, <2>12 DEF Closing
  <2>14. HistOK'
    <3>1. SUFFICES ASSUME NEW d \in Docs
                   PROVE  /\ Sound(db.hist[d]) /\ Sound(work'.hist[d])
                          /\ Extends(work'.hist[d], db.hist[d])
      BY <2>2, <2>13 DEF HistOK
    <3>2. db.hist[d] \in Seq(Revision)
      BY DEF Typed, TypeOK, Database
    <3>3. CASE d = e
      BY <2>3, <2>7, <2>10, <2>11, <3>2, <3>3, ExtendsTransitive
    <3>4. CASE d # e
      BY <2>7, <2>8, <2>11, <3>4
    <3> QED BY <3>3, <3>4
  <2>15. StepOK(s)'
    BY <2>2, <2>12 DEF StepOK
  <2> QED BY <2>1, <2>2, <2>12, <2>14, <2>15, OthersKeep DEF HistInv
<1> QED BY <1>1, <1>2

-----------------------------------------------------------------------------
(* The other statements                                                    *)

(* So does the start of a request.                                         *)
LEMMA RequestKeeps ==
  ASSUME Typed, HistInv, NEW s \in Sessions, DraftRequest(s) \/ PublishRequest(s)
  PROVE  HistInv'
<1>1. /\ UNCHANGED <<db, work, writer>>
      /\ pc[s] = "idle" /\ pc'[s] \in {"save", "validate", "attach", "detach", "read"}
      /\ \A t \in Sessions \ {s} : SameRequest(t)
  <2>1. CASE DraftRequest(s)
    <3>1. PICK p, row : DraftStatement(s, p, row)
      BY <2>1 DEF DraftRequest, PutCreate, PutDraft, DeleteDraft, BeginMerge,
         ResolveMerge, AbortMerge
    <3> QED BY <3>1 DEF DraftStatement, Typed, TypeOK, SameRequest
  <2>2. CASE PublishRequest(s)
    BY <2>2 DEF PublishRequest, PushStart, AttachStart, DetachStart, PublishStart, Called,
       Start, Typed, TypeOK, SameRequest
  <2> QED BY <2>1, <2>2
<1>2. StepOK(s)'
  BY <1>1 DEF StepOK
<1> QED BY <1>1, <1>2, ReadKeeps

(* So does a draft that is saved.                                          *)
LEMMA SaveKeeps ==
  ASSUME Typed, HistInv, NEW s \in Sessions, SaveDraft(s)
  PROVE  HistInv'
<1>1. Ended(s) /\ writer = Nobody /\ work = db /\ work' = db'
  BY DEF SaveDraft, Typed, TypeOK
<1>2. db'.hist = work.hist
  BY <1>1 DEF SaveDraft, Typed, TypeOK, Database
<1>3. \A d \in Docs : ~ Closing(d)
  BY <1>1, PushAssumption DEF Closing
<1> QED BY <1>1, <1>2, <1>3, CommitKeeps

(* So does the start of a push.                                            *)
LEMMA PushKeeps ==
  ASSUME Typed, HistInv, NEW s \in Sessions, Push(s)
  PROVE  HistInv'
<1>1. CASE Abort(s)
  BY <1>1, AbortKeeps
<1>2. CASE ~ Abort(s) /\ ~ PushClear(s)
  <2>1. /\ UNCHANGED <<db, work, writer>>
        /\ pc[s] \in {"validate", "open", "next"}
        /\ pc'[s] \in {"open", "next", "create", "move", "read", "clear"}
        /\ \A t \in Sessions \ {s} : SameRequest(t)
    BY <1>2 DEF Push, PushValidate, PushOpen, PushNext, PushDone, Typed, TypeOK, SameRequest
  <2>2. StepOK(s)'
    BY <2>1 DEF StepOK
  <2> QED BY <2>1, <2>2, ReadKeeps
<1>3. CASE PushClear(s)
  <2>1. writer \in {Nobody, s} /\ View(s) = work
    BY <1>3, OwnerSeesWork DEF PushClear, MayWrite
  <2>2. work'.hist = work.hist
    BY <1>3, <2>1 DEF PushClear, Typed, TypeOK, Database
  <2>3. /\ writer' = s /\ UNCHANGED db /\ pc[s] = "clear" /\ pc'[s] = "commit"
        /\ \A t \in Sessions \ {s} : SameRequest(t)
    BY <1>3 DEF PushClear, Took, Typed, TypeOK, SameRequest
  <2> QED BY <2>1, <2>2, <2>3, OtherWriteKeeps
<1> QED BY <1>1, <1>2, <1>3

(* So do the creation and the move of a document.                          *)
LEMMA DocumentKeeps ==
  ASSUME Typed, HistInv, NEW s \in Sessions, CreateDocument(s) \/ MoveDocument(s)
  PROVE  HistInv'
<1>1. CASE Abort(s)
  BY <1>1, AbortKeeps
<1>2. CASE ~ Abort(s)
  <2>1. writer \in {Nobody, s} /\ View(s) = work
    BY OwnerSeesWork DEF CreateDocument, MoveDocument, MayWrite
  <2>2. work'.hist = work.hist
    BY <1>2, <2>1 DEF CreateDocument, MoveDocument, Typed, TypeOK, Database
  <2>3. /\ writer' = s /\ UNCHANGED db /\ pc[s] # "insert" /\ pc'[s] = "read"
        /\ \A t \in Sessions \ {s} : SameRequest(t)
    BY <1>2 DEF CreateDocument, MoveDocument, Took, Typed, TypeOK, SameRequest
  <2> QED BY <2>1, <2>2, <2>3, OtherWriteKeeps
<1> QED BY <1>1, <1>2

(* So does the search for the document a draft belongs to.                 *)
LEMMA FindKeeps ==
  ASSUME Typed, HistInv, NEW s \in Sessions, Attach(s) \/ Detach(s)
  PROVE  HistInv'
<1>1. CASE Abort(s)
  BY <1>1, AbortKeeps
<1>2. CASE ~ Abort(s)
  <2>1. /\ UNCHANGED <<db, work, writer>>
        /\ pc[s] \in {"attach", "detach"} /\ pc'[s] \in {"create", "read"}
        /\ \A t \in Sessions \ {s} : SameRequest(t)
    BY <1>2 DEF Attach, Detach, Resolve, Typed, TypeOK, SameRequest
  <2>2. StepOK(s)'
    BY <2>1 DEF StepOK
  <2> QED BY <2>1, <2>2, ReadKeeps
<1> QED BY <1>1, <1>2

(* So does the commit.                                                     *)
LEMMA PublishCommitKeeps ==
  ASSUME Typed, HistInv, NEW s \in Sessions, PublishCommit(s)
  PROVE  HistInv'
<1>1. writer = s /\ pc[s] = "commit"
  BY DEF PublishCommit, HistInv, StepOK
<1>2. Ended(s) /\ db' = work /\ work' = work
  BY <1>1 DEF PublishCommit, Commit, View
<1>3. \A d \in Docs : ~ Closing(d)
  BY <1>1 DEF Closing
<1> QED BY <1>1, <1>2, <1>3, CommitKeeps

-----------------------------------------------------------------------------
(* The invariant, and the two properties                                   *)

(* HistInv holds at the start.                                             *)
LEMMA InitHist == Init => HistInv
<1> SUFFICES ASSUME Init PROVE HistInv
  OBVIOUS
<1>1. PICK place \in Places, b \in Bodies : db = Published0(place, b)
  BY DEF Init
<1>2. \A d \in Docs : Sound(db.hist[d])
  BY <1>1 DEF Published0, FirstRevision, Sound, Tiled, Based
<1>3. work = db /\ \A d \in Docs : ~ Closing(d)
  BY PushAssumption DEF Init, Closing
<1>4. \A s \in Sessions : StepOK(s)
  BY DEF Init, StepOK
<1> QED BY <1>2, <1>3, <1>4 DEF HistInv, HistOK, Extends

(* Every step keeps HistInv.                                               *)
LEMMA NextHist == Typed /\ HistInv /\ [Next]_vars => HistInv'
<1> SUFFICES ASSUME Typed, HistInv, [Next]_vars PROVE HistInv'
  OBVIOUS
<1>1. CASE UNCHANGED <<db, work, writer, pc, now, cur, prev>>
  BY <1>1 DEF HistInv, HistOK, StepOK, Closing, View
<1>2. CASE UNCHANGED vars
  BY <1>1, <1>2 DEF vars
<1>3. ASSUME NEW s \in Sessions, LockRows(s) PROVE HistInv'
  BY <1>1, <1>3 DEF LockRows
<1>4. ASSUME NEW s \in Sessions, Deadlock(s) \/ Cancel(s) PROVE HistInv'
  BY <1>4, AbortKeeps DEF Deadlock, Cancel
<1> QED
  BY <1>2, <1>3, <1>4, RequestKeeps, SaveKeeps, PushKeeps, DocumentKeeps, FindKeeps,
     ReadLiveKeeps, CloseKeeps, InsertKeeps, PublishCommitKeeps
     DEF Next, Statement, Publish

(* At every instant since its first revision a document has exactly one    *)
(* live revision.                                                          *)
THEOREM HistoryAlwaysTiles == Spec => []HistoryTiles
<1>1. HistInv => HistoryTiles
  BY DEF HistInv, HistOK, Sound, HistoryTiles
<1> QED BY <1>1, InitTyped, NextTyped, InitHist, NextHist, PTL DEF Spec

(* Each revision was written on top of the one before it: whoever publishes *)
(* had the live revision in hand, whatever else was being published.        *)
THEOREM NobodyOverwrites == Spec => []NoSilentOverwrite
<1>1. HistInv => NoSilentOverwrite
  BY DEF HistInv, HistOK, Sound, Based, NoSilentOverwrite
<1> QED BY <1>1, InitTyped, NextTyped, InitHist, NextHist, PTL DEF Spec
=============================================================================
