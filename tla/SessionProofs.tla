---------------------------- MODULE SessionProofs ---------------------------
(***************************************************************************)
(* What the commands keep of one user's work, for any pages, sections and  *)
(* terminals, and in whatever order requests, saves and publications fall. *)
(***************************************************************************)
EXTENDS Session, FiniteSetTheorems, WellFoundedInduction, TLAPS

-----------------------------------------------------------------------------
(* What every variable holds                                               *)

(* A text made of the first k edits.                                       *)
Old(k) == [Sections -> (SUBSET (0..k)) \ {{}}]

Revision(k) == [text : Old(k), own : BOOLEAN]

Histories(k, h) ==
  /\ h \in [Docs -> Seq(Revision(k))]
  /\ \A p \in Docs : Len(h[p]) >= 1

(* A draft of a page with n revisions.                                     *)
GoodDraft(k, n, d) ==
  /\ d \in Draft
  /\ d.text \in Old(k) /\ d.pre \in Old(k) \cup {NoText}
  /\ d.base \in 1..n /\ d.from \in 0..n
  /\ (d.pre = NoText) = (d.from = 0)
  /\ d.state = "conflicted" => d.pre # NoText

GoodDrafts(k, h, ds) ==
  /\ ds \in [Docs -> Draft \cup {NoDraft}]
  /\ \A p \in Docs : ds[p] # NoDraft => GoodDraft(k, Len(h[p]), ds[p])

GoodBuffers(k, h, b) ==
  /\ b \in [Docs -> [text : Text, shows : Nat \ {0}]]
  /\ \A p \in Docs : b[p].text \in Old(k) /\ b[p].shows \in 1..Len(h[p])

(* A command goes from draft to draft of those it listed; a merge writes   *)
(* what it read, on the strength of revisions there are.                   *)
GoodRun(k, h, r) ==
  /\ r \in Run
  /\ GoodDrafts(k, h, r.list)
  /\ \A p \in r.todo : r.list[p] # NoDraft
  /\ r.pc # "push" => r.todo # {}
  /\ r.kind = "merge" /\ r.pc \in {"theirs", "write"} =>
       \A p \in r.todo : r.live[p] \in 1..Len(h[p])
  /\ r.kind = "merge" /\ r.pc = "write" => r.theirs \in Old(k)
  /\ r.kind = "push" => \A p \in r.todo : r.want = {} \/ p \in r.want

Runs(k, h, rs) ==
  /\ rs \in [Terminals -> Run \cup {NoRun}]
  /\ \A t \in Terminals : rs[t] # NoRun => GoodRun(k, h, rs[t])

Counters ==
  /\ menu \in Menus
  /\ commands \in 0..menu.commands /\ faults \in 0..menu.faults

Ledger ==
  /\ over \in [1..MaxEdits -> SUBSET (0..edits)]
  /\ own \in SUBSET (Docs \X (1..edits)) /\ discarded \in SUBSET (0..edits)
  /\ raced \subseteq Docs /\ outdated \subseteq Docs /\ marked \subseteq Docs

Shapes ==
  /\ edits \in 0..MaxEdits
  /\ Histories(edits, hist)
  /\ GoodDrafts(edits, hist, row)
  /\ GoodBuffers(edits, hist, buffer)
  /\ Runs(edits, hist, run)
  /\ Counters
  /\ Ledger

(* The lines of a text and what stands behind them, said of any record of  *)
(* what was seen.                                                          *)
SeenBy(ov, line) == line \cup UNION {ov[e] : e \in line \ {0}}

InText(ov, text) == UNION {SeenBy(ov, text[s]) : s \in Sections}

(* No command is for more pages than there are, and the pages behaviours   *)
(* touch are pages.                                                        *)
LEMMA MenuPages ==
  ASSUME Counters
  PROVE  menu.pages \subseteq Docs /\ menu.commands \in Nat /\ menu.faults \in Nat
BY SessionAssumption DEF Counters

(* The first page of a list is in it.                                      *)
LEMMA FirstIn ==
  ASSUME NEW S \in SUBSET Docs, S # {}
  PROVE  First(S) \in S
<1> DEFINE R == OpToRel(<, Nat)
<1>1. IsWellFoundedOn(R, Nat)
  BY NatLessThanWellFounded
<1>2. \A n, m \in Nat : n < m => <<n, m>> \in R
  BY DEF OpToRel
<1>3. S \subseteq Nat
  BY SessionAssumption
<1> HIDE DEF R
<1>4. PICK x \in S : \A y \in S : ~(<<y, x>> \in R)
  BY <1>1, <1>3, WFMin
<1>5. ASSUME NEW y \in S PROVE x <= y
  <2>1. x \in Nat /\ y \in Nat
    BY <1>3
  <2>2. ~(y < x)
    BY <2>1, <1>2, <1>4
  <2> QED
    BY <2>1, <2>2
<1> QED
  BY <1>4, <1>5 DEF First

(* Texts of the first edits are texts, and stay texts of more edits.       *)
LEMMA OldGrows ==
  ASSUME NEW k \in Nat, NEW m \in Nat, k <= m
  PROVE  /\ Old(k) \subseteq Old(m)
         /\ m <= MaxEdits => Old(m) \subseteq Text
         /\ m <= MaxEdits => NoText \notin Old(m)
<1>1. 0..k \subseteq 0..m
  OBVIOUS
<1>2. (SUBSET (0..k)) \ {{}} \subseteq (SUBSET (0..m)) \ {{}}
  BY <1>1
<1>3. m <= MaxEdits => (SUBSET (0..m)) \ {{}} \subseteq (SUBSET Edits) \ {{}}
  BY SessionAssumption DEF Edits
<1> QED
  BY <1>2, <1>3, SessionAssumption DEF Old, Text

(* A merge of texts of the first edits is one.                             *)
LEMMA MergeOld ==
  ASSUME NEW k \in Nat, NEW b \in Old(k), NEW m \in Old(k), NEW o \in Old(k)
  PROVE  Merge(b, m, o) \in Old(k)
<1>1. \A s \in Sections : /\ m[s] \in (SUBSET (0..k)) \ {{}} /\ b[s] \in (SUBSET (0..k)) \ {{}}
                          /\ o[s] \in (SUBSET (0..k)) \ {{}}
  BY DEF Old
<1>2. \A s \in Sections : m[s] \cup o[s] \in (SUBSET (0..k)) \ {{}}
  BY <1>1
<1> QED
  BY <1>1, <1>2 DEF Merge, Old

(* A text with one section rewritten by the next edit.                     *)
LEMMA EditOld ==
  ASSUME NEW k \in Nat, NEW x \in Old(k), NEW s \in Sections
  PROVE  [x EXCEPT ![s] = {k + 1}] \in Old(k + 1)
<1>1. Old(k) \subseteq Old(k + 1)
  BY OldGrows
<1>2. {k + 1} \in (SUBSET (0..(k + 1))) \ {{}}
  OBVIOUS
<1> QED
  BY <1>1, <1>2 DEF Old

(* What is good stays good when more edits and revisions are made.         *)
LEMMA DraftGrows ==
  ASSUME NEW k \in Nat, NEW m \in Nat, k <= m, m <= MaxEdits,
         NEW n \in Nat, NEW o \in Nat, n <= o,
         NEW d, GoodDraft(k, n, d)
  PROVE  GoodDraft(m, o, d)
<1>1. Old(k) \subseteq Old(m)
  BY OldGrows
<1>2. d.text \in Old(m) /\ d.pre \in Old(m) \cup {NoText}
  BY <1>1 DEF GoodDraft
<1>3. d.base \in 1..o /\ d.from \in 0..o
  BY DEF GoodDraft
<1> QED
  BY <1>2, <1>3 DEF GoodDraft

(* g has the revisions of h, and perhaps more.                             *)
Longer(h, g) == \A p \in Docs : Len(h[p]) \in Nat /\ Len(g[p]) \in Nat /\ Len(h[p]) <= Len(g[p])

(* Lists of drafts stay good as well.                                      *)
LEMMA DraftsGrow ==
  ASSUME NEW k \in Nat, NEW m \in Nat, k <= m, m <= MaxEdits,
         NEW h, NEW g, Longer(h, g), NEW ds, GoodDrafts(k, h, ds)
  PROVE  GoodDrafts(m, g, ds)
<1>1. ASSUME NEW p \in Docs, ds[p] # NoDraft PROVE GoodDraft(m, Len(g[p]), ds[p])
  <2>1. GoodDraft(k, Len(h[p]), ds[p])
    BY <1>1 DEF GoodDrafts
  <2> QED
    BY <2>1, DraftGrows DEF Longer
<1> QED
  BY <1>1 DEF GoodDrafts

(* So do the commands under way.                                           *)
LEMMA RunGrows ==
  ASSUME NEW k \in Nat, NEW m \in Nat, k <= m, m <= MaxEdits,
         NEW h, NEW g, Longer(h, g), NEW r, GoodRun(k, h, r)
  PROVE  GoodRun(m, g, r)
<1>1. GoodDrafts(m, g, r.list)
  BY DraftsGrow DEF GoodRun
<1>2. Old(k) \subseteq Old(m)
  BY OldGrows
<1>3. r.todo \subseteq Docs
  BY DEF GoodRun, Run
<1>4. \A p \in Docs : 1..Len(h[p]) \subseteq 1..Len(g[p])
  BY DEF Longer
<1>5. r.kind = "merge" /\ r.pc \in {"theirs", "write"} =>
        \A p \in r.todo : r.live[p] \in 1..Len(g[p])
  BY <1>3, <1>4 DEF GoodRun
<1> QED
  BY <1>1, <1>2, <1>5 DEF GoodRun

(* And all of them together.                                               *)
LEMMA RunsGrow ==
  ASSUME NEW k \in Nat, NEW m \in Nat, k <= m, m <= MaxEdits,
         NEW h, NEW g, Longer(h, g), NEW rs, Runs(k, h, rs)
  PROVE  Runs(m, g, rs)
<1>1. \A t \in Terminals : rs[t] # NoRun => GoodRun(m, g, rs[t])
  BY RunGrows DEF Runs
<1> QED
  BY <1>1 DEF Runs

(* And the texts in the editor.                                            *)
LEMMA BuffersGrow ==
  ASSUME NEW k \in Nat, NEW m \in Nat, k <= m, m <= MaxEdits,
         NEW h, NEW g, Longer(h, g), NEW b, GoodBuffers(k, h, b)
  PROVE  GoodBuffers(m, g, b)
<1>1. Old(k) \subseteq Old(m)
  BY OldGrows
<1>2. \A p \in Docs : 1..Len(h[p]) \subseteq 1..Len(g[p])
  BY DEF Longer
<1> QED
  BY <1>1, <1>2 DEF GoodBuffers

(* A command that ends, or goes on in order, leaves all in order.          *)
LEMMA RunMoves ==
  ASSUME NEW k, NEW h, Runs(k, h, run), NEW t \in Terminals, NEW x,
         x = NoRun \/ GoodRun(k, h, x), run' = [run EXCEPT ![t] = x]
  PROVE  Runs(k, h, run')
<1>1. run'[t] = x /\ \A u \in Terminals : u # t => run'[u] = run[u]
  BY DEF Runs
<1>2. x \in Run \cup {NoRun}
  BY DEF GoodRun
<1>3. run' \in [Terminals -> Run \cup {NoRun}]
  BY <1>2 DEF Runs
<1>4. ASSUME NEW u \in Terminals, run'[u] # NoRun PROVE GoodRun(k, h, run'[u])
  <2>1. CASE u = t
    BY <2>1, <1>1, <1>4
  <2>2. CASE u # t
    BY <2>2, <1>1, <1>4 DEF Runs
  <2> QED
    BY <2>1, <2>2
<1> QED
  BY <1>3, <1>4 DEF Runs

(* One draft changes.                                                      *)
LEMMA RowMoves ==
  ASSUME NEW k, NEW h, GoodDrafts(k, h, row), NEW p \in Docs, NEW d,
         d = NoDraft \/ GoodDraft(k, Len(h[p]), d), row' = [row EXCEPT ![p] = d]
  PROVE  GoodDrafts(k, h, row')
<1>1. row'[p] = d /\ \A q \in Docs : q # p => row'[q] = row[q]
  BY DEF GoodDrafts
<1>2. d \in Draft \cup {NoDraft}
  BY DEF GoodDraft
<1>3. row' \in [Docs -> Draft \cup {NoDraft}]
  BY <1>2 DEF GoodDrafts
<1>4. ASSUME NEW q \in Docs, row'[q] # NoDraft PROVE GoodDraft(k, Len(h[q]), row'[q])
  <2>1. CASE q = p
    BY <2>1, <1>1, <1>4
  <2>2. CASE q # p
    BY <2>2, <1>1, <1>4 DEF GoodDrafts
  <2> QED
    BY <2>1, <2>2
<1> QED
  BY <1>3, <1>4 DEF GoodDrafts

(* A history has no fewer revisions than itself.                           *)
LEMMA AsLong ==
  ASSUME NEW k, NEW h, Histories(k, h)
  PROVE  /\ Longer(h, h)
         /\ \A p \in Docs : Len(h[p]) \in Nat /\ Len(h[p]) >= 1
         /\ \A p \in Docs : \A n \in 1..Len(h[p]) :
              h[p][n] \in Revision(k) /\ h[p][n].text \in Old(k)
<1>1. \A p \in Docs : h[p] \in Seq(Revision(k))
  BY DEF Histories
<1>2. \A p \in Docs : Len(h[p]) \in Nat
  BY <1>1
<1>3. \A p \in Docs : \A n \in 1..Len(h[p]) : h[p][n] \in Revision(k)
  BY <1>1
<1> QED
  BY <1>2, <1>3 DEF Histories, Longer, Revision

(* A page gets a revision.                                                 *)
LEMMA Appended ==
  ASSUME NEW k \in Nat, NEW m \in Nat, k <= m, NEW h, Histories(k, h),
         NEW p \in Docs, NEW v \in Revision(m)
  PROVE  LET q == Append(h[p], v) IN
         /\ q \in Seq(Revision(m)) /\ Len(q) = Len(h[p]) + 1
         /\ q[Len(h[p]) + 1] = v /\ \A n \in 1..Len(h[p]) : q[n] = h[p][n]
<1>1. Old(k) \subseteq Old(m)
  BY OldGrows
<1>2. Revision(k) \subseteq Revision(m)
  BY <1>1 DEF Revision
<1>3. h[p] \in Seq(Revision(k))
  BY DEF Histories
<1>4. h[p] \in Seq(Revision(m))
  <2>1. Len(h[p]) \in Nat /\ \A n \in 1..Len(h[p]) : h[p][n] \in Revision(m)
    BY <1>2, <1>3
  <2>2. h[p] = [n \in 1..Len(h[p]) |-> h[p][n]]
    BY <1>3
  <2> QED
    BY <2>1, <2>2
<1> QED
  BY <1>3, <1>4

(* What stays of a history is one when more edits have been made.          *)
LEMMA HistoriesGrow ==
  ASSUME NEW k \in Nat, NEW m \in Nat, k <= m, NEW h, Histories(k, h)
  PROVE  Histories(m, h)
<1>1. Old(k) \subseteq Old(m)
  BY OldGrows
<1>2. Revision(k) \subseteq Revision(m)
  BY <1>1 DEF Revision
<1>3. ASSUME NEW p \in Docs PROVE h[p] \in Seq(Revision(m))
  <2>1. h[p] \in Seq(Revision(k))
    BY DEF Histories
  <2>2. Len(h[p]) \in Nat /\ \A n \in 1..Len(h[p]) : h[p][n] \in Revision(m)
    BY <1>2, <2>1
  <2>3. h[p] = [n \in 1..Len(h[p]) |-> h[p][n]]
    BY <2>1
  <2> QED
    BY <2>2, <2>3
<1> QED
  BY <1>3 DEF Histories

-----------------------------------------------------------------------------
(* The first state, and each step                                          *)

(* Nothing has been edited, and no command runs.                           *)
LEMMA InitShapes == Init => Shapes
<1> SUFFICES ASSUME Init PROVE Shapes
  OBVIOUS
<1> DEFINE x == [s \in Sections |-> {0}]
<1>1. 0 \in 0..MaxEdits /\ edits = 0
  BY SessionAssumption DEF Init
<1>2. x \in Old(0)
  BY DEF Old
<1>3. Old(0) \subseteq Text /\ NoText \notin Old(0)
  BY OldGrows, SessionAssumption
<1> HIDE DEF x
<1> DEFINE v == [text |-> x, own |-> FALSE]
<1>4. hist = [p \in Docs |-> <<v>>]
  BY DEF Init, x
<1>5. v \in Revision(0)
  BY <1>2 DEF Revision
<1> HIDE DEF v
<1>6. <<v>> \in Seq(Revision(0)) /\ Len(<<v>>) = 1
  BY <1>5
<1>7. Histories(0, hist) /\ \A p \in Docs : Len(hist[p]) = 1
  BY <1>4, <1>6 DEF Histories
<1>8. GoodDrafts(0, hist, row)
  BY DEF Init, GoodDrafts
<1>9. GoodBuffers(0, hist, buffer)
  <2>1. buffer = [p \in Docs |-> [text |-> x, shows |-> 1]]
    BY DEF Init, x
  <2>2. [text |-> x, shows |-> 1] \in [text : Text, shows : Nat \ {0}]
    BY <1>2, <1>3
  <2> QED
    BY <1>2, <1>7, <2>1, <2>2 DEF GoodBuffers
<1>10. Runs(0, hist, run)
  BY DEF Init, Runs
<1>11. Counters
  BY SessionAssumption DEF Init, Counters
<1>12. Ledger
  BY DEF Init, Ledger
<1> QED
  BY <1>1, <1>7, <1>8, <1>9, <1>10, <1>11, <1>12 DEF Shapes

(* What the editor shows is what the mount holds.                          *)
LEMMA OpenShapes ==
  ASSUME Shapes, NEW p \in Docs, Open(p) PROVE Shapes'
<1> DEFINE b == IF row[p] # NoDraft THEN [text |-> row[p].text, shows |-> Claims(row[p])]
                ELSE [text |-> hist[p][Live(p)].text, shows |-> Live(p)]
<1>1. buffer' = [buffer EXCEPT ![p] = b]
  BY DEF Open
<1>2. edits \in Nat /\ edits <= MaxEdits /\ Old(edits) \subseteq Text
  BY OldGrows, SessionAssumption DEF Shapes
<1>3. Len(hist[p]) \in Nat /\ Len(hist[p]) >= 1
  BY AsLong DEF Shapes
<1>4. /\ b \in [text : Text, shows : Nat \ {0}]
      /\ b.text \in Old(edits) /\ b.shows \in 1..Len(hist[p])
  <2>1. CASE row[p] # NoDraft
    <3>1. GoodDraft(edits, Len(hist[p]), row[p])
      BY <2>1 DEF Shapes, GoodDrafts
    <3>2. row[p].text \in Old(edits)
      BY <3>1 DEF GoodDraft
    <3>3. Claims(row[p]) \in 1..Len(hist[p])
      BY <1>3, <3>1 DEF GoodDraft, Claims, Later
    <3> QED
      BY <2>1, <1>2, <1>3, <3>2, <3>3
  <2>2. CASE row[p] = NoDraft
    <3>1. hist[p][Len(hist[p])].text \in Old(edits)
      BY <1>3, AsLong DEF Shapes
    <3> QED
      BY <2>2, <1>2, <1>3, <3>1 DEF Live
  <2> QED
    BY <2>1, <2>2
<1> HIDE DEF b
<1>5. buffer'[p] = b /\ \A q \in Docs : q # p => buffer'[q] = buffer[q]
  BY <1>1 DEF Shapes, GoodBuffers
<1>6. buffer' \in [Docs -> [text : Text, shows : Nat \ {0}]]
  BY <1>1, <1>4 DEF Shapes, GoodBuffers
<1>7. \A q \in Docs : buffer'[q].text \in Old(edits) /\ buffer'[q].shows \in 1..Len(hist[q])
  BY <1>4, <1>5 DEF Shapes, GoodBuffers
<1> QED
  BY <1>6, <1>7 DEF Open, server, history, Shapes, GoodBuffers, Counters, Ledger

(* A new edit is seen in place of lines of the texts there are.            *)
LEMMA EditShapes ==
  ASSUME Shapes, NEW p \in Docs, NEW s \in Sections, NEW x \in Old(edits),
         NewEdit(p, s, Seen(x[s]))
  PROVE  /\ edits \in Nat /\ edits < MaxEdits /\ edits' = edits + 1 /\ edits' \in 0..MaxEdits
         /\ over' \in [1..MaxEdits -> SUBSET (0..edits)]
         /\ over' \in [1..MaxEdits -> SUBSET (0..edits')]
<1>1. edits \in Nat /\ edits < MaxEdits /\ edits' = edits + 1 /\ edits' \in 0..MaxEdits
  BY SessionAssumption DEF Shapes, NewEdit
<1>2. x[s] \subseteq 0..edits
  BY DEF Old
<1>3. \A e \in x[s] \ {0} : over[e] \subseteq 0..edits
  <2>1. \A e \in x[s] \ {0} : e \in 1..MaxEdits
    BY <1>1, <1>2, SessionAssumption
  <2>2. over \in [1..MaxEdits -> SUBSET (0..edits)]
    BY DEF Shapes, Ledger
  <2> QED
    BY <2>1, <2>2
<1>4. Seen(x[s]) \subseteq 0..edits
  BY <1>2, <1>3 DEF Seen
<1>5. over' = [over EXCEPT ![edits + 1] = Seen(x[s])]
  BY DEF NewEdit
<1>6. over' \in [1..MaxEdits -> SUBSET (0..edits)]
  BY <1>4, <1>5 DEF Shapes, Ledger
<1>7. 0..edits \subseteq 0..edits'
  BY <1>1
<1>8. SUBSET (0..edits) \subseteq SUBSET (0..edits')
  BY <1>7
<1> QED
  BY <1>1, <1>6, <1>8

(* The draft of a page that is saved.                                      *)
LEMMA UpsertedGood ==
  ASSUME Shapes, NEW p \in Docs, edits + 1 <= MaxEdits, NEW x \in Old(edits + 1)
  PROVE  /\ GoodDraft(edits + 1, Len(hist[p]), Upserted(p, x))
         /\ Upserted(p, x).text = x
         /\ row[p] # NoDraft => /\ Upserted(p, x).base = row[p].base
                                /\ Upserted(p, x).pre = row[p].pre
                                /\ Upserted(p, x).from = row[p].from
         /\ row[p] = NoDraft => Upserted(p, x).pre = NoText /\ Upserted(p, x).from = 0
<1>1. edits \in Nat /\ edits + 1 \in Nat /\ Old(edits + 1) \subseteq Text
      /\ Old(edits) \subseteq Old(edits + 1)
  BY OldGrows DEF Shapes
<1>2. Len(hist[p]) \in Nat /\ Len(hist[p]) >= 1
  BY AsLong DEF Shapes
<1>3. buffer[p].shows \in 1..Len(hist[p])
  BY DEF Shapes, GoodBuffers
<1>4. CASE row[p] # NoDraft
  <2> DEFINE d == [row[p] EXCEPT !.text = x, !.base = row[p].base]
  <2>1. Upserted(p, x) = d
    BY <1>4 DEF Upserted, BaseOfSave
  <2>2. GoodDraft(edits, Len(hist[p]), row[p])
    BY <1>4 DEF Shapes, GoodDrafts
  <2>3. d \in Draft /\ d.text = x /\ d.base = row[p].base /\ d.pre = row[p].pre
        /\ d.from = row[p].from /\ d.state = row[p].state
    BY <1>1, <2>2 DEF GoodDraft, Draft
  <2> HIDE DEF d
  <2>4. GoodDraft(edits + 1, Len(hist[p]), d)
    BY <1>1, <2>2, <2>3 DEF GoodDraft
  <2> QED
    BY <1>4, <2>1, <2>3, <2>4
<1>5. CASE row[p] = NoDraft
  <2> DEFINE d == [text |-> x, base |-> BaseOfSave(p), state |-> "clean",
                   pre |-> NoText, from |-> 0]
  <2>1. Upserted(p, x) = d
    BY <1>5 DEF Upserted
  <2>2. BaseOfSave(p) \in 1..Len(hist[p])
    BY <1>2, <1>3, <1>5 DEF BaseOfSave, Live
  <2>3. d \in Draft
    BY <1>1, <1>2, <2>2 DEF Draft
  <2>4. d.text = x /\ d.base = BaseOfSave(p) /\ d.state = "clean" /\ d.pre = NoText /\ d.from = 0
    OBVIOUS
  <2> HIDE DEF d
  <2>5. GoodDraft(edits + 1, Len(hist[p]), d)
    BY <1>2, <2>2, <2>3, <2>4 DEF GoodDraft
  <2> QED
    BY <1>5, <2>1, <2>4, <2>5
<1> QED
  BY <1>4, <1>5

(* A save makes or changes the draft, and the editor shows it.             *)
LEMMA SaveShapes ==
  ASSUME Shapes, NEW p \in Docs, NEW s \in Sections, Save(p, s) PROVE Shapes'
<1> DEFINE x == [buffer[p].text EXCEPT ![s] = {edits + 1}]
<1>1. buffer[p].text \in Old(edits) /\ NewEdit(p, s, Seen(buffer[p].text[s]))
  BY DEF Save, Shapes, GoodBuffers
<1>2. /\ edits \in Nat /\ edits < MaxEdits /\ edits' = edits + 1 /\ edits' \in 0..MaxEdits
      /\ over' \in [1..MaxEdits -> SUBSET (0..edits')]
  BY <1>1, EditShapes
<1>3. x \in Old(edits + 1)
  BY <1>1, <1>2, EditOld
<1>4. /\ row' = [row EXCEPT ![p] = Upserted(p, x)]
      /\ buffer' = [buffer EXCEPT ![p].text = x]
      /\ own' = own \cup {<<p, edits + 1>>}
      /\ hist' = hist /\ run' = run /\ commands' = commands /\ faults' = faults /\ menu' = menu
      /\ discarded' = discarded /\ raced' = raced
      /\ outdated' \in {outdated, outdated \cup {p}}
      /\ marked' \in {marked, marked \cup {p}}
  BY DEF Save
<1> HIDE DEF x
<1>5. MaxEdits \in Nat /\ edits + 1 \in Nat /\ edits + 1 <= MaxEdits
      /\ Old(edits) \subseteq Old(edits + 1) /\ Old(edits + 1) \subseteq Text
  BY <1>2, OldGrows, SessionAssumption
<1>6. Longer(hist, hist) /\ Histories(edits', hist')
  BY <1>2, <1>4, <1>5, AsLong, HistoriesGrow DEF Shapes
<1>7. GoodDrafts(edits', hist', row')
  <2>1. GoodDrafts(edits + 1, hist, row)
    BY <1>2, <1>5, <1>6, DraftsGrow DEF Shapes
  <2>2. GoodDraft(edits + 1, Len(hist[p]), Upserted(p, x))
    BY <1>3, <1>5, UpsertedGood
  <2>3. GoodDrafts(edits + 1, hist, row')
    BY <1>4, <2>1, <2>2, RowMoves
  <2> QED
    BY <2>3, <1>2, <1>4
<1>8. GoodBuffers(edits', hist', buffer')
  <2>1. GoodBuffers(edits + 1, hist, buffer)
    BY <1>2, <1>5, <1>6, BuffersGrow DEF Shapes
  <2>2. buffer'[p].text = x /\ buffer'[p].shows = buffer[p].shows
    BY <1>4, <2>1 DEF GoodBuffers
  <2>3. \A q \in Docs : q # p => buffer'[q] = buffer[q]
    BY <1>4, <2>1 DEF GoodBuffers
  <2>4. buffer' \in [Docs -> [text : Text, shows : Nat \ {0}]]
    BY <1>3, <1>4, <1>5, <2>1 DEF GoodBuffers
  <2>5. \A q \in Docs : buffer'[q].text \in Old(edits + 1) /\ buffer'[q].shows \in 1..Len(hist[q])
    BY <1>3, <2>1, <2>2, <2>3 DEF GoodBuffers
  <2> QED
    BY <2>4, <2>5, <1>2, <1>4 DEF GoodBuffers
<1>9. Runs(edits', hist', run')
  <2>1. Runs(edits + 1, hist, run)
    BY <1>2, <1>5, <1>6, RunsGrow DEF Shapes
  <2> QED
    BY <2>1, <1>2, <1>4
<1>10. Counters'
  BY <1>4 DEF Shapes, Counters
<1>11. Ledger'
  <2>1. own' \in SUBSET (Docs \X (1..edits'))
    BY <1>2, <1>4 DEF Shapes, Ledger
  <2>2. discarded' \in SUBSET (0..edits')
    BY <1>2, <1>4 DEF Shapes, Ledger
  <2> QED
    BY <2>1, <2>2, <1>2, <1>4 DEF Shapes, Ledger
<1> QED
  BY <1>2, <1>6, <1>7, <1>8, <1>9, <1>10, <1>11 DEF Shapes

(* Somebody else publishes.                                                *)
LEMMA PublishShapes ==
  ASSUME Shapes, NEW p \in Docs, NEW s \in Sections, Publish(p, s) PROVE Shapes'
<1> DEFINE b == hist[p][Live(p)].text
           x == [b EXCEPT ![s] = {edits + 1}]
           v == [text |-> x, own |-> FALSE]
<1>1. b \in Old(edits) /\ NewEdit(p, s, Seen(b[s]))
  BY AsLong DEF Publish, Shapes, Live
<1>2. /\ edits \in Nat /\ edits < MaxEdits /\ edits' = edits + 1 /\ edits' \in 0..MaxEdits
      /\ over' \in [1..MaxEdits -> SUBSET (0..edits')]
  BY <1>1, EditShapes
<1>3. x \in Old(edits + 1)
  BY <1>1, <1>2, EditOld
<1>4. hist' = [hist EXCEPT ![p] = Append(hist[p], v)]
  BY DEF Publish, Shapes, Histories
<1>5. /\ row' = row /\ buffer' = buffer /\ run' = run /\ commands' = commands
      /\ faults' = faults /\ menu' = menu /\ own' = own /\ discarded' = discarded
      /\ raced' = raced /\ outdated' = outdated /\ marked' = marked
  BY DEF Publish
<1>6. v \in Revision(edits + 1)
  BY <1>3 DEF Revision
<1> HIDE DEF b, x, v
<1>7. edits + 1 \in Nat /\ edits <= edits + 1 /\ edits + 1 <= MaxEdits
  BY <1>2, SessionAssumption
<1>8. /\ Append(hist[p], v) \in Seq(Revision(edits + 1))
      /\ Len(Append(hist[p], v)) = Len(hist[p]) + 1
  BY <1>2, <1>6, <1>7, Appended DEF Shapes
<1>9. Histories(edits + 1, hist)
  BY <1>2, <1>7, HistoriesGrow DEF Shapes
<1>10. /\ hist'[p] = Append(hist[p], v)
       /\ \A q \in Docs : q # p => hist'[q] = hist[q]
  BY <1>4, <1>9 DEF Histories
<1>11. Histories(edits + 1, hist') /\ Longer(hist, hist')
  <2>1. hist' \in [Docs -> Seq(Revision(edits + 1))]
    BY <1>4, <1>8, <1>9 DEF Histories
  <2>2. \A q \in Docs : Len(hist[q]) \in Nat /\ Len(hist[q]) >= 1
    BY AsLong DEF Shapes
  <2>3. \A q \in Docs : Len(hist'[q]) \in Nat /\ Len(hist'[q]) >= Len(hist[q])
    BY <1>8, <1>10, <2>2
  <2> QED
    BY <2>1, <2>2, <2>3 DEF Histories, Longer
<1>12. /\ GoodDrafts(edits + 1, hist', row) /\ GoodBuffers(edits + 1, hist', buffer)
       /\ Runs(edits + 1, hist', run)
  BY <1>2, <1>7, <1>11, DraftsGrow, BuffersGrow, RunsGrow DEF Shapes
<1>13. Counters'
  BY <1>5 DEF Shapes, Counters
<1>14. Ledger'
  <2>1. 1..edits \subseteq 1..edits' /\ 0..edits \subseteq 0..edits'
    BY <1>2
  <2> QED
    BY <2>1, <1>2, <1>5 DEF Shapes, Ledger
<1> QED
  BY <1>2, <1>5, <1>11, <1>12, <1>13, <1>14 DEF Shapes

(* What no command changes when it only goes on, ends or fails.            *)
Steady == UNCHANGED <<hist, row, buffer, edits, menu, over, own, discarded, raced, outdated, marked>>

(* A command that starts, goes on without writing, or ends.                *)
LEMMA OnlyRunShapes ==
  ASSUME Shapes, Steady, NEW t \in Terminals, NEW x, x = NoRun \/ GoodRun(edits, hist, x),
         run' = [run EXCEPT ![t] = x], Counters'
  PROVE  Shapes'
<1>1. Runs(edits, hist, run')
  BY RunMoves DEF Shapes
<1>2. Ledger'
  BY DEF Shapes, Steady, Ledger
<1> QED
  BY <1>1, <1>2 DEF Shapes, Steady

(* A command starts from the list of drafts there are.                     *)
LEMMA StartedShapes ==
  ASSUME Shapes, NEW t \in Terminals, NEW kind \in Kinds,
         NEW pc \in {"resolve", "push", "manifest", "write"},
         NEW want \in SUBSET Docs, NEW todo \in SUBSET Docs, Started(t, kind, pc, want, todo),
         \A p \in todo : row[p] # NoDraft,
         pc # "push" => todo # {},
         kind = "merge" => pc = "manifest",
         kind = "push" => \A p \in todo : want = {} \/ p \in want
  PROVE  Shapes'
<1> DEFINE r == [kind |-> kind, pc |-> pc, want |-> want, list |-> row, todo |-> todo,
                 live |-> [p \in Docs |-> 0], theirs |-> NoText]
<1>1. run' = [run EXCEPT ![t] = r] /\ commands < menu.commands /\ commands' = commands + 1
  BY DEF Started
<1>2. Steady /\ faults' = faults
  BY DEF Started, Steady, server, history
<1>3. GoodDrafts(edits, hist, row)
  BY DEF Shapes
<1>4. r \in Run
  BY <1>3 DEF Run, GoodDrafts
<1>5. /\ r.kind = kind /\ r.pc = pc /\ r.want = want /\ r.list = row /\ r.todo = todo
  OBVIOUS
<1> HIDE DEF r
<1>6. GoodRun(edits, hist, r)
  BY <1>3, <1>4, <1>5 DEF GoodRun
<1>7. Counters'
  BY <1>1, <1>2, MenuPages DEF Steady, Shapes, Counters
<1> QED
  BY <1>1, <1>2, <1>6, <1>7, OnlyRunShapes

(* The four commands start.                                                *)
LEMMA BeginShapes ==
  ASSUME Shapes, NEW t \in Terminals, Begin(t) PROVE Shapes'
<1>1. PICK want \in SUBSET Rows : BeginPush(t, want) \/ BeginMerge(t, want)
                                  \/ BeginAbort(t, want) \/ BeginRevert(t, want)
  BY DEF Begin
<1>2. want \in SUBSET Docs /\ Rows \subseteq Docs
  BY DEF Rows
<1>3. Selected(want) \subseteq Docs /\ \A p \in Selected(want) : row[p] # NoDraft
  BY <1>1, <1>2 DEF Selected, Rows
<1>4. \A p \in Selected(want) : want = {} \/ p \in want
  BY DEF Selected
<1>5. CASE BeginPush(t, want)
  <2>1. ToResolve(want) \subseteq Selected(want)
    BY DEF ToResolve
  <2>2. CASE ToResolve(want) = {}
    <3>1. Started(t, "push", "push", want, ToResolve(want))
      BY <1>5, <2>2 DEF BeginPush
    <3> QED
      BY <3>1, <1>2, <1>3, <1>4, <2>1, <2>2, StartedShapes DEF Kinds
  <2>3. CASE ToResolve(want) # {}
    <3>1. Started(t, "push", "resolve", want, ToResolve(want))
      BY <1>5, <2>3 DEF BeginPush
    <3> QED
      BY <3>1, <1>2, <1>3, <1>4, <2>1, <2>3, StartedShapes DEF Kinds
  <2> QED
    BY <2>2, <2>3
<1>6. CASE BeginMerge(t, want)
  <2>1. Selected(want) # {} /\ Started(t, "merge", "manifest", want, Selected(want))
    BY <1>6 DEF BeginMerge
  <2> QED
    BY <2>1, <1>2, <1>3, StartedShapes DEF Kinds
<1>7. CASE BeginAbort(t, want)
  <2>1. Restorable(want) # {} /\ Started(t, "abort", "write", want, Restorable(want))
    BY <1>7 DEF BeginAbort
  <2>2. Restorable(want) \subseteq Selected(want)
    BY DEF Restorable
  <2> QED
    BY <2>1, <2>2, <1>2, <1>3, StartedShapes DEF Kinds
<1>8. CASE BeginRevert(t, want)
  <2>1. Selected(want) # {} /\ Started(t, "revert", "write", want, Selected(want))
    BY <1>8 DEF BeginRevert
  <2> QED
    BY <2>1, <1>2, <1>3, StartedShapes DEF Kinds
<1> QED
  BY <1>1, <1>5, <1>6, <1>7, <1>8

(* A command that is under way, and the page it is at.                     *)
LEMMA AtWork ==
  ASSUME Shapes, NEW t \in Terminals, run[t] # NoRun
  PROVE  /\ GoodRun(edits, hist, run[t]) /\ run[t] \in Run
         /\ run[t].todo \subseteq Docs
         /\ run[t].list \in [Docs -> Draft \cup {NoDraft}]
         /\ run[t].pc # "push" => /\ First(run[t].todo) \in run[t].todo
                                  /\ First(run[t].todo) \in Docs
                                  /\ run[t].list[First(run[t].todo)] # NoDraft
                                  /\ GoodDraft(edits, Len(hist[First(run[t].todo)]),
                                               run[t].list[First(run[t].todo)])
<1>1. GoodRun(edits, hist, run[t]) /\ run[t] \in Run
  BY DEF Shapes, Runs, GoodRun
<1>2. run[t].todo \in SUBSET Docs /\ run[t].list \in [Docs -> Draft \cup {NoDraft}]
  BY <1>1 DEF Run
<1>3. ASSUME run[t].pc # "push"
      PROVE  /\ First(run[t].todo) \in run[t].todo
             /\ First(run[t].todo) \in Docs
             /\ run[t].list[First(run[t].todo)] # NoDraft
             /\ GoodDraft(edits, Len(hist[First(run[t].todo)]),
                          run[t].list[First(run[t].todo)])
  <2>1. run[t].todo # {}
    BY <1>1, <1>3 DEF GoodRun
  <2>2. First(run[t].todo) \in run[t].todo
    BY <1>2, <2>1, FirstIn
  <2>3. First(run[t].todo) \in Docs
    BY <1>2, <2>2
  <2>4. run[t].list[First(run[t].todo)] # NoDraft
    BY <1>1, <2>2 DEF GoodRun
  <2> QED
    BY <1>1, <2>2, <2>3, <2>4 DEF GoodRun, GoodDrafts
<1> QED
  BY <1>1, <1>2, <1>3

(* The manifest tells which drafts there is something to merge into.       *)
LEMMA ManifestShapes ==
  ASSUME Shapes, NEW t \in Terminals, Manifest(t) PROVE Shapes'
<1> DEFINE live == [p \in Docs |-> Live(p)]
           todo == {p \in run[t].todo : live[p] # run[t].list[p].base}
           r == [run[t] EXCEPT !.live = live, !.todo = todo, !.pc = "theirs"]
<1>1. run[t] # NoRun /\ run[t].kind = "merge" /\ run[t].pc = "manifest"
  BY DEF Manifest, Now
<1>2. GoodRun(edits, hist, run[t]) /\ run[t] \in Run
  BY <1>1, AtWork
<1>3. IF todo = {} THEN run' = [run EXCEPT ![t] = NoRun] ELSE run' = [run EXCEPT ![t] = r]
  BY DEF Manifest, Ended, Shapes, Runs
<1>4. Steady /\ Counters'
  BY DEF Manifest, server, history, Steady, Shapes, Counters
<1>5. live \in [Docs -> Nat] /\ \A p \in Docs : live[p] \in 1..Len(hist[p])
  BY AsLong DEF Shapes, Live
<1>6. todo \subseteq run[t].todo
  OBVIOUS
<1> HIDE DEF live, todo
<1>7. /\ r \in Run
      /\ r.kind = "merge" /\ r.pc = "theirs" /\ r.list = run[t].list /\ r.todo = todo
      /\ r.live = live
  BY <1>1, <1>2, <1>5, <1>6 DEF Run
<1> HIDE DEF r
<1>8. todo # {} => GoodRun(edits, hist, r)
  <2>1. run[t].todo \subseteq Docs
    BY <1>1, AtWork
  <2> QED
    BY <2>1, <1>2, <1>5, <1>6, <1>7 DEF GoodRun
<1> QED
  BY <1>3, <1>4, <1>8, OnlyRunShapes

(* What is live is fetched.                                                *)
LEMMA TheirsShapes ==
  ASSUME Shapes, NEW t \in Terminals, Theirs(t) PROVE Shapes'
<1> DEFINE p == First(run[t].todo)
           x == hist[p][Live(p)].text
           r == [run[t] EXCEPT !.theirs = x, !.pc = "write"]
<1>1. run[t] # NoRun /\ run[t].kind = "merge" /\ run[t].pc = "theirs"
  BY DEF Theirs, Now
<1>2. GoodRun(edits, hist, run[t]) /\ run[t] \in Run /\ p \in Docs
  BY <1>1, AtWork
<1>3. run' = [run EXCEPT ![t] = r]
  BY DEF Theirs, Shapes, Runs
<1>4. Steady /\ Counters'
  BY DEF Theirs, server, history, Steady, Shapes, Counters
<1>5. x \in Old(edits)
  BY <1>2, AsLong DEF Shapes, Live
<1>6. Old(edits) \subseteq Text
  BY OldGrows, SessionAssumption DEF Shapes
<1> HIDE DEF x
<1>7. /\ r \in Run
      /\ r.kind = "merge" /\ r.pc = "write" /\ r.list = run[t].list /\ r.todo = run[t].todo
      /\ r.live = run[t].live /\ r.theirs = x
  BY <1>1, <1>2, <1>5, <1>6 DEF Run
<1> HIDE DEF r
<1>8. GoodRun(edits, hist, r)
  BY <1>1, <1>2, <1>5, <1>7 DEF GoodRun
<1> QED
  BY <1>3, <1>4, <1>8, OnlyRunShapes

(* A command goes on to the next draft, or ends.                           *)
LEMMA OnFromGood ==
  ASSUME Shapes, NEW t \in Terminals, run[t] # NoRun, NEW p, NEW pc,
         \/ run[t].kind = "merge" /\ run[t].pc = "write" /\ pc = "theirs"
         \/ run[t].kind \in {"abort", "revert"} /\ pc = "write",
         OnFrom(t, p, pc)
  PROVE  \E x : /\ x = NoRun \/ GoodRun(edits, hist, x)
                /\ run' = [run EXCEPT ![t] = x]
                /\ x # NoRun => /\ x.kind = run[t].kind /\ x.pc = pc
                                /\ x.list = run[t].list /\ x.want = run[t].want
                                /\ x.live = run[t].live /\ x.todo \subseteq run[t].todo
<1> DEFINE left == run[t].todo \ {p}
           r == [run[t] EXCEPT !.todo = left, !.pc = pc, !.theirs = NoText]
<1>1. GoodRun(edits, hist, run[t]) /\ run[t] \in Run
  BY AtWork
<1>2. CASE left = {}
  BY <1>2 DEF OnFrom, Ended
<1>3. CASE left # {}
  <2>1. run' = [run EXCEPT ![t] = r]
    BY <1>3 DEF OnFrom, Shapes, Runs
  <2>2. left \subseteq run[t].todo
    OBVIOUS
  <2> HIDE DEF left
  <2>3. /\ r \in Run
        /\ r.kind = run[t].kind /\ r.pc = pc /\ r.list = run[t].list /\ r.todo = left
        /\ r.live = run[t].live /\ r.want = run[t].want
    BY <1>1, <2>2 DEF Run
  <2> HIDE DEF r
  <2>4. GoodRun(edits, hist, r)
    BY <1>1, <1>3, <2>2, <2>3 DEF GoodRun
  <2> QED
    BY <2>1, <2>2, <2>3, <2>4
<1> QED
  BY <1>2, <1>3

(* The draft is not there any more.                                        *)
LEMMA GoneShapes ==
  ASSUME Shapes, NEW t \in Terminals, NEW p, Gone(t, p) PROVE Shapes'
<1>1. run' = [run EXCEPT ![t] = NoRun]
  BY DEF Gone, Ended
<1>2. Steady /\ Counters'
  BY DEF Gone, server, history, Steady, Shapes, Counters
<1> QED
  BY <1>1, <1>2, OnlyRunShapes

(* A command writes one draft, and goes on or ends.                        *)
LEMMA WroteShapes ==
  ASSUME Shapes, NEW t \in Terminals, NEW p \in Docs, NEW d,
         d = NoDraft \/ GoodDraft(edits, Len(hist[p]), d), Wrote(t, p, d),
         NEW x, x = NoRun \/ GoodRun(edits, hist, x), run' = [run EXCEPT ![t] = x],
         discarded' \in SUBSET (0..edits),
         UNCHANGED <<hist, buffer, edits, commands, faults, menu, over, own, outdated, marked>>
  PROVE  Shapes'
<1>1. Runs(edits, hist, run')
  BY RunMoves DEF Shapes
<1>2. GoodDrafts(edits, hist, row')
  BY RowMoves DEF Shapes, Wrote
<1>3. raced' \subseteq Docs
  BY DEF Wrote, RacedOn, Shapes, Ledger
<1> QED
  BY <1>1, <1>2, <1>3 DEF Shapes, Counters, Ledger

(* What is seen in a text there is, is an edit there was.                  *)
LEMMA SeenOld ==
  ASSUME Shapes, NEW x \in Old(edits) PROVE SeenIn(x) \subseteq 0..edits
<1>1. ASSUME NEW s \in Sections PROVE Seen(x[s]) \subseteq 0..edits
  <2>1. x[s] \subseteq 0..edits
    BY DEF Old
  <2>2. edits \in Nat /\ edits <= MaxEdits
    BY SessionAssumption DEF Shapes
  <2>3. \A e \in x[s] \ {0} : e \in 1..MaxEdits
    BY <2>1, <2>2, SessionAssumption
  <2>4. over \in [1..MaxEdits -> SUBSET (0..edits)]
    BY DEF Shapes, Ledger
  <2>5. \A e \in x[s] \ {0} : over[e] \subseteq 0..edits
    BY <2>3, <2>4
  <2> QED
    BY <2>1, <2>5 DEF Seen
<1> QED
  BY <1>1 DEF SeenIn

(* What a merge makes of a draft.                                          *)
LEMMA RewrittenGood ==
  ASSUME Shapes, NEW t \in Terminals, Now(t, "merge", "write"),
         NEW p \in Docs, p = First(run[t].todo), row[p] # NoDraft
  PROVE  LET d == run[t].list[p]
             n == Rewritten(t, p) IN
         /\ GoodDraft(edits, Len(hist[p]), n)
         /\ d.base \in 1..Len(hist[p])
         /\ n.text = Merge(hist[p][d.base].text, d.text, run[t].theirs)
         /\ n.pre = Kept(row[p]) /\ n.pre \in Old(edits)
         /\ n.base = row[p].base /\ n.from = run[t].live[p]
<1>1. run[t] # NoRun /\ run[t].kind = "merge" /\ run[t].pc = "write"
  BY DEF Now
<1>2. /\ GoodRun(edits, hist, run[t]) /\ p \in run[t].todo
      /\ run[t].list[p] # NoDraft /\ GoodDraft(edits, Len(hist[p]), run[t].list[p])
  BY <1>1, AtWork
<1>3. run[t].live[p] \in 1..Len(hist[p]) /\ run[t].theirs \in Old(edits)
  BY <1>1, <1>2 DEF GoodRun
<1>4. GoodDraft(edits, Len(hist[p]), row[p])
  BY DEF Shapes, GoodDrafts
<1> DEFINE d == run[t].list[p]
           base == hist[p][d.base].text
           m == Merge(base, d.text, run[t].theirs)
           c == IF Conflicts(base, d.text, run[t].theirs) THEN "conflicted" ELSE row[p].state
           n == [row[p] EXCEPT !.pre = Kept(row[p]), !.text = m,
                               !.from = run[t].live[p], !.state = c]
<1>5. Rewritten(t, p) = n
  BY DEF Rewritten
<1>6. d.base \in 1..Len(hist[p]) /\ d.text \in Old(edits)
  BY <1>2 DEF GoodDraft
<1>7. base \in Old(edits)
  BY <1>6, AsLong DEF Shapes
<1>8. edits \in Nat /\ Old(edits) \subseteq Text /\ NoText \notin Old(edits)
  BY OldGrows, SessionAssumption DEF Shapes
<1>9. m \in Old(edits)
  BY <1>3, <1>6, <1>7, <1>8, MergeOld
<1>10. Kept(row[p]) \in Old(edits)
  BY <1>4 DEF Kept, GoodDraft
<1>11. c \in {"clean", "conflicted"}
  BY <1>4 DEF GoodDraft, Draft
<1>12. Len(hist[p]) \in Nat
  BY AsLong DEF Shapes
<1> HIDE DEF m, c
<1>13. run[t].live[p] \in Nat /\ run[t].live[p] # 0
  BY <1>3
<1>14. /\ n \in Draft /\ n.text = m /\ n.base = row[p].base /\ n.state = c
       /\ n.pre = Kept(row[p]) /\ n.from = run[t].live[p]
  BY <1>4, <1>8, <1>9, <1>10, <1>11, <1>13 DEF GoodDraft, Draft
<1> HIDE DEF n
<1>15. GoodDraft(edits, Len(hist[p]), n)
  BY <1>3, <1>4, <1>8, <1>9, <1>10, <1>12, <1>13, <1>14 DEF GoodDraft
<1> QED
  BY <1>5, <1>6, <1>10, <1>14, <1>15 DEF m

(* begin_merge                                                             *)
LEMMA RewriteShapes ==
  ASSUME Shapes, NEW t \in Terminals, Rewrite(t) PROVE Shapes'
<1> DEFINE p == First(run[t].todo)
<1>1. Now(t, "merge", "write") /\ run[t] # NoRun /\ run[t].kind = "merge" /\ run[t].pc = "write"
  BY DEF Rewrite, Now
<1>2. p \in Docs
  BY <1>1, AtWork
<1>3. CASE Gone(t, p)
  BY <1>3, GoneShapes
<1>4. CASE /\ row[p] # NoDraft /\ Wrote(t, p, Rewritten(t, p)) /\ OnFrom(t, p, "theirs")
           /\ UNCHANGED <<hist, buffer, edits, commands, faults, menu, over, own,
                          discarded, outdated, marked>>
  <2>1. PICK x : (x = NoRun \/ GoodRun(edits, hist, x)) /\ run' = [run EXCEPT ![t] = x]
    BY <1>1, <1>4, OnFromGood
  <2>2. GoodDraft(edits, Len(hist[p]), Rewritten(t, p))
    BY <1>1, <1>2, <1>4, RewrittenGood
  <2>3. discarded' \in SUBSET (0..edits)
    BY <1>4 DEF Shapes, Ledger
  <2> QED
    BY <1>2, <1>4, <2>1, <2>2, <2>3, WroteShapes
<1> QED
  BY <1>3, <1>4 DEF Rewrite

(* What resolving makes of a draft.                                        *)
LEMMA ResolvedGood ==
  ASSUME Shapes, NEW p \in Docs, row[p] # NoDraft
  PROVE  /\ GoodDraft(edits, Len(hist[p]), Resolved(p))
         /\ Resolved(p).text = row[p].text /\ Resolved(p).pre = NoText
         /\ Resolved(p).from = 0
         /\ Resolved(p).base = IF row[p].from # 0 THEN row[p].from ELSE row[p].base
<1> DEFINE b == IF row[p].from # 0 THEN row[p].from ELSE row[p].base
           d == [row[p] EXCEPT !.base = b, !.state = "clean", !.pre = NoText, !.from = 0]
<1>1. Resolved(p) = d
  BY DEF Resolved
<1>2. GoodDraft(edits, Len(hist[p]), row[p])
  BY DEF Shapes, GoodDrafts
<1>3. Len(hist[p]) \in Nat
  BY AsLong DEF Shapes
<1>4. b \in 1..Len(hist[p])
  BY <1>2, <1>3 DEF GoodDraft
<1>5. b \in Nat
  BY <1>3, <1>4
<1> HIDE DEF b
<1>6. /\ d \in Draft /\ d.text = row[p].text /\ d.base = b /\ d.state = "clean"
      /\ d.pre = NoText /\ d.from = 0
  BY <1>2, <1>5 DEF GoodDraft, Draft
<1> HIDE DEF d
<1>7. GoodDraft(edits, Len(hist[p]), d)
  BY <1>2, <1>3, <1>4, <1>6 DEF GoodDraft
<1> QED
  BY <1>1, <1>6, <1>7 DEF b

(* resolve_merge                                                           *)
LEMMA ResolveShapes ==
  ASSUME Shapes, NEW t \in Terminals, Resolve(t) PROVE Shapes'
<1> DEFINE p == First(run[t].todo)
           left == run[t].todo \ {p}
           list == [run[t].list EXCEPT ![p] = Resolved(p)]
           pc == IF left = {} THEN "push" ELSE "resolve"
           r == [run[t] EXCEPT !.todo = left, !.list = list, !.pc = pc]
<1>1. run[t] # NoRun /\ run[t].kind = "push" /\ run[t].pc = "resolve"
  BY DEF Resolve, Now
<1>2. p \in Docs /\ GoodRun(edits, hist, run[t]) /\ run[t] \in Run
  BY <1>1, AtWork
<1>3. CASE Gone(t, p)
  BY <1>3, GoneShapes
<1>4. CASE /\ row[p] # NoDraft /\ Wrote(t, p, Resolved(p))
           /\ run' = [run EXCEPT ![t] = r]
           /\ UNCHANGED <<hist, buffer, edits, commands, faults, menu, over, own,
                          discarded, outdated, marked>>
  <2>1. GoodDraft(edits, Len(hist[p]), Resolved(p)) /\ Resolved(p) \in Draft
    BY <1>2, <1>4, ResolvedGood DEF GoodDraft
  <2>2. GoodDrafts(edits, hist, run[t].list)
    BY <1>2 DEF GoodRun
  <2>3. /\ list \in [Docs -> Draft \cup {NoDraft}]
        /\ list[p] = Resolved(p) /\ \A q \in Docs : q # p => list[q] = run[t].list[q]
    BY <1>2, <2>1, <2>2 DEF GoodDrafts
  <2>4. left \subseteq run[t].todo /\ p \notin left /\ (pc # "push" => left # {})
        /\ pc \in {"push", "resolve"}
    OBVIOUS
  <2> HIDE DEF left, list, pc
  <2>5. GoodDrafts(edits, hist, list)
    BY <1>2, <2>1, <2>2, <2>3 DEF GoodDrafts
  <2>6. /\ r \in Run
        /\ r.kind = "push" /\ r.pc = pc /\ r.list = list /\ r.todo = left
        /\ r.want = run[t].want
    BY <1>1, <1>2, <2>3, <2>4 DEF Run
  <2> HIDE DEF r
  <2>7. \A q \in left : list[q] # NoDraft
    <3>1. run[t].todo \subseteq Docs
      BY <1>1, AtWork
    <3> QED
      BY <3>1, <1>2, <2>3, <2>4 DEF GoodRun
  <2>8. \A q \in left : run[t].want = {} \/ q \in run[t].want
    BY <1>1, <1>2, <2>4 DEF GoodRun
  <2>9. GoodRun(edits, hist, r)
    BY <2>4, <2>5, <2>6, <2>7, <2>8 DEF GoodRun
  <2>10. discarded' \in SUBSET (0..edits)
    BY <1>4 DEF Shapes, Ledger
  <2> QED
    BY <1>2, <1>4, <2>1, <2>9, <2>10, WroteShapes
<1> QED
  BY <1>1, <1>3, <1>4 DEF Resolve

(* What aborting makes of a draft.                                         *)
LEMMA RestoredGood ==
  ASSUME Shapes, NEW p \in Docs, row[p] # NoDraft
  PROVE  /\ GoodDraft(edits, Len(hist[p]), Restored(p))
         /\ Restored(p).text = IF row[p].pre # NoText THEN row[p].pre ELSE row[p].text
         /\ Restored(p).pre = NoText /\ Restored(p).from = 0
         /\ Restored(p).base = row[p].base
<1> DEFINE x == IF row[p].pre # NoText THEN row[p].pre ELSE row[p].text
           d == [row[p] EXCEPT !.text = x, !.state = "clean", !.pre = NoText, !.from = 0]
<1>1. Restored(p) = d
  BY DEF Restored
<1>2. GoodDraft(edits, Len(hist[p]), row[p])
  BY DEF Shapes, GoodDrafts
<1>3. Len(hist[p]) \in Nat
  BY AsLong DEF Shapes
<1>4. x \in Old(edits) /\ Old(edits) \subseteq Text
  BY <1>2, OldGrows, SessionAssumption DEF GoodDraft, Shapes
<1> HIDE DEF x
<1>5. /\ d \in Draft /\ d.text = x /\ d.base = row[p].base /\ d.state = "clean"
      /\ d.pre = NoText /\ d.from = 0
  BY <1>2, <1>4 DEF GoodDraft, Draft
<1> HIDE DEF d
<1>6. GoodDraft(edits, Len(hist[p]), d)
  BY <1>2, <1>3, <1>4, <1>5 DEF GoodDraft
<1> QED
  BY <1>1, <1>5, <1>6 DEF x

(* abort_merge                                                             *)
LEMMA RestoreShapes ==
  ASSUME Shapes, NEW t \in Terminals, Restore(t) PROVE Shapes'
<1> DEFINE p == First(run[t].todo)
<1>1. run[t] # NoRun /\ run[t].kind = "abort" /\ run[t].pc = "write"
  BY DEF Restore, Now
<1>2. p \in Docs
  BY <1>1, AtWork
<1>3. CASE Gone(t, p)
  BY <1>3, GoneShapes
<1>4. CASE /\ row[p] # NoDraft /\ Wrote(t, p, Restored(p))
           /\ discarded' = discarded \cup (SeenIn(row[p].text) \ SeenIn(Restored(p).text))
           /\ OnFrom(t, p, "write")
           /\ UNCHANGED <<hist, buffer, edits, commands, faults, menu, over, own,
                          outdated, marked>>
  <2>1. PICK x : (x = NoRun \/ GoodRun(edits, hist, x)) /\ run' = [run EXCEPT ![t] = x]
    BY <1>1, <1>4, OnFromGood
  <2>2. GoodDraft(edits, Len(hist[p]), Restored(p))
    BY <1>2, <1>4, RestoredGood
  <2>3. row[p].text \in Old(edits)
    BY <1>2, <1>4 DEF Shapes, GoodDrafts, GoodDraft
  <2>4. SeenIn(row[p].text) \subseteq 0..edits
    BY <2>3, SeenOld
  <2>5. discarded' \in SUBSET (0..edits)
    BY <1>4, <2>4 DEF Shapes, Ledger
  <2> QED
    BY <1>2, <1>4, <2>1, <2>2, <2>5, WroteShapes
<1> QED
  BY <1>3, <1>4 DEF Restore

(* delete_draft                                                            *)
LEMMA WithdrawShapes ==
  ASSUME Shapes, NEW t \in Terminals, Withdraw(t) PROVE Shapes'
<1> DEFINE p == First(run[t].todo)
           behind == IF row[p].pre = NoText THEN {} ELSE SeenIn(row[p].pre)
<1>1. run[t] # NoRun /\ run[t].kind = "revert" /\ run[t].pc = "write"
  BY DEF Withdraw, Now
<1>2. p \in Docs
  BY <1>1, AtWork
<1>3. CASE Gone(t, p)
  BY <1>3, GoneShapes
<1>4. CASE /\ row[p] # NoDraft /\ Wrote(t, p, NoDraft)
           /\ discarded' = discarded \cup SeenIn(row[p].text) \cup behind
           /\ OnFrom(t, p, "write")
           /\ UNCHANGED <<hist, buffer, edits, commands, faults, menu, over, own,
                          outdated, marked>>
  <2>1. PICK x : (x = NoRun \/ GoodRun(edits, hist, x)) /\ run' = [run EXCEPT ![t] = x]
    BY <1>1, <1>4, OnFromGood
  <2>2. row[p].text \in Old(edits) /\ row[p].pre \in Old(edits) \cup {NoText}
    BY <1>2, <1>4 DEF Shapes, GoodDrafts, GoodDraft
  <2>3. SeenIn(row[p].text) \subseteq 0..edits /\ behind \subseteq 0..edits
    BY <2>2, SeenOld
  <2>4. discarded' \in SUBSET (0..edits)
    BY <1>4, <2>3 DEF Shapes, Ledger
  <2> QED
    BY <1>2, <1>4, <2>1, <2>4, WroteShapes
<1> QED
  BY <1>3, <1>4 DEF Withdraw

(* A push publishes the drafts it is for, each on top of what is live, or  *)
(* nothing.                                                                *)
LEMMA SubmitDoes ==
  ASSUME Shapes, NEW t \in Terminals, Submit(t)
  PROVE  /\ run[t] # NoRun /\ run[t].kind = "push" /\ run[t].pc = "push"
         /\ Pushed(t) \subseteq Docs /\ \A p \in Pushed(t) : row[p] # NoDraft
         /\ run' = [run EXCEPT ![t] = NoRun]
         /\ UNCHANGED <<edits, commands, faults, menu, over, own, discarded, outdated, marked>>
         /\ \/ UNCHANGED <<hist, row, buffer, raced>>
            \/ /\ DOMAIN hist' = Docs /\ DOMAIN row' = Docs /\ DOMAIN buffer' = Docs
               /\ raced' = raced \cup RacedOn(t, Pushed(t))
               /\ \A p \in Docs \ Pushed(t) : /\ hist'[p] = hist[p] /\ row'[p] = row[p]
                                              /\ buffer'[p] = buffer[p]
               /\ \A p \in Pushed(t) :
                    /\ Publishable(p)
                    /\ hist'[p] = Append(hist[p], [text |-> row[p].text, own |-> TRUE])
                    /\ row'[p] = NoDraft
                    /\ \/ buffer'[p] = buffer[p]
                       \/ /\ buffer[p].text = row[p].text
                          /\ buffer'[p] = [buffer[p] EXCEPT !.shows = Live(p) + 1]
<1>1. Pushed(t) \subseteq Docs /\ \A p \in Pushed(t) : row[p] # NoDraft
  BY DEF Pushed, Rows
<1>2. CASE \A p \in Pushed(t) : Publishable(p)
  <2>1. /\ hist' = [p \in Docs |->
                      IF p \in Pushed(t) THEN Append(hist[p], [text |-> row[p].text, own |-> TRUE])
                      ELSE hist[p]]
        /\ row' = [p \in Docs |-> IF p \in Pushed(t) THEN NoDraft ELSE row[p]]
        /\ buffer' = [p \in Docs |->
                        IF p \in Pushed(t) /\ buffer[p].text = row[p].text
                        THEN [buffer[p] EXCEPT !.shows = Live(p) + 1] ELSE buffer[p]]
        /\ raced' = raced \cup RacedOn(t, Pushed(t))
    BY <1>2 DEF Submit
  <2>2. DOMAIN hist' = Docs /\ DOMAIN row' = Docs /\ DOMAIN buffer' = Docs
    BY <2>1
  <2>3. \A p \in Docs \ Pushed(t) : /\ hist'[p] = hist[p] /\ row'[p] = row[p]
                                    /\ buffer'[p] = buffer[p]
    BY <2>1
  <2>4. ASSUME NEW p \in Pushed(t)
        PROVE  /\ hist'[p] = Append(hist[p], [text |-> row[p].text, own |-> TRUE])
               /\ row'[p] = NoDraft
               /\ \/ buffer'[p] = buffer[p]
                  \/ /\ buffer[p].text = row[p].text
                     /\ buffer'[p] = [buffer[p] EXCEPT !.shows = Live(p) + 1]
    BY <1>1, <2>1, <2>4
  <2>5. /\ run[t] # NoRun /\ run[t].kind = "push" /\ run[t].pc = "push"
        /\ run' = [run EXCEPT ![t] = NoRun]
        /\ UNCHANGED <<edits, commands, faults, menu, over, own, discarded, outdated, marked>>
    BY DEF Submit, Now, Ended
  <2> QED
    BY <1>1, <1>2, <2>1, <2>2, <2>3, <2>4, <2>5
<1>3. CASE ~ \A p \in Pushed(t) : Publishable(p)
  BY <1>1, <1>3 DEF Submit, Now, Ended, server
<1> QED
  BY <1>2, <1>3

(* What a push publishes is a revision, and the last.                      *)
LEMMA SubmitShapes ==
  ASSUME Shapes, NEW t \in Terminals, Submit(t) PROVE Shapes'
<1> DEFINE ps == Pushed(t)
<1>1. run' = [run EXCEPT ![t] = NoRun] /\ Pushed(t) \subseteq Docs
      /\ \A p \in Pushed(t) : row[p] # NoDraft
  BY SubmitDoes
<1>2. UNCHANGED <<edits, commands, faults, menu, over, own, discarded, outdated, marked>>
  BY SubmitDoes
<1>3. edits \in Nat /\ edits <= MaxEdits /\ edits <= edits
  BY SessionAssumption DEF Shapes
<1>4. CASE UNCHANGED <<hist, row, buffer, raced>>
  BY <1>1, <1>2, <1>4, OnlyRunShapes DEF Steady, Shapes, Counters
<1>5. CASE /\ DOMAIN hist' = Docs /\ DOMAIN row' = Docs /\ DOMAIN buffer' = Docs
           /\ raced' = raced \cup RacedOn(t, Pushed(t))
           /\ \A p \in Docs \ Pushed(t) : /\ hist'[p] = hist[p] /\ row'[p] = row[p]
                                          /\ buffer'[p] = buffer[p]
           /\ \A p \in Pushed(t) :
                /\ Publishable(p)
                /\ hist'[p] = Append(hist[p], [text |-> row[p].text, own |-> TRUE])
                /\ row'[p] = NoDraft
                /\ \/ buffer'[p] = buffer[p]
                   \/ /\ buffer[p].text = row[p].text
                      /\ buffer'[p] = [buffer[p] EXCEPT !.shows = Live(p) + 1]
  <2>1. ASSUME NEW p \in Docs
        PROVE  /\ hist'[p] \in Seq(Revision(edits)) /\ Len(hist'[p]) \in Nat
               /\ Len(hist'[p]) >= Len(hist[p]) /\ Len(hist[p]) \in Nat /\ Len(hist[p]) >= 1
               /\ p \in Pushed(t) => Len(hist'[p]) = Len(hist[p]) + 1
    <3>1. hist[p] \in Seq(Revision(edits)) /\ Len(hist[p]) \in Nat /\ Len(hist[p]) >= 1
      BY AsLong DEF Shapes, Histories
    <3>2. CASE p \in Pushed(t)
      <4>1. row[p].text \in Old(edits)
        BY <1>1, <3>2 DEF Shapes, GoodDrafts, GoodDraft
      <4> DEFINE v == [text |-> row[p].text, own |-> TRUE]
      <4>2. v \in Revision(edits) /\ hist'[p] = Append(hist[p], v)
        BY <1>5, <3>2, <4>1 DEF Revision
      <4> HIDE DEF v
      <4> QED
        BY <3>1, <4>2
    <3>3. CASE p \notin Pushed(t)
      BY <1>5, <3>1, <3>3
    <3> QED
      BY <3>2, <3>3
  <2>2. hist' \in [Docs -> Seq(Revision(edits))] <=> \A p \in Docs : hist'[p] \in Seq(Revision(edits))
    <3>1. hist' = [p \in Docs |-> hist'[p]]
      BY <1>2, SubmitDoes DEF Submit, server, Shapes, Histories
    <3> QED
      BY <3>1
  <2>3. Histories(edits, hist') /\ Longer(hist, hist')
    BY <2>1, <2>2 DEF Histories, Longer
  <2>4. GoodDrafts(edits, hist', row')
    <3>1. GoodDrafts(edits, hist', row)
      BY <1>3, <2>3, DraftsGrow DEF Shapes
    <3>2. row' = [p \in Docs |-> row'[p]]
      BY DEF Submit, server, Shapes, GoodDrafts
    <3>3. \A p \in Docs : row'[p] \in {row[p], NoDraft}
      BY <1>5
    <3> QED
      BY <3>1, <3>2, <3>3 DEF GoodDrafts
  <2>5. GoodBuffers(edits, hist', buffer')
    <3>1. GoodBuffers(edits, hist', buffer)
      BY <1>3, <2>3, BuffersGrow DEF Shapes
    <3>2. buffer' = [p \in Docs |-> buffer'[p]]
      BY DEF Submit, server, Shapes, GoodBuffers
    <3>3. ASSUME NEW p \in Docs
          PROVE  /\ buffer'[p] \in [text : Text, shows : Nat \ {0}]
                 /\ buffer'[p].text \in Old(edits) /\ buffer'[p].shows \in 1..Len(hist'[p])
      <4>1. CASE buffer'[p] = buffer[p]
        BY <3>1, <4>1 DEF GoodBuffers
      <4>2. CASE buffer'[p] # buffer[p]
        <5>1. p \in Pushed(t) /\ buffer'[p] = [buffer[p] EXCEPT !.shows = Live(p) + 1]
          BY <1>5, <4>2
        <5>2. Live(p) + 1 = Len(hist'[p]) /\ Live(p) + 1 \in Nat \ {0}
          BY <2>1, <5>1 DEF Live
        <5>3. buffer[p] \in [text : Text, shows : Nat \ {0}] /\ buffer[p].text \in Old(edits)
          BY <3>1 DEF GoodBuffers
        <5> QED
          BY <5>1, <5>2, <5>3
      <4> QED
        BY <4>1, <4>2
    <3> QED
      BY <3>2, <3>3 DEF GoodBuffers
  <2>6. Runs(edits, hist', run')
    <3>1. Runs(edits, hist', run)
      BY <1>3, <2>3, RunsGrow DEF Shapes
    <3> QED
      BY <1>1, <3>1, RunMoves
  <2>7. Counters' /\ Ledger'
    BY <1>1, <1>2, <1>5 DEF Shapes, Counters, Ledger, RacedOn
  <2> QED
    BY <1>2, <2>3, <2>4, <2>5, <2>6, <2>7 DEF Shapes
<1> QED
  BY <1>4, <1>5, SubmitDoes

(* A request that does not arrive.                                         *)
LEMMA FailsShapes ==
  ASSUME Shapes, NEW t \in Terminals, Fails(t) PROVE Shapes'
<1>1. run' = [run EXCEPT ![t] = NoRun]
  BY DEF Fails, Ended
<1>2. Steady
  BY DEF Fails, server, history, Steady
<1>3. Counters'
  BY MenuPages DEF Fails, server, history, Shapes, Counters
<1> QED
  BY <1>1, <1>2, <1>3, OnlyRunShapes

(* Every step keeps everything in order.                                   *)
LEMMA ShapesNext ==
  ASSUME Shapes, [Next]_vars PROVE Shapes'
<1>1. CASE \E p \in menu.pages : Open(p)
  BY <1>1, MenuPages, OpenShapes DEF Shapes
<1>2. CASE \E p \in menu.pages, s \in Sections : Save(p, s) \/ Publish(p, s)
  BY <1>2, MenuPages, SaveShapes, PublishShapes DEF Shapes
<1>3. CASE \E t \in Terminals : Begin(t) \/ Fails(t)
  BY <1>3, BeginShapes, FailsShapes
<1>4. CASE \E t \in Terminals : Step(t)
  BY <1>4, ManifestShapes, TheirsShapes, RewriteShapes, ResolveShapes, RestoreShapes,
     WithdrawShapes, SubmitShapes DEF Step
<1>5. CASE UNCHANGED vars
  BY <1>5 DEF vars, Shapes, Counters, Ledger
<1> QED
  BY <1>1, <1>2, <1>3, <1>4, <1>5 DEF Next

(* Drafts, editor and commands stay in order: every draft and every list   *)
(* names revisions there are, a command has drafts left to work on, and a  *)
(* merge writes on the strength of revisions it read.                      *)
THEOREM SessionInShape == Spec => []Shapes
<1>1. Init => Shapes
  BY InitShapes
<1>2. Shapes /\ [Next]_vars => Shapes'
  BY ShapesNext
<1> QED
  BY <1>1, <1>2, PTL DEF Spec

(* What every variable holds, and that the merge columns of a draft go     *)
(* together whatever merge, abort, push and the mount's upsert do to it.   *)
THEOREM SessionTypeCorrect == Spec => []TypeOK
<1>1. Shapes => TypeOK
  <2> SUFFICES ASSUME Shapes PROVE TypeOK
    OBVIOUS
  <2>1. edits \in Nat /\ edits <= MaxEdits /\ 0..edits \subseteq Edits /\ 1..edits \subseteq Edits
    BY SessionAssumption DEF Shapes, Edits
  <2>2. Old(edits) \subseteq Text
    BY <2>1, OldGrows, SessionAssumption
  <2>3. \A p \in Docs : \A n \in 1..Live(p) : hist[p][n] \in [text : Text, own : BOOLEAN]
    BY <2>2, AsLong DEF Shapes, Live, Revision
  <2>4. \A p \in Rows : /\ (row[p].pre = NoText) = (row[p].from = 0)
                        /\ row[p].state = "conflicted" => row[p].pre # NoText
    BY DEF Rows, Shapes, GoodDrafts, GoodDraft
  <2>5. over \in [1..MaxEdits -> SUBSET Edits]
    <3>1. SUBSET (0..edits) \subseteq SUBSET Edits
      BY <2>1
    <3> QED
      BY <3>1 DEF Shapes, Ledger
  <2>6. own \subseteq Docs \X Edits /\ discarded \subseteq Edits
    BY <2>1 DEF Shapes, Ledger
  <2> QED
    BY <2>3, <2>4, <2>5, <2>6
    DEF TypeOK, Shapes, GoodDrafts, GoodBuffers, Runs, Counters, Ledger
<1> QED
  BY <1>1, SessionInShape, PTL

-----------------------------------------------------------------------------
(* What a step means for one page                                          *)

Still(p) == hist'[p] = hist[p] /\ row'[p] = row[p] /\ buffer'[p] = buffer[p]

(* A command changes the draft it is at.                                   *)
Writes(t, p, d) ==
  /\ run[t] # NoRun /\ run[t].pc # "push"
  /\ p = First(run[t].todo) /\ p \in run[t].todo /\ row[p] # NoDraft
  /\ hist'[p] = hist[p] /\ row'[p] = d /\ buffer'[p] = buffer[p]
  /\ p \notin raced' => run[t].list[p] = row[p]

Submits(t, p) ==
  /\ run[t] # NoRun /\ run[t].kind = "push"
  /\ run[t].want = {} \/ p \in run[t].want
  /\ row[p] # NoDraft /\ row[p].base = Live(p)
  /\ hist'[p] = Append(hist[p], [text |-> row[p].text, own |-> TRUE])
  /\ row'[p] = NoDraft
  /\ \/ buffer'[p] = buffer[p]
     \/ /\ buffer[p].text = row[p].text
        /\ buffer'[p] = [buffer[p] EXCEPT !.shows = Live(p) + 1]
  /\ p \notin raced' => run[t].list[p] = row[p]

Aborts(t, p) ==
  /\ Writes(t, p, Restored(p))
  /\ discarded' = discarded \cup (SeenIn(row[p].text) \ SeenIn(Restored(p).text))

Reverts(t, p) ==
  /\ Writes(t, p, NoDraft)
  /\ discarded' = discarded \cup SeenIn(row[p].text)
                  \cup (IF row[p].pre = NoText THEN {} ELSE SeenIn(row[p].pre))

(* Everything that may happen to a page.                                   *)
Happens(p) ==
  \/ Still(p)
  \/ Open(p)
  \/ \E s \in Sections : Save(p, s)
  \/ \E s \in Sections : Publish(p, s)
  \/ \E t \in Terminals : Now(t, "merge", "write") /\ Writes(t, p, Rewritten(t, p))
  \/ \E t \in Terminals : Now(t, "push", "resolve") /\ Writes(t, p, Resolved(p))
  \/ \E t \in Terminals : Aborts(t, p)
  \/ \E t \in Terminals : Reverts(t, p)
  \/ \E t \in Terminals : Submits(t, p)

(* A command that writes leaves the other pages alone.                     *)
LEMMA WroteDoes ==
  ASSUME Shapes, NEW t \in Terminals, NEW p, p = First(run[t].todo), run[t] # NoRun,
         run[t].pc # "push", NEW d, row[p] # NoDraft, Wrote(t, p, d),
         hist' = hist, buffer' = buffer
  PROVE  Writes(t, p, d) /\ \A q \in Docs : q # p => Still(q)
<1>1. p \in Docs /\ p \in run[t].todo
  BY AtWork
<1>2. row' = [row EXCEPT ![p] = d] /\ raced' = raced \cup RacedOn(t, {p})
  BY DEF Wrote
<1>3. row'[p] = d /\ \A q \in Docs : q # p => row'[q] = row[q]
  BY <1>1, <1>2 DEF Shapes, GoodDrafts
<1>4. p \notin raced' => run[t].list[p] = row[p]
  BY <1>2 DEF RacedOn
<1> QED
  BY <1>1, <1>3, <1>4 DEF Writes, Still

(* A step of a command, for one page.                                      *)
LEMMA CommandHappens ==
  ASSUME Shapes, NEW t \in Terminals, Step(t), NEW p \in Docs PROVE Happens(p)
<1> DEFINE f == First(run[t].todo)
<1>1. CASE Manifest(t) \/ Theirs(t) \/ Gone(t, f)
  BY <1>1 DEF Manifest, Theirs, Gone, server, Happens, Still
<1>2. CASE /\ Rewrite(t) /\ ~Gone(t, f)
  <2>1. /\ Now(t, "merge", "write") /\ run[t] # NoRun /\ run[t].pc = "write"
        /\ row[f] # NoDraft /\ Wrote(t, f, Rewritten(t, f)) /\ hist' = hist /\ buffer' = buffer
    BY <1>2 DEF Rewrite, Now
  <2>2. Writes(t, f, Rewritten(t, f)) /\ \A q \in Docs : q # f => Still(q)
    BY <2>1, WroteDoes
  <2>3. CASE p = f
    BY <2>1, <2>2, <2>3 DEF Happens
  <2>4. CASE p # f
    BY <2>2, <2>4 DEF Happens
  <2> QED
    BY <2>3, <2>4
<1>3. CASE /\ Resolve(t) /\ ~Gone(t, f)
  <2>1. /\ Now(t, "push", "resolve") /\ run[t] # NoRun /\ run[t].pc = "resolve"
        /\ row[f] # NoDraft /\ Wrote(t, f, Resolved(f)) /\ hist' = hist /\ buffer' = buffer
    BY <1>3 DEF Resolve, Now
  <2>2. Writes(t, f, Resolved(f)) /\ \A q \in Docs : q # f => Still(q)
    BY <2>1, WroteDoes
  <2>3. CASE p = f
    BY <2>1, <2>2, <2>3 DEF Happens
  <2>4. CASE p # f
    BY <2>2, <2>4 DEF Happens
  <2> QED
    BY <2>3, <2>4
<1>4. CASE /\ Restore(t) /\ ~Gone(t, f)
  <2>1. /\ run[t] # NoRun /\ run[t].pc = "write"
        /\ row[f] # NoDraft /\ Wrote(t, f, Restored(f)) /\ hist' = hist /\ buffer' = buffer
        /\ discarded' = discarded \cup (SeenIn(row[f].text) \ SeenIn(Restored(f).text))
    BY <1>4 DEF Restore, Now
  <2>2. Aborts(t, f) /\ \A q \in Docs : q # f => Still(q)
    BY <2>1, WroteDoes DEF Aborts
  <2>3. CASE p = f
    BY <2>2, <2>3 DEF Happens
  <2>4. CASE p # f
    BY <2>2, <2>4 DEF Happens
  <2> QED
    BY <2>3, <2>4
<1>5. CASE /\ Withdraw(t) /\ ~Gone(t, f)
  <2>1. /\ run[t] # NoRun /\ run[t].pc = "write"
        /\ row[f] # NoDraft /\ Wrote(t, f, NoDraft) /\ hist' = hist /\ buffer' = buffer
        /\ discarded' = discarded \cup SeenIn(row[f].text)
                        \cup (IF row[f].pre = NoText THEN {} ELSE SeenIn(row[f].pre))
    BY <1>5 DEF Withdraw, Now
  <2>2. Reverts(t, f) /\ \A q \in Docs : q # f => Still(q)
    BY <2>1, WroteDoes DEF Reverts
  <2>3. CASE p = f
    BY <2>2, <2>3 DEF Happens
  <2>4. CASE p # f
    BY <2>2, <2>4 DEF Happens
  <2> QED
    BY <2>3, <2>4
<1>6. CASE Submit(t)
  <2>1. CASE UNCHANGED <<hist, row, buffer, raced>>
    BY <2>1 DEF Happens, Still
  <2>2. CASE ~ UNCHANGED <<hist, row, buffer, raced>>
    <3>1. CASE p \notin Pushed(t)
      BY <1>6, <2>2, <3>1, SubmitDoes DEF Happens, Still
    <3>2. CASE p \in Pushed(t)
      <4>1. /\ run[t] # NoRun /\ run[t].kind = "push" /\ row[p] # NoDraft
            /\ raced' = raced \cup RacedOn(t, Pushed(t))
            /\ Publishable(p)
            /\ hist'[p] = Append(hist[p], [text |-> row[p].text, own |-> TRUE])
            /\ row'[p] = NoDraft
            /\ \/ buffer'[p] = buffer[p]
               \/ /\ buffer[p].text = row[p].text
                  /\ buffer'[p] = [buffer[p] EXCEPT !.shows = Live(p) + 1]
        BY <1>6, <2>2, <3>2, SubmitDoes
      <4>2. run[t].want = {} \/ p \in run[t].want
        BY <3>2 DEF Pushed
      <4>3. p \notin raced' => run[t].list[p] = row[p]
        BY <3>2, <4>1 DEF RacedOn
      <4>4. Submits(t, p)
        BY <4>1, <4>2, <4>3 DEF Submits, Publishable
      <4> QED
        BY <4>4 DEF Happens
    <3> QED
      BY <3>1, <3>2
  <2> QED
    BY <2>1, <2>2
<1> QED
  BY <1>1, <1>2, <1>3, <1>4, <1>5, <1>6 DEF Step

(* Any step, for one page.                                                 *)
LEMMA PageStep ==
  ASSUME Shapes, [Next]_vars, NEW p \in Docs PROVE Happens(p)
<1>1. CASE \E q \in menu.pages : Open(q)
  <2>1. PICK q \in Docs : Open(q)
    BY <1>1, MenuPages DEF Shapes
  <2>2. CASE q = p
    BY <2>1, <2>2 DEF Happens
  <2>3. CASE q # p
    BY <2>1, <2>3 DEF Open, server, Shapes, GoodBuffers, Happens, Still
  <2> QED
    BY <2>2, <2>3
<1>2. CASE \E q \in menu.pages, s \in Sections : Save(q, s) \/ Publish(q, s)
  <2>1. PICK q \in Docs, s \in Sections : Save(q, s) \/ Publish(q, s)
    BY <1>2, MenuPages DEF Shapes
  <2>2. CASE q = p
    BY <2>1, <2>2 DEF Happens
  <2>3. CASE q # p /\ Save(q, s)
    BY <2>3 DEF Save, Shapes, GoodBuffers, GoodDrafts, Happens, Still
  <2>4. CASE q # p /\ Publish(q, s)
    BY <2>4 DEF Publish, Shapes, Histories, Happens, Still
  <2> QED
    BY <2>1, <2>2, <2>3, <2>4
<1>3. CASE \E t \in Terminals : Begin(t)
  BY <1>3 DEF Begin, BeginPush, BeginMerge, BeginAbort, BeginRevert, Started, server,
              Happens, Still
<1>4. CASE \E t \in Terminals : Step(t)
  BY <1>4, CommandHappens
<1>5. CASE \E t \in Terminals : Fails(t)
  BY <1>5 DEF Fails, server, Happens, Still
<1>6. CASE UNCHANGED vars
  BY <1>6 DEF vars, Happens, Still
<1> QED
  BY <1>1, <1>2, <1>3, <1>4, <1>5, <1>6 DEF Next

(* A new edit, and what it was made over.                                  *)
Edited ==
  /\ edits < MaxEdits /\ edits' = edits + 1
  /\ DOMAIN over' = DOMAIN over /\ \A e \in 1..edits : over'[e] = over[e]

(* What any step means for the record: it is only added to.                *)
LEMMA RecordStep ==
  ASSUME Shapes, [Next]_vars
  PROVE  /\ raced \subseteq raced' /\ outdated \subseteq outdated'
         /\ marked \subseteq marked' /\ discarded \subseteq discarded'
         /\ own \subseteq own'
         /\ \A p \in Docs : \A e : <<p, e>> \in own' =>
              <<p, e>> \in own \/ (e = edits + 1 /\ \E s \in Sections : Save(p, s))
         /\ (edits' = edits /\ over' = over) \/ Edited
<1>1. CASE \E q \in menu.pages, s \in Sections : Save(q, s) \/ Publish(q, s)
  <2>1. PICK q \in Docs, s \in Sections : Save(q, s) \/ Publish(q, s)
    BY <1>1, MenuPages DEF Shapes
  <2>2. /\ raced \subseteq raced' /\ outdated \subseteq outdated'
        /\ marked \subseteq marked' /\ discarded \subseteq discarded'
    BY <2>1 DEF Save, Publish
  <2>3. own' = own \/ (Save(q, s) /\ own' = own \cup {<<q, edits + 1>>})
    BY <2>1 DEF Save, Publish
  <2>4. \E seen : NewEdit(q, s, seen)
    BY <2>1 DEF Save, Publish
  <2>5. edits \in Nat /\ DOMAIN over = 1..MaxEdits
    BY DEF Shapes, Ledger
  <2>6. Edited
    BY <2>4, <2>5 DEF NewEdit, Edited
  <2> QED
    BY <2>2, <2>3, <2>6
<1>2. CASE \E p \in menu.pages : Open(p)
  BY <1>2 DEF Open, history
<1>3. CASE \E t \in Terminals : Begin(t) \/ Fails(t)
  BY <1>3 DEF Begin, BeginPush, BeginMerge, BeginAbort, BeginRevert, Started, Fails, history
<1>4. CASE \E t \in Terminals : Step(t)
  <2>1. PICK t \in Terminals : Step(t)
    BY <1>4
  <2>2. edits' = edits /\ over' = over /\ own' = own /\ outdated' = outdated /\ marked' = marked
    BY <2>1 DEF Step, Manifest, Theirs, Rewrite, Resolve, Restore, Withdraw, Submit, Gone, history
  <2>3. raced \subseteq raced' /\ discarded \subseteq discarded'
    BY <2>1 DEF Step, Manifest, Theirs, Rewrite, Resolve, Restore, Withdraw, Submit, Gone, Wrote,
                history
  <2> QED
    BY <2>2, <2>3
<1>5. CASE UNCHANGED vars
  BY <1>5 DEF vars
<1> QED
  BY <1>1, <1>2, <1>3, <1>4, <1>5 DEF Next

(* What a step means for one terminal: a push starts from the list and the *)
(* look it took at it, a merge writes what it fetched, and no other step   *)
(* changes what a push or the writing of a merge goes by.                  *)
Goes(t) ==
  \/ run'[t] = NoRun \/ run'[t] = run[t]
  \/ \E want \in SUBSET Rows : /\ ~ Refuses(want) /\ run'[t].kind = "push"
                               /\ run'[t].want = want /\ run'[t].list = row
                               /\ row' = row
  \/ run'[t].kind # "push" /\ ~(run'[t].kind = "merge" /\ run'[t].pc = "write")
  \/ /\ run[t] # NoRun /\ run[t].kind = "merge" /\ run[t].pc = "theirs" /\ run'[t].kind = "merge"
     /\ run'[t].todo = run[t].todo /\ run'[t].list = run[t].list /\ run'[t].live = run[t].live
     /\ LET p == First(run[t].todo) IN run'[t].theirs = hist[p][Live(p)].text
     /\ hist' = hist
  \/ /\ run[t] # NoRun /\ run[t].kind = "push" /\ run'[t].kind = "push"
     /\ run'[t].want = run[t].want
     /\ LET p == First(run[t].todo) IN
        /\ p \in Docs /\ Writes(t, p, Resolved(p))
        /\ run'[t].list = [run[t].list EXCEPT ![p] = Resolved(p)]

(* A command that starts takes its list from the server.                   *)
LEMMA StartedGoes ==
  ASSUME Shapes, NEW t \in Terminals, NEW kind, NEW pc, NEW want, NEW todo,
         Started(t, kind, pc, want, todo)
  PROVE  /\ run'[t].kind = kind /\ run'[t].pc = pc /\ run'[t].want = want
         /\ run'[t].list = row /\ row' = row
         /\ \A u \in Terminals : u # t => run'[u] = run[u]
BY DEF Started, server, Shapes, Runs

(* Any step, for one terminal.                                             *)
LEMMA TerminalStep ==
  ASSUME Shapes, [Next]_vars, NEW t \in Terminals PROVE Goes(t)
<1>1. CASE run' = run
  BY <1>1 DEF Goes
<1>2. CASE \E p \in menu.pages, s \in Sections : Save(p, s) \/ Publish(p, s)
  BY <1>2, <1>1 DEF Save, Publish
<1>3. CASE \E p \in menu.pages : Open(p)
  BY <1>3, <1>1 DEF Open
<1>4. CASE \E u \in Terminals : Begin(u)
  <2>1. PICK u \in Terminals : Begin(u)
    BY <1>4
  <2>2. PICK want \in SUBSET Rows : BeginPush(u, want) \/ BeginMerge(u, want)
                                    \/ BeginAbort(u, want) \/ BeginRevert(u, want)
    BY <2>1 DEF Begin
  <2>3. CASE BeginPush(u, want)
    <3>1. ~ Refuses(want) /\ \E pc \in {"push", "resolve"} :
                                Started(u, "push", pc, want, ToResolve(want))
      BY <2>3 DEF BeginPush
    <3> QED
      BY <3>1, StartedGoes DEF Goes
  <2>4. CASE BeginMerge(u, want)
    <3>1. Started(u, "merge", "manifest", want, Selected(want))
      BY <2>4 DEF BeginMerge
    <3> QED
      BY <3>1, StartedGoes DEF Goes
  <2>5. CASE BeginAbort(u, want)
    <3>1. Started(u, "abort", "write", want, Restorable(want))
      BY <2>5 DEF BeginAbort
    <3> QED
      BY <3>1, StartedGoes DEF Goes
  <2>6. CASE BeginRevert(u, want)
    <3>1. Started(u, "revert", "write", want, Selected(want))
      BY <2>6 DEF BeginRevert
    <3> QED
      BY <3>1, StartedGoes DEF Goes
  <2> QED
    BY <2>2, <2>3, <2>4, <2>5, <2>6
<1>5. CASE \E u \in Terminals : Fails(u)
  <2>1. PICK u \in Terminals : run' = [run EXCEPT ![u] = NoRun]
    BY <1>5 DEF Fails, Ended
  <2> QED
    BY <2>1 DEF Goes, Shapes, Runs
<1>6. CASE \E u \in Terminals : Step(u)
  <2>1. PICK u \in Terminals : Step(u)
    BY <1>6
  <2>2. run[u] # NoRun
    BY <2>1 DEF Step, Manifest, Theirs, Rewrite, Resolve, Restore, Withdraw, Submit, Now
  <2>3. run \in [Terminals -> Run \cup {NoRun}] /\ run[u] \in Run
    BY <2>2 DEF Shapes, Runs
  <2>4. ASSUME u # t PROVE run'[t] = run[t]
    BY <2>1, <2>3, <2>4 DEF Step, Manifest, Theirs, Rewrite, Resolve, Restore, Withdraw, Submit,
       OnFrom, Ended, Gone
  <2>5. CASE u = t /\ Ended(u)
    BY <2>3, <2>5 DEF Ended, Goes
  <2>6. CASE u = t /\ Manifest(u) /\ ~Ended(u)
    <3> DEFINE live == [p \in Docs |-> Live(p)]
               todo == {p \in run[u].todo : live[p] # run[u].list[p].base}
               r == [run[u] EXCEPT !.live = live, !.todo = todo, !.pc = "theirs"]
    <3>1. run[u].kind = "merge" /\ run' = [run EXCEPT ![u] = r]
      BY <2>3, <2>6 DEF Manifest, Now
    <3>2. r.kind = run[u].kind /\ r.pc = "theirs"
      BY <2>3 DEF Run
    <3> HIDE DEF r
    <3> QED
      BY <2>3, <2>6, <3>1, <3>2 DEF Goes
  <2>7. CASE u = t /\ Theirs(u)
    <3> DEFINE x == hist[First(run[u].todo)][Live(First(run[u].todo))].text
               r == [run[u] EXCEPT !.theirs = x, !.pc = "write"]
    <3>1. run[u].kind = "merge" /\ run[u].pc = "theirs" /\ run' = [run EXCEPT ![u] = r]
          /\ hist' = hist
      BY <2>3, <2>7 DEF Theirs, Now, server
    <3>2. r.kind = run[u].kind /\ r.todo = run[u].todo /\ r.list = run[u].list
          /\ r.live = run[u].live /\ r.theirs = x
      BY <2>3 DEF Run
    <3> HIDE DEF r
    <3> QED
      BY <2>2, <2>3, <2>7, <3>1, <3>2 DEF Goes
  <2>8. CASE u = t /\ Resolve(u) /\ ~Ended(u)
    <3> DEFINE p == First(run[u].todo)
               left == run[u].todo \ {p}
               list == [run[u].list EXCEPT ![p] = Resolved(p)]
               pc == IF left = {} THEN "push" ELSE "resolve"
               r == [run[u] EXCEPT !.todo = left, !.list = list, !.pc = pc]
    <3>1. run[u].kind = "push" /\ run[u].pc = "resolve"
      BY <2>8 DEF Resolve, Now
    <3>2. /\ run' = [run EXCEPT ![u] = r] /\ row[p] # NoDraft /\ Wrote(u, p, Resolved(p))
          /\ hist' = hist /\ buffer' = buffer
      BY <2>8 DEF Resolve, Gone
    <3>3. p \in Docs /\ Writes(u, p, Resolved(p))
      BY <2>2, <3>1, <3>2, WroteDoes, AtWork
    <3>4. r.kind = run[u].kind /\ r.list = list /\ r.want = run[u].want
      BY <2>3 DEF Run
    <3> HIDE DEF r
    <3>5. run'[u] = r
      BY <2>3, <3>2
    <3> QED
      BY <2>2, <2>8, <3>1, <3>3, <3>4, <3>5 DEF Goes
  <2>9. CASE u = t /\ (Rewrite(u) \/ Restore(u) \/ Withdraw(u)) /\ ~Ended(u)
    <3>1. \/ run[u].kind = "merge" /\ run[u].pc = "write" /\ OnFrom(u, First(run[u].todo), "theirs")
          \/ /\ run[u].kind \in {"abort", "revert"}
             /\ OnFrom(u, First(run[u].todo), "write")
      BY <2>9 DEF Rewrite, Restore, Withdraw, Gone, Now
    <3>2. PICK x : /\ run' = [run EXCEPT ![u] = x]
                   /\ x # NoRun => /\ x.kind = run[u].kind
                                   /\ x.kind = "merge" => x.pc = "theirs"
      BY <2>2, <3>1, OnFromGood
    <3>3. run'[u] = x
      BY <2>3, <3>2
    <3> QED
      BY <2>9, <3>1, <3>2, <3>3 DEF Goes
  <2> QED
    BY <2>1, <2>4, <2>5, <2>6, <2>7, <2>8, <2>9 DEF Step, Goes, Submit
<1> QED
  BY <1>1, <1>2, <1>3, <1>4, <1>5, <1>6 DEF Next, vars

-----------------------------------------------------------------------------
(* Conflict markers                                                        *)

(* A push goes by drafts without markers, and none was published.          *)
ListsClear ==
  \A t \in Terminals, p \in Docs \ raced :
    run[t] # NoRun /\ run[t].kind = "push" /\ (run[t].want = {} \/ p \in run[t].want)
      /\ run[t].list[p] # NoDraft
    => ~ HasMarkers(run[t].list[p].text)

Markers == NoMarkersPublished /\ ListsClear

(* An edit of a text without markers has none.                             *)
LEMMA EditClear ==
  ASSUME NEW k \in Nat, NEW x \in Old(k), NEW s \in Sections, NEW e, ~ HasMarkers(x)
  PROVE  ~ HasMarkers([x EXCEPT ![s] = {e}])
<1> DEFINE y == [x EXCEPT ![s] = {e}]
<1>1. y[s] = {e} /\ \A r \in Sections : r # s => y[r] = x[r]
  BY DEF Old
<1>2. Cardinality({e}) = 1
  BY FS_Singleton
<1>3. \A r \in Sections : ~(Cardinality(x[r]) > 1)
  BY DEF HasMarkers
<1> HIDE DEF y
<1>4. \A r \in Sections : ~(Cardinality(y[r]) > 1)
  BY <1>1, <1>2, <1>3
<1> QED
  BY <1>4 DEF HasMarkers, y

(* No text of the start has markers.                                       *)
LEMMA InitMarkers == Init => Markers
<1> SUFFICES ASSUME Init PROVE Markers
  OBVIOUS
<1>1. Cardinality({0}) = 1
  BY FS_Singleton
<1>2. ~ HasMarkers([s \in Sections |-> {0}])
  BY <1>1 DEF HasMarkers
<1>3. \A p \in Docs : \A n \in 1..Live(p) : hist[p][n].text = [s \in Sections |-> {0}]
  <2> DEFINE x == [s \in Sections |-> {0}]
             v == [text |-> x, own |-> FALSE]
  <2>1. hist = [p \in Docs |-> <<v>>]
    BY DEF Init
  <2>2. v.text = x
    OBVIOUS
  <2> HIDE DEF x, v
  <2>3. ASSUME NEW p \in Docs, NEW n \in 1..Live(p) PROVE hist[p][n].text = x
    <3>1. hist[p] = <<v>>
      BY <2>1
    <3>2. n = 1
      BY <3>1 DEF Live
    <3> QED
      BY <2>2, <3>1, <3>2
  <2> QED
    BY <2>3 DEF x
<1>4. ListsClear
  BY DEF Init, ListsClear
<1> QED
  BY <1>2, <1>3, <1>4 DEF Markers, NoMarkersPublished

(* What a push lists stays clear: it took a look, and what it resolves has *)
(* the text it listed.                                                     *)
LEMMA ListsClearNext ==
  ASSUME Shapes, Markers, [Next]_vars PROVE ListsClear'
<1>1. raced \subseteq raced'
  BY RecordStep
<1> SUFFICES ASSUME NEW t \in Terminals, NEW p \in Docs \ raced', run'[t] # NoRun,
                    run'[t].kind = "push", run'[t].want = {} \/ p \in run'[t].want,
                    run'[t].list[p] # NoDraft
             PROVE  ~ HasMarkers(run'[t].list[p].text)
  BY DEF ListsClear, HasMarkers
<1>2. Goes(t)
  BY TerminalStep
<1>3. CASE run'[t] = run[t]
  BY <1>1, <1>3 DEF Markers, ListsClear
<1>4. CASE \E want \in SUBSET Rows : /\ ~ Refuses(want) /\ run'[t].kind = "push"
                                     /\ run'[t].want = want /\ run'[t].list = row
                                     /\ row' = row
  BY <1>4 DEF Refuses, Selected, Rows
<1>5. CASE /\ run[t] # NoRun /\ run[t].kind = "push" /\ run'[t].kind = "push"
           /\ run'[t].want = run[t].want
           /\ LET q == First(run[t].todo) IN
              /\ q \in Docs /\ Writes(t, q, Resolved(q))
              /\ run'[t].list = [run[t].list EXCEPT ![q] = Resolved(q)]
  <2> DEFINE q == First(run[t].todo)
  <2>1. run[t].list \in [Docs -> Draft \cup {NoDraft}]
    BY <1>5, AtWork
  <2>2. CASE q = p
    <3>1. run'[t].list[p] = Resolved(p) /\ run[t].list[p] = row[p] /\ row[p] # NoDraft
      BY <1>5, <2>1, <2>2 DEF Writes
    <3>2. Resolved(p).text = row[p].text
      BY <3>1, ResolvedGood
    <3> QED
      BY <1>1, <1>5, <3>1, <3>2 DEF Markers, ListsClear
  <2>3. CASE q # p
    <3>1. run'[t].list[p] = run[t].list[p]
      BY <1>5, <2>1, <2>3
    <3> QED
      BY <1>1, <1>5, <3>1 DEF Markers, ListsClear
  <2> QED
    BY <2>2, <2>3
<1> QED
  BY <1>2, <1>3, <1>4, <1>5 DEF Goes

(* What is appended to a history is its last revision.                     *)
LEMMA OneMore ==
  ASSUME Shapes, NEW p \in Docs, NEW v, hist'[p] = Append(hist[p], v)
  PROVE  /\ Live(p)' = Live(p) + 1 /\ hist'[p][Live(p) + 1] = v
         /\ Live(p) \in Nat /\ Live(p) >= 1
         /\ \A n \in 1..Live(p) : hist'[p][n] = hist[p][n]
         /\ \A n \in 1..(Live(p) + 1) : n \in 1..Live(p) \/ n = Live(p) + 1
<1>1. hist[p] \in Seq(Revision(edits)) /\ Len(hist[p]) \in Nat /\ Len(hist[p]) >= 1
  BY AsLong DEF Shapes, Histories
<1>2. Len(hist'[p]) = Len(hist[p]) + 1 /\ hist'[p][Len(hist[p]) + 1] = v
      /\ \A n \in 1..Len(hist[p]) : hist'[p][n] = hist[p][n]
  BY <1>1
<1> QED
  BY <1>1, <1>2 DEF Live

(* No step publishes markers.                                              *)
LEMMA PublishedNext ==
  ASSUME Shapes, Markers, [Next]_vars PROVE NoMarkersPublished'
<1>1. raced \subseteq raced'
  BY RecordStep
<1> SUFFICES ASSUME NEW p \in Docs \ raced'
             PROVE  \A n \in 1..Live(p)' : ~ HasMarkers(hist'[p][n].text)
  BY DEF NoMarkersPublished, HasMarkers
<1>2. \A n \in 1..Live(p) : ~ HasMarkers(hist[p][n].text)
  BY <1>1 DEF Markers, NoMarkersPublished
<1>3. CASE hist'[p] = hist[p]
  BY <1>2, <1>3 DEF Live
<1>4. ASSUME NEW v, hist'[p] = Append(hist[p], v), ~ HasMarkers(v.text)
      PROVE  \A n \in 1..Live(p)' : ~ HasMarkers(hist'[p][n].text)
  <2>1. /\ Live(p)' = Live(p) + 1 /\ hist'[p][Live(p) + 1] = v
        /\ \A n \in 1..Live(p) : hist'[p][n] = hist[p][n]
        /\ \A n \in 1..(Live(p) + 1) : n \in 1..Live(p) \/ n = Live(p) + 1
    BY <1>4, OneMore
  <2>2. ASSUME NEW n \in 1..(Live(p) + 1) PROVE ~ HasMarkers(hist'[p][n].text)
    <3>1. CASE n \in 1..Live(p)
      BY <1>2, <2>1, <3>1
    <3>2. CASE n = Live(p) + 1
      BY <1>4, <2>1, <3>2
    <3> QED
      BY <2>1, <3>1, <3>2
  <2> QED
    BY <2>1, <2>2
<1>5. CASE \E s \in Sections : Publish(p, s)
  <2>1. PICK s \in Sections : Publish(p, s)
    BY <1>5
  <2> DEFINE b == hist[p][Live(p)].text
             x == [b EXCEPT ![s] = {edits + 1}]
             v == [text |-> x, own |-> FALSE]
  <2>2. hist'[p] = Append(hist[p], v)
    BY <2>1 DEF Publish, Shapes, Histories
  <2>3. Live(p) \in 1..Live(p) /\ b \in Old(edits) /\ edits \in Nat
    BY AsLong DEF Shapes, Live
  <2>4. ~ HasMarkers(b)
    BY <1>2, <2>3
  <2>5. ~ HasMarkers(x)
    BY <2>3, <2>4, EditClear
  <2>6. v.text = x
    OBVIOUS
  <2> HIDE DEF x, v
  <2> QED
    BY <1>4, <2>2, <2>5, <2>6
<1>6. CASE \E t \in Terminals : Submits(t, p)
  <2>1. PICK t \in Terminals : Submits(t, p)
    BY <1>6
  <2> DEFINE v == [text |-> row[p].text, own |-> TRUE]
  <2>2. hist'[p] = Append(hist[p], v) /\ v.text = row[p].text
    BY <2>1 DEF Submits
  <2>3. ~ HasMarkers(row[p].text)
    BY <1>1, <2>1 DEF Submits, Markers, ListsClear
  <2> HIDE DEF v
  <2> QED
    BY <1>4, <2>2, <2>3
<1>7. Happens(p)
  BY PageStep
<1> QED
  BY <1>3, <1>5, <1>6, <1>7 DEF Happens, Still, Open, Save, server, Writes, Aborts, Reverts

(* No push lists a draft with markers, and none is published.              *)
LEMMA ListsStayClear == Spec => []Markers
<1>1. Init => Markers
  BY InitMarkers
<1>2. Shapes /\ Markers /\ [Next]_vars => Markers'
  BY ListsClearNext, PublishedNext DEF Markers
<1> QED
  BY <1>1, <1>2, SessionInShape, PTL DEF Spec

(* No command publishes a text with conflict markers in it, whatever       *)
(* merges and saves fall between its look at the drafts and the push.      *)
THEOREM MarkersStayUnpublished == Spec => []NoMarkersPublished
<1>1. Markers => NoMarkersPublished
  BY DEF Markers
<1> QED
  BY <1>1, ListsStayClear, PTL

-----------------------------------------------------------------------------
(* What merge --abort brings back                                          *)

(* A draft holds a text its user wrote: the text to go back to, or, where  *)
(* there is no merge to undo, its text.                                    *)
UsersOwn(d) ==
  IF d.pre = NoText THEN ~ HasMarkers(d.text) ELSE ~ HasMarkers(d.pre)

OwnTexts == \A p \in Rows \ (marked \cup raced) : UsersOwn(row[p])

(* The text a save leaves.                                                 *)
LEMMA SaveDoes ==
  ASSUME Shapes, NEW p \in Docs, NEW s \in Sections, Save(p, s)
  PROVE  \E x \in Old(edits + 1) :
           /\ x = [buffer[p].text EXCEPT ![s] = {edits + 1}]
           /\ buffer[p].text \in Old(edits) /\ buffer'[p].text = x
           /\ buffer'[p].shows = buffer[p].shows
           /\ hist'[p] = hist[p]
           /\ row'[p] = Upserted(p, x)
           /\ row'[p].text = x
           /\ row[p] # NoDraft => /\ row'[p].base = row[p].base /\ row'[p].pre = row[p].pre
                                  /\ row'[p].from = row[p].from
           /\ row[p] = NoDraft => row'[p].pre = NoText /\ row'[p].from = 0
           /\ HasMarkers(x) /\ row'[p].pre = NoText => p \in marked'
           /\ Claims(row'[p]) # buffer[p].shows => p \in outdated'
           /\ over' = [over EXCEPT ![edits + 1] = Seen(buffer[p].text[s])]
           /\ edits \in Nat /\ edits < MaxEdits
<1> DEFINE x == [buffer[p].text EXCEPT ![s] = {edits + 1}]
<1>1. buffer[p].text \in Old(edits) /\ edits \in Nat /\ edits < MaxEdits
      /\ edits + 1 <= MaxEdits
  BY SessionAssumption DEF Save, NewEdit, Shapes, GoodBuffers
<1>2. x \in Old(edits + 1)
  BY <1>1, EditOld
<1>3. /\ row' = [row EXCEPT ![p] = Upserted(p, x)]
      /\ buffer' = [buffer EXCEPT ![p].text = x]
      /\ hist' = hist
      /\ over' = [over EXCEPT ![edits + 1] = Seen(buffer[p].text[s])]
  BY DEF Save, NewEdit
<1>4. /\ HasMarkers(x) /\ row'[p].pre = NoText => p \in marked'
      /\ Claims(row'[p]) # buffer[p].shows => p \in outdated'
  BY DEF Save
<1> HIDE DEF x
<1>5. row'[p] = Upserted(p, x)
  BY <1>3 DEF Shapes, GoodDrafts
<1>6. buffer'[p].text = x /\ buffer'[p].shows = buffer[p].shows
  BY <1>3 DEF Shapes, GoodBuffers
<1>7. /\ Upserted(p, x).text = x
      /\ row[p] # NoDraft => /\ Upserted(p, x).base = row[p].base
                             /\ Upserted(p, x).pre = row[p].pre
                             /\ Upserted(p, x).from = row[p].from
      /\ row[p] = NoDraft => Upserted(p, x).pre = NoText /\ Upserted(p, x).from = 0
  BY <1>1, <1>2, UpsertedGood
<1>8. x = [buffer[p].text EXCEPT ![s] = {edits + 1}]
  BY DEF x
<1> QED
  BY <1>1, <1>2, <1>3, <1>4, <1>5, <1>6, <1>7, <1>8

(* No step takes from a draft the text its user wrote: begin_merge keeps   *)
(* the first, resolving drops a text that had none to begin with.          *)
LEMMA OwnTextsNext ==
  ASSUME Shapes, Markers, OwnTexts, [Next]_vars PROVE OwnTexts'
<1>1. raced \subseteq raced' /\ marked \subseteq marked'
  BY RecordStep
<1> SUFFICES ASSUME NEW p \in Docs, p \notin raced', p \notin marked', row'[p] # NoDraft
             PROVE  UsersOwn(row'[p])
  BY DEF OwnTexts, Rows, UsersOwn, HasMarkers
<1>2. p \notin raced /\ p \notin marked
  BY <1>1
<1>3. row[p] # NoDraft => UsersOwn(row[p])
  BY <1>2 DEF OwnTexts, Rows
<1>4. CASE row'[p] = row[p]
  BY <1>3, <1>4
<1>5. CASE \E s \in Sections : Save(p, s)
  <2>1. PICK s \in Sections : Save(p, s)
    BY <1>5
  <2>2. PICK x \in Old(edits + 1) :
           /\ row'[p].text = x
           /\ row[p] # NoDraft => row'[p].pre = row[p].pre
           /\ row[p] = NoDraft => row'[p].pre = NoText
           /\ HasMarkers(x) /\ row'[p].pre = NoText => p \in marked'
    BY <2>1, SaveDoes
  <2> QED
    BY <1>3, <2>2 DEF UsersOwn
<1>6. CASE \E t \in Terminals : Now(t, "merge", "write") /\ Writes(t, p, Rewritten(t, p))
  <2>1. PICK t \in Terminals : Now(t, "merge", "write") /\ Writes(t, p, Rewritten(t, p))
    BY <1>6
  <2>2. row[p] # NoDraft /\ row'[p].pre = Kept(row[p]) /\ row'[p].pre \in Old(edits)
    BY <2>1, RewrittenGood DEF Writes
  <2>3. NoText \notin Old(edits)
    BY OldGrows, SessionAssumption DEF Shapes
  <2> QED
    BY <1>3, <2>2, <2>3 DEF UsersOwn, Kept
<1>7. CASE \E t \in Terminals : Now(t, "push", "resolve") /\ Writes(t, p, Resolved(p))
  <2>1. PICK t \in Terminals : Now(t, "push", "resolve") /\ Writes(t, p, Resolved(p))
    BY <1>7
  <2>2. row[p] # NoDraft /\ row'[p].text = row[p].text /\ row'[p].pre = NoText
    BY <2>1, ResolvedGood DEF Writes
  <2>3. run[t] # NoRun /\ run[t].kind = "push" /\ run[t].list[p] = row[p] /\ p \in run[t].todo
    BY <2>1 DEF Now, Writes
  <2>4. run[t].want = {} \/ p \in run[t].want
    BY <2>3, AtWork DEF GoodRun
  <2>5. ~ HasMarkers(row[p].text)
    BY <1>2, <2>2, <2>3, <2>4 DEF Markers, ListsClear
  <2> QED
    BY <2>2, <2>5 DEF UsersOwn
<1>8. CASE \E t \in Terminals : Aborts(t, p)
  <2>1. PICK t \in Terminals : Aborts(t, p)
    BY <1>8
  <2>2. /\ row[p] # NoDraft /\ row'[p].pre = NoText
        /\ row'[p].text = IF row[p].pre # NoText THEN row[p].pre ELSE row[p].text
    BY <2>1, RestoredGood DEF Aborts, Writes
  <2> QED
    BY <1>3, <2>2 DEF UsersOwn
<1>9. Happens(p)
  BY PageStep
<1> QED
  BY <1>4, <1>5, <1>6, <1>7, <1>8, <1>9
  DEF Happens, Still, Open, Publish, server, Reverts, Writes, Submits

(* What merge --abort brings back is a text the user wrote and never the   *)
(* outcome of an earlier merge, however often merges, saves and pushes     *)
(* follow each other.                                                      *)
THEOREM BackupStaysTheUsers == Spec => []BackupIsTheUsers
<1>1. Init => OwnTexts
  BY DEF Init, OwnTexts, Rows
<1>2. Shapes /\ Markers /\ OwnTexts /\ [Next]_vars => OwnTexts'
  BY OwnTextsNext
<1>3. OwnTexts => BackupIsTheUsers
  BY DEF OwnTexts, BackupIsTheUsers, UsersOwn
<1> QED
  BY <1>1, <1>2, <1>3, SessionInShape, ListsStayClear, PTL DEF Spec

-----------------------------------------------------------------------------
(* What the user saved                                                     *)

(* Where an edit e is found, for a record ov of what was seen, a history   *)
(* h, a draft d, an editor b and edits thrown away gone.                   *)
Settled(ov, h, gone, e) == e \in gone \/ \E n \in 1..Len(h) : e \in InText(ov, h[n].text)
InRow(ov, d, e) == d # NoDraft /\ e \in InText(ov, d.text)
Behind(ov, d, e) == d # NoDraft /\ d.pre # NoText /\ e \in InText(ov, d.pre)
InBuffer(ov, b, e) == e \in InText(ov, b.text)

(* An edit is not lost: it is settled or in the draft, the editor shows it *)
(* so that the next save keeps it, and a push or a resolve, which drop the *)
(* text to go back to, drop nothing.                                       *)
Safe(ov, h, d, b, gone, e) ==
  /\ Settled(ov, h, gone, e) \/ InRow(ov, d, e) \/ Behind(ov, d, e)
  /\ InRow(ov, d, e) \/ Behind(ov, d, e) => Settled(ov, h, gone, e) \/ InBuffer(ov, b, e)
  /\ Behind(ov, d, e) => Settled(ov, h, gone, e) \/ InRow(ov, d, e)

EditsSafe ==
  \A p \in Docs \ raced : \A e \in 1..edits :
    <<p, e>> \in own => Safe(over, hist[p], row[p], buffer[p], discarded, e)

(* An edit is seen in a text when some section shows it, or an edit that   *)
(* was made over it.                                                       *)
LEMMA SeenWhere ==
  ASSUME NEW ov, NEW x, NEW e
  PROVE  e \in InText(ov, x) <=>
           \E s \in Sections : e \in x[s] \/ \E f \in x[s] \ {0} : e \in ov[f]
BY DEF InText, SeenBy

(* New edits change nothing about what older texts show.                   *)
LEMMA SameSeen ==
  ASSUME NEW ov, NEW ow, NEW k \in Nat, \A e \in 1..k : ow[e] = ov[e], NEW x \in Old(k)
  PROVE  /\ InText(ow, x) = InText(ov, x)
         /\ \A s \in Sections : SeenBy(ow, x[s]) = SeenBy(ov, x[s])
<1>1. ASSUME NEW s \in Sections PROVE SeenBy(ow, x[s]) = SeenBy(ov, x[s])
  <2>1. x[s] \subseteq 0..k
    BY DEF Old
  <2>2. \A f \in x[s] \ {0} : f \in 1..k
    BY <2>1
  <2> QED
    BY <2>2 DEF SeenBy
<1> QED
  BY <1>1 DEF InText

(* Nor does any step.                                                      *)
LEMMA SeenStep ==
  ASSUME Shapes, [Next]_vars
  PROVE  /\ \A x \in Old(edits) : InText(over', x) = InText(over, x)
         /\ \A x \in Old(edits) : \A s \in Sections : SeenBy(over', x[s]) = SeenBy(over, x[s])
<1>1. edits \in Nat /\ \A e \in 1..edits : over'[e] = over[e]
  BY RecordStep DEF Shapes, Edited
<1> QED
  BY <1>1, SameSeen

(* A merge shows nothing that is not in one of its sides, and all of the   *)
(* draft but what the ancestor shows.                                      *)
LEMMA MergeShows ==
  ASSUME NEW ov, NEW k \in Nat, NEW b \in Old(k), NEW m \in Old(k), NEW o \in Old(k), NEW e
  PROVE  /\ e \in InText(ov, Merge(b, m, o)) => e \in InText(ov, m) \/ e \in InText(ov, o)
         /\ e \in InText(ov, m) => e \in InText(ov, Merge(b, m, o)) \/ e \in InText(ov, b)
<1> DEFINE x == Merge(b, m, o)
<1>1. \A s \in Sections : \/ x[s] = m[s] \cup o[s]
                          \/ x[s] = o[s] /\ m[s] = b[s]
                          \/ x[s] = m[s]
  BY DEF Merge
<1> HIDE DEF x
<1>2. e \in InText(ov, x) => e \in InText(ov, m) \/ e \in InText(ov, o)
  BY <1>1, SeenWhere
<1>3. e \in InText(ov, m) => e \in InText(ov, x) \/ e \in InText(ov, b)
  BY <1>1, SeenWhere
<1> QED
  BY <1>2, <1>3 DEF x

(* Every section of a text x shows all that a text b shows there.          *)
Shows(ov, x, b) == \A r \in Sections : SeenBy(ov, b[r]) \subseteq SeenBy(ov, x[r])

(* A save shows all that the editor showed, and the new edit.              *)
LEMMA SaveShows ==
  ASSUME NEW ov, NEW k \in Nat, NEW b \in Old(k), NEW s \in Sections, NEW x,
         x[s] = {k + 1}, \A r \in Sections : r # s => x[r] = b[r],
         ov[k + 1] = SeenBy(ov, b[s])
  PROVE  /\ Shows(ov, x, b)
         /\ InText(ov, b) \subseteq InText(ov, x)
         /\ k + 1 \in InText(ov, x)
<1>1. k + 1 # 0
  OBVIOUS
<1>2. SeenBy(ov, b[s]) \subseteq SeenBy(ov, x[s]) /\ k + 1 \in SeenBy(ov, x[s])
  BY <1>1 DEF SeenBy
<1>3. \A r \in Sections : SeenBy(ov, b[r]) \subseteq SeenBy(ov, x[r])
  BY <1>2
<1>4. InText(ov, b) \subseteq InText(ov, x)
  <2>1. SUFFICES ASSUME NEW e \in InText(ov, b) PROVE e \in InText(ov, x)
    OBVIOUS
  <2>2. PICK r \in Sections : e \in SeenBy(ov, b[r])
    BY <2>1 DEF InText
  <2>3. e \in SeenBy(ov, x[r])
    BY <1>3, <2>2
  <2> QED
    BY <2>3 DEF InText
<1>5. k + 1 \in InText(ov, x)
  BY <1>2 DEF InText
<1> QED
  BY <1>3, <1>4, <1>5 DEF Shows

(* What was safe stays so while others edit and more is thrown away.       *)
LEMMA SafeStays ==
  ASSUME Shapes, [Next]_vars, NEW p \in Docs, NEW e,
         Safe(over, hist[p], row[p], buffer[p], discarded, e)
  PROVE  Safe(over', hist[p], row[p], buffer[p], discarded', e)
<1>1. discarded \subseteq discarded'
  BY RecordStep
<1>2. \A n \in 1..Len(hist[p]) : InText(over', hist[p][n].text) = InText(over, hist[p][n].text)
  BY SeenStep, AsLong DEF Shapes
<1>3. InText(over', buffer[p].text) = InText(over, buffer[p].text)
  BY SeenStep DEF Shapes, GoodBuffers
<1>4. row[p] # NoDraft => /\ InText(over', row[p].text) = InText(over, row[p].text)
                          /\ row[p].pre # NoText =>
                               InText(over', row[p].pre) = InText(over, row[p].pre)
  BY SeenStep DEF Shapes, GoodDrafts, GoodDraft
<1>5. Settled(over, hist[p], discarded, e) => Settled(over', hist[p], discarded', e)
  BY <1>1, <1>2 DEF Settled
<1>6. /\ InRow(over', row[p], e) <=> InRow(over, row[p], e)
      /\ Behind(over', row[p], e) <=> Behind(over, row[p], e)
      /\ InBuffer(over', buffer[p], e) <=> InBuffer(over, buffer[p], e)
  BY <1>3, <1>4 DEF InRow, Behind, InBuffer
<1> QED
  BY <1>5, <1>6 DEF Safe

(* Opening a page shows its draft, which has all there is to lose.         *)
LEMMA OpenSafe ==
  ASSUME Shapes, NEW p \in Docs, Open(p), NEW ov, NEW gone, NEW e,
         Safe(ov, hist[p], row[p], buffer[p], gone, e)
  PROVE  Safe(ov, hist'[p], row'[p], buffer'[p], gone, e)
<1>1. hist'[p] = hist[p] /\ row'[p] = row[p]
  BY DEF Open, server
<1>2. row[p] # NoDraft => buffer'[p].text = row[p].text
  BY DEF Open, Shapes, GoodBuffers
<1> QED
  BY <1>1, <1>2 DEF Safe, InRow, Behind, InBuffer

(* What a save writes over, it was made over.                              *)
LEMMA SaveSafe ==
  ASSUME Shapes, [Next]_vars, NEW p \in Docs, NEW s \in Sections, Save(p, s), NEW e,
         e = edits + 1 \/ Safe(over', hist[p], row[p], buffer[p], discarded', e)
  PROVE  Safe(over', hist'[p], row'[p], buffer'[p], discarded', e)
<1>1. PICK x \in Old(edits + 1) :
           /\ x = [buffer[p].text EXCEPT ![s] = {edits + 1}]
           /\ buffer[p].text \in Old(edits) /\ buffer'[p].text = x
           /\ hist'[p] = hist[p]
           /\ row'[p] = Upserted(p, x) /\ row'[p].text = x
           /\ row[p] # NoDraft => row'[p].pre = row[p].pre
           /\ row[p] = NoDraft => row'[p].pre = NoText
           /\ over' = [over EXCEPT ![edits + 1] = Seen(buffer[p].text[s])]
           /\ edits \in Nat /\ edits < MaxEdits
  BY SaveDoes
<1>2. over'[edits + 1] = SeenBy(over, buffer[p].text[s])
  <2>1. edits + 1 \in DOMAIN over
    BY <1>1, SessionAssumption DEF Shapes, Ledger
  <2> QED
    BY <1>1, <2>1 DEF Seen, SeenBy
<1>3. over'[edits + 1] = SeenBy(over', buffer[p].text[s])
  BY <1>1, <1>2, SeenStep
<1>4. /\ InText(over', buffer[p].text) \subseteq InText(over', x)
      /\ edits + 1 \in InText(over', x)
  <2> DEFINE ow == over'
             b == buffer[p].text
  <2>1. b \in Old(edits) /\ edits \in Nat /\ ow[edits + 1] = SeenBy(ow, b[s])
    BY <1>1, <1>3
  <2>2. x[s] = {edits + 1} /\ \A r \in Sections : r # s => x[r] = b[r]
    BY <1>1 DEF Old
  <2> HIDE DEF ow, b
  <2>3. InText(ow, b) \subseteq InText(ow, x) /\ edits + 1 \in InText(ow, x)
    BY <2>1, <2>2, SaveShows
  <2> QED
    BY <2>3 DEF ow, b
<1>5. InBuffer(over', buffer[p], e) => InBuffer(over', buffer'[p], e)
  BY <1>1, <1>4 DEF InBuffer
<1>6. e = edits + 1 => InBuffer(over', buffer'[p], e)
  BY <1>1, <1>4 DEF InBuffer
<1>7. row'[p] # NoDraft
  <2>1. row'[p] = Upserted(p, x)
    BY <1>1
  <2>2. GoodDraft(edits + 1, Len(hist[p]), Upserted(p, x))
    BY <1>1, SessionAssumption, UpsertedGood
  <2> QED
    BY <2>1, <2>2, SessionAssumption DEF GoodDraft
<1>8. InRow(over', row'[p], e) <=> InBuffer(over', buffer'[p], e)
  BY <1>1, <1>7 DEF InRow, InBuffer
<1>9. Behind(over', row'[p], e) => Behind(over', row[p], e)
  BY <1>1 DEF Behind
<1>10. Settled(over', hist[p], discarded', e) => Settled(over', hist'[p], discarded', e)
  BY <1>1
<1> QED
  BY <1>5, <1>6, <1>8, <1>9, <1>10 DEF Safe

(* A merge keeps the draft's edits, or keeps the draft.                    *)
LEMMA RewriteSafe ==
  ASSUME Shapes, [Next]_vars, NEW p \in Docs, p \notin raced', NEW t \in Terminals,
         Now(t, "merge", "write"), Writes(t, p, Rewritten(t, p)), NEW e,
         \E n \in 1..Len(hist[p]) : run[t].theirs = hist[p][n].text,
         Safe(over', hist[p], row[p], buffer[p], discarded', e)
  PROVE  Safe(over', hist'[p], row'[p], buffer'[p], discarded', e)
<1> DEFINE d == row[p]
           b == hist[p][d.base].text
           o == run[t].theirs
<1>1. /\ row[p] # NoDraft /\ p = First(run[t].todo) /\ run[t].list[p] = d
      /\ hist'[p] = hist[p] /\ buffer'[p] = buffer[p] /\ row'[p] = Rewritten(t, p)
  BY DEF Writes
<1>2. /\ GoodDraft(edits, Len(hist[p]), row'[p]) /\ d.base \in 1..Len(hist[p])
      /\ row'[p].text = Merge(b, d.text, o)
      /\ row'[p].pre = Kept(d) /\ row'[p].pre \in Old(edits)
  BY <1>1, RewrittenGood
<1>3. /\ b \in Old(edits) /\ o \in Old(edits) /\ d.text \in Old(edits)
  BY <1>1, <1>2, AsLong DEF Shapes, GoodDrafts, GoodDraft
<1>4. edits \in Nat /\ NoText \notin Old(edits)
  BY OldGrows, SessionAssumption DEF Shapes
<1>5. row'[p] # NoDraft /\ row'[p].pre # NoText
  BY <1>2, <1>4, SessionAssumption DEF GoodDraft
<1>6. e \in InText(over', b) \/ e \in InText(over', o) => Settled(over', hist[p], discarded', e)
  BY <1>2 DEF Settled
<1>7. /\ InRow(over', row'[p], e) => InRow(over', d, e) \/ Settled(over', hist[p], discarded', e)
      /\ InRow(over', d, e) => InRow(over', row'[p], e) \/ Settled(over', hist[p], discarded', e)
  <2> DEFINE m == Merge(b, d.text, o)
  <2>1. /\ e \in InText(over', m) => e \in InText(over', d.text) \/ e \in InText(over', o)
        /\ e \in InText(over', d.text) => e \in InText(over', m) \/ e \in InText(over', b)
    BY <1>3, <1>4, MergeShows
  <2>2. row'[p].text = m
    BY <1>2
  <2> HIDE DEF m, b, o
  <2> QED
    BY <1>1, <1>5, <1>6, <2>1, <2>2 DEF InRow
<1>8. Behind(over', row'[p], e) <=> Behind(over', d, e) \/ (d.pre = NoText /\ InRow(over', d, e))
  BY <1>1, <1>2, <1>5 DEF Behind, InRow, Kept
<1> HIDE DEF b, o, d
<1>9. Safe(over', hist[p], d, buffer[p], discarded', e)
  BY DEF d
<1>10. Behind(over', d, e) => d.pre # NoText
  BY DEF Behind
<1> QED
  BY <1>1, <1>7, <1>8, <1>9, <1>10 DEF Safe

(* Resolving drops a text to go back to, whose edits are in the draft.     *)
LEMMA ResolveSafe ==
  ASSUME Shapes, NEW p \in Docs, NEW t, Writes(t, p, Resolved(p)), NEW ov, NEW gone, NEW e,
         Safe(ov, hist[p], row[p], buffer[p], gone, e)
  PROVE  Safe(ov, hist'[p], row'[p], buffer'[p], gone, e)
<1>1. /\ row[p] # NoDraft /\ hist'[p] = hist[p] /\ buffer'[p] = buffer[p]
      /\ row'[p] = Resolved(p)
  BY DEF Writes
<1>2. row'[p].text = row[p].text /\ row'[p].pre = NoText /\ row'[p] # NoDraft
  BY <1>1, ResolvedGood, SessionAssumption DEF GoodDraft
<1>3. (InRow(ov, row'[p], e) <=> InRow(ov, row[p], e)) /\ ~Behind(ov, row'[p], e)
  BY <1>1, <1>2 DEF InRow, Behind
<1> QED
  BY <1>1, <1>3 DEF Safe

(* Aborting throws away what is not in the text it brings back.            *)
LEMMA AbortSafe ==
  ASSUME Shapes, [Next]_vars, NEW p \in Docs, NEW t, Aborts(t, p), NEW e,
         Safe(over', hist[p], row[p], buffer[p], discarded', e)
  PROVE  Safe(over', hist'[p], row'[p], buffer'[p], discarded', e)
<1>1. /\ row[p] # NoDraft /\ hist'[p] = hist[p] /\ buffer'[p] = buffer[p]
      /\ row'[p] = Restored(p)
      /\ discarded' = discarded \cup (SeenIn(row[p].text) \ SeenIn(Restored(p).text))
  BY DEF Aborts, Writes
<1>2. /\ GoodDraft(edits, Len(hist[p]), row'[p])
      /\ row'[p].text = IF row[p].pre # NoText THEN row[p].pre ELSE row[p].text
      /\ row'[p].pre = NoText /\ row'[p] # NoDraft
  BY <1>1, RestoredGood, SessionAssumption DEF GoodDraft
<1>3. row[p].text \in Old(edits) /\ row'[p].text \in Old(edits)
  BY <1>1, <1>2 DEF Shapes, GoodDrafts, GoodDraft
<1>4. /\ SeenIn(row[p].text) = InText(over', row[p].text)
      /\ SeenIn(Restored(p).text) = InText(over', row'[p].text)
  <2>1. \A x : SeenIn(x) = InText(over, x)
    BY DEF SeenIn, Seen, InText, SeenBy
  <2> QED
    BY <1>1, <1>3, <2>1, SeenStep
<1>5. InRow(over', row[p], e) => InRow(over', row'[p], e) \/ Settled(over', hist[p], discarded', e)
  BY <1>1, <1>2, <1>4 DEF InRow, Settled
<1>6. Behind(over', row[p], e) => InRow(over', row'[p], e)
  BY <1>2 DEF InRow, Behind
<1>7. InRow(over', row'[p], e) => InRow(over', row[p], e) \/ Behind(over', row[p], e)
  BY <1>1, <1>2 DEF InRow, Behind
<1>8. ~Behind(over', row'[p], e)
  BY <1>2 DEF Behind
<1> QED
  BY <1>1, <1>5, <1>6, <1>7, <1>8 DEF Safe

(* Withdrawing throws away all of the draft.                               *)
LEMMA RevertSafe ==
  ASSUME Shapes, [Next]_vars, NEW p \in Docs, NEW t, Reverts(t, p), NEW e,
         Safe(over', hist[p], row[p], buffer[p], discarded', e)
  PROVE  Safe(over', hist'[p], row'[p], buffer'[p], discarded', e)
<1>1. /\ row[p] # NoDraft /\ hist'[p] = hist[p] /\ row'[p] = NoDraft
      /\ SeenIn(row[p].text) \subseteq discarded'
      /\ row[p].pre # NoText => SeenIn(row[p].pre) \subseteq discarded'
  BY DEF Reverts, Writes
<1>2. row[p].text \in Old(edits) /\ row[p].pre \in Old(edits) \cup {NoText}
  BY <1>1 DEF Shapes, GoodDrafts, GoodDraft
<1>3. \A x \in Old(edits) : SeenIn(x) = InText(over', x)
  <2>1. \A x : SeenIn(x) = InText(over, x)
    BY DEF SeenIn, Seen, InText, SeenBy
  <2> QED
    BY <2>1, SeenStep
<1>4. InRow(over', row[p], e) \/ Behind(over', row[p], e)
        => Settled(over', hist[p], discarded', e)
  BY <1>1, <1>2, <1>3 DEF InRow, Behind, Settled
<1>5. ~InRow(over', row'[p], e) /\ ~Behind(over', row'[p], e)
  BY <1>1 DEF InRow, Behind
<1> QED
  BY <1>1, <1>4, <1>5 DEF Safe

(* What is appended to a history settles what it shows.                    *)
LEMMA AppendSettles ==
  ASSUME Shapes, NEW p \in Docs, NEW v, hist'[p] = Append(hist[p], v), NEW ov, NEW gone, NEW e
  PROVE  /\ Settled(ov, hist[p], gone, e) => Settled(ov, hist'[p], gone, e)
         /\ e \in InText(ov, v.text) => Settled(ov, hist'[p], gone, e)
<1>1. /\ Len(hist'[p]) = Len(hist[p]) + 1 /\ hist'[p][Len(hist[p]) + 1] = v
      /\ Len(hist[p]) \in Nat
      /\ \A n \in 1..Len(hist[p]) : hist'[p][n] = hist[p][n]
  BY OneMore DEF Live
<1>2. /\ Len(hist[p]) + 1 \in 1..Len(hist'[p])
      /\ \A n \in 1..Len(hist[p]) : n \in 1..Len(hist'[p])
  BY <1>1
<1> QED
  BY <1>1, <1>2 DEF Settled

(* What is pushed is published.                                            *)
LEMMA SubmitSafe ==
  ASSUME Shapes, NEW p \in Docs, NEW t, Submits(t, p), NEW ov, NEW gone, NEW e,
         Safe(ov, hist[p], row[p], buffer[p], gone, e)
  PROVE  Safe(ov, hist'[p], row'[p], buffer'[p], gone, e)
<1> DEFINE v == [text |-> row[p].text, own |-> TRUE]
<1>1. row'[p] = NoDraft /\ hist'[p] = Append(hist[p], v) /\ v.text = row[p].text
  BY DEF Submits
<1> HIDE DEF v
<1>2. /\ Settled(ov, hist[p], gone, e) => Settled(ov, hist'[p], gone, e)
      /\ InRow(ov, row[p], e) => Settled(ov, hist'[p], gone, e)
  BY <1>1, AppendSettles DEF InRow
<1>3. ~InRow(ov, row'[p], e) /\ ~Behind(ov, row'[p], e)
  BY <1>1 DEF InRow, Behind
<1> QED
  BY <1>2, <1>3 DEF Safe

(* What others publish changes nothing about the draft.                    *)
LEMMA PublishSafe ==
  ASSUME Shapes, NEW p \in Docs, NEW s \in Sections, Publish(p, s), NEW ov, NEW gone, NEW e,
         Safe(ov, hist[p], row[p], buffer[p], gone, e)
  PROVE  Safe(ov, hist'[p], row'[p], buffer'[p], gone, e)
<1>1. PICK v : hist'[p] = Append(hist[p], v)
  BY DEF Publish, Shapes, Histories
<1>2. row'[p] = row[p] /\ buffer'[p] = buffer[p]
  BY DEF Publish
<1>3. Settled(ov, hist[p], gone, e) => Settled(ov, hist'[p], gone, e)
  BY <1>1, AppendSettles
<1> QED
  BY <1>2, <1>3 DEF Safe

(* What a merge fetched is a revision of the page it is at, no older than  *)
(* the manifest said or the draft descends from.                           *)
Fetched(h, r) ==
  r.kind = "merge" /\ r.pc = "write" =>
    LET p == First(r.todo) IN
    \E m \in 1..Len(h[p]) : /\ r.theirs = h[p][m].text
                            /\ r.live[p] <= m /\ r.list[p].base <= m

AllFetched == \A t \in Terminals : run[t] # NoRun => Fetched(hist, run[t])

(* Histories only get longer.                                              *)
LEMMA HistoryStep ==
  ASSUME Shapes, [Next]_vars, NEW p \in Docs
  PROVE  /\ Len(hist[p]) \in Nat /\ Len(hist'[p]) \in Nat /\ Len(hist[p]) <= Len(hist'[p])
         /\ \A n \in 1..Len(hist[p]) : hist'[p][n] = hist[p][n]
<1>1. Len(hist[p]) \in Nat
  BY AsLong DEF Shapes
<1>2. CASE hist'[p] = hist[p]
  BY <1>1, <1>2
<1>3. CASE \E v : hist'[p] = Append(hist[p], v)
  <2>1. PICK v : hist'[p] = Append(hist[p], v)
    BY <1>3
  <2>2. /\ Len(hist'[p]) = Len(hist[p]) + 1
        /\ \A n \in 1..Len(hist[p]) : hist'[p][n] = hist[p][n]
    BY <2>1, OneMore DEF Live
  <2> QED
    BY <1>1, <2>2
<1>4. Happens(p)
  BY PageStep
<1>5. (\E s \in Sections : Publish(p, s)) => \E v : hist'[p] = Append(hist[p], v)
  BY DEF Publish, Shapes, Histories
<1>6. (\E t \in Terminals : Submits(t, p)) => \E v : hist'[p] = Append(hist[p], v)
  BY DEF Submits
<1> QED
  BY <1>2, <1>3, <1>4, <1>5, <1>6
  DEF Happens, Still, Open, Save, server, Writes, Aborts, Reverts

(* A merge fetches what is live, and keeps it until it writes.             *)
LEMMA AllFetchedNext ==
  ASSUME Shapes, AllFetched, [Next]_vars PROVE AllFetched'
<1> SUFFICES ASSUME NEW t \in Terminals, run'[t] # NoRun,
                    run'[t].kind = "merge", run'[t].pc = "write"
             PROVE  Fetched(hist', run'[t])
  BY DEF AllFetched, Fetched
<1>1. Goes(t)
  BY TerminalStep
<1>2. CASE run'[t] = run[t]
  <2>1. run[t] # NoRun /\ run[t].kind = "merge" /\ run[t].pc = "write"
    BY <1>2
  <2> DEFINE p == First(run[t].todo)
  <2>2. p \in Docs
    BY <2>1, AtWork
  <2>3. PICK m \in 1..Len(hist[p]) : /\ run[t].theirs = hist[p][m].text
                                     /\ run[t].live[p] <= m /\ run[t].list[p].base <= m
    BY <2>1 DEF AllFetched, Fetched
  <2>4. m \in 1..Len(hist'[p]) /\ hist'[p][m] = hist[p][m]
    BY <2>2, HistoryStep
  <2> QED
    BY <1>2, <2>3, <2>4 DEF Fetched
<1>3. CASE /\ run[t] # NoRun /\ run[t].kind = "merge" /\ run[t].pc = "theirs"
           /\ run'[t].todo = run[t].todo /\ run'[t].list = run[t].list
           /\ run'[t].live = run[t].live
           /\ LET p == First(run[t].todo) IN run'[t].theirs = hist[p][Live(p)].text
           /\ hist' = hist
  <2> DEFINE p == First(run[t].todo)
  <2>1. /\ p \in Docs /\ p \in run[t].todo /\ GoodRun(edits, hist, run[t])
        /\ GoodDraft(edits, Len(hist[p]), run[t].list[p])
    BY <1>3, AtWork
  <2>2. Len(hist[p]) \in Nat /\ Len(hist[p]) >= 1
    BY <2>1, AsLong DEF Shapes
  <2>3. run[t].live[p] <= Len(hist[p]) /\ run[t].list[p].base <= Len(hist[p])
    BY <1>3, <2>1, <2>2 DEF GoodRun, GoodDraft
  <2>4. Len(hist[p]) \in 1..Len(hist[p])
    BY <2>2
  <2> QED
    BY <1>3, <2>3, <2>4 DEF Fetched, Live
<1> QED
  BY <1>1, <1>2, <1>3 DEF Goes

(* A merge always writes what it fetched of the page it is at.             *)
LEMMA MergesFetch == Spec => []AllFetched
<1>1. Init => AllFetched
  BY DEF Init, AllFetched
<1>2. Shapes /\ AllFetched /\ [Next]_vars => AllFetched'
  BY AllFetchedNext
<1> QED
  BY <1>1, <1>2, SessionInShape, PTL DEF Spec

(* No step loses an edit the user saved.                                   *)
LEMMA EditsSafeNext ==
  ASSUME Shapes, AllFetched, EditsSafe, [Next]_vars PROVE EditsSafe'
<1> SUFFICES ASSUME NEW p \in Docs, p \notin raced', NEW e, <<p, e>> \in own'
             PROVE  Safe(over', hist'[p], row'[p], buffer'[p], discarded', e)
  BY DEF EditsSafe
<1>1. CASE <<p, e>> \in own
  <2>1. p \notin raced
    BY RecordStep
  <2>2. e \in 1..edits
    BY <1>1 DEF Shapes, Ledger
  <2>3. Safe(over, hist[p], row[p], buffer[p], discarded, e)
    BY <1>1, <2>1, <2>2 DEF EditsSafe
  <2>4. Safe(over', hist[p], row[p], buffer[p], discarded', e)
    BY <2>3, SafeStays
  <2>5. CASE Still(p)
    BY <2>4, <2>5 DEF Still
  <2>6. CASE Open(p)
    BY <2>4, <2>6, OpenSafe
  <2>7. CASE \E s \in Sections : Save(p, s)
    BY <2>4, <2>7, SaveSafe
  <2>8. CASE \E s \in Sections : Publish(p, s)
    BY <2>4, <2>8, PublishSafe
  <2>9. CASE \E t \in Terminals : Now(t, "merge", "write") /\ Writes(t, p, Rewritten(t, p))
    <3>1. PICK t \in Terminals : Now(t, "merge", "write") /\ Writes(t, p, Rewritten(t, p))
      BY <2>9
    <3>2. \E n \in 1..Len(hist[p]) : run[t].theirs = hist[p][n].text
      BY <3>1 DEF AllFetched, Fetched, Now, Writes
    <3> QED
      BY <2>4, <3>1, <3>2, RewriteSafe
  <2>10. CASE \E t \in Terminals : Now(t, "push", "resolve") /\ Writes(t, p, Resolved(p))
    BY <2>4, <2>10, ResolveSafe
  <2>11. CASE \E t \in Terminals : Aborts(t, p)
    BY <2>4, <2>11, AbortSafe
  <2>12. CASE \E t \in Terminals : Reverts(t, p)
    BY <2>4, <2>12, RevertSafe
  <2>13. CASE \E t \in Terminals : Submits(t, p)
    BY <2>4, <2>13, SubmitSafe
  <2> QED
    BY <2>5, <2>6, <2>7, <2>8, <2>9, <2>10, <2>11, <2>12, <2>13, PageStep DEF Happens
<1>2. CASE <<p, e>> \notin own
  <2>1. e = edits + 1 /\ \E s \in Sections : Save(p, s)
    BY <1>2, RecordStep
  <2> QED
    BY <2>1, SaveSafe
<1> QED
  BY <1>1, <1>2

(* What the user saved is published, in the draft, or in the text that     *)
(* merge --abort brings back, until they ask for it to be thrown away: no  *)
(* sequence of merge, abort, push and saves drops it.                      *)
THEOREM SavedEditsAreKept == Spec => []EditsKept
<1>1. Init => EditsSafe
  BY DEF Init, EditsSafe
<1>2. Shapes /\ AllFetched /\ EditsSafe /\ [Next]_vars => EditsSafe'
  BY EditsSafeNext
<1>3. Shapes /\ EditsSafe => EditsKept
  <2> SUFFICES ASSUME Shapes, EditsSafe, NEW o \in own, o[1] \notin raced
               PROVE  o[2] \in Held(o[1]) \cup discarded
    BY DEF EditsKept
  <2>1. o[1] \in Docs /\ o[2] \in 1..edits /\ <<o[1], o[2]>> \in own
    BY DEF Shapes, Ledger
  <2> DEFINE p == o[1]
             e == o[2]
  <2>2. Safe(over, hist[p], row[p], buffer[p], discarded, e)
    BY <2>1 DEF EditsSafe
  <2> HIDE DEF p, e
  <2>3. \A x : SeenIn(x) = InText(over, x)
    BY DEF SeenIn, Seen, InText, SeenBy
  <2>4. CASE Settled(over, hist[p], discarded, e)
    BY <2>3, <2>4 DEF Settled, Held, Live, p, e
  <2>5. CASE InRow(over, row[p], e)
    BY <2>3, <2>5 DEF InRow, Held, p, e
  <2>6. CASE Behind(over, row[p], e)
    BY <2>3, <2>6 DEF Behind, Held, p, e
  <2> QED
    BY <2>2, <2>4, <2>5, <2>6 DEF Safe, p, e
<1>4. Spec => []EditsSafe
  BY <1>1, <1>2, SessionInShape, MergesFetch, PTL DEF Spec
<1> QED
  BY <1>3, <1>4, SessionInShape, PTL

-----------------------------------------------------------------------------
(* What others published                                                   *)

(* A text a takes account of a text b: it shows every line of it, or an    *)
(* edit that was made over it.                                             *)
Covers(ov, a, b) == \A s \in Sections : b[s] \subseteq SeenBy(ov, a[s])

(* Who saw an edit saw what that was made over.                            *)
Closed(ov, k) ==
  /\ ov \in [1..MaxEdits -> SUBSET (0..k)]
  /\ \A f \in 1..k : \A e \in ov[f] \ {0} : ov[e] \subseteq ov[f]

(* The revisions h of a page take account of each other, the editor b of   *)
(* the one it shows, the draft d of the one it says, and the text to go    *)
(* back to of the one it descends from.                                    *)
Accounted(ov, h, d, b) ==
  /\ \A n \in 1..Len(h) : \A m \in 1..n : Covers(ov, h[n].text, h[m].text)
  /\ Covers(ov, b.text, h[b.shows].text)
  /\ d # NoDraft => Covers(ov, d.text, h[Claims(d)].text)
  /\ d # NoDraft /\ d.pre # NoText => Covers(ov, d.pre, h[d.base].text)

AllAccounted ==
  /\ Closed(over, edits)
  /\ \A p \in Docs \ (outdated \cup raced) : Accounted(over, hist[p], row[p], buffer[p])

(* What is behind an edit one sees, one sees.                              *)
LEMMA SeenClosed ==
  ASSUME NEW k \in Nat, k <= MaxEdits, NEW ov, Closed(ov, k), NEW line \in SUBSET (0..k),
         NEW e \in SeenBy(ov, line), e # 0
  PROVE  e \in 1..k /\ ov[e] \subseteq SeenBy(ov, line)
<1>1. line \ {0} \subseteq 1..k /\ 1..k \subseteq 1..MaxEdits
  BY SessionAssumption
<1>2. CASE e \in line
  <2>1. e \in line \ {0}
    BY <1>2
  <2> QED
    BY <2>1, <1>1 DEF SeenBy
<1>3. CASE e \notin line
  <2>1. PICK f \in line \ {0} : e \in ov[f]
    BY <1>3 DEF SeenBy
  <2>2. f \in 1..k /\ f \in 1..MaxEdits
    BY <1>1
  <2>3. ov[f] \subseteq 0..k
    BY <2>2 DEF Closed
  <2>4. e \in 1..k
    BY <2>1, <2>3
  <2>5. ov[e] \subseteq ov[f]
    BY <2>1, <2>2 DEF Closed
  <2> QED
    BY <2>4, <2>5 DEF SeenBy
<1> QED
  BY <1>2, <1>3

(* Taking account of a text is taking account of what that takes account   *)
(* of.                                                                     *)
LEMMA CoversTrans ==
  ASSUME NEW k \in Nat, k <= MaxEdits, NEW ov, Closed(ov, k),
         NEW a \in Old(k), NEW b \in Old(k), NEW c \in Old(k),
         Covers(ov, a, b), Covers(ov, b, c)
  PROVE  Covers(ov, a, c)
<1> SUFFICES ASSUME NEW s \in Sections, NEW e \in c[s] PROVE e \in SeenBy(ov, a[s])
  BY DEF Covers
<1>1. a[s] \in SUBSET (0..k) /\ b[s] \in SUBSET (0..k)
  BY DEF Old
<1>2. e \in SeenBy(ov, b[s])
  BY DEF Covers
<1>3. b[s] \subseteq SeenBy(ov, a[s])
  BY DEF Covers
<1>4. CASE e \in b[s]
  BY <1>3, <1>4
<1>5. CASE e \notin b[s]
  <2>1. PICK f \in b[s] \ {0} : e \in ov[f]
    BY <1>2, <1>5 DEF SeenBy
  <2>2. f \in SeenBy(ov, a[s]) /\ f # 0
    BY <1>3, <2>1
  <2>3. ov[f] \subseteq SeenBy(ov, a[s])
    BY <1>1, <2>2, SeenClosed
  <2> QED
    BY <2>1, <2>3
<1> QED
  BY <1>4, <1>5

(* A text takes account of itself.                                         *)
LEMMA CoversSelf ==
  ASSUME NEW ov, NEW a PROVE Covers(ov, a, a)
BY DEF Covers, SeenBy

(* A merge takes account of what it merges in, when the draft takes        *)
(* account of the ancestor.                                                *)
LEMMA MergeCovers ==
  ASSUME NEW ov, NEW k \in Nat, NEW b \in Old(k), NEW m \in Old(k), NEW o \in Old(k),
         Covers(ov, m, b)
  PROVE  Covers(ov, Merge(b, m, o), o)
<1> DEFINE x == Merge(b, m, o)
<1>1. \A s \in Sections : \/ x[s] = m[s] \cup o[s]
                          \/ x[s] = o[s]
                          \/ x[s] = m[s] /\ (o[s] = b[s] \/ o[s] = m[s])
  BY DEF Merge, Conflicting
<1> HIDE DEF x
<1>2. \A s \in Sections : b[s] \subseteq SeenBy(ov, m[s])
  BY DEF Covers
<1>3. ASSUME NEW s \in Sections PROVE o[s] \subseteq SeenBy(ov, x[s])
  <2>1. x[s] \subseteq SeenBy(ov, x[s])
    BY DEF SeenBy
  <2>2. CASE x[s] = m[s] \cup o[s] \/ x[s] = o[s]
    BY <2>1, <2>2
  <2>3. CASE x[s] = m[s] /\ (o[s] = b[s] \/ o[s] = m[s])
    BY <1>2, <2>1, <2>3
  <2> QED
    BY <1>1, <2>2, <2>3
<1> QED
  BY <1>3 DEF Covers, x

(* A new edit is made over all that was seen in its place.                 *)
LEMMA ClosedNext ==
  ASSUME Shapes, Closed(over, edits), [Next]_vars PROVE Closed(over', edits')
<1>1. CASE edits' = edits /\ over' = over
  BY <1>1
<1>2. CASE ~(edits' = edits /\ over' = over)
  <2>1. Edited /\ edits \in Nat /\ MaxEdits \in Nat /\ edits <= MaxEdits
        /\ edits + 1 <= MaxEdits
    BY <1>2, RecordStep, SessionAssumption DEF Edited, Shapes
  <2>2. PICK q \in Docs, s \in Sections : Save(q, s) \/ Publish(q, s)
    BY <1>2, MenuPages
    DEF Next, vars, Begin, BeginPush, BeginMerge, BeginAbort, BeginRevert, Started, Fails, Open,
        Step, Manifest, Theirs, Rewrite, Resolve, Restore, Withdraw, Submit, Gone, history, Shapes
  <2>3. PICK b \in Old(edits) : NewEdit(q, s, Seen(b[s]))
    <3>1. CASE Save(q, s)
      BY <3>1 DEF Save, Shapes, GoodBuffers
    <3>2. CASE Publish(q, s)
      <4>1. Live(q) \in 1..Len(hist[q])
        BY AsLong DEF Shapes, Live
      <4>2. hist[q][Live(q)].text \in Old(edits)
        BY <4>1, AsLong DEF Shapes
      <4> QED
        BY <3>2, <4>2 DEF Publish
    <3> QED
      BY <2>2, <3>1, <3>2
  <2>4. over' \in [1..MaxEdits -> SUBSET (0..edits')] /\ edits' = edits + 1
    BY <2>3, EditShapes
  <2>5. over'[edits + 1] = SeenBy(over, b[s])
    <3>1. edits + 1 \in DOMAIN over
      BY <2>1 DEF Shapes, Ledger
    <3> QED
      BY <2>3, <3>1 DEF NewEdit, Seen, SeenBy
  <2>6. \A f \in 1..edits : over'[f] = over[f]
    BY <2>1 DEF Edited
  <2>7. ASSUME NEW f \in 1..edits', NEW e \in over'[f] \ {0} PROVE over'[e] \subseteq over'[f]
    <3>1. CASE f = edits + 1
      <4>1. b[s] \in SUBSET (0..edits)
        BY DEF Old
      <4>2. e \in SeenBy(over, b[s]) /\ e # 0
        BY <2>5, <2>7, <3>1
      <4>3. e \in 1..edits /\ over[e] \subseteq SeenBy(over, b[s])
        BY <2>1, <4>1, <4>2, SeenClosed
      <4> QED
        BY <2>5, <2>6, <3>1, <4>3
    <3>2. CASE f # edits + 1
      <4>1. f \in 1..edits /\ f \in 1..MaxEdits
        <5>1. f \in 1..(edits + 1)
          BY <2>4, <2>7
        <5> QED
          BY <2>1, <3>2, <5>1
      <4>2. e \in over[f] \ {0} /\ over[f] \subseteq 0..edits
        BY <2>6, <2>7, <4>1 DEF Closed
      <4>3. e \in 1..edits
        BY <2>1, <4>2
      <4> QED
        BY <2>6, <4>1, <4>2, <4>3 DEF Closed
    <3> QED
      BY <3>1, <3>2
  <2> QED
    BY <2>4, <2>7 DEF Closed
<1> QED
  BY <1>1, <1>2

(* What is accounted for stays so while others edit.                       *)
LEMMA AccountedStays ==
  ASSUME Shapes, [Next]_vars, NEW p \in Docs, Accounted(over, hist[p], row[p], buffer[p])
  PROVE  Accounted(over', hist[p], row[p], buffer[p])
<1>1. \A x \in Old(edits) : \A y : Covers(over', x, y) <=> Covers(over, x, y)
  BY SeenStep DEF Covers
<1>2. \A n \in 1..Len(hist[p]) : hist[p][n].text \in Old(edits)
  BY AsLong DEF Shapes
<1>3. buffer[p].text \in Old(edits)
  BY DEF Shapes, GoodBuffers
<1>4. row[p] # NoDraft => row[p].text \in Old(edits) /\ row[p].pre \in Old(edits) \cup {NoText}
  BY DEF Shapes, GoodDrafts, GoodDraft
<1> QED
  BY <1>1, <1>2, <1>3, <1>4 DEF Accounted

(* Opening a page shows a draft that takes account of what it says, or     *)
(* what is live.                                                           *)
LEMMA OpenAccounted ==
  ASSUME Shapes, NEW p \in Docs, Open(p), NEW ov,
         Accounted(ov, hist[p], row[p], buffer[p])
  PROVE  Accounted(ov, hist'[p], row'[p], buffer'[p])
<1>1. hist'[p] = hist[p] /\ row'[p] = row[p]
  BY DEF Open, server
<1>2. /\ row[p] # NoDraft => buffer'[p].text = row[p].text /\ buffer'[p].shows = Claims(row[p])
      /\ row[p] = NoDraft => /\ buffer'[p].text = hist[p][Live(p)].text
                             /\ buffer'[p].shows = Live(p)
  BY DEF Open, Shapes, GoodBuffers
<1>3. Covers(ov, buffer'[p].text, hist[p][buffer'[p].shows].text)
  BY <1>2, CoversSelf DEF Accounted
<1> QED
  BY <1>1, <1>3 DEF Accounted

(* A save from an editor that shows what the draft says.                   *)
LEMMA SaveAccounted ==
  ASSUME Shapes, [Next]_vars, NEW p \in Docs, p \notin outdated', NEW s \in Sections, Save(p, s),
         Accounted(over', hist[p], row[p], buffer[p])
  PROVE  Accounted(over', hist'[p], row'[p], buffer'[p])
<1>1. PICK x \in Old(edits + 1) :
           /\ x = [buffer[p].text EXCEPT ![s] = {edits + 1}]
           /\ buffer[p].text \in Old(edits) /\ buffer'[p].text = x
           /\ buffer'[p].shows = buffer[p].shows
           /\ hist'[p] = hist[p]
           /\ row'[p].text = x
           /\ row[p] # NoDraft => row'[p].pre = row[p].pre /\ row'[p].base = row[p].base
           /\ row[p] = NoDraft => row'[p].pre = NoText
           /\ Claims(row'[p]) # buffer[p].shows => p \in outdated'
           /\ over' = [over EXCEPT ![edits + 1] = Seen(buffer[p].text[s])]
           /\ edits \in Nat /\ edits < MaxEdits
  BY SaveDoes
<1>2. over'[edits + 1] = SeenBy(over', buffer[p].text[s])
  <2>1. edits + 1 \in DOMAIN over
    BY <1>1, SessionAssumption DEF Shapes, Ledger
  <2>2. over'[edits + 1] = SeenBy(over, buffer[p].text[s])
    BY <1>1, <2>1 DEF Seen, SeenBy
  <2> QED
    BY <1>1, <2>2, SeenStep
<1>3. \A r \in Sections : SeenBy(over', buffer[p].text[r]) \subseteq SeenBy(over', x[r])
  <2> DEFINE ow == over'
             b == buffer[p].text
  <2>1. b \in Old(edits) /\ edits \in Nat /\ ow[edits + 1] = SeenBy(ow, b[s])
    BY <1>1, <1>2
  <2>2. x[s] = {edits + 1} /\ \A r \in Sections : r # s => x[r] = b[r]
    BY <1>1 DEF Old
  <2> HIDE DEF ow, b
  <2>3. Shows(ow, x, b)
    BY <2>1, <2>2, SaveShows
  <2> QED
    BY <2>3 DEF ow, b, Shows
<1>4. Covers(over', x, hist[p][buffer[p].shows].text)
  BY <1>3 DEF Accounted, Covers
<1>5. Claims(row'[p]) = buffer[p].shows
  BY <1>1
<1> QED
  BY <1>1, <1>4, <1>5 DEF Accounted

(* A revision on top of what is live takes account of all of them.         *)
LEMMA AppendAccounted ==
  ASSUME Shapes, NEW p \in Docs, NEW v, hist'[p] = Append(hist[p], v), NEW ov, NEW k \in Nat,
         edits <= k, k <= MaxEdits, Closed(ov, k), v.text \in Old(k),
         Covers(ov, v.text, hist[p][Live(p)].text),
         Accounted(ov, hist[p], row[p], buffer[p])
  PROVE  \A n \in 1..Len(hist'[p]) : \A m \in 1..n :
           Covers(ov, hist'[p][n].text, hist'[p][m].text)
<1>1. /\ Len(hist'[p]) = Len(hist[p]) + 1 /\ hist'[p][Len(hist[p]) + 1] = v
      /\ Len(hist[p]) \in Nat /\ Len(hist[p]) >= 1
      /\ \A n \in 1..Len(hist[p]) : hist'[p][n] = hist[p][n]
  BY OneMore DEF Live
<1>2. edits \in Nat /\ Old(edits) \subseteq Old(k)
  BY OldGrows DEF Shapes
<1>3. \A n \in 1..Len(hist[p]) : hist[p][n].text \in Old(k)
  BY <1>2, AsLong DEF Shapes
<1>4. ASSUME NEW n \in 1..Len(hist[p]), NEW m \in 1..n
      PROVE  Covers(ov, hist'[p][n].text, hist'[p][m].text)
  <2>1. m \in 1..Len(hist[p])
    BY <1>1
  <2> QED
    BY <1>1, <2>1 DEF Accounted
<1>5. ASSUME NEW m \in 1..Len(hist[p]) PROVE Covers(ov, v.text, hist[p][m].text)
  <2>1. Len(hist[p]) \in 1..Len(hist[p]) /\ m \in 1..Len(hist[p])
    BY <1>1
  <2>2. Covers(ov, hist[p][Len(hist[p])].text, hist[p][m].text)
    BY <2>1 DEF Accounted
  <2> QED
    BY <1>3, <2>1, <2>2, CoversTrans DEF Live
<1>6. Covers(ov, v.text, v.text)
  BY CoversSelf
<1>7. ASSUME NEW n \in 1..Len(hist'[p]), NEW m \in 1..n
      PROVE  Covers(ov, hist'[p][n].text, hist'[p][m].text)
  <2>1. CASE n = Len(hist[p]) + 1
    <3>1. m \in 1..Len(hist[p]) \/ m = Len(hist[p]) + 1
      BY <1>1, <2>1
    <3>2. CASE m \in 1..Len(hist[p])
      BY <1>1, <1>5, <2>1, <3>2
    <3>3. CASE m = Len(hist[p]) + 1
      BY <1>1, <1>6, <2>1, <3>3
    <3> QED
      BY <3>1, <3>2, <3>3
  <2>2. CASE n # Len(hist[p]) + 1
    <3>1. n \in 1..Len(hist[p])
      BY <1>1, <2>2
    <3> QED
      BY <1>4, <3>1
  <2> QED
    BY <2>1, <2>2
<1> QED
  BY <1>7

(* Somebody else edits what is live.                                       *)
LEMMA PublishAccounted ==
  ASSUME Shapes, [Next]_vars, NEW p \in Docs, NEW s \in Sections, Publish(p, s),
         Closed(over', edits'), Accounted(over', hist[p], row[p], buffer[p])
  PROVE  Accounted(over', hist'[p], row'[p], buffer'[p])
<1> DEFINE b == hist[p][Live(p)].text
           x == [b EXCEPT ![s] = {edits + 1}]
           v == [text |-> x, own |-> FALSE]
           ow == over'
           k == edits + 1
<1>1. /\ hist'[p] = Append(hist[p], v) /\ row'[p] = row[p] /\ buffer'[p] = buffer[p]
      /\ NewEdit(p, s, Seen(b[s]))
  BY DEF Publish, Shapes, Histories
<1>2. Live(p) \in 1..Len(hist[p]) /\ b \in Old(edits) /\ Len(hist[p]) \in Nat
  BY AsLong DEF Shapes, Live
<1>3. /\ edits \in Nat /\ k \in Nat /\ edits <= k /\ k <= MaxEdits /\ edits' = k
      /\ edits + 1 \in 1..MaxEdits
  BY SessionAssumption, <1>1 DEF NewEdit, Shapes
<1>4. ow[edits + 1] = SeenBy(ow, b[s])
  <2>1. over'[edits + 1] = SeenBy(over, b[s])
    BY <1>1, <1>3 DEF NewEdit, Seen, SeenBy, Shapes, Ledger
  <2> QED
    BY <1>2, <2>1, SeenStep
<1>5. x[s] = {edits + 1} /\ (\A r \in Sections : r # s => x[r] = b[r]) /\ x \in Old(k)
  BY <1>2, <1>3, EditOld DEF Old
<1>6. v.text = x
  OBVIOUS
<1>7. Closed(ow, k) /\ Accounted(ow, hist[p], row[p], buffer[p])
  BY <1>3
<1> HIDE DEF b, x, v, ow
<1>8. Shows(ow, x, b)
  BY <1>2, <1>3, <1>4, <1>5, SaveShows
<1>9. Covers(ow, x, b)
  BY <1>8 DEF Covers, SeenBy, Shows
<1>10. \A n \in 1..Len(hist'[p]) : \A m \in 1..n :
           Covers(ow, hist'[p][n].text, hist'[p][m].text)
  <2>1. Covers(ow, v.text, hist[p][Live(p)].text) /\ v.text \in Old(k)
    BY <1>5, <1>6, <1>9 DEF b
  <2> QED
    BY <1>1, <1>3, <1>7, <2>1, AppendAccounted
<1>11. \A n \in 1..Len(hist[p]) : hist'[p][n] = hist[p][n]
  BY <1>1, OneMore DEF Live
<1>12. buffer[p].shows \in 1..Len(hist[p])
  BY DEF Shapes, GoodBuffers
<1>13. row[p] # NoDraft => Claims(row[p]) \in 1..Len(hist[p]) /\ row[p].base \in 1..Len(hist[p])
  BY <1>2 DEF Shapes, GoodDrafts, GoodDraft, Claims, Later
<1>14. Accounted(ow, hist'[p], row[p], buffer[p])
  BY <1>7, <1>10, <1>11, <1>12, <1>13 DEF Accounted
<1> QED
  BY <1>1, <1>14 DEF ow

(* A push publishes a draft that descends from what is live.               *)
LEMMA SubmitAccounted ==
  ASSUME Shapes, NEW p \in Docs, NEW t, Submits(t, p), NEW ov, NEW k \in Nat,
         edits <= k, k <= MaxEdits, Closed(ov, k),
         Accounted(ov, hist[p], row[p], buffer[p])
  PROVE  Accounted(ov, hist'[p], row'[p], buffer'[p])
<1> DEFINE v == [text |-> row[p].text, own |-> TRUE]
<1>1. /\ row[p] # NoDraft /\ row[p].base = Live(p) /\ row'[p] = NoDraft
      /\ hist'[p] = Append(hist[p], v) /\ v.text = row[p].text
      /\ \/ buffer'[p] = buffer[p]
         \/ /\ buffer[p].text = row[p].text
            /\ buffer'[p] = [buffer[p] EXCEPT !.shows = Live(p) + 1]
  BY DEF Submits
<1> HIDE DEF v
<1>2. GoodDraft(edits, Len(hist[p]), row[p]) /\ Len(hist[p]) \in Nat /\ Len(hist[p]) >= 1
  BY <1>1, AsLong DEF Shapes, GoodDrafts
<1>3. Claims(row[p]) = Live(p)
  BY <1>1, <1>2 DEF GoodDraft, Claims, Later, Live
<1>4. edits \in Nat /\ Old(edits) \subseteq Old(k)
  BY OldGrows DEF Shapes
<1>5. v.text \in Old(k) /\ Covers(ov, v.text, hist[p][Live(p)].text)
  BY <1>1, <1>2, <1>3, <1>4 DEF GoodDraft, Accounted
<1>6. \A n \in 1..Len(hist'[p]) : \A m \in 1..n :
           Covers(ov, hist'[p][n].text, hist'[p][m].text)
  BY <1>1, <1>4, <1>5, AppendAccounted
<1>7. /\ hist'[p][Live(p) + 1] = v
      /\ \A n \in 1..Len(hist[p]) : hist'[p][n] = hist[p][n]
  BY <1>1, OneMore DEF Live
<1>8. Covers(ov, buffer'[p].text, hist'[p][buffer'[p].shows].text)
  <2>1. CASE buffer'[p] = buffer[p]
    <3>1. buffer[p].shows \in 1..Len(hist[p])
      BY DEF Shapes, GoodBuffers
    <3> QED
      BY <1>7, <2>1, <3>1 DEF Accounted
  <2>2. CASE /\ buffer[p].text = row[p].text
             /\ buffer'[p] = [buffer[p] EXCEPT !.shows = Live(p) + 1]
    <3>1. buffer'[p].text = row[p].text /\ buffer'[p].shows = Live(p) + 1
      BY <2>2 DEF Shapes, GoodBuffers
    <3> QED
      BY <1>1, <1>7, <3>1, CoversSelf
  <2> QED
    BY <1>1, <2>1, <2>2
<1> QED
  BY <1>1, <1>6, <1>8 DEF Accounted

(* A merge writes a text that takes account of what it fetched, and keeps  *)
(* one to go back to.                                                      *)
LEMMA RewriteAccounted ==
  ASSUME Shapes, AllFetched, NEW p \in Docs, p \notin raced', NEW t \in Terminals,
         Now(t, "merge", "write"), Writes(t, p, Rewritten(t, p)), NEW ov, NEW k \in Nat,
         edits <= k, k <= MaxEdits, Closed(ov, k),
         Accounted(ov, hist[p], row[p], buffer[p])
  PROVE  Accounted(ov, hist'[p], row'[p], buffer'[p])
<1> DEFINE d == row[p]
           b == hist[p][d.base].text
           n == row'[p]
<1>1. /\ d # NoDraft /\ p = First(run[t].todo) /\ p \in run[t].todo /\ run[t].list[p] = d
      /\ hist'[p] = hist[p] /\ buffer'[p] = buffer[p] /\ n = Rewritten(t, p)
  BY DEF Writes
<1>2. /\ GoodDraft(edits, Len(hist[p]), n) /\ d.base \in 1..Len(hist[p])
      /\ n.text = Merge(b, d.text, run[t].theirs)
      /\ n.pre = Kept(d) /\ n.base = d.base /\ n.from = run[t].live[p]
  BY <1>1, RewrittenGood
<1>3. PICK m \in 1..Len(hist[p]) : /\ run[t].theirs = hist[p][m].text
                                   /\ run[t].live[p] <= m /\ d.base <= m
  BY <1>1 DEF AllFetched, Fetched, Now
<1>4. GoodDraft(edits, Len(hist[p]), d) /\ Len(hist[p]) \in Nat
  BY <1>1, AsLong DEF Shapes, GoodDrafts
<1>5. \A j \in 1..Len(hist[p]) : hist[p][j].text \in Old(edits)
  BY AsLong DEF Shapes
<1>6. d.text \in Old(edits) /\ n.text \in Old(edits)
  BY <1>2, <1>4 DEF GoodDraft
<1>7. edits \in Nat /\ Old(edits) \subseteq Old(k)
  BY OldGrows DEF Shapes
<1>8. Claims(d) \in 1..Len(hist[p]) /\ d.base \in 1..Claims(d)
  BY <1>4 DEF GoodDraft, Claims, Later
<1>9. Covers(ov, hist[p][Claims(d)].text, b)
  BY <1>8 DEF Accounted
<1>10. Covers(ov, d.text, hist[p][Claims(d)].text)
  BY <1>1 DEF Accounted
<1>11. b \in Old(edits) /\ hist[p][Claims(d)].text \in Old(edits)
       /\ run[t].theirs \in Old(edits)
  BY <1>2, <1>3, <1>5, <1>8
<1>12. Covers(ov, d.text, b)
  BY <1>6, <1>7, <1>9, <1>10, <1>11, CoversTrans
<1>13. Covers(ov, n.text, run[t].theirs)
  BY <1>2, <1>6, <1>7, <1>11, <1>12, MergeCovers
<1>14. Claims(n) \in 1..m
  BY <1>2, <1>3, <1>4 DEF GoodDraft, Claims, Later
<1>15. Covers(ov, hist[p][m].text, hist[p][Claims(n)].text) /\ Claims(n) \in 1..Len(hist[p])
  BY <1>3, <1>4, <1>14 DEF Accounted
<1>16. Covers(ov, n.text, hist[p][Claims(n)].text)
  BY <1>3, <1>5, <1>6, <1>7, <1>11, <1>13, <1>15, CoversTrans
<1>17. Covers(ov, n.pre, hist[p][n.base].text)
  BY <1>1, <1>2, <1>12 DEF Kept, Accounted
<1> HIDE DEF n
<1>18. Accounted(ov, hist[p], n, buffer[p])
  BY <1>16, <1>17 DEF Accounted
<1> QED
  BY <1>1, <1>18 DEF n

(* Resolving says of the draft what merging made true.                     *)
LEMMA ResolveAccounted ==
  ASSUME Shapes, NEW p \in Docs, NEW t, Writes(t, p, Resolved(p)), NEW ov, NEW k \in Nat,
         edits <= k, k <= MaxEdits, Closed(ov, k),
         Accounted(ov, hist[p], row[p], buffer[p])
  PROVE  Accounted(ov, hist'[p], row'[p], buffer'[p])
<1> DEFINE d == row[p]
           n == row'[p]
<1>1. d # NoDraft /\ hist'[p] = hist[p] /\ buffer'[p] = buffer[p] /\ n = Resolved(p)
  BY DEF Writes
<1>2. /\ GoodDraft(edits, Len(hist[p]), n) /\ n.text = d.text /\ n.pre = NoText /\ n.from = 0
      /\ n.base = IF d.from # 0 THEN d.from ELSE d.base
  BY <1>1, ResolvedGood
<1>3. GoodDraft(edits, Len(hist[p]), d) /\ Len(hist[p]) \in Nat
  BY <1>1, AsLong DEF Shapes, GoodDrafts
<1>4. Claims(d) \in 1..Len(hist[p]) /\ Claims(n) \in 1..Claims(d)
  BY <1>2, <1>3 DEF GoodDraft, Claims, Later
<1>5. Covers(ov, d.text, hist[p][Claims(d)].text)
  BY <1>1 DEF Accounted
<1>6. Covers(ov, hist[p][Claims(d)].text, hist[p][Claims(n)].text)
  BY <1>4 DEF Accounted
<1>7. /\ d.text \in Old(edits) /\ hist[p][Claims(d)].text \in Old(edits)
      /\ hist[p][Claims(n)].text \in Old(edits)
  <2>1. Claims(n) \in 1..Len(hist[p])
    BY <1>3, <1>4
  <2> QED
    BY <1>3, <1>4, <2>1, AsLong DEF Shapes, GoodDraft
<1>8. edits \in Nat /\ Old(edits) \subseteq Old(k)
  BY OldGrows DEF Shapes
<1>9. Covers(ov, d.text, hist[p][Claims(n)].text)
  BY <1>5, <1>6, <1>7, <1>8, CoversTrans
<1> HIDE DEF n
<1>10. Accounted(ov, hist[p], n, buffer[p])
  BY <1>2, <1>9 DEF Accounted
<1> QED
  BY <1>1, <1>10 DEF n

(* Aborting brings back a text that takes account of what the draft        *)
(* descends from.                                                          *)
LEMMA AbortAccounted ==
  ASSUME Shapes, NEW p \in Docs, NEW t, Aborts(t, p), NEW ov,
         Accounted(ov, hist[p], row[p], buffer[p])
  PROVE  Accounted(ov, hist'[p], row'[p], buffer'[p])
<1> DEFINE d == row[p]
           n == row'[p]
<1>1. d # NoDraft /\ hist'[p] = hist[p] /\ buffer'[p] = buffer[p] /\ n = Restored(p)
  BY DEF Aborts, Writes
<1>2. /\ n.text = IF d.pre # NoText THEN d.pre ELSE d.text
      /\ n.pre = NoText /\ n.from = 0 /\ n.base = d.base
  BY <1>1, RestoredGood
<1>3. GoodDraft(edits, Len(hist[p]), d) /\ Len(hist[p]) \in Nat
  BY <1>1, AsLong DEF Shapes, GoodDrafts
<1>4. Claims(n) = d.base
  BY <1>2, <1>3 DEF GoodDraft, Claims, Later
<1>5. CASE d.pre # NoText
  <2>1. Covers(ov, n.text, hist[p][Claims(n)].text)
    BY <1>1, <1>2, <1>4, <1>5 DEF Accounted
  <2> HIDE DEF n
  <2>2. Accounted(ov, hist[p], n, buffer[p])
    BY <1>2, <2>1 DEF Accounted
  <2> QED
    BY <1>1, <2>2 DEF n
<1>6. CASE d.pre = NoText
  <2>1. Claims(d) = d.base
    BY <1>3, <1>6 DEF GoodDraft, Claims, Later
  <2>2. Covers(ov, n.text, hist[p][Claims(n)].text)
    BY <1>1, <1>2, <1>4, <1>6, <2>1 DEF Accounted
  <2> HIDE DEF n
  <2>3. Accounted(ov, hist[p], n, buffer[p])
    BY <1>2, <2>2 DEF Accounted
  <2> QED
    BY <1>1, <2>3 DEF n
<1> QED
  BY <1>5, <1>6

(* No step loses what others published.                                    *)
LEMMA AllAccountedNext ==
  ASSUME Shapes, AllFetched, AllAccounted, [Next]_vars PROVE AllAccounted'
<1>1. Closed(over', edits')
  BY ClosedNext DEF AllAccounted
<1>2. ASSUME NEW p \in Docs, p \notin raced', p \notin outdated'
      PROVE  Accounted(over', hist'[p], row'[p], buffer'[p])
  <2>1. p \notin raced /\ p \notin outdated
    BY <1>2, RecordStep
  <2>2. Accounted(over, hist[p], row[p], buffer[p])
    BY <2>1 DEF AllAccounted
  <2>3. Accounted(over', hist[p], row[p], buffer[p])
    BY <2>2, AccountedStays
  <2>4. edits \in Nat /\ edits' \in Nat /\ edits <= edits' /\ edits' <= MaxEdits
    BY RecordStep, SessionAssumption DEF Shapes, Edited
  <2>5. CASE Still(p)
    BY <2>3, <2>5 DEF Still
  <2>6. CASE Open(p)
    BY <2>3, <2>6, OpenAccounted
  <2>7. CASE \E s \in Sections : Save(p, s)
    BY <1>2, <2>3, <2>7, SaveAccounted
  <2>8. CASE \E s \in Sections : Publish(p, s)
    BY <1>1, <2>3, <2>8, PublishAccounted
  <2>9. CASE \E t \in Terminals : Now(t, "merge", "write") /\ Writes(t, p, Rewritten(t, p))
    BY <1>1, <1>2, <2>3, <2>4, <2>9, RewriteAccounted
  <2>10. CASE \E t \in Terminals : Now(t, "push", "resolve") /\ Writes(t, p, Resolved(p))
    BY <1>1, <2>3, <2>4, <2>10, ResolveAccounted
  <2>11. CASE \E t \in Terminals : Aborts(t, p)
    BY <2>3, <2>11, AbortAccounted
  <2>12. CASE \E t \in Terminals : Reverts(t, p)
    BY <2>3, <2>12 DEF Reverts, Writes, Accounted
  <2>13. CASE \E t \in Terminals : Submits(t, p)
    BY <1>1, <2>3, <2>4, <2>13, SubmitAccounted
  <2> QED
    BY <2>5, <2>6, <2>7, <2>8, <2>9, <2>10, <2>11, <2>12, <2>13, PageStep DEF Happens
<1> QED
  BY <1>1, <1>2 DEF AllAccounted

(* Nothing was seen before anything was published.                         *)
LEMMA InitAccounted == Init => AllAccounted
<1> SUFFICES ASSUME Init PROVE AllAccounted
  OBVIOUS
<1> DEFINE x == [s \in Sections |-> {0}]
           v == [text |-> x, own |-> FALSE]
<1>1. edits = 0 /\ over = [e \in 1..MaxEdits |-> {}]
  BY DEF Init
<1>2. Closed(over, edits)
  BY <1>1 DEF Closed
<1>3. hist = [p \in Docs |-> <<v>>] /\ row = [p \in Docs |-> NoDraft]
      /\ buffer = [p \in Docs |-> [text |-> x, shows |-> 1]]
  BY DEF Init
<1>4. v.text = x
  OBVIOUS
<1> HIDE DEF x, v
<1>5. ASSUME NEW p \in Docs PROVE Accounted(over, hist[p], row[p], buffer[p])
  <2>1. /\ hist[p] = <<v>> /\ row[p] = NoDraft
        /\ buffer[p].text = x /\ buffer[p].shows = 1
    BY <1>3
  <2>2. Len(hist[p]) = 1 /\ hist[p][1].text = x
    BY <1>4, <2>1
  <2>3. \A n \in 1..Len(hist[p]) : n = 1 /\ \A m \in 1..n : m = 1
    BY <2>2
  <2>4. Covers(over, x, x)
    BY CoversSelf
  <2> QED
    BY <2>1, <2>2, <2>3, <2>4 DEF Accounted
<1> QED
  BY <1>2, <1>5 DEF AllAccounted

(* The revision that follows another takes account of every edit of it:    *)
(* base_version, the merge and resolve_merge's rebase keep what others     *)
(* published, whatever they publish between any two requests.              *)
THEOREM NoUpdateIsLost == Spec => []NoLostUpdate
<1>1. Init => AllAccounted
  BY InitAccounted
<1>2. Shapes /\ AllFetched /\ AllAccounted /\ [Next]_vars => AllAccounted'
  BY AllAccountedNext
<1>3. Shapes /\ AllAccounted => NoLostUpdate
  <2> SUFFICES ASSUME Shapes, AllAccounted, NEW p \in Docs \ (outdated \cup raced),
                      NEW n \in 2..Live(p), NEW s \in Sections
               PROVE  hist[p][n - 1].text[s] \subseteq Seen(hist[p][n].text[s])
    BY DEF NoLostUpdate
  <2>1. Live(p) \in Nat
    BY AsLong DEF Shapes, Live
  <2>2. n \in 1..Len(hist[p]) /\ n - 1 \in 1..n
    BY <2>1 DEF Live
  <2>3. Covers(over, hist[p][n].text, hist[p][n - 1].text)
    BY <2>2 DEF AllAccounted, Accounted
  <2> QED
    BY <2>3 DEF Covers, Seen, SeenBy
<1>4. Spec => []AllAccounted
  BY <1>1, <1>2, SessionInShape, MergesFetch, PTL DEF Spec
<1> QED
  BY <1>3, <1>4, SessionInShape, PTL
=============================================================================
