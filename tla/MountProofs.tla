------------------------------ MODULE MountProofs ---------------------------
(***************************************************************************)
(* What the mount keeps, for any documents, paths, applications and bounds *)
(* and in whatever order the handlers interleave.                          *)
(***************************************************************************)
EXTENDS Mount, FunctionTheorems, FiniteSetTheorems, WellFoundedInduction, TLAPS

-----------------------------------------------------------------------------
(* The inode table by itself                                               *)

(* What the table holds: numbers below the next one, and counts.           *)
Books ==
  /\ DOMAIN byInode \subseteq Numbers
  /\ lookups \in [Numbers -> Nat] /\ held \in [Numbers -> Nat]
  /\ next \in Nat /\ Root < next
  /\ \A i \in DOMAIN byInode : i < next

(* A key leads to a number that leads back to it.                          *)
KeysLead ==
  \A k \in DOMAIN byKey : byKey[k] \in DOMAIN byInode /\ byInode[byKey[k]] = k

(* The table counts what the kernel holds, and keeps it.                   *)
HeldKept ==
  \A i \in Numbers \ {Root} : lookups[i] = held[i] /\ (held[i] > 0 => i \in DOMAIN byInode)

Table == Books /\ KeysLead /\ HeldKept

(* The root's number is one of the numbers there are.                      *)
LEMMA Numbering == Root \in Numbers /\ Numbers \subseteq Nat /\ Root = 1
BY InodesAssumption DEF Numbers, Root

(* A table that starts again with the root is in order.                    *)
LEMMA TableReset ==
  ASSUME NEW k, InodesReset(k) PROVE Table'
<1>1. Books'
  BY InodesAssumption, Numbering DEF InodesReset, Books, Only, Numbers, Root
<1>2. KeysLead'
  BY DEF InodesReset, KeysLead, Only
<1>3. HeldKept'
  BY DEF InodesReset, HeldKept
<1> QED
  BY <1>1, <1>2, <1>3 DEF Table

(* Pinning the root to another key keeps the table in order.               *)
LEMMA TablePin ==
  ASSUME NEW k, Table, PinRoot(k) PROVE Table'
<1> USE DEF Table
<1>1. CASE Root \in DOMAIN byInode /\ byInode[Root] = k
  <2>1. UNCHANGED inodeVars
    BY <1>1 DEF PinRoot, inodeVars
  <2> QED
    BY <2>1 DEF inodeVars, Books, KeysLead, HeldKept
<1>2. CASE ~ (Root \in DOMAIN byInode /\ byInode[Root] = k)
  <2> DEFINE old == IF Root \in DOMAIN byInode THEN {byInode[Root]} ELSE {}
  <2>1. /\ byKey' = With(Without(byKey, old), k, Root)
        /\ byInode' = With(byInode, Root, k)
        /\ UNCHANGED <<lookups, next, held>>
    BY <1>2 DEF PinRoot
  <2>2. Books' /\ HeldKept'
    BY <2>1, Numbering DEF Books, HeldKept, With
  <2>3. \A x \in DOMAIN byKey : byKey[x] = Root => x \in old
    BY DEF KeysLead
  <2>4. KeysLead'
    BY <2>1, <2>3 DEF KeysLead, With, Without
  <2> QED
    BY <2>2, <2>4
<1> QED
  BY <1>1, <1>2

(* A key has a number afterwards, and no number leads elsewhere.           *)
LEMMA TableAllocate ==
  ASSUME NEW k, Table, Allocate(k)
  PROVE  /\ DOMAIN byInode' \subseteq Numbers
         /\ next' \in Nat /\ Root < next'
         /\ \A i \in DOMAIN byInode' : i < next'
         /\ KeysLead'
         /\ DOMAIN byInode \subseteq DOMAIN byInode'
         /\ InodeOf(k) \in DOMAIN byInode'
<1> USE DEF Table
<1>1. CASE k \in DOMAIN byKey
  BY <1>1 DEF Allocate, Books, KeysLead, InodeOf
<1>2. CASE k \notin DOMAIN byKey
  <2>1. /\ next <= MaxInode /\ byKey' = With(byKey, k, next)
        /\ byInode' = With(byInode, next, k) /\ next' = next + 1
    BY <1>2 DEF Allocate
  <2>2. next \in Numbers
    BY <2>1, InodesAssumption DEF Books, Numbers, Root
  <2>3. \A i \in DOMAIN byInode : i \in Nat /\ i < next
    BY Numbering DEF Books
  <2>4. /\ DOMAIN byInode' = DOMAIN byInode \cup {next}
        /\ next' \in Nat /\ Root < next'
    BY <2>1, Numbering DEF Books, With
  <2>5. \A i \in DOMAIN byInode' : i < next'
    BY <2>1, <2>3, <2>4 DEF Books
  <2>6. KeysLead'
    BY <2>1, <2>3 DEF KeysLead, With
  <2>7. InodeOf(k) = next
    BY <1>2 DEF InodeOf
  <2> QED
    BY <2>2, <2>4, <2>5, <2>6, <2>7 DEF Books
<1> QED
  BY <1>1, <1>2

(* Handing an entry out is counted on both sides.                          *)
LEMMA TableHand ==
  ASSUME NEW k, Table, Hand(k) PROVE Table'
<1> DEFINE i == InodeOf(k)
<1>1. /\ DOMAIN byInode' \subseteq Numbers /\ next' \in Nat /\ Root < next'
      /\ \A j \in DOMAIN byInode' : j < next'
      /\ KeysLead' /\ DOMAIN byInode \subseteq DOMAIN byInode' /\ i \in DOMAIN byInode'
  BY TableAllocate DEF Hand
<1>2. /\ lookups' = IF i = Root THEN lookups ELSE [lookups EXCEPT ![i] = @ + 1]
      /\ held' = [held EXCEPT ![i] = @ + 1]
  BY DEF Hand, Remembered
<1> HIDE DEF i
<1>3. Books'
  BY <1>1, <1>2 DEF Table, Books
<1>4. HeldKept'
  BY <1>1, <1>2 DEF Table, HeldKept, Books
<1> QED
  BY <1>1, <1>3, <1>4 DEF Table

(* A number the kernel never saw does no harm.                             *)
LEMMA TableMint ==
  ASSUME NEW k, Table, Mint(k) PROVE Table'
<1>1. UNCHANGED <<lookups, held>> /\ Allocate(k)
  BY DEF Mint
<1> QED
  BY <1>1, TableAllocate DEF Table, Books, HeldKept

(* The last reference takes the number with it, and no other does.         *)
LEMMA TableForget ==
  ASSUME NEW i \in Numbers, NEW n, Table, Forget(i, n) PROVE Table'
<1> USE DEF Table
<1>1. n \in Nat /\ n > 0 /\ n <= held[i]
  BY DEF Forget, Books
<1>2. held' = [held EXCEPT ![i] = @ - n] /\ next' = next
  BY DEF Forget
<1>3. CASE /\ i = Root \/ lookups[i] > n
           /\ lookups' = IF i = Root THEN lookups ELSE [lookups EXCEPT ![i] = @ - n]
           /\ UNCHANGED <<byKey, byInode>>
  <2>1. Books'
    BY <1>1, <1>2, <1>3 DEF Books
  <2>2. HeldKept'
    BY <1>1, <1>2, <1>3 DEF Books, HeldKept
  <2>3. KeysLead'
    BY <1>3 DEF KeysLead
  <2> QED
    BY <2>1, <2>2, <2>3
<1>4. CASE /\ i # Root /\ lookups[i] <= n
           /\ lookups' = [lookups EXCEPT ![i] = 0]
           /\ byInode' = Without(byInode, {i})
           /\ byKey' = IF /\ i \in DOMAIN byInode /\ byInode[i] \in DOMAIN byKey
                          /\ byKey[byInode[i]] = i
                       THEN Without(byKey, {byInode[i]}) ELSE byKey
  <2>1. held[i] = n
    BY <1>1, <1>4 DEF HeldKept, Books
  <2>2. Books'
    BY <1>1, <1>2, <1>4 DEF Books, Without
  <2>3. HeldKept'
    BY <1>1, <1>2, <1>4, <2>1 DEF Books, HeldKept, Without
  <2>4. \A k \in DOMAIN byKey : byKey[k] = i => /\ i \in DOMAIN byInode /\ byInode[i] = k
    BY DEF KeysLead
  <2>5. KeysLead'
    BY <1>4, <2>4 DEF KeysLead, Without
  <2> QED
    BY <2>2, <2>3, <2>5
<1> QED
  BY <1>3, <1>4 DEF Forget

(* A number that changes its key leaves nothing behind at the old one.     *)
LEMMA TableRekey ==
  ASSUME NEW old, NEW new, Table, Rekey(old, new) PROVE Table'
<1> USE DEF Table
<1>1. CASE old \notin DOMAIN byKey
  <2>1. UNCHANGED inodeVars
    BY <1>1 DEF Rekey, inodeVars
  <2> QED
    BY <2>1 DEF inodeVars, Books, KeysLead, HeldKept
<1>2. CASE old \in DOMAIN byKey
  <2> DEFINE i == byKey[old]
  <2>1. /\ byKey' = With(Without(byKey, {old}), new, i)
        /\ byInode' = With(byInode, i, new) /\ UNCHANGED <<lookups, next, held>>
    BY <1>2 DEF Rekey
  <2>2. i \in DOMAIN byInode /\ byInode[i] = old
    BY <1>2 DEF KeysLead
  <2>3. DOMAIN byInode' = DOMAIN byInode
    BY <2>1, <2>2 DEF With
  <2>4. Books' /\ HeldKept'
    BY <2>1, <2>3 DEF Books, HeldKept
  <2>5. \A k \in DOMAIN byKey : byKey[k] = i => k = old
    BY <2>2 DEF KeysLead
  <2>6. KeysLead'
    BY <2>1, <2>2, <2>5 DEF KeysLead, With, Without
  <2> QED
    BY <2>4, <2>6
<1> QED
  BY <1>1, <1>2

(* The table begins in order, whichever key the root has.                  *)
LEMMA TableInit ==
  ASSUME InodesInit PROVE Table
<1>1. PICK k \in Keys : byKey = Only(k, Root) /\ byInode = Only(Root, k)
  BY DEF InodesInit
<1>2. Books
  BY <1>1, Numbering DEF InodesInit, Books, Only
<1>3. KeysLead
  BY <1>1 DEF KeysLead, Only
<1>4. HeldKept
  BY DEF InodesInit, HeldKept
<1> QED
  BY <1>2, <1>3, <1>4 DEF Table

(* The books of the kernel and of the table agree.                         *)
LEMMA TableAgrees ==
  ASSUME Table PROVE InodesAgree
BY DEF Table, Books, KeysLead, HeldKept, InodesAgree

(* A step that leaves the table alone keeps it in order.                   *)
LEMMA TableSame ==
  ASSUME Table, UNCHANGED inodeVars PROVE Table'
BY DEF Table, Books, KeysLead, HeldKept, inodeVars

(* Whoever calls the operations of inodes.py, in whatever order and with   *)
(* whatever keys: every key leads to a number that leads back to it, and   *)
(* what the kernel holds is never gone from the table.                     *)
THEOREM TableAlwaysAgrees == InodesSpec => []Table
<1>1. Table /\ [InodesNext]_inodeVars => Table'
  <2> SUFFICES ASSUME Table, [InodesNext]_inodeVars PROVE Table'
    OBVIOUS
  <2>1. CASE UNCHANGED inodeVars
    BY <2>1, TableSame
  <2>2. ASSUME NEW k \in Keys, PinRoot(k) \/ Hand(k) \/ Mint(k) \/ InodesReset(k)
        PROVE  Table'
    BY <2>2, TablePin, TableHand, TableMint, TableReset
  <2>3. ASSUME NEW i \in Numbers, NEW n \in 1..MaxHeld, Forget(i, n) PROVE Table'
    BY <2>3, TableForget
  <2>4. ASSUME NEW old \in Keys, NEW new \in Keys, Rekey(old, new) PROVE Table'
    BY <2>4, TableRekey
  <2> QED
    BY <2>1, <2>2, <2>3, <2>4 DEF InodesNext
<1> QED
  BY <1>1, TableInit, PTL DEF InodesSpec

(* An open file does not turn into another one: while the kernel holds a   *)
(* number, only a rename changes what the number stands for.               *)
THEOREM OpenFilesKeepTheirKey == InodesSpec => HeldInodesKeepTheirKey
<1> DEFINE Kept == \A i \in Numbers \ {Root} :
                    held[i] > 0 /\ held'[i] > 0 =>
                      \/ i \in DOMAIN byInode' /\ byInode'[i] = byInode[i]
                      \/ \E new \in Keys : Rekey(byInode[i], new)
<1>1. ASSUME Table, InodesNext PROVE Kept
  <2> SUFFICES ASSUME NEW i \in Numbers \ {Root}, held[i] > 0, held'[i] > 0
               PROVE  \/ i \in DOMAIN byInode' /\ byInode'[i] = byInode[i]
                      \/ \E new \in Keys : Rekey(byInode[i], new)
    OBVIOUS
  <2>1. i \in DOMAIN byInode /\ i < next /\ lookups[i] = held[i]
    BY <1>1 DEF Table, HeldKept, Books
  <2>2. ASSUME NEW k \in Keys, InodesReset(k) PROVE FALSE
    BY <2>2 DEF InodesReset
  <2>3. ASSUME NEW k \in Keys, PinRoot(k)
        PROVE  i \in DOMAIN byInode' /\ byInode'[i] = byInode[i]
    BY <2>1, <2>3 DEF PinRoot, With
  <2>4. ASSUME NEW k \in Keys, Hand(k) \/ Mint(k)
        PROVE  i \in DOMAIN byInode' /\ byInode'[i] = byInode[i]
    <3>1. Allocate(k)
      BY <2>4 DEF Hand, Mint
    <3>2. i # next
      BY <2>1, <1>1 DEF Table, Books
    <3> QED
      BY <2>1, <3>1, <3>2 DEF Allocate, With
  <2>5. ASSUME NEW j \in Numbers, NEW n \in 1..MaxHeld, Forget(j, n)
        PROVE  i \in DOMAIN byInode' /\ byInode'[i] = byInode[i]
    <3>1. CASE j # i
      BY <2>1, <2>5, <3>1 DEF Forget, Without
    <3>2. CASE j = i
      <4>1. n \in Nat /\ held'[i] = held[i] - n
        BY <1>1, <2>5, <3>2 DEF Forget, Table, Books
      <4>2. held[i] \in Nat
        BY <1>1 DEF Table, Books
      <4>3. ~ (lookups[i] <= n)
        BY <2>1, <4>1, <4>2
      <4> QED
        BY <2>1, <2>5, <3>2, <4>3 DEF Forget
    <3> QED
      BY <3>1, <3>2
  <2>6. ASSUME NEW old \in Keys, NEW new \in Keys, Rekey(old, new)
        PROVE  \/ i \in DOMAIN byInode' /\ byInode'[i] = byInode[i]
               \/ Rekey(byInode[i], new)
    <3>1. CASE old \in DOMAIN byKey /\ byKey[old] = i
      <4>1. byInode[i] = old
        BY <1>1, <3>1 DEF Table, KeysLead
      <4> QED
        BY <2>6, <4>1
    <3>2. CASE ~ (old \in DOMAIN byKey /\ byKey[old] = i)
      BY <2>1, <2>6, <3>2 DEF Rekey, With
    <3> QED
      BY <3>1, <3>2
  <2> QED
    BY <1>1, <2>2, <2>3, <2>4, <2>5, <2>6 DEF InodesNext
<1>2. Table /\ [InodesNext]_inodeVars => [Kept]_inodeVars
  BY <1>1
<1> QED
  BY <1>2, TableAlwaysAgrees, PTL DEF InodesSpec, HeldInodesKeepTheirKey
-----------------------------------------------------------------------------
(* Which steps touch what                                                  *)

(* A call of an application is a request to the mount, or a write or a     *)
(* truncation that needs no answer of the server.                          *)
LEMMA CallsAre ==
  ASSUME NEW a \in Apps, Stat(a) \/ Kernel(a)
  PROVE  \/ \E t : Request(a, t)
         \/ Write(a)
         \/ \E n : Truncate(a, n)
BY DEF Stat, Kernel, Lookup, Create, Unlink, Rename, Open, List, Flush

(* The steps that change the inode table or the kernel's cache of names.   *)
InodeMoves ==
  \/ \E a \in Apps : LookupStep(a) \/ ReaddirStep(a) \/ CreateScratch(a)
                     \/ MadeStep(a) \/ RenamedStep(a)
  \/ Install \/ (\E i \in Numbers : Forgets(i)) \/ Restart

(* No other step does.                                                     *)
LEMMA InodeFrame ==
  ASSUME Next, ~ InodeMoves PROVE UNCHANGED inodeVars
<1>1. ASSUME NEW a \in Apps, Stat(a) \/ Kernel(a) PROVE UNCHANGED inodeVars
  <2>1. ASSUME NEW t, Request(a, t) PROVE UNCHANGED inodeVars
    BY <2>1 DEF Request
  <2>2. ASSUME NEW n, Truncate(a, n) PROVE UNCHANGED inodeVars
    BY <2>2 DEF Truncate
  <2>3. ASSUME Write(a) PROVE UNCHANGED inodeVars
    BY <2>3 DEF Write
  <2> QED
    BY <1>1, <2>1, <2>2, <2>3, CallsAre
<1>2. ASSUME NEW a \in Apps, Handler(a), ~ InodeMoves PROVE UNCHANGED inodeVars
  <2>1. CASE \/ Current(a) \/ TakeLock(a) \/ StatStep(a) \/ OpendirStep(a) \/ Releasedir(a)
             \/ OpenScratch(a) \/ OpenRefused(a) \/ AnswerContent(a) \/ ContentFails(a)
    BY <2>1 DEF Current, TakeLock, StatStep, OpendirStep, Releasedir, OpenScratch,
       OpenRefused, AnswerContent, ContentFails
  <2>2. CASE OpenNode(a)
    BY <2>2 DEF OpenNode
  <2>3. CASE \/ PersistLocally(a) \/ PersistStale(a) \/ PersistDraft(a) \/ SaveStep(a)
             \/ AnswerPut(a) \/ PutFails(a) \/ SavedStep(a)
    BY <2>3 DEF PersistLocally, PersistStale, PersistDraft, SaveStep, AnswerPut,
       PutFails, SavedStep
  <2>4. CASE \/ CreateRefused(a) \/ CreatePage(a) \/ UnlinkRefused(a) \/ UnlinkScratch(a)
             \/ UnlinkNode(a) \/ UnlinkedStep(a) \/ AnswerDrop(a) \/ DropFails(a)
    BY <2>4 DEF CreateRefused, CreatePage, UnlinkRefused, UnlinkScratch, UnlinkNode,
       UnlinkedStep, AnswerDrop, DropFails
  <2>5. CASE RenameRefused(a) \/ RenameLocally(a) \/ RenameScratch(a) \/ RenameNode(a)
    BY <2>5 DEF RenameRefused, RenameLocally, RenameScratch, RenameNode
  <2> QED
    BY <1>2, <2>1, <2>2, <2>3, <2>4, <2>5 DEF Handler, InodeMoves
<1>3. CASE Expire \/ Refreshing
  BY <1>3 DEF InodeMoves, Expire, Refreshing, AnswerToken, Same, AnswerManifest,
     AnswerDrafts, RefreshFails
<1>4. CASE Others
  BY <1>4 DEF Others, OtherPublishes, OtherRetires, OtherMoves, Grants, CliPush,
     CliMerge, CliRevert, Elsewhere
<1> QED
  BY <1>1, <1>2, <1>3, <1>4 DEF Next, InodeMoves

(* Each step of the mount makes at most one call of the table.             *)
LEMMA MountTable ==
  ASSUME Table, Next PROVE Table'
<1>1. ASSUME NEW a \in Apps, LookupStep(a) PROVE Table'
  <2>1. UNCHANGED inodeVars \/ Hand(Entry(task[a].name))
    BY <1>1 DEF LookupStep
  <2> QED
    BY <2>1, TableSame, TableHand
<1>2. ASSUME NEW a \in Apps, ReaddirStep(a) PROVE Table'
  <2>1. \E k : Hand(k) \/ Mint(k)
    BY <1>2 DEF ReaddirStep
  <2> QED
    BY <2>1, TableMint, TableHand
<1>3. ASSUME NEW a \in Apps, CreateScratch(a) PROVE Table'
  <2>1. \E k : Hand(k)
    BY <1>3 DEF CreateScratch, Made
  <2> QED
    BY <2>1, TableHand
<1>4. ASSUME NEW a \in Apps, MadeStep(a) PROVE Table'
  <2>1. UNCHANGED inodeVars \/ \E k : Hand(k)
    BY <1>4 DEF MadeStep, Made
  <2> QED
    BY <2>1, TableSame, TableHand
<1>5. ASSUME NEW a \in Apps, RenamedStep(a) PROVE Table'
  <2>1. Rekey(task[a].old, task[a].new)
    BY <1>5 DEF RenamedStep
  <2> QED
    BY <2>1, TableRekey
<1>6. ASSUME Install PROVE Table'
  <2>1. PinRoot(RootKey(view'))
    BY <1>6 DEF Install
  <2> QED
    BY <2>1, TablePin
<1>7. ASSUME NEW i \in Numbers, Forgets(i) PROVE Table'
  <2>1. Forget(i, held[i])
    BY <1>7 DEF Forgets
  <2> QED
    BY <2>1, TableForget
<1>8. ASSUME Restart PROVE Table'
  <2>1. InodesReset(RootKey(view'))
    BY <1>8 DEF Restart
  <2> QED
    BY <2>1, TableReset
<1>9. CASE ~ InodeMoves
  BY <1>9, InodeFrame, TableSame
<1> QED
  BY <1>1, <1>2, <1>3, <1>4, <1>5, <1>6, <1>7, <1>8, <1>9 DEF InodeMoves

(* In the mount, too, the inode table and the kernel's books agree,        *)
(* through lookups, readdirs that minted numbers nobody saw, atomic saves, *)
(* renames, forgets and restarts in any order.                             *)
THEOREM MountTableHolds == Spec => []Table
<1>1. Table /\ [Next]_vars => Table'
  BY MountTable, TableSame DEF vars
<1>2. Init => Table
  BY TableInit DEF Init
<1> QED
  BY <1>1, <1>2, PTL DEF Spec

(* What InodesAgree says of the table, of the table in the mount.          *)
THEOREM InodesAlwaysAgree == Spec => []InodesAgree
BY MountTableHolds, TableAgrees, PTL

-----------------------------------------------------------------------------
(* The shape of what is kept and sent                                      *)

Bodies == [from : Nat, n : Nat]
Rights == {"nothing", "read", "edit"}

(* A draft row has base, document and text as its operation asks           *)
(* (draft_shape).                                                          *)
Shaped(r) ==
  /\ DOMAIN r = {"op", "doc", "base", "text"}
  /\ r.op \in {"create", "update", "move", "delete"} /\ r.base \in Nat
  /\ IF r.op = "create" THEN r.doc = Nowhere /\ r.base = 0
     ELSE r.doc \in Docs /\ r.base # 0
  /\ IF r.op \in {"create", "update"} THEN r.text \in Bodies ELSE r.text = NoText

GoodRows(rows) ==
  /\ DOMAIN rows = Paths
  /\ \A p \in Paths : rows[p] = NoRow \/ Shaped(rows[p])

GoodListing(l) ==
  /\ DOMAIN l = {"path", "tip", "mine", "may"}
  /\ l.path \in Paths /\ l.tip \in Nat \ {0} /\ l.mine \in BOOLEAN /\ l.may \in Rights

GoodDocs(docs) ==
  /\ DOMAIN docs = Docs
  /\ \A d \in Docs : docs[d] = Hidden \/ GoodListing(docs[d])

GoodServer(s) ==
  /\ DOMAIN s = {"path", "tip", "mine", "may", "rows", "token"}
  /\ s.path \in [Docs -> Paths \cup {Nowhere}] /\ s.tip \in [Docs -> Nat]
  /\ s.mine \in [Docs -> BOOLEAN] /\ s.may \in [Docs -> Rights]
  /\ GoodRows(s.rows) /\ s.token \in Nat
  /\ \A d \in Docs : s.path[d] # Nowhere => s.tip[d] # 0

(* An entry of the tree as the handlers hold it: of a document, with the   *)
(* row that changes it, or of a draft to be a page.                        *)
OfDocument(n) ==
  /\ n.doc \in Docs /\ n.tip \in Nat \ {0}
  /\ n.row = NoRow \/ (Shaped(n.row) /\ n.row.doc = n.doc /\ n.row.op \in {"update", "move"})

OfDraft(n) ==
  n.doc = Nowhere /\ n.tip = 0 /\ Shaped(n.row) /\ n.row.op = "create"

GoodNode(n) ==
  /\ DOMAIN n = {"doc", "tip", "mine", "may", "path", "row"}
  /\ n.path \in Paths /\ n.mine \in BOOLEAN
  /\ OfDocument(n) \/ OfDraft(n)

GoodView(v) ==
  /\ DOMAIN v = {"root", "docs", "rows", "place"}
  /\ v.root \in BOOLEAN /\ GoodDocs(v.docs) /\ GoodRows(v.rows)
  /\ v.place \in [Paths -> 1..Cardinality(Paths)]

GoodFetch(f) ==
  /\ DOMAIN f = {"by", "phase", "token", "root", "docs", "rows"}
  /\ f.by \in Apps /\ f.token \in Nat \cup {NoToken}
  /\ f.root \in BOOLEAN /\ GoodDocs(f.docs) /\ GoodRows(f.rows)

GoodHandle(h) ==
  /\ DOMAIN h = {"ino", "key", "text", "seen", "writing", "dirty", "raced", "saved"}
  /\ h.ino \in Numbers /\ h.text \in Bodies /\ h.seen \in Nat
  /\ h.writing \in BOOLEAN /\ h.dirty \in BOOLEAN /\ h.raced \in BOOLEAN

(* A task has yet to take this step.                                       *)
Has(todo, step) == \E i \in DOMAIN todo : todo[i] = step

Steps == {"current", "refresh", "content", "put", "drop", "readdir", "stat",
          "look", "opendir", "open", "persist", "save", "saved", "create", "made",
          "unlink", "unlinked", "rename", "renamed"}

(* The document whose body or draft a task is about.                       *)
Holding(t) == GoodNode(t.node) /\ t.node.doc \in Docs /\ t.key = t.node.doc

GoodFields(t) ==
  /\ DOMAIN t = DOMAIN Idle
  /\ t.ino \in Nat /\ t.writing \in BOOLEAN /\ t.trunc \in BOOLEAN
  /\ t.row = NoRow \/ Shaped(t.row)

(* What a task needs for the steps that are left.                          *)
GoodPlan(t, todo) ==
  /\ todo \in Seq(Steps)
  /\ Has(todo, "open") \/ Has(todo, "content") => t.ino \in Numbers
  /\ Has(todo, "open") => (t.trunc => t.writing)
  /\ Has(todo, "content") => Holding(t)
  /\ Has(todo, "save") => Holding(t) /\ t.text \in Bodies
  /\ Has(todo, "rename") \/ Has(todo, "renamed") => t.name \in Names
  /\ Has(todo, "persist") \/ Has(todo, "saved") => t.op \in {"close", "fsync"}

GoodTask(t) == GoodFields(t) /\ GoodPlan(t, t.todo)

ServerOK == GoodServer(srv) /\ told \in [Docs -> SUBSET Nat]

TreeOK ==
  /\ GoodView(view) /\ known \in Nat \cup {NoToken} /\ fresh \in BOOLEAN
  /\ fetch = NoFetch \/ GoodFetch(fetch)

TasksOK ==
  /\ DOMAIN task = Apps
  /\ \A a \in Apps : GoodTask(task[a])

(* Who holds the lock waits for the refresh, and for one that is due.      *)
Holder ==
  fetch # NoFetch => /\ At(fetch.by) \in {"current", "refresh"}
                     /\ At(fetch.by) = "current" => ~ fresh

FilesOK ==
  /\ checkedOut \in [Docs -> Nat] /\ edits \in Nat
  /\ DOMAIN content = Docs
  /\ \A d \in Docs : /\ DOMAIN content[d] = {"etag", "body"} /\ content[d].etag \in Nat
                     /\ content[d].etag # 0 => content[d].body \in Bodies
  /\ scratchSeq \in Nat /\ DOMAIN scratch \subseteq 1..scratchSeq
  /\ \A s \in DOMAIN scratch : /\ DOMAIN scratch[s] = {"name", "parent", "text"}
                               /\ scratch[s].text \in Bodies
  /\ buffer \in [Apps -> Bodies]
  /\ dentry \in [Names -> {0} \cup Numbers]

HandlesOK ==
  /\ DOMAIN handle = Apps
  /\ \A a \in Apps : handle[a] = NoHandle \/ GoodHandle(handle[a])
  /\ \A a \in Apps : task[a].op \in {"close", "fsync"} => GoodHandle(handle[a])

Shapes == Table /\ ServerOK /\ TreeOK /\ TasksOK /\ Holder /\ FilesOK /\ HandlesOK

-----------------------------------------------------------------------------
(* Places, rows and entries of the tree                                    *)

(* There is a last among some of the first numbers.                        *)
LEMMA GreatestOf ==
  ASSUME NEW N \in Nat, NEW T \in SUBSET (1..N), T # {}
  PROVE  \E m \in T : \A n \in T : n <= m
<1> DEFINE R == OpToRel(<, Nat)
           U == {N - t : t \in T}
<1>1. IsWellFoundedOn(R, Nat)
  BY NatLessThanWellFounded
<1>2. \A n, m \in Nat : n < m => <<n, m>> \in R
  BY DEF OpToRel
<1>3. U \subseteq Nat /\ U # {}
  <2>1. \A t \in T : t \in Nat /\ t <= N
    OBVIOUS
  <2>2. \A t \in T : N - t \in Nat
    BY <2>1
  <2> QED
    BY <2>2
<1> HIDE DEF R, U
<1>4. PICK u \in U : \A x \in U : ~(<<x, u>> \in R)
  BY <1>1, <1>3, WFMin
<1>5. \A x \in U : ~(x < u)
  BY <1>2, <1>3, <1>4
<1>6. PICK m \in T : u = N - m
  BY <1>4 DEF U
<1>7. ASSUME NEW n \in T PROVE n <= m
  <2>1. N - n \in U
    BY DEF U
  <2>2. ~(N - n < N - m)
    BY <1>5, <1>6, <2>1
  <2> QED
    BY <2>2
<1> QED
  BY <1>7

(* The last of some rows is one of them.                                   *)
LEMMA LastIsOne ==
  ASSUME NEW v, GoodView(v), NEW S \in SUBSET Paths, S # {}
  PROVE  LastOf(v, S) \in S
<1> DEFINE N == Cardinality(Paths)
           T == {v.place[p] : p \in S}
<1>1. N \in Nat
  BY FS_CardinalityType, MountAssumption
<1>2. v.place \in [Paths -> 1..N]
  BY DEF GoodView
<1>3. T \in SUBSET (1..N) /\ T # {}
  BY <1>2
<1> HIDE DEF N
<1>4. PICK m \in T : \A n \in T : n <= m
  BY <1>1, <1>3, GreatestOf
<1>5. PICK p \in S : v.place[p] = m
  BY <1>4
<1>6. \A q \in S : v.place[q] <= v.place[p]
  BY <1>4, <1>5
<1> QED
  BY <1>6 DEF LastOf

(* The rows about a document are rows about it.                            *)
LEMMA RowsAreFor ==
  ASSUME NEW v, GoodView(v), NEW ops, NEW d \in Docs,
         NEW p \in RowsFor(v, ops, d)
  PROVE  p \in Paths /\ Shaped(v.rows[p]) /\ v.rows[p].doc = d /\ v.rows[p].op \in ops
BY DEF RowsFor, GoodView, GoodRows

(* The path and the row of a document are its own.                         *)
LEMMA DocumentShape ==
  ASSUME NEW v, GoodView(v), NEW d \in DocKeys(v)
  PROVE  /\ GoodNode(DocNode(v, d)) /\ OfDocument(DocNode(v, d))
         /\ d \in Docs /\ v.docs[d] # Hidden /\ DocNode(v, d).doc = d
         /\ DocNode(v, d).tip = v.docs[d].tip /\ DocNode(v, d).mine = v.docs[d].mine
<1> DEFINE about == RowsFor(v, {"update", "move"}, d)
           moves == RowsFor(v, {"move"}, d)
           path  == IF moves = {} THEN v.docs[d].path ELSE LastOf(v, moves)
           row   == IF about = {} THEN NoRow ELSE v.rows[LastOf(v, about)]
<1>1. d \in Docs /\ v.docs[d] # Hidden /\ GoodListing(v.docs[d])
  BY DEF DocKeys, GoodView, GoodDocs
<1>2. DocNode(v, d) = [doc |-> d, tip |-> v.docs[d].tip, mine |-> v.docs[d].mine,
                       may |-> v.docs[d].may, path |-> path, row |-> row]
  BY DEF DocNode
<1>3. about \in SUBSET Paths /\ moves \in SUBSET Paths
  BY DEF RowsFor
<1>4. path \in Paths
  <2>1. moves # {} => LastOf(v, moves) \in moves
    BY <1>3, LastIsOne
  <2> QED
    BY <1>1, <1>3, <2>1 DEF GoodListing
<1>5. row = NoRow \/ (Shaped(row) /\ row.doc = d /\ row.op \in {"update", "move"})
  <2>1. about # {} => LastOf(v, about) \in about
    BY <1>3, LastIsOne
  <2> QED
    BY <1>1, <2>1, RowsAreFor
<1> HIDE DEF path, row
<1> QED
  BY <1>1, <1>2, <1>4, <1>5 DEF GoodNode, OfDocument, GoodListing

(* A draft of a page to be is what its row says.                           *)
LEMMA DraftShape ==
  ASSUME NEW v, GoodView(v), NEW p \in Created(v)
  PROVE  /\ GoodNode(DraftNode(v, p)) /\ OfDraft(DraftNode(v, p))
         /\ p \in Paths /\ DraftNode(v, p).row = v.rows[p]
<1>1. p \in Paths /\ Shaped(v.rows[p]) /\ v.rows[p].op = "create"
  BY DEF Created, GoodView, GoodRows
<1> QED
  BY <1>1 DEF DraftNode, GoodNode, OfDraft

(* An entry of the tree is of a document, which is its key, or of a draft. *)
LEMMA EntryShape ==
  ASSUME NEW v, GoodView(v), NEW k \in NodeKeys(v)
  PROVE  /\ GoodNode(Node(v, k))
         /\ \/ /\ k \in DocKeys(v) /\ Node(v, k) = DocNode(v, k)
               /\ OfDocument(Node(v, k)) /\ Node(v, k).doc = k /\ k \in Docs
            \/ /\ \E p \in Created(v) : k = DraftKey(p) /\ Node(v, k) = DraftNode(v, p)
               /\ OfDraft(Node(v, k)) /\ k \notin Docs
<1>1. CASE k \in DocKeys(v)
  <2>1. k \in Docs
    BY <1>1 DEF DocKeys
  <2> QED
    BY <1>1, <2>1, DocumentShape DEF Node
<1>2. CASE k \notin DocKeys(v)
  <2>1. PICK p \in Created(v) : k = DraftKey(p)
    BY <1>2 DEF NodeKeys
  <2>2. p \in Paths /\ k[2] = p
    BY <2>1 DEF Created, DraftKey
  <2>3. k \notin Docs
    BY <2>1, <2>2, MountAssumption
  <2> QED
    BY <2>1, <2>2, <2>3, DraftShape DEF Node
<1> QED
  BY <1>1, <1>2

(* What the user is shown of an entry is a revision.                       *)
LEMMA ShownIsRevision ==
  ASSUME NEW n, GoodNode(n)
  PROVE  /\ Shown(n) \in Nat /\ n.tip \in Nat
         /\ n.doc # Nowhere => n.doc \in Docs /\ OfDocument(n) /\ Shown(n) # 0
<1>1. n.tip \in Nat /\ (n.doc # Nowhere => n.doc \in Docs /\ OfDocument(n))
  BY MountAssumption DEF GoodNode, OfDocument, OfDraft
<1>2. n.row # NoRow => Shaped(n.row) /\ n.row.base \in Nat
  BY DEF GoodNode, OfDocument, OfDraft, Shaped
<1> QED
  BY <1>1, <1>2 DEF Shown, OfDocument

-----------------------------------------------------------------------------
(* What the server answers                                                 *)

(* The places of the draft rows are numbers of rows.                       *)
LEMMA InOrderPlaces ==
  /\ InOrder \in [Paths -> 1..Cardinality(Paths)]
  /\ \A rows : Places(rows) \subseteq [Paths -> 1..Cardinality(Paths)]
<1> DEFINE N == Cardinality(Paths)
<1>1. N \in Nat /\ ExistsBijection(1..N, Paths)
  BY FS_CardinalityType, MountAssumption
<1> HIDE DEF N
<1>2. PICK f \in Bijection(1..N, Paths) : TRUE
  BY <1>1 DEF ExistsBijection
<1>3. f \in [1..N -> Paths] /\ \A p \in Paths : \E i \in 1..N : f[i] = p
  BY <1>2, Fun_BijectionProperties, Fun_SurjectionProperties DEF Bijection, Surjection
<1> DEFINE g == [p \in Paths |-> CHOOSE i \in 1..N : f[i] = p]
<1>4. g \in [Paths -> 1..N] /\ \A p \in Paths : f[g[p]] = p
  BY <1>3
<1> HIDE DEF g
<1>5. \A p, q \in Paths : p # q => g[p] # g[q]
  BY <1>4
<1>6. InOrder \in [Paths -> 1..N]
  <2>1. InOrder = CHOOSE h \in [Paths -> 1..N] : \A p, q \in Paths : p # q => h[p] # h[q]
    BY DEF InOrder, N
  <2> QED
    BY <1>4, <1>5, <2>1
<1>7. \A rows : Places(rows) \subseteq [Paths -> 1..N]
  BY <1>6 DEF Places, N
<1> QED
  BY <1>6, <1>7 DEF N

(* The manifest lists documents.                                           *)
LEMMA ManifestIsGood ==
  ASSUME GoodServer(srv) PROVE GoodDocs(Manifest) /\ RootListed \in BOOLEAN
<1>1. ASSUME NEW d \in Docs PROVE Listed(d) = Hidden \/ GoodListing(Listed(d))
  BY DEF Listed, GoodListing, GoodServer
<1> QED
  BY <1>1 DEF Manifest, GoodDocs, RootListed

(* A row the server stores or drops leaves it in shape; every change moves *)
(* the token on.                                                           *)
LEMMA StoringIsGood ==
  ASSUME GoodServer(srv), NEW p, NEW r, r = NoRow \/ Shaped(r)
  PROVE  GoodServer(Changed([srv EXCEPT !.rows[p] = r]))
<1> DEFINE rs == [srv.rows EXCEPT ![p] = r]
           s  == Changed([srv EXCEPT !.rows[p] = r])
<1>1. GoodRows(rs)
  BY DEF GoodServer, GoodRows
<1>2. /\ DOMAIN s = DOMAIN srv /\ s.rows = rs /\ s.token = srv.token + 1
      /\ s.path = srv.path /\ s.tip = srv.tip /\ s.mine = srv.mine /\ s.may = srv.may
  BY DEF Changed, GoodServer
<1> HIDE DEF rs, s
<1>3. GoodServer(s)
  BY <1>1, <1>2 DEF GoodServer
<1> QED
  BY <1>3 DEF s

-----------------------------------------------------------------------------
(* Tasks and the steps they have left                                      *)

(* The steps of the lists there are.                                       *)
LEMMA HasOf ==
  /\ \A s : ~ Has(<<>>, s)
  /\ \A x, s : Has(<<x>>, s) <=> s = x
  /\ \A x, y, s : Has(<<x, y>>, s) <=> s \in {x, y}
  /\ \A x, y, z, s : Has(<<x, y, z>>, s) <=> s \in {x, y, z}
  /\ \A x, y, z, u, v, s : Has(<<x, y, z, u, v>>, s) <=> s \in {x, y, z, u, v}
<1>1. \A s : ~ Has(<<>>, s)
  BY DEF Has
<1>2. ASSUME NEW x, NEW s PROVE Has(<<x>>, s) <=> s = x
  BY DEF Has
<1>3. ASSUME NEW x, NEW y, NEW s PROVE Has(<<x, y>>, s) <=> s \in {x, y}
  BY DEF Has
<1>4. ASSUME NEW x, NEW y, NEW z, NEW s PROVE Has(<<x, y, z>>, s) <=> s \in {x, y, z}
  BY DEF Has
<1>5. ASSUME NEW x, NEW y, NEW z, NEW u, NEW v, NEW s
      PROVE  Has(<<x, y, z, u, v>>, s) <=> s \in {x, y, z, u, v}
  BY DEF Has
<1> QED
  BY <1>1, <1>2, <1>3, <1>4, <1>5

(* What is left after a step was left before it.                           *)
LEMMA TailLeft ==
  ASSUME NEW todo \in Seq(Steps), todo # <<>>
  PROVE  /\ Tail(todo) \in Seq(Steps)
         /\ Has(todo, Head(todo))
         /\ \A s : Has(Tail(todo), s) => Has(todo, s)
         /\ \A s : Has(todo, s) /\ s # Head(todo) => Has(Tail(todo), s)
<1>1. Len(todo) \in Nat /\ Len(todo) >= 1 /\ DOMAIN todo = 1..Len(todo) /\ Head(todo) = todo[1]
  OBVIOUS
<1>2. /\ Tail(todo) \in Seq(Steps) /\ DOMAIN Tail(todo) = 1..(Len(todo) - 1)
      /\ \A i \in 1..(Len(todo) - 1) : Tail(todo)[i] = todo[i + 1]
  OBVIOUS
<1>3. ASSUME NEW s, NEW i \in DOMAIN Tail(todo), Tail(todo)[i] = s
      PROVE  Has(todo, s)
  <2>1. i + 1 \in DOMAIN todo /\ todo[i + 1] = s
    BY <1>1, <1>2, <1>3
  <2> QED
    BY <2>1 DEF Has
<1>4. ASSUME NEW s, NEW i \in DOMAIN todo, todo[i] = s, s # Head(todo)
      PROVE  Has(Tail(todo), s)
  <2>1. i # 1
    BY <1>1, <1>4
  <2>2. i - 1 \in DOMAIN Tail(todo) /\ Tail(todo)[i - 1] = s
    BY <1>1, <1>2, <1>4, <2>1
  <2> QED
    BY <2>2 DEF Has
<1>5. Has(todo, Head(todo))
  <2>1. 1 \in DOMAIN todo /\ todo[1] = Head(todo)
    BY <1>1
  <2> QED
    BY <2>1, Zenon DEF Has
<1>6. \A s : Has(Tail(todo), s) => Has(todo, s)
  <2>1. SUFFICES ASSUME NEW s, Has(Tail(todo), s) PROVE Has(todo, s)
    BY Zenon
  <2>2. PICK i \in DOMAIN Tail(todo) : Tail(todo)[i] = s
    BY <2>1, Zenon DEF Has
  <2> QED
    BY <1>3, <2>2, Zenon
<1>7. \A s : Has(todo, s) /\ s # Head(todo) => Has(Tail(todo), s)
  <2>1. SUFFICES ASSUME NEW s, Has(todo, s), s # Head(todo) PROVE Has(Tail(todo), s)
    BY Zenon
  <2>2. PICK i \in DOMAIN todo : todo[i] = s
    BY <2>1, Zenon DEF Has
  <2> QED
    BY <1>4, <2>1, <2>2, Zenon
<1> QED
  BY <1>2, <1>5, <1>6, <1>7

(* Where a task is, and that it has more to do.                            *)
LEMMA AtIsNext ==
  ASSUME NEW a, GoodTask(task[a]), At(a) # "none"
  PROVE  /\ task[a].todo \in Seq(Steps) /\ task[a].todo # <<>>
         /\ At(a) = Head(task[a].todo) /\ Has(task[a].todo, At(a))
<1>1. task[a].todo # <<>> /\ At(a) = Head(task[a].todo)
  BY DEF At
<1> QED
  BY <1>1, TailLeft DEF GoodTask, GoodPlan

(* A task with the steps its fields are good for is a good one.            *)
LEMMA PlanIsGood ==
  ASSUME NEW t, GoodFields(t), NEW todo, GoodPlan(t, todo)
  PROVE  GoodTask([t EXCEPT !.todo = todo])
<1> DEFINE u == [t EXCEPT !.todo = todo]
<1>1. /\ DOMAIN u = DOMAIN t /\ u.todo = todo /\ u.op = t.op /\ u.name = t.name
      /\ u.ino = t.ino /\ u.writing = t.writing /\ u.trunc = t.trunc
      /\ u.key = t.key /\ u.node = t.node /\ u.text = t.text /\ u.row = t.row
  BY DEF GoodFields, Idle
<1> HIDE DEF u
<1>2. GoodFields(u)
  BY <1>1 DEF GoodFields
<1>3. GoodPlan(u, todo)
  BY <1>1 DEF GoodPlan, Holding
<1>4. GoodTask(u)
  BY <1>1, <1>2, <1>3 DEF GoodTask
<1> QED
  BY <1>4 DEF u

(* One step less asks for nothing more.                                    *)
LEMMA TailIsGood ==
  ASSUME NEW t, GoodTask(t), t.todo # <<>>
  PROVE  GoodTask([t EXCEPT !.todo = Tail(t.todo)])
<1>1. t.todo \in Seq(Steps)
  BY DEF GoodTask, GoodPlan
<1>2. GoodPlan(t, Tail(t.todo))
  BY <1>1, TailLeft DEF GoodTask, GoodPlan
<1> QED
  BY <1>2, PlanIsGood DEF GoodTask

(* A task with nothing to do is a good one.                                *)
LEMMA IdleIsGood == GoodFields(Idle) /\ GoodTask(Idle)
<1>1. GoodFields(Idle)
  BY DEF GoodFields, Idle
<1>2. Idle.todo = <<>> /\ <<>> \in Seq(Steps)
  BY DEF Idle
<1>3. GoodPlan(Idle, <<>>)
  BY <1>2, HasOf DEF GoodPlan
<1> QED
  BY <1>1, <1>2, <1>3 DEF GoodTask

(* A task moves on in its operation, or ends.                              *)
TaskMove(a) ==
  \E t : /\ GoodTask(t) /\ (t.op = task[a].op \/ t = Idle)
        /\ task' = [task EXCEPT ![a] = t]

(* A task that moves well leaves all of them good.                         *)
LEMMA TasksMove ==
  ASSUME TasksOK, NEW a, TaskMove(a) PROVE TasksOK'
BY DEF TasksOK, TaskMove

(* The next of its steps is such a move.                                   *)
LEMMA TasksProceed ==
  ASSUME TasksOK, NEW a \in Apps, At(a) # "none", Proceed(a)
  PROVE  TaskMove(a)
<1> DEFINE t == [task[a] EXCEPT !.todo = Tail(task[a].todo)]
<1>1. GoodTask(task[a]) /\ task[a].todo # <<>>
  BY AtIsNext DEF TasksOK
<1>2. GoodTask(t)
  BY <1>1, TailIsGood
<1>3. task' = [task EXCEPT ![a] = t]
  BY DEF Proceed, Then, Go
<1>4. t.op = task[a].op
  BY <1>1 DEF GoodTask, GoodFields, Idle
<1> HIDE DEF t
<1> QED
  BY <1>2, <1>3, <1>4 DEF TaskMove

(* So is its end.                                                          *)
LEMMA TasksReturn ==
  ASSUME NEW a \in Apps, Return(a) PROVE TaskMove(a)
BY IdleIsGood DEF Return, TaskMove

(* So is its end by an error.                                              *)
LEMMA TasksRaise ==
  ASSUME NEW a \in Apps, Raise(a) PROVE TaskMove(a)
BY TasksReturn DEF Raise

(* A task goes on with a new list.                                         *)
LEMMA TasksThen ==
  ASSUME NEW a \in Apps, NEW t, GoodFields(t), t.op = task[a].op,
         NEW todo, GoodPlan(t, todo), Then(a, t, todo)
  PROVE  TaskMove(a)
<1> DEFINE u == [t EXCEPT !.todo = todo]
<1>1. GoodTask(u)
  BY PlanIsGood
<1>2. u.op = task[a].op
  BY DEF GoodFields, Idle
<1>3. task' = [task EXCEPT ![a] = u]
  BY DEF Then, Go
<1> HIDE DEF u
<1> QED
  BY <1>1, <1>2, <1>3 DEF TaskMove

-----------------------------------------------------------------------------
(* What the handlers make of their tasks                                   *)

(* A row to put, and what else a task carries.                             *)
LEMMA PuttingIsGood ==
  ASSUME NEW t, GoodFields(t), NEW p, NEW r, Shaped(r)
  PROVE  LET u == Putting(t, p, r) IN
         /\ GoodFields(u) /\ u.op = t.op /\ u.ino = t.ino /\ u.key = t.key
         /\ u.node = t.node /\ u.text = t.text /\ u.name = t.name /\ u.todo = t.todo
         /\ u.row = r /\ u.path = p /\ u.writing = t.writing /\ u.trunc = t.trunc
<1> DEFINE u == Putting(t, p, r)
<1>1. /\ DOMAIN u = DOMAIN t /\ u.op = t.op /\ u.ino = t.ino /\ u.key = t.key
      /\ u.node = t.node /\ u.text = t.text /\ u.name = t.name /\ u.todo = t.todo
      /\ u.row = r /\ u.writing = t.writing /\ u.trunc = t.trunc /\ u.path = p
  BY DEF Putting, GoodFields, Idle
<1> HIDE DEF u
<1>2. GoodFields(u)
  BY <1>1 DEF GoodFields
<1> QED
  BY <1>1, <1>2 DEF u

(* The rows the handlers make have the shape their operation asks.         *)
LEMMA RowsAreShaped ==
  /\ \A text \in Bodies : Shaped(Row("create", Nowhere, 0, text))
  /\ \A d \in Docs, b \in Nat \ {0}, text \in Bodies : Shaped(Row("update", d, b, text))
  /\ \A d \in Docs, b \in Nat \ {0} : /\ Shaped(Row("move", d, b, NoText))
                                      /\ Shaped(Row("delete", d, b, NoText))
BY DEF Shaped, Row

(* A draft to be a page, written from where a task is.                     *)
LEMMA CreatingIsGood ==
  ASSUME NEW a \in Apps, NEW t, GoodFields(t), t.op = task[a].op,
         NEW p, NEW text \in Bodies, NEW todo, GoodPlan(t, todo),
         ~ Has(todo, "save"), ~ Has(todo, "content"),
         Then(a, Creating(t, p, text), todo)
  PROVE  TaskMove(a)
<1> DEFINE u == Creating(t, p, text)
<1>1. /\ GoodFields(u) /\ u.op = t.op /\ u.ino = t.ino /\ u.name = t.name
      /\ u.writing = t.writing /\ u.trunc = t.trunc
  BY PuttingIsGood, RowsAreShaped DEF Creating
<1> HIDE DEF u
<1>2. GoodPlan(u, todo)
  BY <1>1 DEF GoodPlan
<1> QED
  BY <1>1, <1>2, TasksThen DEF u

(* The base a save declares is a revision.                                 *)
LEMMA BaseIsRevision ==
  ASSUME ServerOK, FilesOK, NEW n, GoodNode(n), n.doc \in Docs
  PROVE  BaseFor(n) \in Nat \ {0}
<1>1. OfDocument(n)
  BY MountAssumption DEF GoodNode, OfDraft
<1>2. checkedOut[n.doc] \in Nat
  BY DEF FilesOK
<1>3. n.row # NoRow => n.row.base \in Nat \ {0}
  BY <1>1 DEF OfDocument, Shaped
<1> QED
  BY <1>1, <1>2, <1>3 DEF BaseFor, OfDocument

(* An empty file has a body.                                               *)
LEMMA EmptyIsBody == Empty \in Bodies
BY DEF Empty, Text, Bodies

(* _write_draft, for any body and either kind of entry.                    *)
LEMMA WriteDraftMoves ==
  ASSUME TreeOK, NEW a \in Apps, NEW t, GoodFields(t), t.op = task[a].op,
         NEW k \in NodeKeys(view), NEW text \in Bodies, NEW after \in {"saved", "renamed"},
         after = "saved" => t.op \in {"close", "fsync"},
         after = "renamed" => t.name \in Names,
         WriteDraft(a, t, k, text, after)
  PROVE  TaskMove(a)
<1> DEFINE n == Node(view, k)
<1>1. GoodNode(n) /\ (n.doc # Nowhere => n.doc = k /\ k \in Docs)
  BY EntryShape DEF TreeOK, OfDraft
<1>2. CASE n.doc = Nowhere
  <2> DEFINE todo == <<"put", "refresh", after>>
  <2>1. Then(a, Creating(t, n.path, text), todo)
    BY <1>2 DEF WriteDraft
  <2>2. \A s : Has(todo, s) <=> s \in {"put", "refresh", after}
    BY HasOf
  <2>3. todo \in Seq(Steps)
    BY DEF Steps
  <2>4. GoodPlan(t, todo) /\ ~ Has(todo, "save") /\ ~ Has(todo, "content")
    BY <2>2, <2>3 DEF GoodPlan
  <2> HIDE DEF todo, n
  <2> QED
    BY <2>1, <2>4, CreatingIsGood
<1>3. CASE n.doc # Nowhere
  <2> DEFINE todo == <<"current", "save", "put", "refresh", after>>
             u == [t EXCEPT !.key = k, !.node = n, !.text = text]
  <2>1. Then(a, u, todo)
    BY <1>3 DEF WriteDraft
  <2>2. \A s : Has(todo, s) <=> s \in {"current", "save", "put", "refresh", after}
    BY HasOf
  <2>3. todo \in Seq(Steps)
    BY DEF Steps
  <2> HIDE DEF n
  <2>4. /\ DOMAIN u = DOMAIN t /\ u.op = t.op /\ u.ino = t.ino /\ u.key = k
        /\ u.node = n /\ u.text = text /\ u.name = t.name
        /\ u.row = t.row /\ u.writing = t.writing /\ u.trunc = t.trunc
    BY DEF GoodFields, Idle
  <2> HIDE DEF todo, u
  <2>5. GoodFields(u)
    BY <2>4 DEF GoodFields
  <2>6. GoodPlan(u, todo)
    BY <1>1, <1>3, <2>2, <2>3, <2>4 DEF GoodPlan, Holding
  <2> QED
    BY <2>1, <2>4, <2>5, <2>6, TasksThen
<1> QED
  BY <1>2, <1>3

(* Keys of documents, of drafts and of scratch files are kept apart.       *)
LEMMA KeysApart ==
  /\ NodeKeys(view) \cap ScratchKeys = {}
  /\ NoKey \notin ScratchKeys /\ NoKey \notin NodeKeys(view)
<1>1. ASSUME NEW k \in ScratchKeys PROVE k \notin NodeKeys(view) /\ k # NoKey
  <2>1. PICK s \in 1..MaxScratch : k = <<"scratch", s>>
    BY DEF ScratchKeys, ScratchKey
  <2>2. \A p \in Paths : k # DraftKey(p)
    BY <2>1 DEF DraftKey
  <2>3. k \notin Docs /\ k # NoKey
    BY <2>1, MountAssumption
  <2> QED
    BY <2>2, <2>3 DEF NodeKeys, DocKeys, Created
<1>2. NoKey \notin NodeKeys(view)
  BY MountAssumption DEF NodeKeys, DocKeys, Created
<1> QED
  BY <1>1, <1>2

(* Nothing but a scratch file has a scratch file's key.                    *)
LEMMA NoScratchKey ==
  /\ \A k \in Docs : k \notin ScratchKeys
  /\ \A p : DraftKey(p) \notin ScratchKeys
  /\ \A v : RootKey(v) \notin ScratchKeys
  /\ NoKey \notin ScratchKeys
<1> SUFFICES ASSUME NEW s \in 1..MaxScratch
             PROVE  /\ \A k \in Docs \cup {NoKey, Top, Synthetic} : k # <<"scratch", s>>
                    /\ \A p : DraftKey(p) # <<"scratch", s>>
  BY DEF ScratchKeys, ScratchKey, RootKey
<1> QED
  BY MountAssumption DEF DraftKey

(* What a path stands for in a tree is in the tree.                        *)
LEMMA KeyAtIs ==
  ASSUME NEW v, GoodView(v), NEW p \in Paths
  PROVE  KeyAt(v, p) = NoKey \/ KeyAt(v, p) \in NodeKeys(v)
<1> DEFINE here == {d \in DocKeys(v) : DocNode(v, d).path = p}
           N == Cardinality(Paths)
           T == {Rank[v.docs[d].path] : d \in here}
<1>1. CASE p \in Created(v)
  BY <1>1 DEF KeyAt, NodeKeys
<1>2. CASE p \notin Created(v) /\ here = {}
  BY <1>2 DEF KeyAt
<1>3. CASE p \notin Created(v) /\ here # {}
  <2>1. N \in Nat /\ Rank \in [Paths -> 1..N]
    BY FS_CardinalityType, MountAssumption
  <2>2. \A d \in here : v.docs[d].path \in Paths
    BY DEF DocKeys, GoodView, GoodDocs, GoodListing
  <2>3. T \in SUBSET (1..N) /\ T # {}
    BY <1>3, <2>1, <2>2
  <2>4. PICK m \in T : \A n \in T : n <= m
    <3> HIDE DEF N, T
    <3> QED
      BY <2>1, <2>3, GreatestOf
  <2>5. PICK d \in here : Rank[v.docs[d].path] = m
    BY <2>4
  <2>6. \A e \in here : Rank[v.docs[e].path] <= Rank[v.docs[d].path]
    BY <2>4, <2>5
  <2>7. KeyAt(v, p) \in here
    BY <1>3, <2>5, <2>6 DEF KeyAt
  <2> QED
    BY <2>7 DEF NodeKeys
<1> QED
  BY <1>1, <1>2, <1>3

(* What a name of the directory stands for is there.                       *)
LEMMA EntryIs ==
  ASSUME TreeOK, FilesOK, NEW n
  PROVE  \/ Entry(n) = NoKey
         \/ Entry(n) \in NodeKeys(view) /\ Entry(n) \notin ScratchKeys
         \/ /\ Entry(n)[2] \in DOMAIN scratch /\ Entry(n) = ScratchKey(Entry(n)[2])
            /\ scratch[Entry(n)[2]].name = n
<1>1. CASE ScratchAt(n) # {}
  <2>1. scratchSeq \in Nat /\ ScratchAt(n) \in SUBSET (1..scratchSeq)
    BY DEF FilesOK, ScratchAt
  <2>2. PICK m \in ScratchAt(n) : \A r \in ScratchAt(n) : r <= m
    BY <1>1, <2>1, GreatestOf
  <2> DEFINE c == CHOOSE s \in ScratchAt(n) : \A r \in ScratchAt(n) : r <= s
  <2>3. c \in ScratchAt(n)
    BY <2>2
  <2>4. Entry(n) = ScratchKey(c)
    BY <1>1 DEF Entry
  <2> HIDE DEF c
  <2>5. Entry(n)[2] = c
    BY <2>4 DEF ScratchKey
  <2> QED
    BY <2>3, <2>4, <2>5 DEF ScratchAt
<1>2. CASE ScratchAt(n) = {}
  <2>1. Entry(n) = NoKey \/ Entry(n) \in NodeKeys(view)
    BY <1>2, KeyAtIs DEF Entry, TreeOK
  <2> QED
    BY <2>1, KeysApart
<1> QED
  BY <1>1, <1>2

(* And so is what an inode stands for.                                     *)
LEMMA ResolvedIs ==
  ASSUME NEW i
  PROVE  \/ Resolved(i) = NoKey
         \/ Resolved(i) \in NodeKeys(view) /\ Resolved(i) \notin ScratchKeys
         \/ Resolved(i) \in ScratchKeys /\ Resolved(i)[2] \in DOMAIN scratch
BY KeysApart DEF Resolved

(* A task that has gone through a step is one in its operation.            *)
LEMMA StepIsLeft ==
  ASSUME TasksOK, NEW a \in Apps, NEW step \in Steps, At(a) = step
  PROVE  /\ At(a) # "none" /\ GoodTask(task[a]) /\ Has(task[a].todo, step)
         /\ GoodFields(task[a]) /\ GoodPlan(task[a], task[a].todo)
<1>1. At(a) # "none"
  BY DEF Steps
<1> QED
  BY <1>1, AtIsNext DEF TasksOK, GoodTask

(* The steps that end a task.                                              *)
LEMMA Endings ==
  ASSUME NEW a \in Apps,
         \/ StatStep(a) \/ LookupStep(a) \/ Releasedir(a) \/ OpenScratch(a) \/ OpenRefused(a)
         \/ AnswerContent(a) \/ ContentFails(a) \/ PersistLocally(a) \/ PersistStale(a)
         \/ PutFails(a) \/ SavedStep(a) \/ CreateRefused(a) \/ CreateScratch(a) \/ MadeStep(a)
         \/ UnlinkRefused(a) \/ UnlinkScratch(a) \/ UnlinkedStep(a) \/ DropFails(a)
         \/ RenameRefused(a) \/ RenameLocally(a) \/ RenamedStep(a)
  PROVE  Return(a)
<1>1. Raise(a) => Return(a)
  BY DEF Raise
<1>2. CASE \/ StatStep(a) \/ LookupStep(a) \/ Releasedir(a) \/ OpenScratch(a)
           \/ OpenRefused(a) \/ AnswerContent(a) \/ ContentFails(a)
  BY <1>1, <1>2 DEF StatStep, LookupStep, Releasedir, OpenScratch, OpenRefused,
     AnswerContent, ContentFails
<1>3. CASE PersistLocally(a) \/ PersistStale(a) \/ PutFails(a) \/ SavedStep(a)
  BY <1>1, <1>3 DEF PersistLocally, PersistStale, PutFails, SavedStep
<1>4. CASE CreateRefused(a) \/ CreateScratch(a) \/ MadeStep(a)
  BY <1>1, <1>4 DEF CreateRefused, CreateScratch, MadeStep, Made
<1>5. CASE UnlinkRefused(a) \/ UnlinkScratch(a) \/ UnlinkedStep(a) \/ DropFails(a)
  BY <1>1, <1>5 DEF UnlinkRefused, UnlinkScratch, UnlinkedStep, DropFails
<1>6. CASE RenameRefused(a) \/ RenameLocally(a) \/ RenamedStep(a)
  BY <1>1, <1>6 DEF RenameRefused, RenameLocally, RenamedStep
<1> QED
  BY <1>2, <1>3, <1>4, <1>5, <1>6

(* opendir and readdir keep their entries in the task.                     *)
LEMMA ListingMoves ==
  ASSUME TasksOK, NEW a \in Apps, OpendirStep(a) \/ ReaddirStep(a)
  PROVE  task' = task \/ TaskMove(a)
<1>0. GoodFields(task[a]) /\ GoodPlan(task[a], task[a].todo)
  BY DEF TasksOK, GoodTask
<1>1. CASE OpendirStep(a)
  <2> DEFINE l == {<<n, Entry(n)>> : n \in {m \in Names : Entry(m) # NoKey}}
             t == [task[a] EXCEPT !.left = l]
  <2>1. Then(a, t, <<"readdir">>)
    BY <1>1 DEF OpendirStep
  <2> HIDE DEF l
  <2>2. /\ DOMAIN t = DOMAIN task[a] /\ t.op = task[a].op /\ t.ino = task[a].ino
        /\ t.writing = task[a].writing /\ t.trunc = task[a].trunc /\ t.row = task[a].row
    BY <1>0 DEF GoodFields, Idle
  <2> HIDE DEF t
  <2>3. GoodFields(t)
    BY <1>0, <2>2 DEF GoodFields
  <2>4. GoodPlan(t, <<"readdir">>)
    BY HasOf DEF GoodPlan, Steps
  <2> QED
    BY <2>1, <2>2, <2>3, <2>4, TasksThen
<1>2. CASE ReaddirStep(a)
  <2>1. CASE UNCHANGED task
    BY <2>1
  <2>2. CASE ~ UNCHANGED task
    <3>1. PICK e : task' = [task EXCEPT ![a].left = @ \ {e}]
      BY <1>2, <2>2 DEF ReaddirStep
    <3> DEFINE t == [task[a] EXCEPT !.left = @ \ {e}]
    <3>2. task' = [task EXCEPT ![a] = t]
      BY <3>1
    <3>3. /\ DOMAIN t = DOMAIN task[a] /\ t.op = task[a].op /\ t.ino = task[a].ino
          /\ t.writing = task[a].writing /\ t.trunc = task[a].trunc /\ t.row = task[a].row
          /\ t.todo = task[a].todo /\ t.name = task[a].name /\ t.key = task[a].key
          /\ t.node = task[a].node /\ t.text = task[a].text
      BY <1>0 DEF GoodFields, Idle
    <3> HIDE DEF t
    <3>4. GoodTask(t)
      BY <1>0, <3>3 DEF GoodTask, GoodFields, GoodPlan, Holding
    <3> QED
      BY <3>2, <3>3, <3>4 DEF TaskMove
  <2> QED
    BY <2>1, <2>2
<1> QED
  BY <1>1, <1>2

(* An entry has a text of its own, or is of a published page.              *)
LEMMA OwnOrPublished ==
  ASSUME TreeOK, NEW k \in NodeKeys(view)
  PROVE  LET n == Node(view, k) IN
         /\ GoodNode(n)
         /\ n.row # NoRow /\ n.row.text # NoText => n.row.text \in Bodies
         /\ ~ (n.row # NoRow /\ n.row.text # NoText) =>
              n.doc = k /\ k \in Docs /\ OfDocument(n)
<1> DEFINE n == Node(view, k)
<1>1. GoodNode(n)
  BY EntryShape DEF TreeOK
<1>2. CASE k \in Docs
  <2>1. OfDocument(n) /\ n.doc = k
    BY <1>2, EntryShape DEF TreeOK
  <2> HIDE DEF n
  <2>2. n.row # NoRow /\ n.row.text # NoText => n.row.text \in Bodies
    BY <2>1 DEF OfDocument, Shaped
  <2> QED
    BY <1>1, <1>2, <2>1, <2>2 DEF n
<1>3. CASE k \notin Docs
  <2>1. PICK p \in Created(view) : n = DraftNode(view, p)
    BY <1>3, EntryShape DEF TreeOK
  <2>2. OfDraft(n)
    BY <2>1, DraftShape DEF TreeOK
  <2>3. n.row # NoRow
    BY <2>1 DEF Created, DraftNode
  <2> HIDE DEF n
  <2>4. n.row.text \in Bodies
    BY <2>2 DEF OfDraft, Shaped
  <2>5. n.row.text # NoText
    BY <2>4, MountAssumption DEF Bodies
  <2> QED
    BY <1>1, <2>3, <2>4, <2>5 DEF n
<1> QED
  BY <1>2, <1>3

(* open() ends, or waits for the body of a published page.                 *)
LEMMA OpenMoves ==
  ASSUME TasksOK, TreeOK, NEW a \in Apps, OpenNode(a)
  PROVE  TaskMove(a)
<1> DEFINE k == Resolved(task[a].ino)
           n == Node(view, k)
           t == [task[a] EXCEPT !.key = k, !.node = n]
<1>1. CASE Return(a)
  BY <1>1, TasksReturn
<1>2. CASE ~ Return(a)
  <2>1. k \in NodeKeys(view) /\ At(a) = "open"
    BY DEF OpenNode, Now
  <2>2. /\ Then(a, t, <<"content">>)
        /\ ~ (n.row # NoRow /\ n.row.text # NoText)
    BY <1>2 DEF OpenNode
  <2>3. GoodNode(n) /\ n.doc = k /\ k \in Docs
    BY <2>1, <2>2, OwnOrPublished
  <2>4. /\ GoodFields(task[a]) /\ task[a].ino \in Numbers
    <3>1. Has(task[a].todo, "open")
      BY <2>1, StepIsLeft DEF Steps
    <3> QED
      BY <3>1 DEF TasksOK, GoodTask, GoodPlan
  <2> HIDE DEF n, k
  <2>5. /\ DOMAIN t = DOMAIN task[a] /\ t.op = task[a].op /\ t.ino = task[a].ino
        /\ t.writing = task[a].writing /\ t.trunc = task[a].trunc /\ t.row = task[a].row
        /\ t.key = k /\ t.node = n
    BY <2>4 DEF GoodFields, Idle
  <2> HIDE DEF t
  <2>6. GoodFields(t)
    BY <2>4, <2>5 DEF GoodFields
  <2>7. GoodPlan(t, <<"content">>)
    BY <2>3, <2>4, <2>5, HasOf DEF GoodPlan, Holding, Steps
  <2> QED
    BY <2>2, <2>5, <2>6, <2>7, TasksThen
<1> QED
  BY <1>1, <1>2

(* A flush writes what the handle holds to a draft.                        *)
LEMMA PersistMoves ==
  ASSUME TasksOK, TreeOK, HandlesOK, NEW a \in Apps, PersistDraft(a)
  PROVE  TaskMove(a)
<1>1. Has(task[a].todo, "persist") /\ GoodFields(task[a]) /\ GoodPlan(task[a], task[a].todo)
  BY StepIsLeft DEF PersistDraft, Now, Steps
<1>2. task[a].op \in {"close", "fsync"}
  BY <1>1 DEF GoodPlan
<1>3. handle[a].text \in Bodies
  BY <1>2 DEF HandlesOK, GoodHandle
<1>4. /\ handle[a].key \in NodeKeys(view)
      /\ WriteDraft(a, task[a], handle[a].key, handle[a].text, "saved")
  BY DEF PersistDraft
<1> QED
  BY <1>1, <1>2, <1>3, <1>4, WriteDraftMoves

(* A save makes the row it is to put.                                      *)
LEMMA SaveMoves ==
  ASSUME TasksOK, TreeOK, ServerOK, FilesOK, NEW a \in Apps, SaveStep(a)
  PROVE  TaskMove(a)
<1> DEFINE t == task[a]
           n == IF t.key \in NodeKeys(view) THEN Node(view, t.key) ELSE t.node
           r == Row("update", n.doc, BaseFor(n), t.text)
           u == Putting(t, n.path, r)
<1>1. /\ At(a) = "save" /\ Then(a, u, Tail(t.todo))
  BY DEF SaveStep, Now
<1>2. /\ GoodFields(t) /\ GoodPlan(t, t.todo) /\ Has(t.todo, "save") /\ t.todo # <<>>
      /\ t.todo \in Seq(Steps)
  BY <1>1, StepIsLeft, AtIsNext DEF Steps
<1>3. Holding(t) /\ t.text \in Bodies
  BY <1>2 DEF GoodPlan
<1>4. GoodNode(n) /\ n.doc = t.key /\ n.doc \in Docs
  BY <1>3, EntryShape DEF Holding, TreeOK, OfDraft
<1>5. Shaped(r)
  BY <1>3, <1>4, BaseIsRevision, RowsAreShaped
<1> HIDE DEF r, n
<1>6. /\ GoodFields(u) /\ u.op = t.op /\ u.ino = t.ino /\ u.key = t.key
      /\ u.node = t.node /\ u.text = t.text /\ u.name = t.name /\ u.todo = t.todo
      /\ u.writing = t.writing /\ u.trunc = t.trunc
  BY <1>2, <1>5, PuttingIsGood
<1>7. GoodPlan(t, Tail(t.todo))
  BY <1>2, TailLeft DEF GoodPlan
<1> HIDE DEF u
<1>8. GoodPlan(u, Tail(t.todo))
  BY <1>6, <1>7 DEF GoodPlan, Holding
<1> QED
  BY <1>1, <1>6, <1>8, TasksThen

(* A new page is put as an empty draft.                                    *)
LEMMA CreateMoves ==
  ASSUME TasksOK, NEW a \in Apps, CreatePage(a)
  PROVE  TaskMove(a)
<1> DEFINE todo == <<"put", "refresh", "made">>
<1>1. Then(a, Creating(task[a], task[a].name, Empty), todo)
  BY DEF CreatePage
<1>2. GoodFields(task[a])
  BY DEF TasksOK, GoodTask
<1>3. \A s : Has(todo, s) <=> s \in {"put", "refresh", "made"}
  BY HasOf
<1>4. todo \in Seq(Steps)
  BY DEF Steps
<1> HIDE DEF todo
<1>5. GoodPlan(task[a], todo) /\ ~ Has(todo, "save") /\ ~ Has(todo, "content")
  BY <1>3, <1>4 DEF GoodPlan
<1> QED
  BY <1>1, <1>2, <1>5, EmptyIsBody, CreatingIsGood

(* Removing a page drops its draft or puts a delete draft.                 *)
LEMMA UnlinkMoves ==
  ASSUME TasksOK, TreeOK, NEW a \in Apps, UnlinkNode(a)
  PROVE  TaskMove(a)
<1> DEFINE k == Entry(task[a].name)
           n == Node(view, k)
<1>0. GoodFields(task[a]) /\ k \in NodeKeys(view)
  BY DEF TasksOK, GoodTask, UnlinkNode
<1>1. GoodNode(n)
  BY <1>0, EntryShape DEF TreeOK
<1>2. CASE n.doc = Nowhere
  <2> DEFINE t == [task[a] EXCEPT !.dropped = n.path]
             todo == <<"drop", "refresh", "unlinked">>
  <2>1. Then(a, t, todo)
    BY <1>2 DEF UnlinkNode
  <2> HIDE DEF n
  <2>2. /\ DOMAIN t = DOMAIN task[a] /\ t.op = task[a].op /\ t.ino = task[a].ino
        /\ t.writing = task[a].writing /\ t.trunc = task[a].trunc /\ t.row = task[a].row
    BY <1>0 DEF GoodFields, Idle
  <2> HIDE DEF t
  <2>3. GoodFields(t)
    BY <1>0, <2>2 DEF GoodFields
  <2>4. \A s : Has(todo, s) <=> s \in {"drop", "refresh", "unlinked"}
    BY HasOf
  <2>5. todo \in Seq(Steps)
    BY DEF Steps
  <2> HIDE DEF todo
  <2>6. GoodPlan(t, todo)
    BY <2>4, <2>5 DEF GoodPlan
  <2> QED
    BY <2>1, <2>2, <2>3, <2>6, TasksThen
<1>3. CASE n.doc # Nowhere
  <2> DEFINE r == Row("delete", n.doc, n.tip, NoText)
             t == Putting(task[a], n.path, r)
             todo == <<"put", "refresh", "unlinked">>
  <2>1. Then(a, t, todo)
    BY <1>3 DEF UnlinkNode
  <2>2. Shaped(r)
    BY <1>1, <1>3, ShownIsRevision, RowsAreShaped DEF OfDocument
  <2> HIDE DEF n, r
  <2>3. GoodFields(t) /\ t.op = task[a].op
    BY <1>0, <2>2, PuttingIsGood
  <2>4. \A s : Has(todo, s) <=> s \in {"put", "refresh", "unlinked"}
    BY HasOf
  <2>5. todo \in Seq(Steps)
    BY DEF Steps
  <2> HIDE DEF todo, t
  <2>6. GoodPlan(t, todo)
    BY <2>4, <2>5 DEF GoodPlan
  <2> QED
    BY <2>1, <2>3, <2>6, TasksThen
<1> QED
  BY <1>2, <1>3

(* An atomic save writes the bytes of the scratch file to a draft.         *)
LEMMA RenameScratchMoves ==
  ASSUME TasksOK, TreeOK, FilesOK, NEW a \in Apps, RenameScratch(a)
  PROVE  TaskMove(a)
<1> DEFINE from == Entry(task[a].name)
           to == task[a].to
           over == KeyAt(view, to)
           text == scratch[from[2]].text
<1>1. At(a) = "rename" /\ from \in ScratchKeys /\ to \in Paths
  BY DEF RenameScratch, Now
<1>2. GoodFields(task[a]) /\ task[a].name \in Names
  BY <1>1, StepIsLeft DEF Steps, GoodPlan
<1>3. text \in Bodies
  BY <1>1, EntryIs, KeysApart DEF FilesOK
<1>4. CASE over \in Docs
  <2> DEFINE t == [task[a] EXCEPT !.old = from, !.new = over]
  <2>1. WriteDraft(a, t, over, text, "renamed")
    BY <1>4 DEF RenameScratch
  <2>2. over \in NodeKeys(view)
    BY <1>1, <1>4, KeyAtIs, MountAssumption DEF TreeOK
  <2> HIDE DEF from, over, text
  <2>3. /\ DOMAIN t = DOMAIN task[a] /\ t.op = task[a].op /\ t.ino = task[a].ino
        /\ t.writing = task[a].writing /\ t.trunc = task[a].trunc /\ t.row = task[a].row
        /\ t.name = task[a].name
    BY <1>2 DEF GoodFields, Idle
  <2> HIDE DEF t
  <2>4. GoodFields(t)
    BY <1>2, <2>3 DEF GoodFields
  <2> QED
    BY <1>2, <1>3, <2>1, <2>2, <2>3, <2>4, WriteDraftMoves
<1>5. CASE over \notin Docs
  <2> DEFINE t == [task[a] EXCEPT !.old = from, !.new = DraftKey(to)]
             todo == <<"put", "refresh", "renamed">>
  <2>1. Then(a, Creating(t, to, text), todo)
    BY <1>5 DEF RenameScratch
  <2> HIDE DEF from, over, text, to
  <2>3. /\ DOMAIN t = DOMAIN task[a] /\ t.op = task[a].op /\ t.ino = task[a].ino
        /\ t.writing = task[a].writing /\ t.trunc = task[a].trunc /\ t.row = task[a].row
        /\ t.name = task[a].name
    BY <1>2 DEF GoodFields, Idle
  <2> HIDE DEF t
  <2>4. GoodFields(t)
    BY <1>2, <2>3 DEF GoodFields
  <2>5. \A s : Has(todo, s) <=> s \in {"put", "refresh", "renamed"}
    BY HasOf
  <2>6. todo \in Seq(Steps)
    BY DEF Steps
  <2> HIDE DEF todo
  <2>7. GoodPlan(t, todo) /\ ~ Has(todo, "save") /\ ~ Has(todo, "content")
    BY <1>2, <2>3, <2>5, <2>6 DEF GoodPlan
  <2> QED
    BY <1>3, <2>1, <2>3, <2>4, <2>7, CreatingIsGood
<1> QED
  BY <1>4, <1>5

(* A rename puts a draft at the new path, or a move draft.                 *)
LEMMA RenameNodeMoves ==
  ASSUME TasksOK, TreeOK, NEW a \in Apps, RenameNode(a)
  PROVE  TaskMove(a)
<1> DEFINE from == Entry(task[a].name)
           to == task[a].to
           n == Node(view, from)
<1>1. At(a) = "rename" /\ from \in NodeKeys(view)
  BY DEF RenameNode, Now
<1>2. GoodFields(task[a]) /\ task[a].name \in Names
  BY <1>1, StepIsLeft DEF Steps, GoodPlan
<1>3. GoodNode(n)
  BY <1>1, EntryShape DEF TreeOK
<1>4. CASE n.doc = Nowhere
  <2> DEFINE t == [task[a] EXCEPT !.old = from, !.new = DraftKey(to), !.dropped = n.path]
             todo == <<"put", "refresh", "drop", "refresh", "renamed">>
  <2>1. Then(a, Creating(t, to, n.row.text), todo)
    BY <1>4 DEF RenameNode
  <2>2. n.row.text \in Bodies
    BY <1>3, <1>4, MountAssumption DEF GoodNode, OfDocument, OfDraft, Shaped
  <2> HIDE DEF from, n, to
  <2>3. /\ DOMAIN t = DOMAIN task[a] /\ t.op = task[a].op /\ t.ino = task[a].ino
        /\ t.writing = task[a].writing /\ t.trunc = task[a].trunc /\ t.row = task[a].row
        /\ t.name = task[a].name
    BY <1>2 DEF GoodFields, Idle
  <2> HIDE DEF t
  <2>4. GoodFields(t)
    BY <1>2, <2>3 DEF GoodFields
  <2>5. \A s : Has(todo, s) <=> s \in {"put", "refresh", "drop", "renamed"}
    BY HasOf
  <2>6. todo \in Seq(Steps)
    BY DEF Steps
  <2> HIDE DEF todo
  <2>7. GoodPlan(t, todo) /\ ~ Has(todo, "save") /\ ~ Has(todo, "content")
    BY <1>2, <2>3, <2>5, <2>6 DEF GoodPlan
  <2> QED
    BY <2>1, <2>2, <2>3, <2>4, <2>7, CreatingIsGood
<1>5. CASE n.doc # Nowhere
  <2> DEFINE r == Row("move", n.doc, n.tip, NoText)
             t == Putting(task[a], to, r)
             todo == <<"put", "refresh", "renamed">>
  <2>1. Then(a, t, todo)
    BY <1>5 DEF RenameNode
  <2>2. Shaped(r)
    BY <1>3, <1>5, ShownIsRevision, RowsAreShaped DEF OfDocument
  <2> HIDE DEF n, r, to
  <2>3. GoodFields(t) /\ t.op = task[a].op /\ t.name = task[a].name
    BY <1>2, <2>2, PuttingIsGood
  <2>4. \A s : Has(todo, s) <=> s \in {"put", "refresh", "renamed"}
    BY HasOf
  <2>5. todo \in Seq(Steps)
    BY DEF Steps
  <2> HIDE DEF todo, t
  <2>6. GoodPlan(t, todo)
    BY <1>2, <2>3, <2>4, <2>5 DEF GoodPlan
  <2> QED
    BY <2>1, <2>3, <2>6, TasksThen
<1> QED
  BY <1>4, <1>5

(* Every handler leaves its task alone or moves it to a good one.          *)
LEMMA HandlerMoves ==
  ASSUME TasksOK, TreeOK, ServerOK, FilesOK, HandlesOK, NEW a \in Apps, Handler(a)
  PROVE  task' = task \/ TaskMove(a)
<1>1. CASE Current(a) \/ AnswerPut(a) \/ AnswerDrop(a)
  <2>1. Proceed(a) /\ At(a) \in {"current", "put", "drop"}
    BY <1>1 DEF Current, AnswerPut, AnswerDrop, Answered
  <2> QED
    BY <2>1, TasksProceed
<1>2. CASE TakeLock(a)
  BY <1>2 DEF TakeLock, runVars
<1>3. CASE OpendirStep(a) \/ ReaddirStep(a)
  BY <1>3, ListingMoves
<1>4. CASE OpenNode(a)
  BY <1>4, OpenMoves
<1>5. CASE PersistDraft(a) \/ SaveStep(a)
  BY <1>5, PersistMoves, SaveMoves
<1>6. CASE CreatePage(a) \/ UnlinkNode(a)
  BY <1>6, CreateMoves, UnlinkMoves
<1>7. CASE RenameScratch(a) \/ RenameNode(a)
  BY <1>7, RenameScratchMoves, RenameNodeMoves
<1>8. CASE Return(a)
  BY <1>8, TasksReturn
<1> QED
  BY <1>1, <1>2, <1>3, <1>4, <1>5, <1>6, <1>7, <1>8, Endings DEF Handler

-----------------------------------------------------------------------------
(* Calls                                                                   *)

(* A task that begins has nothing to send, and is far from sending it.     *)
Begins(t) ==
  t.row = NoRow /\ \A s \in {"content", "save", "put", "saved"} : ~ Has(t.todo, s)

(* A call begins: the task was idle, and what it closes is open.           *)
TaskCall(a) ==
  \E t : /\ GoodTask(t) /\ Begins(t) /\ task[a] = Idle
         /\ t.op \in {"close", "fsync"} => handle[a] # NoHandle
         /\ task' = [task EXCEPT ![a] = t]

(* The fields a call sets.                                                 *)
LEMMA CallShape ==
  ASSUME NEW op, NEW step
  PROVE  /\ DOMAIN Call(op, step) = DOMAIN Idle /\ Call(op, step).op = op
         /\ Call(op, step).todo = <<"current", step>>
         /\ Call(op, step).ino \in Nat /\ Call(op, step).row = NoRow
         /\ Call(op, step).writing \in BOOLEAN /\ Call(op, step).trunc \in BOOLEAN
BY DEF Call, Idle

(* A task with these fields is a good one.                                 *)
LEMMA CallIsGood ==
  ASSUME NEW t, DOMAIN t = DOMAIN Idle,
         NEW step, step \in {"stat", "look", "opendir", "open", "create", "unlink", "rename"},
         t.todo = <<"current", step>>, t.row = NoRow, t.ino \in Nat,
         t.writing \in BOOLEAN, t.trunc \in BOOLEAN,
         step = "open" => t.ino \in Numbers /\ (t.trunc => t.writing),
         step = "rename" => t.name \in Names
  PROVE  GoodTask(t) /\ Begins(t)
<1>1. t.todo \in Seq(Steps)
  BY DEF Steps
<1>2. \A s : Has(t.todo, s) <=> s \in {"current", step}
  BY HasOf
<1>3. GoodPlan(t, t.todo)
  BY <1>1, <1>2 DEF GoodPlan
<1>4. GoodFields(t)
  BY DEF GoodFields
<1> QED
  BY <1>2, <1>3, <1>4 DEF GoodTask, Begins

(* An application's call begins a good task, or none.                      *)
LEMMA CallMoves ==
  ASSUME FilesOK, NEW a \in Apps, Stat(a) \/ Kernel(a)
  PROVE  task' = task \/ TaskCall(a)
<1>1. ASSUME NEW t, GoodTask(t), Begins(t), Request(a, t),
             t.op \in {"close", "fsync"} => handle[a] # NoHandle
      PROVE  TaskCall(a)
  BY <1>1 DEF Request, Go, TaskCall
<1>2. CASE Stat(a)
  <2> DEFINE t == Call("stat", "stat")
  <2>1. GoodTask(t) /\ Begins(t) /\ t.op = "stat"
    BY CallShape, CallIsGood
  <2>2. Request(a, t)
    BY <1>2 DEF Stat
  <2> QED
    BY <1>1, <2>1, <2>2
<1>3. CASE List(a)
  <2> DEFINE t == Call("list", "opendir")
  <2>1. GoodTask(t) /\ Begins(t) /\ t.op = "list"
    BY CallShape, CallIsGood
  <2>2. Request(a, t)
    BY <1>3 DEF List
  <2> QED
    BY <1>1, <2>1, <2>2
<1>4. ASSUME NEW n \in Names, NEW op, NEW step, Request(a, [Call(op, step) EXCEPT !.name = n]),
             op \in {"look", "create", "unlink"}, step \in {"look", "create", "unlink"}
      PROVE  TaskCall(a)
  <2> DEFINE c == Call(op, step)
             t == [c EXCEPT !.name = n]
  <2>1. /\ DOMAIN c = DOMAIN Idle /\ c.op = op /\ c.todo = <<"current", step>>
        /\ c.ino \in Nat /\ c.row = NoRow /\ c.writing \in BOOLEAN /\ c.trunc \in BOOLEAN
    BY CallShape
  <2>2. Request(a, t)
    BY <1>4
  <2> HIDE DEF c
  <2>3. /\ DOMAIN t = DOMAIN Idle /\ t.op = op /\ t.todo = <<"current", step>>
        /\ t.ino \in Nat /\ t.row = NoRow /\ t.writing \in BOOLEAN /\ t.trunc \in BOOLEAN
    BY <2>1 DEF Idle
  <2> HIDE DEF t
  <2>4. GoodTask(t) /\ Begins(t)
    BY <1>4, <2>3, CallIsGood
  <2> QED
    BY <1>1, <1>4, <2>2, <2>3, <2>4
<1>5. ASSUME NEW n \in Names, NEW to, Rename(a, n, to) PROVE TaskCall(a)
  <2> DEFINE c == Call("rename", "rename")
             t == [c EXCEPT !.name = n, !.to = to]
  <2>1. /\ DOMAIN c = DOMAIN Idle /\ c.op = "rename" /\ c.todo = <<"current", "rename">>
        /\ c.ino \in Nat /\ c.row = NoRow /\ c.writing \in BOOLEAN /\ c.trunc \in BOOLEAN
    BY CallShape
  <2>2. Request(a, t)
    BY <1>5 DEF Rename
  <2> HIDE DEF c
  <2>3. /\ DOMAIN t = DOMAIN Idle /\ t.op = "rename" /\ t.todo = <<"current", "rename">>
        /\ t.ino \in Nat /\ t.row = NoRow /\ t.writing \in BOOLEAN /\ t.trunc \in BOOLEAN /\ t.name = n
    BY <2>1 DEF Idle
  <2> HIDE DEF t
  <2>4. GoodTask(t) /\ Begins(t)
    BY <2>3, CallIsGood
  <2> QED
    BY <1>1, <2>2, <2>3, <2>4
<1>6. ASSUME NEW n \in Names, NEW w \in BOOLEAN, NEW x \in BOOLEAN, Open(a, n, w, x), x => w
      PROVE  TaskCall(a)
  <2> DEFINE c == Call("open", "open")
             t == [c EXCEPT !.ino = dentry[n], !.writing = w, !.trunc = x]
  <2>1. /\ DOMAIN c = DOMAIN Idle /\ c.op = "open" /\ c.todo = <<"current", "open">>
        /\ c.ino \in Nat /\ c.row = NoRow /\ c.writing \in BOOLEAN /\ c.trunc \in BOOLEAN
    BY CallShape
  <2>2. Request(a, t) /\ dentry[n] # 0
    BY <1>6 DEF Open
  <2> HIDE DEF c
  <2>3. /\ DOMAIN t = DOMAIN Idle /\ t.op = "open" /\ t.todo = <<"current", "open">>
        /\ t.ino = dentry[n] /\ t.writing = w /\ t.trunc = x /\ t.row = NoRow
    BY <2>1 DEF Idle
  <2>4. dentry[n] \in Numbers /\ dentry[n] \in Nat
    BY <2>2, Numbering DEF FilesOK
  <2> HIDE DEF t
  <2>5. GoodTask(t) /\ Begins(t)
    BY <1>6, <2>3, <2>4, CallIsGood
  <2> QED
    BY <1>1, <2>2, <2>3, <2>5
<1>7. ASSUME NEW op, Flush(a, op) PROVE TaskCall(a)
  <2> DEFINE t == [Idle EXCEPT !.op = op, !.todo = <<"persist">>]
  <2>1. op \in {"close", "fsync"} /\ handle[a] # NoHandle /\ Request(a, t)
    BY <1>7 DEF Flush
  <2>2. /\ DOMAIN t = DOMAIN Idle /\ t.op = op /\ t.todo = <<"persist">>
        /\ t.ino \in Nat /\ t.row = NoRow /\ t.writing \in BOOLEAN /\ t.trunc \in BOOLEAN
    BY DEF Idle
  <2> HIDE DEF t
  <2>3. t.todo \in Seq(Steps) /\ \A s : Has(t.todo, s) <=> s = "persist"
    BY <2>2, HasOf DEF Steps
  <2>4. GoodTask(t) /\ Begins(t)
    BY <2>1, <2>2, <2>3 DEF GoodTask, GoodFields, GoodPlan, Begins
  <2> QED
    BY <1>1, <2>1, <2>2, <2>4
<1>8. ASSUME NEW n, Truncate(a, n) PROVE task' = task
  BY <1>8 DEF Truncate, runVars
<1>9. Write(a) => task' = task
  BY DEF Write, runVars
<1> QED
  <2>1. ASSUME NEW n \in Names, Lookup(a, n) \/ Create(a, n) \/ Unlink(a, n) PROVE TaskCall(a)
    <3>1. CASE Lookup(a, n)
      BY <1>4, <3>1 DEF Lookup
    <3>2. CASE Create(a, n)
      BY <1>4, <3>2 DEF Create
    <3>3. CASE Unlink(a, n)
      BY <1>4, <3>3 DEF Unlink
    <3> QED
      BY <2>1, <3>1, <3>2, <3>3
  <2> QED
    BY <1>2, <1>3, <1>5, <1>6, <1>7, <1>8, <1>9, <2>1 DEF Kernel

(* Where the steps of the other actors leave the tasks.                    *)
LEMMA RefreshMoves ==
  ASSUME TasksOK, TreeOK, Holder, Refreshing
  PROVE  task' = task \/ (TaskMove(fetch.by) /\ fetch' = NoFetch)
<1>1. CASE AnswerToken \/ AnswerManifest \/ AnswerDrafts
  BY <1>1 DEF AnswerToken, AnswerManifest, AnswerDrafts, runVars
<1>2. CASE Same \/ Install \/ RefreshFails
  <2>1. fetch # NoFetch /\ fetch' = NoFetch /\ (Proceed(fetch.by) \/ task' = task)
    BY <1>2 DEF Same, Install, RefreshFails, Fetching
  <2>2. fetch.by \in Apps /\ At(fetch.by) # "none"
    BY <2>1 DEF TreeOK, GoodFetch, Holder
  <2> QED
    BY <2>1, <2>2, TasksProceed
<1> QED
  BY <1>1, <1>2 DEF Refreshing

(* Nobody else moves a task, takes the lock or touches a handle.           *)
LEMMA OthersMoves ==
  ASSUME \/ Expire \/ Others \/ \E i \in Numbers : Forgets(i)
  PROVE  task' = task /\ fetch' = fetch /\ handle' = handle
<1>1. CASE Others
  <2>1. \E kind : Elsewhere(kind)
    BY <1>1 DEF Others, OtherPublishes, OtherRetires, OtherMoves, Grants, CliPush,
       CliMerge, CliRevert
  <2> QED
    BY <2>1 DEF Elsewhere, runVars, treeVars, fileVars
<1>2. CASE Expire
  BY <1>2 DEF Expire, runVars, fileVars
<1>3. CASE \E i \in Numbers : Forgets(i)
  BY <1>3 DEF Forgets, runVars, treeVars, fileVars
<1> QED
  BY <1>1, <1>2, <1>3

(* Every step leaves good tasks.                                           *)
LEMMA TasksNext ==
  ASSUME Shapes, Next PROVE TasksOK'
<1> USE DEF Shapes
<1>1. ASSUME NEW a \in Apps, Stat(a) \/ Kernel(a) PROVE TasksOK'
  BY <1>1, CallMoves DEF TasksOK, TaskCall
<1>2. ASSUME NEW a \in Apps, Handler(a) PROVE TasksOK'
  BY <1>2, HandlerMoves, TasksMove DEF TasksOK
<1>3. CASE Refreshing
  BY <1>3, RefreshMoves, TasksMove DEF TasksOK
<1>4. CASE Expire \/ Others \/ \E i \in Numbers : Forgets(i)
  BY <1>4, OthersMoves DEF TasksOK
<1>5. CASE Restart
  <2>1. task' = [a \in Apps |-> Idle]
    BY <1>5 DEF Restart, Started
  <2> QED
    BY <2>1, IdleIsGood DEF TasksOK
<1> QED
  BY <1>1, <1>2, <1>3, <1>4, <1>5 DEF Next

-----------------------------------------------------------------------------
(* What each part of the state is changed by                               *)

(* The steps that change the server, or what the user has been told.       *)
ServerMoves ==
  \/ \E a \in Apps : \/ OpenNode(a) \/ SaveStep(a) \/ RenameNode(a)
                     \/ AnswerPut(a) \/ PutFails(a) \/ AnswerDrop(a) \/ DropFails(a)
  \/ Others

(* No other step does.                                                     *)
LEMMA ServerFrame ==
  ASSUME Next, ~ ServerMoves PROVE UNCHANGED serverVars
<1>1. ASSUME NEW a \in Apps, Stat(a) \/ Kernel(a) PROVE UNCHANGED serverVars
  <2>1. ASSUME NEW t, Request(a, t) PROVE UNCHANGED serverVars
    BY <2>1 DEF Request
  <2>2. ASSUME NEW n, Truncate(a, n) PROVE UNCHANGED serverVars
    BY <2>2 DEF Truncate
  <2>3. ASSUME Write(a) PROVE UNCHANGED serverVars
    BY <2>3 DEF Write
  <2> QED
    BY <1>1, <2>1, <2>2, <2>3, CallsAre
<1>2. CASE \E a \in Apps : Handler(a)
  BY <1>2 DEF ServerMoves, Handler, Current, TakeLock, StatStep, LookupStep, OpendirStep,
     ReaddirStep, Releasedir, OpenScratch, OpenRefused, AnswerContent, ContentFails,
     PersistLocally, PersistStale, PersistDraft, SavedStep, CreateRefused, CreateScratch,
     CreatePage, MadeStep, UnlinkRefused, UnlinkScratch, UnlinkNode, UnlinkedStep,
     RenameRefused, RenameLocally, RenameScratch, RenamedStep
<1>3. CASE Expire \/ Refreshing \/ (\E i \in Numbers : Forgets(i)) \/ Restart
  BY <1>3 DEF Expire, Refreshing, AnswerToken, Same, AnswerManifest, AnswerDrafts,
     Install, RefreshFails, Forgets, Restart
<1> QED
  BY <1>1, <1>2, <1>3 DEF Next, ServerMoves

(* What a step leaves of the tree unless it refreshes it.                  *)
TreeStays ==
  /\ UNCHANGED <<view, known>>
  /\ fetch' = fetch \/ \E a \in Apps : TakeLock(a)
  /\ fresh' = fresh \/ fresh' = FALSE

(* Only a refresh and a restart change the tree, and only a task that      *)
(* takes the lock begins a refresh.                                        *)
LEMMA TreeFrame ==
  ASSUME Next, ~ Refreshing, ~ Restart PROVE TreeStays
<1> USE DEF TreeStays
<1>1. ASSUME NEW a \in Apps, Stat(a) \/ Kernel(a) PROVE UNCHANGED treeVars
  <2>1. ASSUME NEW t, Request(a, t) PROVE UNCHANGED treeVars
    BY <2>1 DEF Request
  <2>2. ASSUME NEW n, Truncate(a, n) PROVE UNCHANGED treeVars
    BY <2>2 DEF Truncate
  <2>3. ASSUME Write(a) PROVE UNCHANGED treeVars
    BY <2>3 DEF Write
  <2> QED
    BY <1>1, <2>1, <2>2, <2>3, CallsAre
<1>2. ASSUME NEW a \in Apps, Handler(a) PROVE TreeStays
  <2>1. CASE \/ Current(a) \/ StatStep(a) \/ LookupStep(a) \/ OpendirStep(a)
             \/ ReaddirStep(a) \/ Releasedir(a) \/ OpenScratch(a) \/ OpenRefused(a)
    BY <2>1 DEF treeVars, Current, StatStep, LookupStep, OpendirStep, ReaddirStep,
       Releasedir, OpenScratch, OpenRefused
  <2>2. CASE TakeLock(a)
    BY <2>2 DEF TakeLock
  <2>3. CASE OpenNode(a)
    BY <2>3 DEF OpenNode, treeVars
  <2>4. CASE \/ AnswerContent(a) \/ ContentFails(a) \/ PersistLocally(a) \/ PersistStale(a)
             \/ SaveStep(a) \/ AnswerPut(a) \/ PutFails(a) \/ SavedStep(a)
    BY <2>4 DEF treeVars, AnswerContent, ContentFails, PersistLocally, PersistStale,
       SaveStep, AnswerPut, PutFails, SavedStep
  <2>5. CASE PersistDraft(a)
    BY <2>5 DEF PersistDraft, WriteDraft
  <2>6. CASE \/ CreateRefused(a) \/ CreateScratch(a) \/ CreatePage(a) \/ MadeStep(a)
             \/ UnlinkRefused(a) \/ UnlinkScratch(a) \/ UnlinkNode(a) \/ UnlinkedStep(a)
    BY <2>6 DEF treeVars, CreateRefused, CreateScratch, CreatePage, MadeStep,
       UnlinkRefused, UnlinkScratch, UnlinkNode, UnlinkedStep
  <2>7. CASE \/ AnswerDrop(a) \/ DropFails(a) \/ RenameRefused(a) \/ RenameLocally(a)
             \/ RenameNode(a) \/ RenamedStep(a)
    BY <2>7 DEF treeVars, AnswerDrop, DropFails, RenameRefused, RenameLocally, RenameNode,
       RenamedStep
  <2>8. CASE RenameScratch(a)
    BY <2>8 DEF RenameScratch, WriteDraft
  <2> QED
    BY <1>2, <2>1, <2>2, <2>3, <2>4, <2>5, <2>6, <2>7, <2>8 DEF Handler
<1>3. CASE Expire
  BY <1>3 DEF Expire
<1>4. CASE Others
  <2>1. \E kind : Elsewhere(kind)
    BY <1>4 DEF Others, OtherPublishes, OtherRetires, OtherMoves, Grants, CliPush,
       CliMerge, CliRevert
  <2> QED
    BY <2>1 DEF Elsewhere, treeVars
<1>5. CASE \E i \in Numbers : Forgets(i)
  BY <1>5 DEF Forgets, treeVars
<1> QED
  BY <1>1, <1>2, <1>3, <1>4, <1>5 DEF Next, treeVars

(* The steps that change the files of the mount, the text an application   *)
(* edits or the kernel's cache of names.                                   *)
FileMoves ==
  \/ \E a \in Apps :
       \/ Write(a) \/ \E n \in Names : Truncate(a, n)
       \/ LookupStep(a) \/ ReaddirStep(a) \/ OpenScratch(a) \/ OpenNode(a)
       \/ AnswerContent(a) \/ PersistLocally(a) \/ CreateScratch(a) \/ MadeStep(a)
       \/ UnlinkScratch(a) \/ UnlinkedStep(a) \/ RenameLocally(a) \/ RenamedStep(a)
  \/ (\E i \in Numbers : Forgets(i)) \/ Restart

(* No other step does.                                                     *)
LEMMA FileFrame ==
  ASSUME Next, ~ FileMoves
  PROVE  UNCHANGED <<checkedOut, content, scratch, scratchSeq, buffer, edits, dentry>>
<1> DEFINE kept == <<checkedOut, content, scratch, scratchSeq, buffer, edits, dentry>>
<1>1. ASSUME NEW a \in Apps, Stat(a) \/ Kernel(a) PROVE UNCHANGED kept
  <2>1. ASSUME NEW t, Request(a, t) PROVE UNCHANGED kept
    BY <2>1 DEF Request, fileVars
  <2>2. \/ \E t : Request(a, t)
        \/ Write(a)
        \/ \E n \in Names : Truncate(a, n)
    BY <1>1 DEF Stat, Kernel, Lookup, Create, Unlink, Rename, Open, List, Flush
  <2> QED
    BY <2>1, <2>2 DEF FileMoves
<1>2. ASSUME NEW a \in Apps, Handler(a) PROVE UNCHANGED kept
  <2>1. CASE \/ Current(a) \/ TakeLock(a) \/ StatStep(a) \/ OpendirStep(a)
             \/ Releasedir(a) \/ OpenRefused(a) \/ ContentFails(a) \/ PersistStale(a)
    BY <2>1 DEF fileVars, Current, TakeLock, StatStep, OpendirStep, Releasedir,
       OpenRefused, ContentFails, PersistStale
  <2>2. CASE \/ PersistDraft(a) \/ SaveStep(a) \/ AnswerPut(a) \/ PutFails(a)
             \/ SavedStep(a) \/ CreateRefused(a) \/ CreatePage(a)
    BY <2>2 DEF fileVars, PersistDraft, SaveStep, AnswerPut, PutFails, SavedStep,
       CreateRefused, CreatePage
  <2>3. CASE \/ UnlinkRefused(a) \/ UnlinkNode(a) \/ AnswerDrop(a) \/ DropFails(a)
             \/ RenameRefused(a) \/ RenameScratch(a) \/ RenameNode(a)
    BY <2>3 DEF fileVars, UnlinkRefused, UnlinkNode, AnswerDrop, DropFails, RenameRefused,
       RenameScratch, RenameNode
  <2> QED
    BY <1>2, <2>1, <2>2, <2>3 DEF Handler, FileMoves
<1>3. CASE Expire
  BY <1>3 DEF Expire, fileVars
<1>4. CASE Refreshing
  BY <1>4 DEF Refreshing, AnswerToken, Same, AnswerManifest, AnswerDrafts, Install,
     RefreshFails, fileVars
<1>5. CASE Others
  <2>1. \E kind : Elsewhere(kind)
    BY <1>5 DEF Others, OtherPublishes, OtherRetires, OtherMoves, Grants, CliPush,
       CliMerge, CliRevert
  <2> QED
    BY <2>1 DEF Elsewhere, fileVars
<1> QED
  BY <1>1, <1>2, <1>3, <1>4, <1>5 DEF Next, FileMoves

-----------------------------------------------------------------------------
(* Who holds the lock                                                      *)

(* A handler that takes or frees no lock is at another step.               *)
LEMMA HandlerIsAt ==
  ASSUME NEW a \in Apps, Handler(a), ~ TakeLock(a)
  PROVE  At(a) \notin {"current", "refresh"} \/ (Current(a) /\ At(a) = "current" /\ fresh)
<1>1. CASE \/ Current(a) \/ StatStep(a) \/ LookupStep(a) \/ OpendirStep(a)
           \/ ReaddirStep(a) \/ Releasedir(a) \/ OpenScratch(a) \/ OpenRefused(a)
  BY <1>1 DEF Current, StatStep, LookupStep, OpendirStep, ReaddirStep, Releasedir,
     OpenScratch, OpenRefused, Now, Answered
<1>2. CASE OpenNode(a)
  BY <1>2 DEF OpenNode, Now
<1>3. CASE \/ AnswerContent(a) \/ ContentFails(a) \/ PersistLocally(a) \/ PersistStale(a)
           \/ PersistDraft(a) \/ SaveStep(a) \/ AnswerPut(a) \/ PutFails(a) \/ SavedStep(a)
  BY <1>3 DEF AnswerContent, ContentFails, PersistLocally, PersistStale, PersistDraft,
     SaveStep, AnswerPut, PutFails, SavedStep, Now, Answered
<1>4. CASE \/ CreateRefused(a) \/ CreateScratch(a) \/ CreatePage(a) \/ MadeStep(a)
           \/ UnlinkRefused(a) \/ UnlinkScratch(a) \/ UnlinkNode(a) \/ UnlinkedStep(a)
  BY <1>4 DEF CreateRefused, CreateScratch, CreatePage, MadeStep, UnlinkRefused,
     UnlinkScratch, UnlinkNode, UnlinkedStep, Now
<1>5. CASE \/ AnswerDrop(a) \/ DropFails(a) \/ RenameRefused(a) \/ RenameLocally(a)
           \/ RenameScratch(a) \/ RenameNode(a) \/ RenamedStep(a)
  BY <1>5 DEF AnswerDrop, DropFails, RenameRefused, RenameLocally, RenameScratch,
     RenameNode, RenamedStep, Now, Answered
<1> QED
  BY <1>1, <1>2, <1>3, <1>4, <1>5 DEF Handler

(* The holder of the lock stays where it waits until its refresh is over.  *)
LEMMA HolderNext ==
  ASSUME Shapes, Next PROVE Holder'
<1> USE DEF Shapes
<1>0. fetch # NoFetch => /\ fetch.by \in Apps /\ At(fetch.by) \in {"current", "refresh"}
                         /\ (At(fetch.by) = "current" => ~ fresh)
  BY DEF Holder, TreeOK, GoodFetch
<1>1. ASSUME NEW a \in Apps, TakeLock(a) PROVE Holder'
  <2>1. /\ task' = task /\ fetch'.by = a /\ fresh' = fresh
        /\ At(a) = "refresh" \/ (At(a) = "current" /\ ~ fresh)
    BY <1>1 DEF TakeLock, Answered, runVars
  <2> QED
    BY <2>1 DEF Holder, At
<1>2. ASSUME NEW a \in Apps, task' = task \/ TaskMove(a) \/ TaskCall(a),
             fetch # NoFetch => a # fetch.by,
             fetch' = fetch, fresh' = fresh \/ fresh' = FALSE
      PROVE  Holder'
  <2>1. fetch # NoFetch => task'[fetch.by] = task[fetch.by]
    BY <1>0, <1>2 DEF TaskMove, TaskCall, TasksOK
  <2> QED
    BY <1>0, <1>2, <2>1 DEF Holder, At
<1>3. ASSUME ~ Refreshing, ~ Restart, \A a \in Apps : ~ TakeLock(a) PROVE Holder'
  <2>1. fetch' = fetch /\ (fresh' = fresh \/ fresh' = FALSE)
    BY <1>3, TreeFrame DEF TreeStays
  <2>2. ASSUME NEW a \in Apps, Stat(a) \/ Kernel(a) PROVE Holder'
    <3>1. task[a] = Idle => At(a) = "none"
      BY DEF At, Idle
    <3>2. task' = task \/ (TaskCall(a) /\ (fetch # NoFetch => a # fetch.by))
      BY <1>0, <2>2, <3>1, CallMoves DEF TaskCall
    <3>3. CASE task' = task
      BY <1>0, <2>1, <3>3 DEF Holder, At
    <3> QED
      BY <1>2, <2>1, <3>2, <3>3
  <2>3. ASSUME NEW a \in Apps, Handler(a) PROVE Holder'
    <3>1. fetch # NoFetch => a # fetch.by
      BY <1>0, <1>3, <2>3, HandlerIsAt
    <3> QED
      BY <1>2, <2>1, <2>3, <3>1, HandlerMoves
  <2>4. CASE Expire \/ Others \/ \E i \in Numbers : Forgets(i)
    <3>1. task' = task
      BY <2>4, OthersMoves
    <3> QED
      BY <1>0, <2>1, <3>1 DEF Holder, At
  <2> QED
    BY <1>3, <2>2, <2>3, <2>4 DEF Next
<1>4. CASE Refreshing
  <2>1. CASE fetch' = NoFetch
    BY <2>1 DEF Holder
  <2>2. CASE fetch' # NoFetch
    <3>1. AnswerToken \/ AnswerManifest \/ AnswerDrafts
      BY <1>4, <2>2 DEF Refreshing, Same, Install, RefreshFails
    <3>2. fetch # NoFetch /\ task' = task /\ fresh' = fresh /\ fetch'.by = fetch.by
      BY <3>1 DEF AnswerToken, AnswerManifest, AnswerDrafts, Fetching, runVars, TreeOK,
         GoodFetch
    <3> QED
      BY <1>0, <3>2 DEF Holder, At
  <2> QED
    BY <2>1, <2>2
<1>5. CASE Restart
  BY <1>5 DEF Restart, Started, Holder
<1> QED
  BY <1>1, <1>3, <1>4, <1>5

-----------------------------------------------------------------------------
(* The server and the tree keep their shape                                *)

(* What somebody else does to the server leaves it in shape.               *)
LEMMA OthersAreGood ==
  ASSUME ServerOK, Others PROVE ServerOK'
<1>1. ASSUME NEW d \in Docs, NEW mine \in BOOLEAN, OtherPublishes(d, mine)
      PROVE  ServerOK'
  <2> DEFINE s == [srv EXCEPT !.tip[d] = @ + 1, !.mine[d] = mine]
  <2>1. srv' = Changed(s) /\ (told' = told \/ Told(d, srv.tip[d] + 1))
    BY <1>1 DEF OtherPublishes
  <2>2. GoodServer(Changed(s))
    BY DEF ServerOK, GoodServer, Changed
  <2>3. told' \in [Docs -> SUBSET Nat]
    BY <2>1 DEF Told, ServerOK, GoodServer
  <2> QED
    BY <2>1, <2>2, <2>3 DEF ServerOK
<1>2. ASSUME NEW d \in Docs, OtherRetires(d) PROVE ServerOK'
  BY <1>2 DEF OtherRetires, ServerOK, GoodServer, Changed
<1>3. ASSUME NEW d \in Docs, NEW p \in Paths, OtherMoves(d, p) PROVE ServerOK'
  BY <1>3 DEF OtherMoves, ServerOK, GoodServer, Changed
<1>4. ASSUME NEW d \in Docs, NEW may \in Rights, Grants(d, may) PROVE ServerOK'
  BY <1>4 DEF Grants, ServerOK, GoodServer, Changed
<1>5. ASSUME NEW p \in Paths, CliPush(p) PROVE ServerOK'
  <2>1. PICK d \in Docs, x \in Paths \cup {Nowhere} :
          /\ srv' = Changed([srv EXCEPT !.rows[p] = NoRow, !.tip[d] = @ + 1,
                                        !.mine[d] = TRUE, !.path[d] = x])
          /\ Told(d, srv.tip[d] + 1)
    BY <1>5 DEF CliPush, ServerOK, GoodServer
  <2> DEFINE s == [srv EXCEPT !.rows[p] = NoRow, !.tip[d] = @ + 1, !.mine[d] = TRUE,
                              !.path[d] = x]
  <2>2. /\ DOMAIN s = DOMAIN srv /\ s.rows = [srv.rows EXCEPT ![p] = NoRow]
        /\ s.tip = [srv.tip EXCEPT ![d] = @ + 1] /\ s.mine = [srv.mine EXCEPT ![d] = TRUE]
        /\ s.path = [srv.path EXCEPT ![d] = x] /\ s.may = srv.may /\ s.token = srv.token
    BY DEF ServerOK, GoodServer
  <2> DEFINE c == Changed(s)
  <2> HIDE DEF s
  <2>5. /\ DOMAIN c = DOMAIN s /\ c.rows = s.rows /\ c.tip = s.tip /\ c.mine = s.mine
        /\ c.path = s.path /\ c.may = s.may /\ c.token = s.token + 1
    BY <2>2 DEF ServerOK, GoodServer, Changed
  <2> HIDE DEF c
  <2>6. GoodRows(c.rows)
    BY <2>2, <2>5 DEF ServerOK, GoodServer, GoodRows
  <2>3. GoodServer(c)
    BY <2>2, <2>5, <2>6 DEF ServerOK, GoodServer
  <2>4. told' \in [Docs -> SUBSET Nat]
    BY <2>1 DEF Told, ServerOK, GoodServer
  <2> QED
    BY <2>1, <2>3, <2>4 DEF ServerOK, s, c
<1>6. ASSUME NEW p \in Paths, CliMerge(p) PROVE ServerOK'
  <2> DEFINE r == srv.rows[p]
             b == srv.tip[r.doc]
             m == [r EXCEPT !.base = b, !.text.from = b]
  <2>1. /\ r # NoRow /\ r.op = "update" /\ r.base < b /\ Told(r.doc, b)
        /\ srv' = Changed([srv EXCEPT !.rows[p] = m])
    BY <1>6 DEF CliMerge, ServerOK, GoodServer, GoodRows
  <2>2. Shaped(r) /\ r.doc \in Docs
    BY <2>1 DEF ServerOK, GoodServer, GoodRows, Shaped
  <2>3. b \in Nat \ {0}
    BY <2>1, <2>2 DEF ServerOK, GoodServer, Shaped
  <2> HIDE DEF b
  <2>4. Shaped(m)
    BY <2>1, <2>2, <2>3 DEF Shaped, Bodies
  <2>5. GoodServer(srv')
    BY <2>1, <2>4, StoringIsGood DEF ServerOK
  <2>6. told' \in [Docs -> SUBSET Nat]
    BY <2>1, <2>2, <2>3 DEF Told, ServerOK
  <2> QED
    BY <2>5, <2>6 DEF ServerOK
<1>7. ASSUME NEW p \in Paths, CliRevert(p) PROVE ServerOK'
  BY <1>7, StoringIsGood DEF CliRevert, Dropped, ServerOK
<1> QED
  BY <1>1, <1>2, <1>3, <1>4, <1>5, <1>6, <1>7 DEF Others, Rights

(* What a handler tells the user is of a document, and a revision of it.   *)
LEMMA HandlersTell ==
  ASSUME ServerOK, TreeOK, TasksOK, NEW a \in Apps,
         OpenNode(a) \/ SaveStep(a) \/ RenameNode(a)
  PROVE  /\ UNCHANGED srv
         /\ \/ told' = told
            \/ \E d \in Docs, b \in Nat \ {0} : told' = [told EXCEPT ![d] = @ \cup {b}]
<1>1. CASE OpenNode(a)
  <2> DEFINE n == Node(view, Resolved(task[a].ino))
  <2>1. /\ srv' = srv
        /\ told' = told \/ RecordCheckout(n)
        /\ Resolved(task[a].ino) \in NodeKeys(view)
    BY <1>1 DEF OpenNode
  <2>2. GoodNode(n)
    BY <2>1, EntryShape DEF TreeOK
  <2> HIDE DEF n
  <2> DEFINE b == Shown(n)
  <2>3. \/ told' = told
        \/ (n.doc # Nowhere /\ told' = [told EXCEPT ![n.doc] = @ \cup {b}])
    BY <2>1 DEF RecordCheckout
  <2>4. n.doc # Nowhere => n.doc \in Docs /\ b \in Nat \ {0}
    BY <2>2, ShownIsRevision
  <2> HIDE DEF b
  <2> QED
    BY <2>1, <2>3, <2>4
<1>2. CASE SaveStep(a)
  <2> DEFINE t == task[a]
             n == IF t.key \in NodeKeys(view) THEN Node(view, t.key) ELSE t.node
  <2>1. At(a) = "save" /\ UNCHANGED srv
    BY <1>2 DEF SaveStep, Now
  <2>2. Holding(t)
    BY <2>1, StepIsLeft DEF GoodPlan, Steps
  <2>3. GoodNode(n) /\ n.doc \in Docs
    BY <2>2, EntryShape DEF Holding, TreeOK, OfDraft
  <2>4. n.tip \in Nat \ {0}
    BY <2>3, MountAssumption DEF GoodNode, OfDocument, OfDraft
  <2>5. told' = told \/ told' = [told EXCEPT ![n.doc] = @ \cup {n.tip}]
    BY <1>2 DEF SaveStep
  <2> HIDE DEF n
  <2> QED
    BY <2>1, <2>3, <2>4, <2>5
<1>3. CASE RenameNode(a)
  <2> DEFINE n == Node(view, Entry(task[a].name))
  <2>1. /\ UNCHANGED srv /\ Entry(task[a].name) \in NodeKeys(view)
        /\ n.doc = Nowhere \/ told' = [told EXCEPT ![n.doc] = @ \cup {n.tip}]
        /\ n.doc = Nowhere => told' = told
    BY <1>3 DEF RenameNode
  <2>2. GoodNode(n)
    BY <2>1, EntryShape DEF TreeOK
  <2>3. n.doc # Nowhere => n.doc \in Docs /\ n.tip \in Nat \ {0}
    BY <2>2 DEF GoodNode, OfDocument, OfDraft
  <2> HIDE DEF n
  <2> QED
    BY <2>1, <2>3
<1> QED
  BY <1>1, <1>2, <1>3

(* The requests of the handlers store or drop one row.                     *)
LEMMA HandlersStore ==
  ASSUME TasksOK, NEW a \in Apps,
         AnswerPut(a) \/ PutFails(a) \/ AnswerDrop(a) \/ DropFails(a)
  PROVE  /\ UNCHANGED told
         /\ \/ srv' = srv
            \/ (At(a) = "put" /\ srv' = Stored(a))
            \/ (At(a) = "drop" /\ srv' = Dropped(task[a].dropped))
BY DEF AnswerPut, PutFails, AnswerDrop, DropFails, Answered

(* The server keeps its shape.                                             *)
LEMMA ServerNext ==
  ASSUME Shapes, Next PROVE ServerOK'
<1> USE DEF Shapes
<1>1. ASSUME NEW a \in Apps, OpenNode(a) \/ SaveStep(a) \/ RenameNode(a) PROVE ServerOK'
  <2>1. /\ srv' = srv
        /\ \/ told' = told
           \/ \E d \in Docs, b \in Nat \ {0} : told' = [told EXCEPT ![d] = @ \cup {b}]
    BY <1>1, HandlersTell
  <2> QED
    BY <2>1 DEF ServerOK
<1>2. ASSUME NEW a \in Apps, AnswerPut(a) \/ PutFails(a) \/ AnswerDrop(a) \/ DropFails(a)
      PROVE  ServerOK'
  <2>1. task[a].row = NoRow \/ Shaped(task[a].row)
    BY DEF TasksOK, GoodTask, GoodFields
  <2> QED
    BY <1>2, <2>1, HandlersStore, StoringIsGood DEF Stored, Dropped, ServerOK
<1>3. CASE ~ ServerMoves
  BY <1>3, ServerFrame DEF ServerOK, serverVars
<1> QED
  BY <1>1, <1>2, <1>3, OthersAreGood DEF ServerMoves

(* The answer a refresh or a start installs.                               *)
LEMMA AnswerIsGood ==
  ASSUME NEW root \in BOOLEAN, NEW docs, GoodDocs(docs), NEW rows, GoodRows(rows),
         NEW place \in Places(rows)
  PROVE  GoodView(Answer(root, docs, rows, place))
BY InOrderPlaces DEF GoodView, Answer

(* The tree and the refresh under way keep their shape.                    *)
LEMMA TreeNext ==
  ASSUME Shapes, Next PROVE TreeOK'
<1> USE DEF Shapes
<1>1. CASE ~ Refreshing /\ ~ Restart /\ fetch' = fetch
  <2>1. view' = view /\ known' = known /\ fetch' = fetch /\ (fresh' = fresh \/ fresh' = FALSE)
    BY <1>1, TreeFrame DEF TreeStays
  <2> QED
    BY <2>1 DEF TreeOK
<1>2. ASSUME NEW a \in Apps, TakeLock(a) PROVE TreeOK'
  BY <1>2 DEF TakeLock, TreeOK, GoodFetch, GoodView
<1>3. CASE AnswerToken \/ AnswerManifest \/ AnswerDrafts
  <2>1. GoodFetch(fetch) /\ UNCHANGED <<view, known, fresh>>
    BY <1>3 DEF AnswerToken, AnswerManifest, AnswerDrafts, Fetching, TreeOK
  <2>2. CASE AnswerToken
    BY <2>1, <2>2 DEF AnswerToken, TreeOK, GoodFetch, ServerOK, GoodServer
  <2>3. CASE AnswerManifest
    BY <2>1, <2>3, ManifestIsGood DEF AnswerManifest, TreeOK, GoodFetch, ServerOK
  <2>4. CASE AnswerDrafts
    BY <2>1, <2>4 DEF AnswerDrafts, TreeOK, GoodFetch, ServerOK, GoodServer
  <2> QED
    BY <1>3, <2>2, <2>3, <2>4
<1>4. CASE Same \/ RefreshFails
  BY <1>4 DEF Same, RefreshFails, TreeOK
<1>5. CASE Install
  <2>1. PICK place \in Places(fetch.rows) :
          view' = Answer(fetch.root, fetch.docs, fetch.rows, place)
    BY <1>5 DEF Install
  <2>2. GoodFetch(fetch)
    BY <1>5 DEF Install, Fetching, TreeOK
  <2>3. GoodView(view')
    BY <2>1, <2>2, AnswerIsGood DEF GoodFetch
  <2> QED
    BY <1>5, <2>2, <2>3 DEF Install, TreeOK, GoodFetch
<1>6. CASE Restart
  <2>1. PICK place \in Places(srv.rows) :
          view' = Answer(RootListed, Manifest, srv.rows, place)
    BY <1>6 DEF Restart, Started
  <2>2. GoodView(view')
    BY <2>1, ManifestIsGood, AnswerIsGood DEF ServerOK, GoodServer
  <2> QED
    BY <1>6, <2>2 DEF Restart, Started, TreeOK, ServerOK, GoodServer
<1> QED
  BY <1>1, <1>2, <1>3, <1>4, <1>5, <1>6, TreeFrame DEF TreeStays, Refreshing

-----------------------------------------------------------------------------
(* Files and handles keep their shape                                      *)

(* The number of an entry that is handed out is one there is.              *)
LEMMA HandedNumber ==
  ASSUME Table, NEW k, Hand(k) PROVE InodeOf(k) \in Numbers
BY TableAllocate DEF Hand

(* What a step may do to the handle of one application.                    *)
HandleMove(a) ==
  \E h : /\ h = NoHandle \/ GoodHandle(h)
         /\ handle' = [handle EXCEPT ![a] = h]
         /\ task'[a].op \in {"close", "fsync"} => GoodHandle(h)

(* What an error does to the handle of the task it ends.                   *)
LEMMA RaiseHandles ==
  ASSUME TasksOK, HandlesOK, NEW a \in Apps, Raise(a)
  PROVE  handle' = handle \/ HandleMove(a)
<1>1. task'[a].op = "none"
  BY DEF Raise, Return, TasksOK, Idle
<1>2. handle' = [handle EXCEPT ![a] = NoHandle] \/ handle' = handle
  BY DEF Raise
<1> QED
  BY <1>1, <1>2 DEF HandleMove

(* A handle that is opened is a good one.                                  *)
LEMMA LoadedIsGood ==
  ASSUME TasksOK, NEW a \in Apps, Return(a),
         task[a].ino \in Numbers, NEW k
  PROVE  /\ \A text \in Bodies, seen \in Nat : Loaded(a, k, text, seen) => HandleMove(a)
         /\ Truncated(a, k) => HandleMove(a)
<1>1. task'[a].op = "none"
  BY DEF Return, TasksOK, Idle
<1>2. task[a].writing \in BOOLEAN
  BY DEF TasksOK, GoodTask, GoodFields
<1>3. ASSUME NEW text \in Bodies, NEW seen \in Nat, Loaded(a, k, text, seen)
      PROVE  HandleMove(a)
  <2> DEFINE h == [ino |-> task[a].ino, key |-> k, text |-> text, seen |-> seen,
                   writing |-> task[a].writing, dirty |-> FALSE, raced |-> FALSE,
                   saved |-> text]
  <2>1. GoodHandle(h)
    BY <1>2, <1>3 DEF GoodHandle
  <2>2. handle' = [handle EXCEPT ![a] = h]
    BY <1>3 DEF Loaded
  <2> HIDE DEF h
  <2> QED
    BY <1>1, <2>1, <2>2 DEF HandleMove
<1>4. ASSUME Truncated(a, k) PROVE HandleMove(a)
  <2> DEFINE h == [ino |-> task[a].ino, key |-> k, text |-> Empty, seen |-> 0,
                   writing |-> task[a].writing, dirty |-> task[a].writing,
                   raced |-> FALSE, saved |-> NoText]
  <2>1. GoodHandle(h)
    BY <1>2, EmptyIsBody DEF GoodHandle
  <2>2. handle' = [handle EXCEPT ![a] = h]
    BY <1>4 DEF Truncated
  <2> HIDE DEF h
  <2> QED
    BY <1>1, <2>1, <2>2 DEF HandleMove
<1> QED
  BY <1>3, <1>4

(* A body the cache has for the revision of an entry is one.               *)
LEMMA CachedIsBody ==
  ASSUME FilesOK, NEW n, OfDocument(n), Cached(n)
  PROVE  content[n.doc].body \in Bodies
BY DEF FilesOK, OfDocument, Cached

(* open() leaves a good handle and keeps the files in shape.               *)
LEMMA OpenHandles ==
  ASSUME ServerOK, TreeOK, TasksOK, FilesOK, HandlesOK, NEW a \in Apps,
         OpenScratch(a) \/ OpenNode(a) \/ AnswerContent(a)
  PROVE  (handle' = handle \/ HandleMove(a)) /\ FilesOK'
<1>1. CASE OpenScratch(a)
  <2> DEFINE k == Resolved(task[a].ino)
  <2>1. /\ Return(a) /\ k \in ScratchKeys /\ At(a) = "open"
        /\ UNCHANGED <<checkedOut, content, scratch, scratchSeq, edits, dentry>>
        /\ \/ Truncated(a, k) /\ buffer' = buffer
           \/ /\ Loaded(a, k, scratch[k[2]].text, 0)
              /\ buffer' = [buffer EXCEPT ![a] = scratch[k[2]].text]
    BY <1>1 DEF OpenScratch, Now
  <2>2. task[a].ino \in Numbers
    BY <2>1, StepIsLeft DEF Steps, GoodPlan
  <2>3. scratch[k[2]].text \in Bodies
    BY <2>1, ResolvedIs, KeysApart DEF FilesOK
  <2> HIDE DEF k
  <2>4. HandleMove(a)
    BY <2>1, <2>2, <2>3, LoadedIsGood
  <2>5. FilesOK'
    BY <2>1, <2>3 DEF FilesOK
  <2> QED
    BY <2>4, <2>5
<1>2. CASE OpenNode(a)
  <2> DEFINE k == Resolved(task[a].ino)
             n == Node(view, k)
             own == n.row # NoRow /\ n.row.text # NoText
  <2>1. /\ k \in NodeKeys(view) /\ At(a) = "open"
        /\ UNCHANGED <<content, scratch, scratchSeq, edits, dentry>>
    BY <1>2 DEF OpenNode, Now
  <2>2. \/ Return(a) /\ Truncated(a, k) /\ UNCHANGED <<checkedOut, buffer>>
        \/ /\ own /\ Return(a) /\ Loaded(a, k, n.row.text, 0) /\ RecordCheckout(n)
           /\ buffer' = [buffer EXCEPT ![a] = n.row.text]
        \/ /\ ~ own /\ Cached(n) /\ Return(a) /\ Loaded(a, k, content[k].body, Shown(n))
           /\ buffer' = [buffer EXCEPT ![a] = content[k].body] /\ RecordCheckout(n)
        \/ RecordCheckout(n) /\ UNCHANGED <<handle, buffer>>
    BY <1>2 DEF OpenNode
  <2>3. /\ GoodNode(n) /\ (own => n.row.text \in Bodies)
        /\ ~ own => n.doc = k /\ OfDocument(n)
    BY <2>1, OwnOrPublished
  <2>4. task[a].ino \in Numbers
    BY <2>1, StepIsLeft DEF Steps, GoodPlan
  <2> HIDE DEF k, n
  <2>5. ~ own /\ Cached(n) => content[k].body \in Bodies
    BY <2>3, CachedIsBody
  <2>6. Shown(n) \in Nat /\ (n.doc # Nowhere => n.doc \in Docs)
    BY <2>3, ShownIsRevision
  <2>7. handle' = handle \/ HandleMove(a)
    BY <2>2, <2>3, <2>4, <2>5, <2>6, LoadedIsGood
  <2>8. checkedOut' \in [Docs -> Nat]
    <3>1. RecordCheckout(n) => checkedOut' = checkedOut
                               \/ (n.doc # Nowhere /\ checkedOut' = [checkedOut EXCEPT ![n.doc] = Shown(n)])
      BY DEF RecordCheckout
    <3> QED
      BY <2>2, <2>6, <3>1 DEF FilesOK
  <2>9. buffer' \in [Apps -> Bodies]
    BY <2>2, <2>3, <2>5 DEF FilesOK
  <2> QED
    BY <2>1, <2>7, <2>8, <2>9 DEF FilesOK
<1>3. CASE AnswerContent(a)
  <2> DEFINE d == task[a].key
             body == Text(srv.tip[d], 0)
  <2>1. /\ At(a) = "content" /\ Return(a) /\ Loaded(a, d, body, Shown(task[a].node))
        /\ content' = [content EXCEPT ![d] = [etag |-> task[a].node.tip, body |-> body]]
        /\ buffer' = [buffer EXCEPT ![a] = body]
        /\ UNCHANGED <<checkedOut, scratch, scratchSeq, edits, dentry>>
    BY <1>3 DEF AnswerContent, Answered
  <2>2. task[a].ino \in Numbers /\ Holding(task[a])
    BY <2>1, StepIsLeft DEF Steps, GoodPlan
  <2>3. d \in Docs /\ GoodNode(task[a].node)
    BY <2>2 DEF Holding
  <2>4. body \in Bodies
    BY <2>3 DEF Text, Bodies, ServerOK, GoodServer
  <2>5. Shown(task[a].node) \in Nat /\ task[a].node.tip \in Nat
    BY <2>3, ShownIsRevision
  <2> HIDE DEF d, body
  <2>6. HandleMove(a)
    BY <2>1, <2>2, <2>4, <2>5, LoadedIsGood
  <2>7. FilesOK'
    BY <2>1, <2>3, <2>4, <2>5 DEF FilesOK
  <2> QED
    BY <2>6, <2>7
<1> QED
  BY <1>1, <1>2, <1>3

(* Writing and truncating write bodies.                                    *)
LEMMA EditHandles ==
  ASSUME TasksOK, FilesOK, HandlesOK, NEW a \in Apps,
         Write(a) \/ \E n \in Names : Truncate(a, n)
  PROVE  (handle' = handle \/ HandleMove(a)) /\ FilesOK'
<1>1. CASE Write(a)
  <2> DEFINE h == handle[a]
             from == IF h.text = Empty THEN buffer[a].from ELSE h.text.from
             text == Text(from, edits + 1)
             r == h.raced \/ task[a].op = "fsync"
             g == [h EXCEPT !.text = text, !.dirty = TRUE, !.raced = r]
  <2>1. /\ h # NoHandle /\ edits' = edits + 1 /\ buffer' = [buffer EXCEPT ![a] = text]
        /\ UNCHANGED <<checkedOut, content, scratch, scratchSeq, dentry>>
    BY <1>1 DEF Write
  <2>2. handle' = [handle EXCEPT ![a] = g]
    BY <1>1 DEF Write, HandlesOK
  <2>3. GoodHandle(h)
    BY <2>1 DEF HandlesOK
  <2>4. text \in Bodies
    BY <2>3 DEF Text, Bodies, FilesOK, GoodHandle
  <2> HIDE DEF h, text
  <2>5. GoodHandle(g)
    BY <2>3, <2>4 DEF GoodHandle
  <2> HIDE DEF g
  <2>6. HandleMove(a)
    BY <2>2, <2>5 DEF HandleMove
  <2>7. FilesOK'
    BY <2>1, <2>4 DEF FilesOK
  <2> QED
    BY <2>6, <2>7
<1>2. ASSUME NEW n \in Names, Truncate(a, n)
      PROVE  (handle' = handle \/ HandleMove(a)) /\ FilesOK'
  <2> DEFINE k == Resolved(dentry[n])
             h == handle[a]
             g == [h EXCEPT !.text = Text(@.from, edits + 1), !.dirty = TRUE]
             s == [scratch[k[2]] EXCEPT !.text = Text(@.from, edits + 1)]
  <2>1. edits' = edits + 1 /\ UNCHANGED <<checkedOut, content, scratchSeq, buffer, dentry>>
    BY <1>2 DEF Truncate
  <2>2. CASE h # NoHandle
    <3>1. scratch' = scratch /\ handle' = [handle EXCEPT ![a] = g]
      BY <1>2, <2>2 DEF Truncate
    <3>2. GoodHandle(h)
      BY <2>2 DEF HandlesOK
    <3> HIDE DEF h
    <3>3. GoodHandle(g)
      BY <3>2 DEF GoodHandle, Text, Bodies, FilesOK
    <3> HIDE DEF g
    <3>4. HandleMove(a)
      BY <3>1, <3>3 DEF HandleMove
    <3>5. FilesOK'
      BY <2>1, <3>1 DEF FilesOK
    <3> QED
      BY <3>4, <3>5
  <2>3. CASE h = NoHandle
    <3>1. handle' = handle /\ scratch' = [scratch EXCEPT ![k[2]] = s] /\ k \in ScratchKeys
      BY <1>2, <2>3 DEF Truncate
    <3>2. k[2] \in DOMAIN scratch
      BY <3>1, ResolvedIs, KeysApart
    <3>3. DOMAIN s = {"name", "parent", "text"} /\ s.text \in Bodies
      BY <3>2 DEF FilesOK, Text, Bodies
    <3> HIDE DEF s, k
    <3>4. FilesOK'
      BY <2>1, <3>1, <3>3 DEF FilesOK
    <3> QED
      BY <3>1, <3>4
  <2> QED
    BY <2>2, <2>3
<1> QED
  BY <1>1, <1>2

(* Saving keeps handles and files in shape.                                *)
LEMMA SaveHandles ==
  ASSUME TasksOK, FilesOK, HandlesOK, NEW a \in Apps,
         PersistLocally(a) \/ PersistDraft(a) \/ AnswerPut(a) \/ SavedStep(a)
  PROVE  (handle' = handle \/ HandleMove(a)) /\ FilesOK'
<1> DEFINE h == handle[a]
<1>1. CASE PersistLocally(a)
  <2> DEFINE s == [scratch[h.key[2]] EXCEPT !.text = h.text]
             g == [h EXCEPT !.dirty = FALSE, !.saved = h.text]
  <2>1. /\ At(a) = "persist" /\ Return(a)
        /\ UNCHANGED <<checkedOut, content, scratchSeq, buffer, edits, dentry>>
        /\ \/ scratch' = scratch
           \/ h.key[2] \in DOMAIN scratch /\ scratch' = [scratch EXCEPT ![h.key[2]] = s]
        /\ \/ handle' = handle
           \/ handle' = [handle EXCEPT ![a] = NoHandle]
           \/ handle' = [handle EXCEPT ![a] = g]
    BY <1>1 DEF PersistLocally, Now
  <2>2. task[a].op \in {"close", "fsync"}
    BY <2>1, StepIsLeft DEF Steps, GoodPlan
  <2>3. GoodHandle(h) /\ h.text \in Bodies
    BY <2>2 DEF HandlesOK, GoodHandle
  <2>4. h.key[2] \in DOMAIN scratch => DOMAIN s = {"name", "parent", "text"} /\ s.text \in Bodies
    BY <2>3 DEF FilesOK
  <2>5. task'[a].op = "none"
    BY <2>1 DEF Return, TasksOK, Idle
  <2>6. FilesOK'
    <3> DEFINE i == h.key[2]
    <3>1. \/ scratch' = scratch
          \/ i \in DOMAIN scratch /\ scratch' = [scratch EXCEPT ![i] = s]
      BY <2>1
    <3>2. i \in DOMAIN scratch => DOMAIN s = {"name", "parent", "text"} /\ s.text \in Bodies
      BY <2>4
    <3> HIDE DEF i, s
    <3> QED
      BY <2>1, <3>1, <3>2 DEF FilesOK
  <2> HIDE DEF h, s
  <2>7. GoodHandle(g)
    BY <2>3 DEF GoodHandle
  <2> HIDE DEF g
  <2> QED
    BY <2>1, <2>5, <2>6, <2>7 DEF HandleMove
<1>2. CASE PersistDraft(a)
  <2> DEFINE g == [h EXCEPT !.raced = FALSE]
  <2>1. /\ At(a) = "persist"
        /\ UNCHANGED <<checkedOut, content, scratch, scratchSeq, buffer, edits, dentry>>
        /\ handle' = [handle EXCEPT ![a] = g]
    BY <1>2 DEF PersistDraft, Now, HandlesOK
  <2>2. task[a].op \in {"close", "fsync"}
    BY <2>1, StepIsLeft DEF Steps, GoodPlan
  <2>3. GoodHandle(h)
    BY <2>2 DEF HandlesOK
  <2> HIDE DEF h
  <2>4. GoodHandle(g)
    BY <2>3 DEF GoodHandle
  <2> HIDE DEF g
  <2> QED
    BY <2>1, <2>4 DEF HandleMove, FilesOK
<1>3. CASE AnswerPut(a)
  <2> DEFINE g == [h EXCEPT !.saved = task[a].row.text]
  <2>1. /\ UNCHANGED <<checkedOut, content, scratch, scratchSeq, buffer, edits, dentry>>
        /\ \/ handle' = handle
           \/ task[a].op \in {"close", "fsync"} /\ handle' = [handle EXCEPT ![a] = g]
    BY <1>3 DEF AnswerPut
  <2>2. task[a].op \in {"close", "fsync"} => GoodHandle(h)
    BY DEF HandlesOK
  <2> HIDE DEF h
  <2>3. GoodHandle(h) => GoodHandle(g)
    BY DEF GoodHandle
  <2> HIDE DEF g
  <2> QED
    BY <2>1, <2>2, <2>3 DEF HandleMove, FilesOK
<1>4. CASE SavedStep(a)
  <2> DEFINE g == [h EXCEPT !.dirty = FALSE]
  <2>1. /\ At(a) = "saved" /\ Return(a)
        /\ UNCHANGED <<checkedOut, content, scratch, scratchSeq, buffer, edits, dentry>>
        /\ \/ handle' = [handle EXCEPT ![a] = NoHandle]
           \/ handle' = [handle EXCEPT ![a] = g]
    BY <1>4 DEF SavedStep, Now, HandlesOK
  <2>2. task[a].op \in {"close", "fsync"}
    BY <2>1, StepIsLeft DEF Steps, GoodPlan
  <2>3. GoodHandle(h)
    BY <2>2 DEF HandlesOK
  <2>4. task'[a].op = "none"
    BY <2>1 DEF Return, TasksOK, Idle
  <2> HIDE DEF h
  <2>5. GoodHandle(g)
    BY <2>3 DEF GoodHandle
  <2> HIDE DEF g
  <2> QED
    BY <2>1, <2>4, <2>5 DEF HandleMove, FilesOK
<1> QED
  BY <1>1, <1>2, <1>3, <1>4

(* Creating a file opens it, under a number there is.                      *)
LEMMA CreateHandles ==
  ASSUME Table, TasksOK, FilesOK, HandlesOK, NEW a \in Apps,
         CreateScratch(a) \/ MadeStep(a)
  PROVE  (handle' = handle \/ HandleMove(a)) /\ FilesOK'
<1>1. ASSUME NEW k, Made(a, k)
      PROVE  /\ HandleMove(a)
             /\ dentry' \in [Names -> {0} \cup Numbers]
  <2> DEFINE h == [ino |-> InodeOf(k), key |-> k, text |-> Empty, seen |-> 0,
                   writing |-> TRUE, dirty |-> FALSE, raced |-> FALSE, saved |-> Empty]
  <2>1. /\ Return(a) /\ handle' = [handle EXCEPT ![a] = h] /\ Hand(k)
        /\ dentry' = [dentry EXCEPT ![task[a].name] = InodeOf(k)]
    BY <1>1 DEF Made
  <2>2. InodeOf(k) \in Numbers
    BY <2>1, HandedNumber
  <2>3. GoodHandle(h)
    BY <2>2, EmptyIsBody DEF GoodHandle
  <2>4. task'[a].op = "none"
    BY <2>1 DEF Return, TasksOK, Idle
  <2> HIDE DEF h
  <2> QED
    BY <2>1, <2>2, <2>3, <2>4 DEF HandleMove, FilesOK
<1>2. CASE CreateScratch(a)
  <2> DEFINE s == [name |-> task[a].name, parent |-> RootKey(view), text |-> Empty]
  <2>1. /\ scratchSeq' = scratchSeq + 1 /\ scratch' = With(scratch, scratchSeq + 1, s)
        /\ Made(a, ScratchKey(scratchSeq'))
        /\ UNCHANGED <<checkedOut, content, buffer, edits>>
    BY <1>2 DEF CreateScratch
  <2>2. DOMAIN s = {"name", "parent", "text"} /\ s.text \in Bodies
    BY EmptyIsBody
  <2> HIDE DEF s
  <2>3. /\ scratchSeq' \in Nat /\ DOMAIN scratch' \subseteq 1..scratchSeq'
        /\ \A i \in DOMAIN scratch' : /\ DOMAIN scratch'[i] = {"name", "parent", "text"}
                                      /\ scratch'[i].text \in Bodies
    BY <2>1, <2>2 DEF FilesOK, With
  <2>4. HandleMove(a) /\ dentry' \in [Names -> {0} \cup Numbers]
    BY <1>1, <2>1
  <2> QED
    BY <2>1, <2>3, <2>4 DEF FilesOK
<1>3. CASE MadeStep(a)
  <2>1. /\ UNCHANGED <<checkedOut, content, scratch, scratchSeq, buffer, edits>>
        /\ (Raise(a) /\ dentry' = dentry) \/ \E k : Made(a, k)
    BY <1>3 DEF MadeStep
  <2>2. /\ handle' = handle \/ HandleMove(a)
        /\ dentry' \in [Names -> {0} \cup Numbers]
    BY <1>1, <2>1, RaiseHandles DEF FilesOK
  <2> QED
    BY <2>1, <2>2 DEF FilesOK
<1> QED
  BY <1>2, <1>3

(* The names the kernel keeps stand for numbers there are, and what is     *)
(* left of the scratch files are scratch files.                            *)
LEMMA NamesAreKept ==
  ASSUME Table, TasksOK, FilesOK, NEW a \in Apps,
         \/ LookupStep(a) \/ ReaddirStep(a) \/ UnlinkScratch(a) \/ UnlinkedStep(a)
         \/ RenameLocally(a) \/ RenamedStep(a)
  PROVE  handle' = handle /\ FilesOK'
<1>1. CASE LookupStep(a)
  <2> DEFINE n == task[a].name
  <2>1. /\ UNCHANGED <<checkedOut, content, scratch, scratchSeq, handle, buffer, edits>>
        /\ \/ dentry' = [dentry EXCEPT ![n] = 0]
           \/ dentry' = [dentry EXCEPT ![n] = InodeOf(Entry(n))] /\ Hand(Entry(n))
    BY <1>1 DEF LookupStep, fileVars
  <2>2. Hand(Entry(n)) => InodeOf(Entry(n)) \in Numbers
    BY HandedNumber
  <2> HIDE DEF n
  <2> QED
    BY <2>1, <2>2 DEF FilesOK
<1>2. CASE ReaddirStep(a)
  <2>1. PICK e : /\ UNCHANGED <<checkedOut, content, scratch, scratchSeq, handle, buffer, edits>>
                 /\ \/ dentry' = dentry
                    \/ Hand(e[2]) /\ dentry' = [dentry EXCEPT ![e[1]] = InodeOf(e[2])]
    BY <1>2 DEF ReaddirStep, fileVars
  <2>2. Hand(e[2]) => InodeOf(e[2]) \in Numbers
    BY HandedNumber
  <2> QED
    BY <2>1, <2>2 DEF FilesOK
<1>3. CASE UnlinkScratch(a)
  BY <1>3 DEF UnlinkScratch, FilesOK, Without
<1>4. CASE UnlinkedStep(a)
  BY <1>4 DEF UnlinkedStep, FilesOK, fileVars
<1>5. ASSUME At(a) \in {"rename", "renamed"}, Moved(a)
      PROVE  dentry' \in [Names -> {0} \cup Numbers]
  <2>1. task[a].name \in Names
    BY <1>5, StepIsLeft DEF Steps, GoodPlan
  <2> QED
    BY <1>5, <2>1 DEF Moved, FilesOK
<1>6. CASE RenameLocally(a)
  <2> DEFINE s == Without(scratch, IF Entry(task[a].to) = NoKey THEN {} ELSE {Entry(task[a].to)[2]})
  <2>1. /\ UNCHANGED <<checkedOut, content, scratchSeq, handle, buffer, edits>>
        /\ At(a) = "rename" /\ Moved(a)
        /\ \E i, n : scratch' = [s EXCEPT ![i].name = n]
    BY <1>6 DEF RenameLocally, Now
  <2>2. /\ DOMAIN s \subseteq 1..scratchSeq
        /\ \A i \in DOMAIN s : /\ DOMAIN s[i] = {"name", "parent", "text"}
                               /\ s[i].text \in Bodies
    BY DEF FilesOK, Without
  <2> HIDE DEF s
  <2>3. PICK i, n : scratch' = [s EXCEPT ![i].name = n]
    BY <2>1
  <2>4. /\ DOMAIN scratch' \subseteq 1..scratchSeq
        /\ \A j \in DOMAIN scratch' : /\ DOMAIN scratch'[j] = {"name", "parent", "text"}
                                      /\ scratch'[j].text \in Bodies
    BY <2>2, <2>3
  <2> QED
    BY <1>5, <2>1, <2>4 DEF FilesOK
<1>7. CASE RenamedStep(a)
  <2>1. /\ UNCHANGED <<checkedOut, content, scratchSeq, handle, buffer, edits>>
        /\ At(a) = "renamed" /\ Moved(a)
        /\ scratch' = scratch \/ \E S : scratch' = Without(scratch, S)
    BY <1>7 DEF RenamedStep, Now
  <2> QED
    BY <1>5, <2>1 DEF FilesOK, Without
<1> QED
  BY <1>1, <1>2, <1>3, <1>4, <1>6, <1>7

(* Files keep their shape.                                                 *)
LEMMA FilesNext ==
  ASSUME Shapes, Next PROVE FilesOK'
<1> USE DEF Shapes
<1>1. ASSUME NEW i \in Numbers, Forgets(i) PROVE FilesOK'
  BY <1>1 DEF Forgets, FilesOK, fileVars
<1>2. CASE Restart
  BY <1>2 DEF Restart, Started, FilesOK
<1>3. CASE ~ FileMoves
  BY <1>3, FileFrame DEF FilesOK
<1> QED
  BY <1>1, <1>2, <1>3, OpenHandles, EditHandles, SaveHandles, CreateHandles, NamesAreKept
     DEF FileMoves

(* A task that closes or syncs a file did so before, or begins to with the *)
(* file open.                                                              *)
LEMMA ClosingBegan ==
  ASSUME Shapes, Next
  PROVE  \A b \in Apps : task'[b].op \in {"close", "fsync"} =>
           task[b].op \in {"close", "fsync"} \/ handle[b] # NoHandle
<1> USE DEF Shapes
<1>0. Idle.op = "none"
  BY DEF Idle
<1>1. ASSUME NEW a \in Apps, task' = task \/ TaskMove(a) \/ TaskCall(a)
      PROVE  \A b \in Apps : task'[b].op \in {"close", "fsync"} =>
               task[b].op \in {"close", "fsync"} \/ handle[b] # NoHandle
  BY <1>0, <1>1 DEF TaskMove, TaskCall, TasksOK
<1>3. CASE Refreshing
  <2>1. task' = task \/ (fetch.by \in Apps /\ TaskMove(fetch.by))
    <3>1. fetch # NoFetch
      BY <1>3 DEF Refreshing, AnswerToken, Same, AnswerManifest, AnswerDrafts, Install,
         RefreshFails, Fetching
    <3> QED
      BY <1>3, <3>1, RefreshMoves DEF TreeOK, GoodFetch
  <2> QED
    BY <1>1, <2>1
<1>4. CASE Restart
  BY <1>0, <1>4 DEF Restart, Started
<1>5. CASE Expire \/ Others \/ \E i \in Numbers : Forgets(i)
  BY <1>5, OthersMoves
<1>6. ASSUME NEW a \in Apps, Stat(a) \/ Kernel(a) \/ Handler(a)
      PROVE  task' = task \/ TaskMove(a) \/ TaskCall(a)
  BY <1>6, CallMoves, HandlerMoves
<1> QED
  BY <1>1, <1>3, <1>4, <1>5, <1>6 DEF Next

(* So it has it open.                                                      *)
LEMMA ClosingIsOpen ==
  ASSUME Shapes, Next
  PROVE  \A b \in Apps : task'[b].op \in {"close", "fsync"} => GoodHandle(handle[b])
BY ClosingBegan DEF Shapes, HandlesOK

(* What a handler does to the handles: it opens or saves one, makes a file *)
(* or raises, or leaves them alone.                                        *)
LEMMA HandlerHandles ==
  ASSUME NEW a \in Apps, Handler(a)
  PROVE  \/ handle' = handle \/ Raise(a) \/ (\E k : Made(a, k))
         \/ OpenScratch(a) \/ OpenNode(a) \/ AnswerContent(a)
         \/ PersistLocally(a) \/ PersistDraft(a) \/ AnswerPut(a) \/ SavedStep(a)
<1>1. CASE \/ Current(a) \/ TakeLock(a) \/ StatStep(a) \/ OpendirStep(a) \/ Releasedir(a)
           \/ SaveStep(a) \/ CreatePage(a) \/ UnlinkNode(a) \/ AnswerDrop(a)
           \/ RenameScratch(a) \/ RenameNode(a)
  BY <1>1 DEF Current, TakeLock, StatStep, OpendirStep, Releasedir, SaveStep, CreatePage,
     UnlinkNode, AnswerDrop, RenameScratch, RenameNode, fileVars
<1>2. CASE \/ OpenRefused(a) \/ ContentFails(a) \/ PersistStale(a) \/ PutFails(a)
           \/ CreateRefused(a) \/ UnlinkRefused(a) \/ DropFails(a) \/ RenameRefused(a)
  BY <1>2 DEF OpenRefused, ContentFails, PersistStale, PutFails, CreateRefused,
     UnlinkRefused, DropFails, RenameRefused
<1>3. CASE CreateScratch(a) \/ MadeStep(a)
  BY <1>3 DEF CreateScratch, MadeStep
<1>4. CASE \/ LookupStep(a) \/ ReaddirStep(a) \/ UnlinkScratch(a) \/ UnlinkedStep(a)
           \/ RenameLocally(a) \/ RenamedStep(a)
  BY <1>4 DEF LookupStep, ReaddirStep, UnlinkScratch, UnlinkedStep, RenameLocally,
     RenamedStep, fileVars
<1> QED
  BY <1>1, <1>2, <1>3, <1>4 DEF Handler

(* A refresh leaves them alone.                                            *)
LEMMA RefreshHandles ==
  ASSUME Refreshing PROVE handle' = handle
BY DEF Refreshing, AnswerToken, Same, AnswerManifest, AnswerDrafts, Install, RefreshFails,
   fileVars

(* What a step does to the handles.                                        *)
LEMMA HandlesMove ==
  ASSUME Shapes, Next
  PROVE  handle' = handle \/ Restart \/ \E a \in Apps : HandleMove(a)
<1> USE DEF Shapes
<1>1. ASSUME NEW a \in Apps, Stat(a) \/ Kernel(a) PROVE handle' = handle \/ HandleMove(a)
  <2>1. ASSUME NEW t, Request(a, t) PROVE handle' = handle
    BY <2>1 DEF Request, fileVars
  <2>2. \/ \E t : Request(a, t)
        \/ Write(a)
        \/ \E n \in Names : Truncate(a, n)
    BY <1>1 DEF Stat, Kernel, Lookup, Create, Unlink, Rename, Open, List, Flush
  <2> QED
    BY <2>1, <2>2, EditHandles
<1>2. ASSUME NEW a \in Apps, Handler(a) PROVE handle' = handle \/ HandleMove(a)
  <2>1. CASE \/ Current(a) \/ TakeLock(a) \/ StatStep(a) \/ OpendirStep(a) \/ Releasedir(a)
             \/ SaveStep(a) \/ CreatePage(a) \/ UnlinkNode(a) \/ AnswerDrop(a)
             \/ RenameScratch(a) \/ RenameNode(a)
    BY <2>1 DEF Current, TakeLock, StatStep, OpendirStep, Releasedir, SaveStep, CreatePage,
       UnlinkNode, AnswerDrop, RenameScratch, RenameNode, fileVars
  <2>2. CASE \/ OpenRefused(a) \/ ContentFails(a) \/ PersistStale(a) \/ PutFails(a)
             \/ CreateRefused(a) \/ UnlinkRefused(a) \/ DropFails(a) \/ RenameRefused(a)
    <3>1. Raise(a)
      BY <2>2 DEF OpenRefused, ContentFails, PersistStale, PutFails, CreateRefused,
         UnlinkRefused, DropFails, RenameRefused
    <3> QED
      BY <3>1, RaiseHandles
  <2>3. CASE OpenScratch(a) \/ OpenNode(a) \/ AnswerContent(a)
    BY <2>3, OpenHandles
  <2>4. CASE PersistLocally(a) \/ PersistDraft(a) \/ AnswerPut(a) \/ SavedStep(a)
    BY <2>4, SaveHandles
  <2>5. CASE CreateScratch(a) \/ MadeStep(a)
    BY <2>5, CreateHandles
  <2>6. CASE \/ LookupStep(a) \/ ReaddirStep(a) \/ UnlinkScratch(a) \/ UnlinkedStep(a)
             \/ RenameLocally(a) \/ RenamedStep(a)
    BY <2>6, NamesAreKept
  <2> QED
    BY <1>2, <2>1, <2>2, <2>3, <2>4, <2>5, <2>6 DEF Handler
<1>3. CASE Refreshing
  BY <1>3 DEF Refreshing, AnswerToken, Same, AnswerManifest, AnswerDrafts, Install,
     RefreshFails, fileVars
<1> QED
  BY <1>1, <1>2, <1>3, OthersMoves DEF Next

(* Handles keep their shape.                                               *)
LEMMA HandlesNext ==
  ASSUME Shapes, Next PROVE HandlesOK'
<1>1. \A b \in Apps : task'[b].op \in {"close", "fsync"} => GoodHandle(handle[b])
  BY ClosingIsOpen
<1>2. HandlesOK
  BY DEF Shapes
<1>3. CASE handle' = handle
  BY <1>1, <1>2, <1>3 DEF HandlesOK
<1>4. CASE Restart
  BY <1>4 DEF Restart, Started, HandlesOK, Idle
<1>5. CASE \E a \in Apps : HandleMove(a)
  BY <1>1, <1>2, <1>5 DEF HandlesOK, HandleMove
<1> QED
  BY <1>3, <1>4, <1>5, HandlesMove

(* A mount that begins is in shape.                                        *)
LEMMA InitShapes ==
  ASSUME Init PROVE Shapes
<1>1. Table
  BY TableInit DEF Init
<1>2. ServerOK
  <2>1. menu.at \in [Docs -> Paths \cup {Nowhere}]
    BY MountAssumption DEF Init
  <2>2. /\ DOMAIN srv = {"path", "tip", "mine", "may", "rows", "token"}
        /\ srv.path = menu.at
        /\ srv.tip = [d \in Docs |-> IF menu.at[d] = Nowhere THEN 0 ELSE 1]
        /\ srv.mine = [d \in Docs |-> FALSE] /\ srv.may = [d \in Docs |-> "edit"]
        /\ srv.rows = [p \in Paths |-> NoRow] /\ srv.token = 0
    BY DEF Init
  <2>3. told \in [Docs -> SUBSET Nat]
    BY DEF Init
  <2> QED
    BY <2>1, <2>2, <2>3 DEF ServerOK, GoodServer, GoodRows, Rights
<1>3. TreeOK
  <2>1. InOrder \in Places(srv.rows) \/ InOrder \in [Paths -> 1..Cardinality(Paths)]
    BY InOrderPlaces
  <2>2. GoodView(view)
    <3>1. view = Answer(RootListed, Manifest, srv.rows, InOrder)
      BY DEF Init
    <3>2. GoodDocs(Manifest) /\ RootListed \in BOOLEAN /\ GoodRows(srv.rows)
      BY <1>2, ManifestIsGood DEF ServerOK, GoodServer
    <3> QED
      BY <3>1, <3>2, InOrderPlaces DEF GoodView, Answer
  <2>3. known = srv.token /\ fresh = TRUE /\ fetch = NoFetch /\ srv.token \in Nat
    BY <1>2 DEF Init, ServerOK, GoodServer
  <2> QED
    BY <2>2, <2>3 DEF TreeOK
<1>4. TasksOK /\ Holder
  BY IdleIsGood DEF Init, TasksOK, Holder
<1>5. FilesOK
  BY EmptyIsBody DEF Init, FilesOK
<1>6. HandlesOK
  BY DEF Init, HandlesOK, Idle
<1> QED
  BY <1>1, <1>2, <1>3, <1>4, <1>5, <1>6 DEF Shapes

(* Every step keeps everything in shape.                                   *)
LEMMA ShapesNext ==
  ASSUME Shapes, Next PROVE Shapes'
<1>1. Table'
  BY MountTable DEF Shapes
<1> QED
  BY <1>1, ServerNext, TreeNext, TasksNext, HolderNext, FilesNext, HandlesNext DEF Shapes

(* So does a step of somebody else.                                        *)
LEMMA ShapesSame ==
  ASSUME Shapes, UNCHANGED vars PROVE Shapes'
<1>1. Table'
  BY TableSame DEF Shapes, vars
<1>2. ServerOK' /\ TreeOK' /\ FilesOK'
  BY DEF Shapes, vars, serverVars, treeVars, fileVars, ServerOK, TreeOK, FilesOK
<1>3. TasksOK' /\ Holder' /\ HandlesOK'
  BY DEF Shapes, vars, treeVars, fileVars, runVars, TasksOK, Holder, At, HandlesOK
<1> QED
  BY <1>1, <1>2, <1>3 DEF Shapes

(* Whatever the handlers, the network, the other authors and the restarts  *)
(* do, in any order, each part of the mount keeps its shape: the rows have *)
(* the base, document and text their operation asks, a task has what its   *)
(* steps need, the holder of the lock waits, what is closed is open.       *)
THEOREM MountInShape == Spec => []Shapes
<1>1. Init => Shapes
  BY InitShapes
<1>2. Shapes /\ [Next]_vars => Shapes'
  BY ShapesNext, ShapesSame
<1> QED
  BY <1>1, <1>2, PTL DEF Spec

-----------------------------------------------------------------------------
(* The token and the tree                                                  *)

(* The token's changes are the server's.                                   *)
LEMMA ChangedCounts ==
  ASSUME NEW s, "token" \in DOMAIN s PROVE Changed(s).token = s.token + 1
BY DEF Changed

(* The server stays as it is, or its token moves on; what the user was     *)
(* told is not taken back, and revisions are not either.                   *)
LEMMA ServerGrows ==
  ASSUME Shapes, Next
  PROVE  /\ srv' = srv \/ srv'.token = srv.token + 1
         /\ \A d \in Docs : told[d] \subseteq told'[d] /\ srv.tip[d] <= srv'.tip[d]
<1> USE DEF Shapes
<1>0. /\ DOMAIN srv = {"path", "tip", "mine", "may", "rows", "token"}
      /\ srv.tip \in [Docs -> Nat] /\ told \in [Docs -> SUBSET Nat]
  BY DEF ServerOK, GoodServer
<1>1. ASSUME NEW a \in Apps, OpenNode(a) \/ SaveStep(a) \/ RenameNode(a)
      PROVE  /\ srv' = srv
             /\ \A d \in Docs : told[d] \subseteq told'[d] /\ srv.tip[d] <= srv'.tip[d]
  <2>1. /\ srv' = srv
        /\ \/ told' = told
           \/ \E d \in Docs, b \in Nat \ {0} : told' = [told EXCEPT ![d] = @ \cup {b}]
    BY <1>1, HandlersTell
  <2> QED
    BY <1>0, <2>1
<1>2. ASSUME NEW p, NEW r, srv' = Changed([srv EXCEPT !.rows[p] = r])
      PROVE  srv'.token = srv.token + 1 /\ srv'.tip = srv.tip
  BY <1>0, <1>2 DEF Changed
<1>3. ASSUME NEW a \in Apps, AnswerPut(a) \/ PutFails(a) \/ AnswerDrop(a) \/ DropFails(a)
      PROVE  /\ srv' = srv \/ (srv'.token = srv.token + 1 /\ srv'.tip = srv.tip)
             /\ told' = told
  BY <1>2, <1>3, HandlersStore DEF Stored, Dropped
<1>4. CASE Others
  <2>1. ASSUME NEW d \in Docs, NEW n, Told(d, n)
        PROVE  \A e \in Docs : told[e] \subseteq told'[e]
    BY <1>0, <2>1 DEF Told
  <2>2. ASSUME NEW d \in Docs, NEW mine, OtherPublishes(d, mine)
        PROVE  /\ srv'.token = srv.token + 1
               /\ \A e \in Docs : told[e] \subseteq told'[e] /\ srv.tip[e] <= srv'.tip[e]
    <3>1. /\ srv' = Changed([srv EXCEPT !.tip[d] = @ + 1, !.mine[d] = mine])
          /\ told' = told \/ Told(d, srv.tip[d] + 1)
      BY <2>2 DEF OtherPublishes
    <3>2. \A e \in Docs : told[e] \subseteq told'[e]
      BY <2>1, <3>1
    <3> QED
      BY <1>0, <3>1, <3>2 DEF Changed
  <2>3. ASSUME NEW d \in Docs, NEW p,
               OtherRetires(d) \/ OtherMoves(d, p) \/ Grants(d, p)
        PROVE  /\ srv'.token = srv.token + 1
               /\ \A e \in Docs : told[e] \subseteq told'[e] /\ srv.tip[e] <= srv'.tip[e]
    <3>1. told' = told
      BY <2>3 DEF OtherRetires, OtherMoves, Grants
    <3>2. CASE OtherRetires(d)
      BY <1>0, <3>1, <3>2 DEF OtherRetires, Changed
    <3>3. CASE OtherMoves(d, p)
      BY <1>0, <3>1, <3>3 DEF OtherMoves, Changed
    <3>4. CASE Grants(d, p)
      BY <1>0, <3>1, <3>4 DEF Grants, Changed
    <3> QED
      BY <2>3, <3>2, <3>3, <3>4
  <2>4. ASSUME NEW p \in Paths, CliPush(p)
        PROVE  /\ srv'.token = srv.token + 1
               /\ \A e \in Docs : told[e] \subseteq told'[e] /\ srv.tip[e] <= srv'.tip[e]
    <3>1. PICK d \in Docs :
            /\ \E x : srv' = Changed([srv EXCEPT !.rows[p] = NoRow, !.tip[d] = @ + 1,
                                                 !.mine[d] = TRUE, !.path[d] = x])
            /\ Told(d, srv.tip[d] + 1)
      BY <2>4 DEF CliPush
    <3>2. \A e \in Docs : told[e] \subseteq told'[e]
      BY <2>1, <3>1
    <3> QED
      BY <1>0, <3>1, <3>2 DEF Changed
  <2>5. ASSUME NEW p \in Paths, CliMerge(p) \/ CliRevert(p)
        PROVE  /\ srv'.token = srv.token + 1
               /\ \A e \in Docs : told[e] \subseteq told'[e] /\ srv.tip[e] <= srv'.tip[e]
    <3>1. CASE CliRevert(p)
      BY <1>0, <1>2, <3>1 DEF CliRevert, Dropped
    <3>2. CASE CliMerge(p)
      <4>1. srv.rows[p].doc \in Docs
        BY <3>2 DEF CliMerge, ServerOK, GoodServer, GoodRows, Shaped
      <4>2. /\ Told(srv.rows[p].doc, srv.tip[srv.rows[p].doc])
            /\ \E r : srv' = Changed([srv EXCEPT !.rows[p] = r])
        BY <3>2 DEF CliMerge
      <4>3. \A e \in Docs : told[e] \subseteq told'[e]
        BY <2>1, <4>1, <4>2
      <4>4. srv'.token = srv.token + 1 /\ srv'.tip = srv.tip
        BY <1>2, <4>2
      <4> QED
        BY <1>0, <4>3, <4>4
    <3> QED
      BY <2>5, <3>1, <3>2
  <2> QED
    BY <1>4, <2>2, <2>3, <2>4, <2>5 DEF Others
<1>5. CASE ~ ServerMoves
  BY <1>0, <1>5, ServerFrame DEF serverVars
<1> QED
  BY <1>0, <1>1, <1>3, <1>4, <1>5 DEF ServerMoves

(* No token is newer than the server's, and an answer sampled under the    *)
(* server's own is the server's own.                                       *)
TokensHold ==
  /\ known \in Nat => known <= srv.token
  /\ known = srv.token =>
       view.docs = Manifest /\ view.rows = srv.rows /\ view.root = RootListed
  /\ fetch # NoFetch =>
       /\ fetch.token \in Nat => fetch.token <= srv.token
       /\ fetch.phase \in {"drafts", "install"} /\ fetch.token = srv.token =>
            fetch.docs = Manifest /\ fetch.root = RootListed
       /\ fetch.phase = "install" /\ fetch.token = srv.token => fetch.rows = srv.rows

(* A step that leaves the tree and the refresh alone keeps the tokens      *)
(* behind the server's.                                                    *)
LEMMA TokensBehind ==
  ASSUME ServerOK, TreeOK, TokensHold,
         UNCHANGED <<view, known, fetch>>, srv' = srv \/ srv'.token = srv.token + 1
  PROVE  TokensHold'
<1>1. CASE srv' = srv
  <2>1. Manifest' = Manifest /\ RootListed' = RootListed
    BY <1>1 DEF Manifest, Listed, RootListed
  <2> QED
    BY <1>1, <2>1 DEF TokensHold
<1>2. CASE srv'.token = srv.token + 1
  <2>1. srv.token \in Nat /\ NoToken \notin Nat
    BY MountAssumption DEF ServerOK, GoodServer
  <2>2. known # srv'.token
    BY <1>2, <2>1 DEF TokensHold, TreeOK
  <2>3. fetch # NoFetch => fetch.token # srv'.token
    BY <1>2, <2>1 DEF TokensHold, TreeOK, GoodFetch
  <2> QED
    BY <1>2, <2>1, <2>2, <2>3 DEF TokensHold
<1> QED
  BY <1>1, <1>2

(* A refresh samples the token first, so its answer is not older.          *)
LEMMA TokensRefresh ==
  ASSUME ServerOK, TreeOK, TokensHold, Refreshing PROVE TokensHold'
<1>1. UNCHANGED srv /\ fetch # NoFetch
  BY DEF Refreshing, AnswerToken, Same, AnswerManifest, AnswerDrafts, Install,
     RefreshFails, Fetching, serverVars
<1>2. Manifest' = Manifest /\ RootListed' = RootListed
  BY <1>1 DEF Manifest, Listed, RootListed
<1>3. GoodFetch(fetch) /\ srv.token \in Nat /\ NoToken \notin Nat
  BY <1>1, MountAssumption DEF TreeOK, ServerOK, GoodServer
<1>4. CASE AnswerToken
  <2>1. /\ UNCHANGED <<view, known>> /\ fetch'.phase \notin {"drafts", "install"}
        /\ fetch'.token \in {srv.token, fetch.token}
    BY <1>3, <1>4 DEF AnswerToken, GoodFetch
  <2> QED
    BY <1>1, <1>2, <1>3, <2>1 DEF TokensHold
<1>5. CASE AnswerManifest
  <2>1. /\ UNCHANGED <<view, known>> /\ fetch'.phase = "drafts" /\ fetch'.token = fetch.token
        /\ fetch'.docs = Manifest /\ fetch'.root = RootListed
    BY <1>3, <1>5 DEF AnswerManifest, GoodFetch
  <2> QED
    BY <1>1, <1>2, <2>1 DEF TokensHold
<1>6. CASE AnswerDrafts
  <2>1. /\ UNCHANGED <<view, known>> /\ fetch'.phase = "install" /\ fetch'.token = fetch.token
        /\ fetch'.docs = fetch.docs /\ fetch'.root = fetch.root /\ fetch'.rows = srv.rows
        /\ fetch.phase = "drafts"
    BY <1>3, <1>6 DEF AnswerDrafts, GoodFetch, Fetching
  <2> QED
    BY <1>1, <1>2, <2>1 DEF TokensHold
<1>7. CASE Same \/ RefreshFails
  <2>1. UNCHANGED <<view, known>> /\ fetch' = NoFetch
    BY <1>7 DEF Same, RefreshFails
  <2> QED
    BY <1>1, <1>2, <2>1 DEF TokensHold
<1>8. CASE Install
  <2>1. /\ view'.docs = fetch.docs /\ view'.rows = fetch.rows /\ view'.root = fetch.root
        /\ known' = fetch.token /\ fetch' = NoFetch /\ fetch.phase = "install"
    BY <1>8 DEF Install, Answer, Fetching
  <2> QED
    BY <1>1, <1>2, <2>1 DEF TokensHold
<1> QED
  BY <1>4, <1>5, <1>6, <1>7, <1>8 DEF Refreshing

(* The tokens stay behind the server's through every step.                 *)
LEMMA TokensNext ==
  ASSUME Shapes, TokensHold, Next PROVE TokensHold'
<1> USE DEF Shapes
<1>1. srv' = srv \/ srv'.token = srv.token + 1
  BY ServerGrows
<1>2. CASE ~ Refreshing /\ ~ Restart /\ fetch' = fetch
  BY <1>1, <1>2, TreeFrame, TokensBehind DEF TreeStays
<1>3. ASSUME NEW a \in Apps, TakeLock(a) PROVE TokensHold'
  <2>1. /\ UNCHANGED <<srv, view, known>> /\ fetch'.phase = "token" /\ fetch'.token = NoToken
    BY <1>3 DEF TakeLock, serverVars
  <2>2. Manifest' = Manifest /\ RootListed' = RootListed
    BY <2>1 DEF Manifest, Listed, RootListed
  <2> QED
    BY <2>1, <2>2, MountAssumption DEF TokensHold
<1>4. CASE Restart
  <2>1. /\ UNCHANGED srv /\ view'.docs = Manifest /\ view'.rows = srv.rows
        /\ view'.root = RootListed /\ known' = srv.token /\ fetch' = NoFetch
    BY <1>4 DEF Restart, Started, Answer, serverVars
  <2>2. Manifest' = Manifest /\ RootListed' = RootListed
    BY <2>1 DEF Manifest, Listed, RootListed
  <2> QED
    BY <2>1, <2>2 DEF TokensHold, ServerOK, GoodServer
<1> QED
  BY <1>2, <1>3, <1>4, TokensRefresh, TreeFrame DEF TreeStays

(* A tree held under the server's token is the server's answer, whatever   *)
(* was changed between the three requests of a refresh, however requests   *)
(* fail and whoever holds the lock: a change is always noticed.            *)
THEOREM TokenAlwaysCoversTree == Spec => []TokenCoversTree
<1>1. Init => TokensHold
  BY InitShapes DEF Init, TokensHold, Answer, Shapes, ServerOK, GoodServer
<1>2. Shapes /\ TokensHold /\ [Next]_vars => TokensHold'
  <2>1. Shapes /\ TokensHold /\ UNCHANGED vars => TokensHold'
    BY TokensBehind DEF Shapes, vars, serverVars, treeVars
  <2> QED
    BY <2>1, TokensNext
<1>3. TokensHold => TokenCoversTree
  BY DEF TokensHold, TokenCoversTree
<1> QED
  BY <1>1, <1>2, <1>3, MountInShape, PTL DEF Spec

-----------------------------------------------------------------------------
(* What a task is about to send                                            *)

(* The row a handler leaves its task with: the one it had, one without a   *)
(* base or that removes a page, or one made of an entry of the tree.       *)
Sends(a, t) ==
  \/ t.row = task[a].row
  \/ t.row = NoRow \/ t.row.op \in {"create", "delete"}
  \/ RenameNode(a) /\ \E k \in NodeKeys(view) :
       /\ Node(view, k).doc \in Docs
       /\ t.row = Row("move", Node(view, k).doc, Node(view, k).tip, NoText)
       /\ told' = [told EXCEPT ![Node(view, k).doc] = @ \cup {Node(view, k).tip}]
  \/ SaveStep(a)

(* The entry it works on: the one it had, or one of the tree.              *)
Keeps(a, t) ==
  \A s \in {"content", "save"} :
    Has(t.todo, s) => \/ Has(task[a].todo, s) /\ t.node = task[a].node
                      \/ \E k \in NodeKeys(view) : t.node = Node(view, k)

Sending(a) == \E t : Sends(a, t) /\ Keeps(a, t) /\ task' = [task EXCEPT ![a] = t]

(* A task that goes on with a new list, far from a save.                   *)
LEMMA ThenSends ==
  ASSUME NEW a, NEW t, GoodFields(t), NEW todo, Then(a, t, todo),
         Sends(a, t), ~ Has(todo, "content"), ~ Has(todo, "save")
  PROVE  Sending(a)
<1> DEFINE u == [t EXCEPT !.todo = todo]
<1>1. u.row = t.row /\ u.todo = todo
  BY DEF GoodFields, Idle
<1>2. task' = [task EXCEPT ![a] = u]
  BY DEF Then, Go
<1> HIDE DEF u
<1>3. Sends(a, u) /\ Keeps(a, u)
  BY <1>1 DEF Sends, Keeps
<1> QED
  BY <1>2, <1>3 DEF Sending

(* A task that goes on with an entry of the tree and the row it had.       *)
LEMMA ThenKeeps ==
  ASSUME NEW a, NEW t, GoodFields(t), NEW todo, Then(a, t, todo),
         t.row = task[a].row, NEW k \in NodeKeys(view), t.node = Node(view, k)
  PROVE  Sending(a)
<1> DEFINE u == [t EXCEPT !.todo = todo]
<1>1. u.row = t.row /\ u.node = t.node
  BY DEF GoodFields, Idle
<1>2. task' = [task EXCEPT ![a] = u]
  BY DEF Then, Go
<1> HIDE DEF u
<1>3. Sends(a, u) /\ Keeps(a, u)
  BY <1>1 DEF Sends, Keeps
<1> QED
  BY <1>2, <1>3 DEF Sending

(* A task that ends, or does the next of its steps, sends nothing else.    *)
LEMMA EndSends ==
  ASSUME TasksOK, NEW a \in Apps, Return(a) \/ (Proceed(a) /\ At(a) # "none")
  PROVE  Sending(a)
<1>1. CASE Return(a)
  <2>1. Idle.row = NoRow /\ \A s : ~ Has(Idle.todo, s)
    BY HasOf DEF Idle
  <2>2. Sends(a, Idle) /\ Keeps(a, Idle)
    BY <2>1 DEF Sends, Keeps
  <2> QED
    BY <1>1, <2>2 DEF Return, Sending
<1>2. CASE Proceed(a) /\ At(a) # "none"
  <2> DEFINE t == [task[a] EXCEPT !.todo = Tail(task[a].todo)]
  <2>1. GoodFields(task[a]) /\ task[a].todo # <<>> /\ task[a].todo \in Seq(Steps)
    BY <1>2, AtIsNext DEF TasksOK, GoodTask
  <2>2. task' = [task EXCEPT ![a] = t]
    BY <1>2 DEF Proceed, Then, Go
  <2>3. /\ t.row = task[a].row /\ t.node = task[a].node
        /\ \A s : Has(t.todo, s) => Has(task[a].todo, s)
    BY <2>1, TailLeft DEF GoodFields, Idle
  <2> HIDE DEF t
  <2>4. Sends(a, t) /\ Keeps(a, t)
    BY <2>3 DEF Sends, Keeps
  <2> QED
    BY <2>2, <2>4 DEF Sending
<1> QED
  BY <1>1, <1>2

(* A draft of a page to be has no base.                                    *)
LEMMA CreatingSends ==
  ASSUME NEW a, NEW t, GoodFields(t), NEW p, NEW text \in Bodies, NEW todo,
         Then(a, Creating(t, p, text), todo), ~ Has(todo, "content"), ~ Has(todo, "save")
  PROVE  Sending(a)
<1> DEFINE u == Creating(t, p, text)
<1>1. GoodFields(u) /\ u.row.op = "create"
  BY PuttingIsGood, RowsAreShaped DEF Creating, Row
<1> HIDE DEF u
<1>2. Sends(a, u)
  BY <1>1 DEF Sends
<1> QED
  BY <1>1, <1>2, ThenSends DEF u

(* What _write_draft leaves a task with.                                   *)
LEMMA WriteDraftSends ==
  ASSUME NEW a, NEW t, GoodFields(t), t.row = task[a].row,
         NEW k \in NodeKeys(view), NEW text \in Bodies, NEW after \in {"saved", "renamed"},
         WriteDraft(a, t, k, text, after)
  PROVE  Sending(a)
<1> DEFINE n == Node(view, k)
<1>1. CASE n.doc = Nowhere
  <2> DEFINE todo == <<"put", "refresh", after>>
  <2>1. Then(a, Creating(t, n.path, text), todo)
    BY <1>1 DEF WriteDraft
  <2>2. ~ Has(todo, "content") /\ ~ Has(todo, "save")
    BY HasOf
  <2> HIDE DEF todo, n
  <2> QED
    BY <2>1, <2>2, CreatingSends
<1>2. CASE n.doc # Nowhere
  <2> DEFINE u == [t EXCEPT !.key = k, !.node = n, !.text = text]
             todo == <<"current", "save", "put", "refresh", after>>
  <2>1. Then(a, u, todo)
    BY <1>2 DEF WriteDraft
  <2>2. /\ DOMAIN u = DOMAIN t /\ u.ino = t.ino /\ u.node = n /\ u.row = t.row
        /\ u.writing = t.writing /\ u.trunc = t.trunc
    BY DEF GoodFields, Idle
  <2> HIDE DEF u, todo
  <2>3. GoodFields(u)
    BY <2>2 DEF GoodFields
  <2> QED
    BY <2>1, <2>2, <2>3, ThenKeeps
<1> QED
  BY <1>1, <1>2

(* What each handler leaves its task with.                                 *)
LEMMA HandlerSends ==
  ASSUME Shapes, NEW a \in Apps, Handler(a)
  PROVE  task' = task \/ Sending(a)
<1> USE DEF Shapes
<1>0. GoodFields(task[a])
  BY DEF TasksOK, GoodTask
<1>1. CASE Current(a) \/ AnswerPut(a) \/ AnswerDrop(a)
  <2>1. Proceed(a) /\ At(a) # "none"
    BY <1>1 DEF Current, AnswerPut, AnswerDrop, Answered
  <2> QED
    BY <2>1, EndSends
<1>2. CASE TakeLock(a)
  BY <1>2 DEF TakeLock, runVars
<1>3. CASE OpendirStep(a)
  <2>1. PICK l : Then(a, [task[a] EXCEPT !.left = l], <<"readdir">>)
    BY <1>3 DEF OpendirStep
  <2> DEFINE t == [task[a] EXCEPT !.left = l]
  <2>2. /\ DOMAIN t = DOMAIN task[a] /\ t.ino = task[a].ino /\ t.row = task[a].row
        /\ t.writing = task[a].writing /\ t.trunc = task[a].trunc
    BY <1>0 DEF GoodFields, Idle
  <2> HIDE DEF t
  <2>3. GoodFields(t) /\ Sends(a, t)
    BY <1>0, <2>2 DEF GoodFields, Sends
  <2>4. ~ Has(<<"readdir">>, "content") /\ ~ Has(<<"readdir">>, "save")
    BY HasOf
  <2> QED
    BY <2>1, <2>3, <2>4, ThenSends DEF t
<1>4. CASE ReaddirStep(a)
  <2>1. CASE UNCHANGED task
    BY <2>1
  <2>2. CASE ~ UNCHANGED task
    <3>1. PICK e : task' = [task EXCEPT ![a].left = @ \ {e}]
      BY <1>4, <2>2 DEF ReaddirStep
    <3> DEFINE t == [task[a] EXCEPT !.left = @ \ {e}]
    <3>2. task' = [task EXCEPT ![a] = t]
      BY <3>1
    <3>3. t.row = task[a].row /\ t.todo = task[a].todo /\ t.node = task[a].node
      BY <1>0 DEF GoodFields, Idle
    <3> HIDE DEF t
    <3> QED
      BY <3>2, <3>3 DEF Sending, Sends, Keeps
  <2> QED
    BY <2>1, <2>2
<1>5. CASE OpenNode(a)
  <2> DEFINE k == Resolved(task[a].ino)
             t == [task[a] EXCEPT !.key = k, !.node = Node(view, k)]
  <2>1. k \in NodeKeys(view) /\ (Return(a) \/ Then(a, t, <<"content">>))
    BY <1>5 DEF OpenNode
  <2> HIDE DEF k
  <2>2. /\ DOMAIN t = DOMAIN task[a] /\ t.ino = task[a].ino /\ t.row = task[a].row
        /\ t.writing = task[a].writing /\ t.trunc = task[a].trunc /\ t.node = Node(view, k)
    BY <1>0 DEF GoodFields, Idle
  <2> HIDE DEF t
  <2>3. GoodFields(t)
    BY <1>0, <2>2 DEF GoodFields
  <2> QED
    BY <2>1, <2>2, <2>3, EndSends, ThenKeeps
<1>6. CASE PersistDraft(a)
  <2>1. Has(task[a].todo, "persist") /\ GoodPlan(task[a], task[a].todo)
    BY <1>6, StepIsLeft DEF PersistDraft, Now, Steps
  <2>2. handle[a].text \in Bodies
    BY <2>1 DEF GoodPlan, HandlesOK, GoodHandle
  <2>3. /\ handle[a].key \in NodeKeys(view)
        /\ WriteDraft(a, task[a], handle[a].key, handle[a].text, "saved")
    BY <1>6 DEF PersistDraft
  <2> QED
    BY <1>0, <2>2, <2>3, WriteDraftSends
<1>7. CASE SaveStep(a)
  <2> DEFINE n == IF task[a].key \in NodeKeys(view) THEN Node(view, task[a].key) ELSE task[a].node
             t == Putting(task[a], n.path, Row("update", n.doc, BaseFor(n), task[a].text))
             u == [t EXCEPT !.todo = Tail(task[a].todo)]
  <2>1. At(a) = "save" /\ Then(a, t, Tail(task[a].todo))
    BY <1>7 DEF SaveStep, Now
  <2>2. task[a].todo # <<>> /\ task[a].todo \in Seq(Steps)
    BY <2>1, AtIsNext DEF TasksOK
  <2>3. task' = [task EXCEPT ![a] = u]
    BY <2>1 DEF Then, Go
  <2> HIDE DEF n
  <2>4. u.node = task[a].node /\ u.todo = Tail(task[a].todo)
    BY <1>0 DEF Putting, GoodFields, Idle
  <2> HIDE DEF u
  <2>5. Sends(a, u) /\ Keeps(a, u)
    BY <1>7, <2>2, <2>4, TailLeft DEF Sends, Keeps
  <2> QED
    BY <2>3, <2>5 DEF Sending
<1>8. CASE CreatePage(a)
  <2>1. Then(a, Creating(task[a], task[a].name, Empty), <<"put", "refresh", "made">>)
    BY <1>8 DEF CreatePage
  <2> DEFINE todo == <<"put", "refresh", "made">>
  <2>2. ~ Has(todo, "content") /\ ~ Has(todo, "save")
    BY HasOf
  <2> HIDE DEF todo
  <2> QED
    BY <1>0, <2>1, <2>2, EmptyIsBody, CreatingSends DEF todo
<1>9. CASE UnlinkNode(a)
  <2> DEFINE n == Node(view, Entry(task[a].name))
             t == [task[a] EXCEPT !.dropped = n.path]
             r == Row("delete", n.doc, n.tip, NoText)
             drop == <<"drop", "refresh", "unlinked">>
             put == <<"put", "refresh", "unlinked">>
  <2>1. \/ Then(a, t, drop)
        \/ n.doc # Nowhere /\ Then(a, Putting(task[a], n.path, r), put)
    BY <1>9 DEF UnlinkNode
  <2>2. GoodNode(n)
    BY <1>9, EntryShape DEF UnlinkNode, TreeOK
  <2>3. n.doc # Nowhere => Shaped(r)
    BY <2>2, ShownIsRevision, RowsAreShaped DEF OfDocument
  <2>4. r.op = "delete"
    BY DEF Row
  <2> HIDE DEF n, r
  <2>5. /\ DOMAIN t = DOMAIN task[a] /\ t.ino = task[a].ino /\ t.row = task[a].row
        /\ t.writing = task[a].writing /\ t.trunc = task[a].trunc
    BY <1>0 DEF GoodFields, Idle
  <2> HIDE DEF t
  <2>6. GoodFields(t) /\ Sends(a, t)
    BY <1>0, <2>5 DEF GoodFields, Sends
  <2>7. /\ ~ Has(drop, "content") /\ ~ Has(drop, "save")
        /\ ~ Has(put, "content") /\ ~ Has(put, "save")
    BY HasOf
  <2> HIDE DEF drop, put
  <2>8. CASE n.doc # Nowhere /\ Then(a, Putting(task[a], n.path, r), put)
    <3> DEFINE u == Putting(task[a], n.path, r)
    <3>1. GoodFields(u) /\ u.row = r
      BY <1>0, <2>3, <2>8, PuttingIsGood
    <3> HIDE DEF u
    <3>2. Sends(a, u)
      BY <2>4, <3>1 DEF Sends
    <3> QED
      BY <2>7, <2>8, <3>1, <3>2, ThenSends DEF u
  <2> QED
    BY <2>1, <2>6, <2>7, <2>8, ThenSends
<1>10. CASE RenameScratch(a)
  <2> DEFINE from == Entry(task[a].name)
             over == KeyAt(view, task[a].to)
             text == scratch[from[2]].text
             t == [task[a] EXCEPT !.old = from, !.new = over]
             v == [task[a] EXCEPT !.old = from, !.new = DraftKey(task[a].to)]
             todo == <<"put", "refresh", "renamed">>
  <2>1. /\ from \in ScratchKeys /\ task[a].to \in Paths
        /\ \/ over \in Docs /\ WriteDraft(a, t, over, text, "renamed")
           \/ Then(a, Creating(v, task[a].to, text), todo)
    BY <1>10 DEF RenameScratch
  <2>2. text \in Bodies
    BY <2>1, EntryIs, KeysApart DEF FilesOK
  <2>3. over \in Docs => over \in NodeKeys(view)
    BY <2>1, KeyAtIs, MountAssumption DEF TreeOK
  <2> HIDE DEF from, over, text
  <2>4. /\ DOMAIN t = DOMAIN task[a] /\ t.ino = task[a].ino /\ t.row = task[a].row
        /\ t.writing = task[a].writing /\ t.trunc = task[a].trunc
        /\ DOMAIN v = DOMAIN task[a] /\ v.ino = task[a].ino /\ v.row = task[a].row
        /\ v.writing = task[a].writing /\ v.trunc = task[a].trunc
    BY <1>0 DEF GoodFields, Idle
  <2> HIDE DEF t, v
  <2>5. GoodFields(t) /\ GoodFields(v)
    BY <1>0, <2>4 DEF GoodFields
  <2>6. ~ Has(todo, "content") /\ ~ Has(todo, "save")
    BY HasOf
  <2> HIDE DEF todo
  <2> QED
    BY <2>1, <2>2, <2>3, <2>4, <2>5, <2>6, WriteDraftSends, CreatingSends
<1>11. CASE RenameNode(a)
  <2> DEFINE from == Entry(task[a].name)
             to == task[a].to
             n == Node(view, from)
             t == [task[a] EXCEPT !.old = from, !.new = DraftKey(to), !.dropped = n.path]
             r == Row("move", n.doc, n.tip, NoText)
             twice == <<"put", "refresh", "drop", "refresh", "renamed">>
             once == <<"put", "refresh", "renamed">>
  <2>1. /\ from \in NodeKeys(view)
        /\ \/ n.doc = Nowhere /\ Then(a, Creating(t, to, n.row.text), twice)
           \/ /\ n.doc # Nowhere /\ Then(a, Putting(task[a], to, r), once)
              /\ told' = [told EXCEPT ![n.doc] = @ \cup {n.tip}]
    BY <1>11 DEF RenameNode
  <2>2. GoodNode(n)
    BY <2>1, EntryShape DEF TreeOK
  <2>3. /\ n.doc = Nowhere => n.row.text \in Bodies
        /\ n.doc # Nowhere => Shaped(r) /\ n.doc \in Docs
    BY <2>2, ShownIsRevision, RowsAreShaped, MountAssumption
       DEF GoodNode, OfDocument, OfDraft, Shaped
  <2>4. /\ ~ Has(twice, "content") /\ ~ Has(twice, "save")
        /\ ~ Has(once, "content") /\ ~ Has(once, "save")
    BY HasOf
  <2> HIDE DEF twice, once
  <2>5. CASE n.doc = Nowhere
    <3>1. /\ DOMAIN t = DOMAIN task[a] /\ t.ino = task[a].ino /\ t.row = task[a].row
          /\ t.writing = task[a].writing /\ t.trunc = task[a].trunc
      BY <1>0 DEF GoodFields, Idle
    <3> HIDE DEF t, n, to
    <3>2. GoodFields(t)
      BY <1>0, <3>1 DEF GoodFields
    <3> QED
      BY <2>1, <2>3, <2>4, <2>5, <3>2, CreatingSends
  <2>6. CASE n.doc # Nowhere
    <3> DEFINE u == Putting(task[a], to, r)
    <3>1. GoodFields(u) /\ u.row = r
      BY <1>0, <2>3, <2>6, PuttingIsGood
    <3> HIDE DEF u
    <3>2. Sends(a, u)
      BY <1>11, <2>1, <2>3, <2>6, <3>1 DEF Sends
    <3> QED
      BY <2>1, <2>4, <2>6, <3>1, <3>2, ThenSends DEF u
  <2> QED
    BY <2>5, <2>6
<1>12. CASE Return(a)
  BY <1>12, EndSends
<1> QED
  BY <1>1, <1>2, <1>3, <1>4, <1>5, <1>6, <1>7, <1>8, <1>9, <1>10, <1>11, <1>12, Endings
     DEF Handler

-----------------------------------------------------------------------------
(* What the user has been shown                                            *)

(* The base of an edit or a move is a revision the user was told of.       *)
RowSeen(r, tl) == r # NoRow /\ r.op \in {"update", "move"} => r.base \in tl[r.doc]

RowsSeen(rows, tl) == \A p \in Paths : RowSeen(rows[p], tl)

(* A listing is of a revision there is, and of one the user was told of    *)
(* when it is the user's own.                                              *)
DocsSeen(docs, tips, tl) ==
  \A d \in Docs : docs[d] # Hidden =>
    docs[d].tip <= tips[d] /\ (docs[d].mine => docs[d].tip \in tl[d])

NodeSeen(n, tips, tl) ==
  /\ n.doc \in Docs => n.tip <= tips[n.doc] /\ (n.mine => n.tip \in tl[n.doc])
  /\ RowSeen(n.row, tl)

TaskSeen(t, tips, tl) ==
  /\ RowSeen(t.row, tl)
  /\ Has(t.todo, "content") \/ Has(t.todo, "save") => NodeSeen(t.node, tips, tl)

ServerSeen ==
  /\ \A d \in Docs : /\ told[d] \subseteq 1..srv.tip[d]
                     /\ srv.mine[d] => srv.tip[d] \in told[d]
  /\ RowsSeen(srv.rows, told)

TreeSeen ==
  /\ DocsSeen(view.docs, srv.tip, told) /\ RowsSeen(view.rows, told)
  /\ fetch # NoFetch => DocsSeen(fetch.docs, srv.tip, told) /\ RowsSeen(fetch.rows, told)

FilesSeen ==
  \A d \in Docs : /\ checkedOut[d] = 0 \/ checkedOut[d] \in told[d]
                  /\ content[d].etag <= srv.tip[d]

TasksSeen == \A a \in Apps : TaskSeen(task[a], srv.tip, told)

Seen == ServerSeen /\ TreeSeen /\ FilesSeen /\ TasksSeen

(* What was seen stays seen when more is told and more is published.       *)
LEMMA SeenStays ==
  ASSUME NEW tl, NEW tm, \A d \in Docs : tl[d] \subseteq tm[d]
  PROVE  /\ \A r : r = NoRow \/ Shaped(r) => (RowSeen(r, tl) => RowSeen(r, tm))
         /\ \A rows : GoodRows(rows) => (RowsSeen(rows, tl) => RowsSeen(rows, tm))
<1>1. \A r : r = NoRow \/ Shaped(r) => (RowSeen(r, tl) => RowSeen(r, tm))
  BY DEF RowSeen, Shaped
<1> QED
  BY <1>1 DEF RowsSeen, GoodRows

(* What was seen of documents and of entries of the tree stays seen when   *)
(* more is told and the tips move on.                                      *)
LEMMA TipsStay ==
  ASSUME NEW tl, NEW tm, \A d \in Docs : tl[d] \subseteq tm[d],
         NEW s \in [Docs -> Nat], NEW r \in [Docs -> Nat], \A d \in Docs : s[d] <= r[d]
  PROVE  /\ \A docs : GoodDocs(docs) => (DocsSeen(docs, s, tl) => DocsSeen(docs, r, tm))
         /\ \A n : GoodNode(n) => (NodeSeen(n, s, tl) => NodeSeen(n, r, tm))
<1>1. ASSUME NEW docs, GoodDocs(docs), DocsSeen(docs, s, tl) PROVE DocsSeen(docs, r, tm)
  BY <1>1 DEF GoodDocs, GoodListing, DocsSeen
<1>2. ASSUME NEW n, GoodNode(n), NodeSeen(n, s, tl) PROVE NodeSeen(n, r, tm)
  <2>1. RowSeen(n.row, tm)
    BY <1>2, SeenStays DEF GoodNode, OfDocument, OfDraft, NodeSeen
  <2>2. n.tip \in Nat
    BY <1>2 DEF GoodNode, OfDocument, OfDraft
  <2> QED
    BY <1>2, <2>1, <2>2 DEF NodeSeen
<1> QED
  BY <1>1, <1>2

(* So does what a task holds.                                              *)
LEMMA TaskStays ==
  ASSUME NEW tl, NEW tm, \A d \in Docs : tl[d] \subseteq tm[d],
         NEW s \in [Docs -> Nat], NEW r \in [Docs -> Nat], \A d \in Docs : s[d] <= r[d]
  PROVE  \A t : GoodTask(t) => (TaskSeen(t, s, tl) => TaskSeen(t, r, tm))
<1> SUFFICES ASSUME NEW t, GoodTask(t), TaskSeen(t, s, tl) PROVE TaskSeen(t, r, tm)
  OBVIOUS
<1>1. RowSeen(t.row, tm)
  BY SeenStays DEF GoodTask, GoodFields, TaskSeen
<1>2. Has(t.todo, "content") \/ Has(t.todo, "save") => GoodNode(t.node)
  BY DEF GoodTask, GoodPlan, Holding
<1> QED
  BY <1>1, <1>2, TipsStay DEF TaskSeen

(* An entry of the tree is of what the tree lists.                         *)
LEMMA EntrySeen ==
  ASSUME TreeOK, TreeSeen, NEW k \in NodeKeys(view)
  PROVE  NodeSeen(Node(view, k), srv.tip, told)
<1>1. CASE k \in Docs
  <2>1. k \in DocKeys(view) /\ Node(view, k) = DocNode(view, k)
    BY <1>1, EntryShape DEF TreeOK
  <2> DEFINE about == RowsFor(view, {"update", "move"}, k)
             row   == IF about = {} THEN NoRow ELSE view.rows[LastOf(view, about)]
             n     == DocNode(view, k)
  <2>2. /\ n.doc = k /\ n.tip = view.docs[k].tip /\ n.mine = view.docs[k].mine /\ n.row = row
        /\ view.docs[k] # Hidden
    BY <1>1, <2>1, DocumentShape DEF TreeOK, DocNode
  <2>3. RowSeen(row, told)
    <3>1. about \in SUBSET Paths
      BY DEF RowsFor
    <3>2. about # {} => LastOf(view, about) \in Paths
      BY <3>1, LastIsOne DEF TreeOK
    <3> HIDE DEF about
    <3> QED
      BY <3>2 DEF TreeSeen, RowsSeen, RowSeen
  <2> HIDE DEF n, row
  <2>4. NodeSeen(n, srv.tip, told)
    BY <1>1, <2>2, <2>3 DEF NodeSeen, TreeSeen, DocsSeen
  <2> QED
    BY <2>1, <2>4 DEF n
<1>2. CASE k \notin Docs
  <2>1. PICK p \in Created(view) : Node(view, k) = DraftNode(view, p)
    BY <1>2, EntryShape DEF TreeOK
  <2>2. OfDraft(DraftNode(view, p))
    BY <2>1, DraftShape DEF TreeOK
  <2> DEFINE n == DraftNode(view, p)
  <2> HIDE DEF n
  <2>3. NodeSeen(n, srv.tip, told)
    BY <2>2, MountAssumption DEF n, NodeSeen, OfDraft, RowSeen
  <2> QED
    BY <2>1, <2>3 DEF n
<1> QED
  BY <1>1, <1>2

(* What is shown of an entry is a revision there is, once it is told.      *)
LEMMA ShownIsSeen ==
  ASSUME ServerOK, ServerSeen, NEW n, GoodNode(n), n.doc \in Docs,
         NodeSeen(n, srv.tip, told)
  PROVE  Shown(n) \in 1..srv.tip[n.doc] /\ n.tip \in 1..srv.tip[n.doc]
<1>1. OfDocument(n)
  BY MountAssumption DEF GoodNode, OfDraft
<1>2. srv.tip[n.doc] \in Nat /\ told[n.doc] \subseteq 1..srv.tip[n.doc]
  BY DEF ServerOK, GoodServer, ServerSeen
<1>3. n.tip \in 1..srv.tip[n.doc]
  BY <1>1, <1>2 DEF OfDocument, NodeSeen
<1>4. n.row # NoRow => n.row.base \in 1..srv.tip[n.doc]
  BY <1>1, <1>2 DEF OfDocument, NodeSeen, RowSeen
<1> QED
  BY <1>3, <1>4 DEF Shown

(* The base of a save is a revision the user was told of: the one its      *)
(* draft has, the one last shown, the user's own, or the one the save is   *)
(* told to write over.                                                     *)
LEMMA BaseIsSeen ==
  ASSUME ServerOK, FilesOK, FilesSeen, NEW n, GoodNode(n), n.doc \in Docs,
         NodeSeen(n, srv.tip, told),
         told' = IF Blind(n) THEN [told EXCEPT ![n.doc] = @ \cup {n.tip}] ELSE told
  PROVE  BaseFor(n) \in told'[n.doc]
<1>1. OfDocument(n)
  BY MountAssumption DEF GoodNode, OfDraft
<1>2. told[n.doc] \subseteq told'[n.doc] /\ (Blind(n) => n.tip \in told'[n.doc])
  BY DEF ServerOK
<1>3. CASE n.row # NoRow
  <2>1. n.row.base # 0 /\ n.row.base \in told[n.doc]
    BY <1>1, <1>3 DEF OfDocument, Shaped, NodeSeen, RowSeen
  <2> QED
    BY <1>2, <1>3, <2>1 DEF BaseFor
<1>4. CASE n.row = NoRow
  <2>1. checkedOut[n.doc] = 0 \/ checkedOut[n.doc] \in told[n.doc]
    BY DEF FilesSeen
  <2>2. n.mine => n.tip \in told[n.doc]
    BY DEF NodeSeen
  <2>3. checkedOut[n.doc] = 0 => Blind(n)
    BY <1>4 DEF Blind
  <2> QED
    BY <1>2, <1>4, <2>1, <2>2, <2>3 DEF BaseFor
<1> QED
  BY <1>3, <1>4

(* The entry a save works on.                                              *)
LEMMA SavedEntry ==
  ASSUME Shapes, Seen, NEW a \in Apps, SaveStep(a)
  PROVE  LET t == task[a]
             n == IF t.key \in NodeKeys(view) THEN Node(view, t.key) ELSE t.node
         IN GoodNode(n) /\ n.doc \in Docs /\ NodeSeen(n, srv.tip, told)
<1> USE DEF Shapes
<1> DEFINE t == task[a]
<1>1. Holding(t) /\ NodeSeen(t.node, srv.tip, told)
  BY StepIsLeft DEF SaveStep, Now, GoodPlan, Steps, Seen, TasksSeen, TaskSeen
<1>2. CASE t.key \in NodeKeys(view)
  <2>1. GoodNode(Node(view, t.key)) /\ Node(view, t.key).doc \in Docs
    BY <1>1, <1>2, EntryShape DEF Holding, TreeOK, OfDraft
  <2> QED
    BY <1>2, <2>1, EntrySeen DEF Seen
<1>3. CASE t.key \notin NodeKeys(view)
  BY <1>1, <1>3 DEF Holding
<1> QED
  BY <1>2, <1>3

(* What a handler leaves its task with has been seen.                      *)
LEMMA HandlersSee ==
  ASSUME Shapes, Seen, NEW a \in Apps, Handler(a),
         \A d \in Docs : told[d] \subseteq told'[d] /\ srv.tip[d] <= srv'.tip[d],
         srv'.tip \in [Docs -> Nat]
  PROVE  TasksSeen'
<1> USE DEF Shapes
<1>0. /\ srv.tip \in [Docs -> Nat]
      /\ \A b \in Apps : TaskSeen(task[b], srv'.tip, told')
  <2>1. srv.tip \in [Docs -> Nat]
    BY DEF ServerOK, GoodServer
  <2> QED
    BY <2>1, TaskStays DEF Seen, TasksSeen, TasksOK
<1>1. ASSUME NEW t, task' = [task EXCEPT ![a] = t], TaskSeen(t, srv'.tip, told')
      PROVE  TasksSeen'
  BY <1>0, <1>1 DEF TasksSeen, TasksOK
<1>2. ASSUME NEW t, Keeps(a, t), NEW s, s \in {"content", "save"}, Has(t.todo, s)
      PROVE  NodeSeen(t.node, srv'.tip, told')
  <2>1. CASE Has(task[a].todo, s) /\ t.node = task[a].node
    BY <1>0, <1>2, <2>1 DEF TaskSeen
  <2>2. ASSUME NEW k \in NodeKeys(view), t.node = Node(view, k)
        PROVE  NodeSeen(t.node, srv'.tip, told')
    <3>1. GoodNode(t.node)
      BY <2>2, EntryShape DEF TreeOK
    <3>2. NodeSeen(t.node, srv.tip, told)
      BY <2>2, EntrySeen DEF Seen
    <3> QED
      BY <1>0, <3>1, <3>2, TipsStay
  <2> QED
    BY <1>2, <2>1, <2>2 DEF Keeps
<1>3. CASE SaveStep(a)
  <2> DEFINE n == IF task[a].key \in NodeKeys(view) THEN Node(view, task[a].key) ELSE task[a].node
             r == Row("update", n.doc, BaseFor(n), task[a].text)
             t == Putting(task[a], n.path, r)
             u == [t EXCEPT !.todo = Tail(task[a].todo)]
  <2>1. /\ At(a) = "save" /\ Then(a, t, Tail(task[a].todo))
        /\ told' = IF Blind(n) THEN [told EXCEPT ![n.doc] = @ \cup {n.tip}] ELSE told
    BY <1>3 DEF SaveStep, Now
  <2>2. GoodNode(n) /\ n.doc \in Docs /\ NodeSeen(n, srv.tip, told)
    BY <1>3, SavedEntry
  <2>3. GoodFields(task[a]) /\ task[a].todo # <<>> /\ task[a].todo \in Seq(Steps)
    BY <2>1, AtIsNext DEF TasksOK, GoodTask
  <2> HIDE DEF n
  <2>4. BaseFor(n) \in told'[n.doc]
    BY <2>1, <2>2, BaseIsSeen DEF Seen
  <2>5. RowSeen(r, told')
    BY <2>4 DEF RowSeen, Row
  <2> HIDE DEF r
  <2>6. u.row = r /\ u.node = task[a].node /\ u.todo = Tail(task[a].todo)
    BY <2>3 DEF Putting, GoodFields, Idle
  <2>7. task' = [task EXCEPT ![a] = u]
    BY <2>1 DEF Then, Go
  <2> HIDE DEF u
  <2>8. Keeps(a, u)
    BY <2>3, <2>6, TailLeft DEF Keeps
  <2>9. TaskSeen(u, srv'.tip, told')
    BY <1>2, <2>5, <2>6, <2>8 DEF TaskSeen
  <2> QED
    BY <1>1, <2>7, <2>9
<1>4. CASE task' = task
  BY <1>0, <1>4 DEF TasksSeen
<1>5. CASE Sending(a) /\ ~ SaveStep(a)
  <2>1. PICK t : Sends(a, t) /\ Keeps(a, t) /\ task' = [task EXCEPT ![a] = t]
    BY <1>5 DEF Sending
  <2>2. RowSeen(t.row, told')
    <3>1. CASE t.row = task[a].row
      BY <1>0, <3>1 DEF TaskSeen
    <3>2. CASE t.row = NoRow \/ t.row.op \in {"create", "delete"}
      BY <3>2 DEF RowSeen
    <3>3. ASSUME NEW k \in NodeKeys(view), Node(view, k).doc \in Docs,
                 t.row = Row("move", Node(view, k).doc, Node(view, k).tip, NoText),
                 told' = [told EXCEPT ![Node(view, k).doc] = @ \cup {Node(view, k).tip}]
          PROVE  RowSeen(t.row, told')
      BY <3>3 DEF RowSeen, Row, ServerOK
    <3> QED
      BY <1>5, <2>1, <3>1, <3>2, <3>3 DEF Sends
  <2>3. TaskSeen(t, srv'.tip, told')
    BY <1>2, <2>1, <2>2 DEF TaskSeen
  <2> QED
    BY <1>1, <2>1, <2>3
<1> QED
  BY <1>3, <1>4, <1>5, HandlerSends

(* Every task works with what has been seen.                               *)
LEMMA TasksSeenNext ==
  ASSUME Shapes, Seen, Next PROVE TasksSeen'
<1> USE DEF Shapes
<1>1. /\ \A d \in Docs : told[d] \subseteq told'[d] /\ srv.tip[d] <= srv'.tip[d]
      /\ srv.tip \in [Docs -> Nat] /\ srv'.tip \in [Docs -> Nat]
  BY ServerGrows, ServerNext DEF ServerOK, GoodServer
<1>2. \A b \in Apps : TaskSeen(task[b], srv'.tip, told')
  BY <1>1, TaskStays DEF Seen, TasksSeen, TasksOK
<1>3. CASE task' = task
  BY <1>2, <1>3 DEF TasksSeen
<1>4. ASSUME NEW a \in Apps, Stat(a) \/ Kernel(a) PROVE TasksSeen'
  <2>1. CASE TaskCall(a)
    <3>1. PICK t : Begins(t) /\ task' = [task EXCEPT ![a] = t]
      BY <2>1 DEF TaskCall
    <3>2. TaskSeen(t, srv'.tip, told')
      BY <3>1 DEF Begins, TaskSeen, RowSeen
    <3> QED
      BY <1>2, <3>1, <3>2 DEF TasksSeen, TasksOK
  <2> QED
    BY <1>3, <1>4, <2>1, CallMoves
<1>5. ASSUME NEW a \in Apps, Handler(a) PROVE TasksSeen'
  BY <1>1, <1>5, HandlersSee
<1>6. CASE Refreshing
  <2>1. CASE task' # task
    <3>1. fetch.by \in Apps /\ At(fetch.by) # "none" /\ Proceed(fetch.by)
      BY <1>6, <2>1 DEF Refreshing, AnswerToken, Same, AnswerManifest, AnswerDrafts, Install,
         RefreshFails, Fetching, runVars, TreeOK, GoodFetch, Holder
    <3> DEFINE a == fetch.by
               t == [task[a] EXCEPT !.todo = Tail(task[a].todo)]
    <3>2. GoodFields(task[a]) /\ task[a].todo # <<>> /\ task[a].todo \in Seq(Steps)
      BY <3>1, AtIsNext DEF TasksOK, GoodTask
    <3>3. task' = [task EXCEPT ![a] = t]
      BY <3>1 DEF Proceed, Then, Go
    <3>4. /\ t.row = task[a].row /\ t.node = task[a].node
          /\ \A s : Has(t.todo, s) => Has(task[a].todo, s)
      BY <3>2, TailLeft DEF GoodFields, Idle
    <3> HIDE DEF t
    <3>5. TaskSeen(t, srv'.tip, told')
      BY <1>2, <3>1, <3>4 DEF TaskSeen
    <3> QED
      BY <1>2, <3>1, <3>3, <3>5 DEF TasksSeen, TasksOK
  <2> QED
    BY <1>3, <2>1
<1>7. CASE Expire \/ Others \/ \E i \in Numbers : Forgets(i)
  BY <1>3, <1>7, OthersMoves
<1>8. CASE Restart
  <2>1. task' = [a \in Apps |-> Idle]
    BY <1>8 DEF Restart, Started
  <2>2. Idle.row = NoRow /\ \A s : ~ Has(Idle.todo, s)
    BY HasOf DEF Idle
  <2> QED
    BY <2>1, <2>2 DEF TasksSeen, TaskSeen, RowSeen
<1> QED
  BY <1>4, <1>5, <1>6, <1>7, <1>8 DEF Next

(* What is told is of a revision there is, and of every one of the user's. *)
ToldRight(s, tl) ==
  \A d \in Docs : tl[d] \subseteq 1..s.tip[d] /\ (s.mine[d] => s.tip[d] \in tl[d])

(* A row of theirs that is stored, dropped or published changes no other.  *)
LEMMA RowsSeenAfter ==
  ASSUME ServerOK, NEW tl, \A d \in Docs : told[d] \subseteq tl[d],
         RowsSeen(srv.rows, told), NEW p, NEW r, RowSeen(r, tl)
  PROVE  RowsSeen([srv.rows EXCEPT ![p] = r], tl)
BY SeenStays DEF RowsSeen, ServerOK, GoodServer, GoodRows

(* What a handler tells the user is a revision there is.                   *)
LEMMA TellsSeen ==
  ASSUME Shapes, Seen, NEW a \in Apps, OpenNode(a) \/ SaveStep(a) \/ RenameNode(a)
  PROVE  /\ srv' = srv
         /\ \/ told' = told
            \/ \E d \in Docs : \E b \in 1..srv.tip[d] : told' = [told EXCEPT ![d] = @ \cup {b}]
<1> USE DEF Shapes
<1>0. srv' = srv /\ ServerOK /\ ServerSeen
  BY HandlersTell DEF Seen
<1>1. CASE OpenNode(a)
  <2> DEFINE n == Node(view, Resolved(task[a].ino))
  <2>1. told' = told \/ RecordCheckout(n)
    BY <1>1 DEF OpenNode
  <2>2. Resolved(task[a].ino) \in NodeKeys(view)
    BY <1>1 DEF OpenNode
  <2>3. GoodNode(n) /\ NodeSeen(n, srv.tip, told)
    BY <2>2, EntryShape, EntrySeen DEF TreeOK, Seen
  <2> HIDE DEF n
  <2> DEFINE b == Shown(n)
  <2>4. \/ told' = told
        \/ (n.doc # Nowhere /\ told' = [told EXCEPT ![n.doc] = @ \cup {b}])
    BY <2>1 DEF RecordCheckout
  <2>5. n.doc # Nowhere => n.doc \in Docs /\ b \in 1..srv.tip[n.doc]
    BY <1>0, <2>3, ShownIsRevision, ShownIsSeen
  <2> HIDE DEF b
  <2> QED
    BY <1>0, <2>4, <2>5
<1>2. CASE SaveStep(a)
  <2> DEFINE n == IF task[a].key \in NodeKeys(view) THEN Node(view, task[a].key) ELSE task[a].node
  <2>1. told' = told \/ told' = [told EXCEPT ![n.doc] = @ \cup {n.tip}]
    BY <1>2 DEF SaveStep
  <2>2. GoodNode(n) /\ n.doc \in Docs /\ NodeSeen(n, srv.tip, told)
    BY <1>2, SavedEntry
  <2> HIDE DEF n
  <2>3. n.tip \in 1..srv.tip[n.doc]
    BY <1>0, <2>2, ShownIsSeen
  <2> QED
    BY <1>0, <2>1, <2>2, <2>3
<1>3. CASE RenameNode(a)
  <2> DEFINE n == Node(view, Entry(task[a].name))
  <2>1. /\ Entry(task[a].name) \in NodeKeys(view)
        /\ told' = told \/ (n.doc # Nowhere /\ told' = [told EXCEPT ![n.doc] = @ \cup {n.tip}])
    BY <1>3 DEF RenameNode
  <2>2. GoodNode(n) /\ NodeSeen(n, srv.tip, told)
    BY <2>1, EntryShape, EntrySeen DEF TreeOK, Seen
  <2> HIDE DEF n
  <2>3. n.doc # Nowhere => n.doc \in Docs /\ n.tip \in 1..srv.tip[n.doc]
    BY <1>0, <2>2, ShownIsRevision, ShownIsSeen
  <2> QED
    BY <1>0, <2>1, <2>3
<1> QED
  BY <1>1, <1>2, <1>3

(* Others tell the user of what is the user's own.                         *)
LEMMA OthersSeen ==
  ASSUME ServerOK, ServerSeen, Others PROVE ServerSeen'
<1>0. /\ DOMAIN srv = {"path", "tip", "mine", "may", "rows", "token"}
      /\ srv.tip \in [Docs -> Nat] /\ srv.mine \in [Docs -> BOOLEAN]
      /\ told \in [Docs -> SUBSET Nat] /\ ToldRight(srv, told) /\ RowsSeen(srv.rows, told)
      /\ RowSeen(NoRow, told')
  BY DEF ServerOK, GoodServer, ServerSeen, ToldRight, RowSeen
<1>1. ASSUME ToldRight(srv', told'), RowsSeen(srv'.rows, told') PROVE ServerSeen'
  BY <1>1 DEF ServerSeen, ToldRight
<1>2. ASSUME NEW d \in Docs, NEW n, told' = told \/ Told(d, n)
      PROVE  \A e \in Docs : told[e] \subseteq told'[e]
  BY <1>0, <1>2 DEF Told
<1>3. ASSUME \A e \in Docs : told[e] \subseteq told'[e] PROVE RowsSeen(srv.rows, told')
  BY <1>0, <1>3, SeenStays DEF ServerOK, GoodServer
<1>4. ASSUME NEW d \in Docs, NEW mine \in BOOLEAN, OtherPublishes(d, mine) PROVE ServerSeen'
  <2>1. /\ srv' = Changed([srv EXCEPT !.tip[d] = @ + 1, !.mine[d] = mine])
        /\ IF mine THEN Told(d, srv.tip[d] + 1) ELSE told' = told
    BY <1>4 DEF OtherPublishes
  <2>2. RowsSeen(srv.rows, told')
    BY <1>2, <1>3, <2>1
  <2>3. /\ srv'.rows = srv.rows /\ srv'.tip = [srv.tip EXCEPT ![d] = @ + 1]
        /\ srv'.mine = [srv.mine EXCEPT ![d] = mine]
    BY <1>0, <2>1 DEF Changed
  <2>4. ToldRight(srv', told')
    BY <1>0, <2>1, <2>3 DEF Told, ToldRight
  <2> QED
    BY <1>1, <2>2, <2>3, <2>4
<1>5. ASSUME NEW d \in Docs, NEW p, OtherRetires(d) \/ OtherMoves(d, p) \/ Grants(d, p)
      PROVE  ServerSeen'
  <2>1. told' = told
    BY <1>5 DEF OtherRetires, OtherMoves, Grants
  <2>2. srv'.rows = srv.rows /\ (OtherMoves(d, p) \/ (srv'.tip = srv.tip /\ srv'.mine = srv.mine))
    <3>1. CASE OtherRetires(d)
      BY <1>0, <3>1 DEF OtherRetires, Changed
    <3>2. CASE Grants(d, p)
      BY <1>0, <3>2 DEF Grants, Changed
    <3>3. CASE OtherMoves(d, p)
      BY <1>0, <3>3 DEF OtherMoves, Changed
    <3> QED
      BY <1>5, <3>1, <3>2, <3>3
  <2>3. OtherMoves(d, p) => /\ srv'.tip = [srv.tip EXCEPT ![d] = @ + 1]
                            /\ srv'.mine = [srv.mine EXCEPT ![d] = FALSE]
    BY <1>0 DEF OtherMoves, Changed
  <2>4. ToldRight(srv', told')
    BY <1>0, <2>1, <2>2, <2>3 DEF ToldRight
  <2> QED
    BY <1>0, <1>1, <2>1, <2>2, <2>4
<1>6. ASSUME NEW p \in Paths, CliPush(p) PROVE ServerSeen'
  <2>1. PICK d \in Docs :
          /\ \E x : srv' = Changed([srv EXCEPT !.rows[p] = NoRow, !.tip[d] = @ + 1,
                                               !.mine[d] = TRUE, !.path[d] = x])
          /\ Told(d, srv.tip[d] + 1)
    BY <1>6 DEF CliPush
  <2>2. /\ srv'.rows = [srv.rows EXCEPT ![p] = NoRow]
        /\ srv'.tip = [srv.tip EXCEPT ![d] = @ + 1]
        /\ srv'.mine = [srv.mine EXCEPT ![d] = TRUE]
    BY <1>0, <2>1 DEF Changed
  <2>5. \A e \in Docs : told[e] \subseteq told'[e]
    BY <1>2, <2>1
  <2>6. RowsSeen([srv.rows EXCEPT ![p] = NoRow], told')
    BY <1>0, <2>5, RowsSeenAfter
  <2>3. RowsSeen(srv'.rows, told')
    BY <2>2, <2>6
  <2>4. ToldRight(srv', told')
    BY <1>0, <2>1, <2>2 DEF Told, ToldRight
  <2> QED
    BY <1>1, <2>3, <2>4
<1>7. ASSUME NEW p \in Paths, CliMerge(p) PROVE ServerSeen'
  <2> DEFINE r == srv.rows[p]
             b == srv.tip[r.doc]
             m == [r EXCEPT !.base = b, !.text.from = b]
  <2>1. /\ r # NoRow /\ r.base < b /\ Told(r.doc, b) /\ r.op = "update"
        /\ srv' = Changed([srv EXCEPT !.rows[p] = m])
    BY <1>7 DEF CliMerge
  <2>2. Shaped(r) /\ r.doc \in Docs
    BY <2>1 DEF ServerOK, GoodServer, GoodRows, Shaped
  <2>3. /\ srv'.rows = [srv.rows EXCEPT ![p] = m] /\ srv'.tip = srv.tip
        /\ srv'.mine = srv.mine
    BY <1>0, <2>1 DEF Changed
  <2>4. b \in told'[r.doc] /\ b \in 1..srv.tip[r.doc]
    BY <1>0, <2>1, <2>2 DEF Told, Shaped
  <2>5. ToldRight(srv', told')
    BY <1>0, <2>1, <2>2, <2>3, <2>4 DEF Told, ToldRight
  <2> HIDE DEF b
  <2>6. RowSeen(m, told')
    BY <2>2, <2>4 DEF RowSeen, Shaped
  <2> HIDE DEF m
  <2>7. \A e \in Docs : told[e] \subseteq told'[e]
    BY <1>2, <2>1, <2>2
  <2>8. RowsSeen(srv'.rows, told')
    BY <1>0, <2>3, <2>6, <2>7, RowsSeenAfter
  <2> QED
    BY <1>1, <2>5, <2>8
<1>8. ASSUME NEW p \in Paths, CliRevert(p) PROVE ServerSeen'
  <2>1. /\ srv'.rows = [srv.rows EXCEPT ![p] = NoRow] /\ srv'.tip = srv.tip
        /\ srv'.mine = srv.mine /\ told' = told
    BY <1>0, <1>8 DEF CliRevert, Dropped, Changed
  <2>2. RowsSeen(srv'.rows, told')
    BY <1>0, <2>1, RowsSeenAfter
  <2> QED
    BY <1>0, <1>1, <2>1, <2>2 DEF ToldRight
<1> QED
  BY <1>4, <1>5, <1>6, <1>7, <1>8 DEF Others

(* The server holds what was seen.                                         *)
LEMMA ServerSeenNext ==
  ASSUME Shapes, Seen, Next PROVE ServerSeen'
<1> USE DEF Shapes
<1>1. CASE Others
  BY <1>1, OthersSeen DEF Seen
<1>2. ASSUME NEW a \in Apps, OpenNode(a) \/ SaveStep(a) \/ RenameNode(a) PROVE ServerSeen'
  <2>1. /\ srv' = srv
        /\ \/ told' = told
           \/ \E d \in Docs : \E b \in 1..srv.tip[d] : told' = [told EXCEPT ![d] = @ \cup {b}]
    BY <1>2, TellsSeen
  <2>2. \A d \in Docs : told[d] \subseteq told'[d]
    BY ServerGrows
  <2>3. RowsSeen(srv.rows, told')
    BY <2>2, SeenStays DEF Seen, ServerSeen, ServerOK, GoodServer
  <2> QED
    BY <2>1, <2>3 DEF Seen, ServerSeen, ServerOK
<1>3. ASSUME NEW a \in Apps, AnswerPut(a) \/ PutFails(a) \/ AnswerDrop(a) \/ DropFails(a)
      PROVE  ServerSeen'
  <2>1. /\ told' = told
        /\ \/ srv' = srv
           \/ srv' = Stored(a)
           \/ srv' = Dropped(task[a].dropped)
    BY <1>3, HandlersStore
  <2>2. RowSeen(task[a].row, told') /\ RowSeen(NoRow, told')
    BY <2>1 DEF Seen, TasksSeen, TaskSeen, RowSeen
  <2>3. ASSUME NEW p, NEW r, RowSeen(r, told'), srv' = Changed([srv EXCEPT !.rows[p] = r])
        PROVE  ServerSeen'
    <3>1. srv'.rows = [srv.rows EXCEPT ![p] = r] /\ srv'.tip = srv.tip /\ srv'.mine = srv.mine
      BY <2>3 DEF Changed, ServerOK, GoodServer
    <3>3. \A e \in Docs : told[e] \subseteq told'[e]
      BY <2>1
    <3>4. RowsSeen([srv.rows EXCEPT ![p] = r], told')
      BY <2>3, <3>3, RowsSeenAfter DEF Seen, ServerSeen
    <3>2. RowsSeen(srv'.rows, told')
      BY <3>1, <3>4
    <3> QED
      BY <2>1, <3>1, <3>2 DEF Seen, ServerSeen
  <2>4. srv' = srv => ServerSeen'
    BY <2>1 DEF Seen, ServerSeen
  <2> QED
    BY <2>1, <2>2, <2>3, <2>4 DEF Stored, Dropped
<1>4. CASE ~ ServerMoves
  BY <1>4, ServerFrame DEF serverVars, Seen, ServerSeen
<1> QED
  BY <1>1, <1>2, <1>3, <1>4 DEF ServerMoves

(* The manifest lists what there is, and the user's own as told.           *)
LEMMA ManifestSeen ==
  ASSUME ServerOK, ServerSeen PROVE DocsSeen(Manifest, srv.tip, told)
<1>1. ASSUME NEW d \in Docs, Listed(d) # Hidden
      PROVE  Listed(d).tip = srv.tip[d] /\ Listed(d).mine = srv.mine[d]
  BY <1>1 DEF Listed
<1> QED
  BY <1>1 DEF Manifest, DocsSeen, ServerSeen, ServerOK, GoodServer

(* So does the tree, and the refresh under way.                            *)
LEMMA TreeSeenNext ==
  ASSUME Shapes, Seen, Next PROVE TreeSeen'
<1> USE DEF Shapes
<1> DEFINE Right(x) == DocsSeen(x.docs, srv'.tip, told') /\ RowsSeen(x.rows, told')
<1>1. /\ \A d \in Docs : told[d] \subseteq told'[d] /\ srv.tip[d] <= srv'.tip[d]
      /\ srv.tip \in [Docs -> Nat] /\ srv'.tip \in [Docs -> Nat]
  BY ServerGrows, ServerNext DEF ServerOK, GoodServer
<1>2. Right(view) /\ (fetch # NoFetch => Right(fetch))
  BY <1>1, TipsStay, SeenStays DEF Seen, TreeSeen, TreeOK, GoodView, GoodFetch
<1>3. ASSUME Right(view'), fetch' = NoFetch \/ Right(fetch') PROVE TreeSeen'
  BY <1>3 DEF TreeSeen
<1>4. CASE ~ Refreshing /\ ~ Restart
  <2>1. view' = view /\ (fetch' = fetch \/ \E a \in Apps : TakeLock(a))
    BY <1>4, TreeFrame DEF TreeStays
  <2>2. ASSUME NEW a \in Apps, TakeLock(a) PROVE fetch'.docs = view.docs /\ fetch'.rows = view.rows
    BY <2>2 DEF TakeLock
  <2> QED
    BY <1>2, <1>3, <2>1, <2>2
<1>5. CASE Refreshing
  <2>1. serverVars' = serverVars /\ fetch # NoFetch /\ GoodFetch(fetch)
    BY <1>5 DEF Refreshing, AnswerToken, Same, AnswerManifest, AnswerDrafts, Install,
       RefreshFails, Fetching, TreeOK, serverVars
  <2>2. CASE AnswerToken
    <3>1. view' = view /\ fetch'.docs = fetch.docs /\ fetch'.rows = fetch.rows
      BY <2>1, <2>2 DEF AnswerToken, GoodFetch
    <3> QED
      BY <1>2, <1>3, <2>1, <3>1
  <2>3. CASE AnswerManifest
    <3>1. view' = view /\ fetch'.docs = Manifest /\ fetch'.rows = fetch.rows
      BY <2>1, <2>3 DEF AnswerManifest, GoodFetch
    <3> QED
      BY <1>2, <1>3, <2>1, <3>1, ManifestSeen DEF Seen, serverVars
  <2>4. CASE AnswerDrafts
    <3>1. view' = view /\ fetch'.docs = fetch.docs /\ fetch'.rows = srv.rows
      BY <2>1, <2>4 DEF AnswerDrafts, GoodFetch
    <3> QED
      BY <1>2, <1>3, <2>1, <3>1 DEF Seen, ServerSeen, serverVars
  <2>5. CASE Same \/ RefreshFails
    <3>1. view' = view /\ fetch' = NoFetch
      BY <2>5 DEF Same, RefreshFails
    <3> QED
      BY <1>2, <1>3, <3>1
  <2>6. CASE Install
    <3>1. view'.docs = fetch.docs /\ view'.rows = fetch.rows /\ fetch' = NoFetch
      BY <2>6 DEF Install, Answer
    <3> QED
      BY <1>2, <1>3, <2>1, <3>1
  <2> QED
    BY <1>5, <2>2, <2>3, <2>4, <2>5, <2>6 DEF Refreshing
<1>6. CASE Restart
  <2>1. /\ view'.docs = Manifest /\ view'.rows = srv.rows /\ fetch' = NoFetch
        /\ serverVars' = serverVars
    BY <1>6 DEF Restart, Started, Answer
  <2> QED
    BY <1>3, <2>1, ManifestSeen DEF Seen, ServerSeen, serverVars
<1> QED
  BY <1>4, <1>5, <1>6

(* Only opening a page and reading its body touch what is known of it.     *)
LEMMA CheckoutFrame ==
  ASSUME Next, \A a \in Apps : ~ OpenNode(a) /\ ~ AnswerContent(a), ~ Restart
  PROVE  UNCHANGED <<checkedOut, content>>
<1>1. CASE ~ FileMoves
  BY <1>1, FileFrame
<1>2. ASSUME NEW a \in Apps, Write(a) \/ \E n \in Names : Truncate(a, n)
      PROVE  UNCHANGED <<checkedOut, content>>
  BY <1>2 DEF Write, Truncate
<1>3. ASSUME NEW a \in Apps, LookupStep(a) \/ ReaddirStep(a) \/ OpenScratch(a)
                            \/ PersistLocally(a) \/ CreateScratch(a) \/ MadeStep(a)
      PROVE  UNCHANGED <<checkedOut, content>>
  BY <1>3 DEF LookupStep, ReaddirStep, OpenScratch, PersistLocally, CreateScratch, MadeStep,
     fileVars
<1>4. ASSUME NEW a \in Apps, UnlinkScratch(a) \/ UnlinkedStep(a) \/ RenameLocally(a)
                            \/ RenamedStep(a)
      PROVE  UNCHANGED <<checkedOut, content>>
  BY <1>4 DEF UnlinkScratch, UnlinkedStep, RenameLocally, RenamedStep, fileVars
<1>5. CASE \E i \in Numbers : Forgets(i)
  BY <1>5 DEF Forgets, fileVars
<1> QED
  BY <1>1, <1>2, <1>3, <1>4, <1>5 DEF FileMoves

(* What was checked out was told, and a cached body is of a revision there *)
(* is.                                                                     *)
LEMMA FilesSeenNext ==
  ASSUME Shapes, Seen, Next PROVE FilesSeen'
<1> USE DEF Shapes
<1>1. /\ \A d \in Docs : told[d] \subseteq told'[d] /\ srv.tip[d] <= srv'.tip[d]
      /\ srv.tip \in [Docs -> Nat] /\ srv'.tip \in [Docs -> Nat]
  BY ServerGrows, ServerNext DEF ServerOK, GoodServer
<1>2. \A d \in Docs : /\ checkedOut[d] = 0 \/ checkedOut[d] \in told'[d]
                      /\ content[d].etag <= srv'.tip[d]
  BY <1>1 DEF Seen, FilesSeen, FilesOK
<1>3. ASSUME NEW a \in Apps, OpenNode(a) PROVE FilesSeen'
  <2> DEFINE n == Node(view, Resolved(task[a].ino))
  <2>1. /\ content' = content
        /\ checkedOut' = checkedOut \/ RecordCheckout(n)
    BY <1>3 DEF OpenNode
  <2> DEFINE b == Shown(n)
  <2>2. \/ checkedOut' = checkedOut
        \/ checkedOut' = [checkedOut EXCEPT ![n.doc] = b] /\ b \in told'[n.doc]
    <3>1. RecordCheckout(n) /\ n.doc # Nowhere => b \in told'[n.doc]
      <4>1. Resolved(task[a].ino) \in NodeKeys(view)
        BY <1>3 DEF OpenNode
      <4>2. n.doc # Nowhere => n.doc \in Docs
        BY <4>1, EntryShape, ShownIsRevision DEF TreeOK
      <4> HIDE DEF n, b
      <4> QED
        BY <4>2 DEF RecordCheckout, ServerOK, b
    <3> QED
      BY <2>1, <3>1 DEF RecordCheckout
  <2> HIDE DEF n, b
  <2> QED
    BY <1>2, <2>1, <2>2 DEF FilesSeen, FilesOK
<1>4. ASSUME NEW a \in Apps, AnswerContent(a) PROVE FilesSeen'
  <2> DEFINE t == task[a]
             body == Text(srv.tip[t.key], 0)
  <2>1. /\ checkedOut' = checkedOut /\ At(a) = "content"
        /\ content' = [content EXCEPT ![t.key] = [etag |-> t.node.tip, body |-> body]]
    BY <1>4 DEF AnswerContent, Answered
  <2>2. Holding(t) /\ NodeSeen(t.node, srv.tip, told)
    BY <2>1, StepIsLeft DEF GoodPlan, Steps, Seen, TasksSeen, TaskSeen
  <2>3. t.key \in Docs /\ t.node.tip \in Nat /\ t.node.tip <= srv.tip[t.key]
    BY <2>2 DEF Holding, NodeSeen, GoodNode, OfDocument, OfDraft
  <2> HIDE DEF t, body
  <2> QED
    BY <1>1, <1>2, <2>1, <2>3 DEF FilesSeen, FilesOK
<1>5. CASE Restart
  BY <1>1, <1>5 DEF Restart, Started, FilesSeen
<1>6. CASE UNCHANGED <<checkedOut, content>>
  BY <1>2, <1>6 DEF FilesSeen
<1> QED
  BY <1>3, <1>4, <1>5, <1>6, CheckoutFrame

(* At the beginning nothing has been shown.                                *)
LEMMA InitSeen ==
  ASSUME Init PROVE Seen
<1>0. Shapes
  BY InitShapes
<1>1. /\ srv.mine = [d \in Docs |-> FALSE] /\ srv.rows = [p \in Paths |-> NoRow]
      /\ told = [d \in Docs |-> {}]
  BY DEF Init
<1>2. ServerSeen
  BY <1>1 DEF ServerSeen, RowsSeen, RowSeen
<1>3. TreeSeen
  <2>1. view.docs = Manifest /\ view.rows = srv.rows /\ fetch = NoFetch
    BY DEF Init, Answer
  <2> QED
    BY <1>0, <1>2, <2>1, ManifestSeen DEF TreeSeen, ServerSeen, Shapes
<1>4. FilesSeen
  BY <1>0 DEF Init, FilesSeen, Shapes, ServerOK, GoodServer
<1>5. TasksSeen
  <2>1. Idle.row = NoRow /\ \A s : ~ Has(Idle.todo, s)
    BY HasOf DEF Idle
  <2> QED
    BY <2>1 DEF Init, TasksSeen, TaskSeen, RowSeen
<1> QED
  BY <1>2, <1>3, <1>4, <1>5 DEF Seen

(* Every step keeps what was seen.                                         *)
LEMMA SeenNext ==
  ASSUME Shapes, Seen, Next PROVE Seen'
BY ServerSeenNext, TreeSeenNext, FilesSeenNext, TasksSeenNext DEF Seen

(* A step that changes nothing keeps what was seen.                        *)
LEMMA SeenSame ==
  ASSUME Seen, UNCHANGED vars PROVE Seen'
BY DEF vars, serverVars, treeVars, fileVars, runVars, Seen, ServerSeen, TreeSeen, FilesSeen,
   TasksSeen

(* Whatever is based on a revision, in the rows, the tree, a refresh under *)
(* way or a task, is based on one the user was told of.                    *)
THEOREM BasesWereTold == Spec => []Seen
<1>1. Init => Seen
  BY InitSeen
<1>2. Shapes /\ Seen /\ [Next]_vars => Seen'
  BY SeenNext, SeenSame
<1> QED
  BY <1>1, <1>2, MountInShape, PTL DEF Spec

(* The poller alone never rebases: the base of a saved edit is a revision  *)
(* the user was shown, published or merged, or chose to write over or move *)
(* without reading, however refreshes and restarts fall between opening    *)
(* and saving.                                                             *)
THEOREM BasesAreSeen == Spec => []NoUnseenBase
<1>1. Seen => NoUnseenBase
  BY DEF Seen, ServerSeen, RowsSeen, RowSeen, NoUnseenBase
<1> QED
  BY <1>1, BasesWereTold, PTL

-----------------------------------------------------------------------------
(* What is known of a body                                                 *)

(* A move is declared at a revision the listing has reached.               *)
Reached(r, docs) ==
  r # NoRow /\ r.op = "move" /\ docs[r.doc] # Hidden => r.base <= docs[r.doc].tip

AllReached(rows, docs) == \A p \in Paths : Reached(rows[p], docs)

(* A listing is not behind any move that is stored or about to be.         *)
Ahead(docs) ==
  AllReached(srv.rows, docs) /\ \A a \in Apps : Reached(task[a].row, docs)

(* A refresh under way is not behind the tree it is to replace.            *)
Newer(docs, than) ==
  \A d \in Docs : docs[d] # Hidden /\ than[d] # Hidden => than[d].tip <= docs[d].tip

TreeAhead ==
  /\ Ahead(view.docs) /\ AllReached(view.rows, view.docs)
  /\ fetch # NoFetch => /\ Ahead(fetch.docs) /\ AllReached(fetch.rows, fetch.docs)
                        /\ Newer(fetch.docs, view.docs)

(* A cached body is not older than the revision it is cached for.          *)
BodiesFresh == \A d \in Docs : content[d].etag # 0 => content[d].etag <= content[d].body.from

(* What was told is not behind a listing that is up to date.               *)
LEMMA SeenIsReached ==
  ASSUME NEW tips \in [Docs -> Nat], NEW tl, \A d \in Docs : tl[d] \subseteq 1..tips[d],
         NEW docs, \A d \in Docs : docs[d] # Hidden => docs[d].tip = tips[d]
  PROVE  /\ \A r : r = NoRow \/ Shaped(r) => (RowSeen(r, tl) => Reached(r, docs))
         /\ \A rows : GoodRows(rows) => (RowsSeen(rows, tl) => AllReached(rows, docs))
<1>1. ASSUME NEW r, r = NoRow \/ Shaped(r), RowSeen(r, tl) PROVE Reached(r, docs)
  BY <1>1 DEF Shaped, RowSeen, Reached
<1> QED
  BY <1>1 DEF GoodRows, RowsSeen, AllReached

(* The manifest is up to date.                                             *)
LEMMA ManifestTips ==
  \A d \in Docs : Manifest[d] # Hidden => Manifest[d].tip = srv.tip[d]
BY DEF Manifest, Listed

(* A listing that is newer is reached by what was.                         *)
LEMMA NewerIsAhead ==
  ASSUME ServerOK, ServerSeen, NEW docs, DocsSeen(docs, srv.tip, told)
  PROVE  Newer(Manifest, docs)
<1>1. ASSUME NEW d \in Docs, Manifest[d] # Hidden, docs[d] # Hidden
      PROVE  docs[d].tip <= Manifest[d].tip
  BY <1>1 DEF Manifest, Listed, DocsSeen
<1> QED
  BY <1>1 DEF Newer

(* The rows the server has after a step are those it had, the one a task   *)
(* was to put, or ones that move nothing.                                  *)
LEMMA RowsAfter ==
  ASSUME Shapes, Next, NEW docs, Ahead(docs)
  PROVE  AllReached(srv'.rows, docs)
<1> USE DEF Shapes
<1>0. DOMAIN srv = {"path", "tip", "mine", "may", "rows", "token"} /\ AllReached(srv.rows, docs)
  BY DEF ServerOK, GoodServer, Ahead
<1>1. ASSUME NEW p, NEW r, Reached(r, docs), srv'.rows = [srv.rows EXCEPT ![p] = r]
      PROVE  AllReached(srv'.rows, docs)
  BY <1>0, <1>1 DEF AllReached, ServerOK, GoodServer, GoodRows
<1>2. Reached(NoRow, docs)
  BY DEF Reached
<1>3. CASE srv'.rows = srv.rows
  BY <1>0, <1>3
<1>4. ASSUME NEW a \in Apps, AnswerPut(a) \/ PutFails(a) \/ AnswerDrop(a) \/ DropFails(a)
      PROVE  AllReached(srv'.rows, docs)
  <2>1. \/ srv'.rows = srv.rows
        \/ srv'.rows = [srv.rows EXCEPT ![task[a].path] = task[a].row]
        \/ srv'.rows = [srv.rows EXCEPT ![task[a].dropped] = NoRow]
    <3>1. srv' = srv \/ srv' = Stored(a) \/ srv' = Dropped(task[a].dropped)
      BY <1>4, HandlersStore
    <3> QED
      BY <1>0, <3>1 DEF Stored, Dropped, Changed
  <2> QED
    BY <1>1, <1>2, <1>3, <2>1 DEF Ahead
<1>5. CASE Others
  <2>1. ASSUME NEW d \in Docs, NEW x,
               OtherPublishes(d, x) \/ OtherRetires(d) \/ OtherMoves(d, x) \/ Grants(d, x)
        PROVE  srv'.rows = srv.rows
    BY <1>0, <2>1 DEF OtherPublishes, OtherRetires, OtherMoves, Grants, Changed
  <2>2. ASSUME NEW p, CliPush(p) \/ CliRevert(p)
        PROVE  srv'.rows = [srv.rows EXCEPT ![p] = NoRow]
    BY <1>0, <2>2 DEF CliPush, CliRevert, Dropped, Changed
  <2>3. ASSUME NEW p \in Paths, CliMerge(p) PROVE AllReached(srv'.rows, docs)
    <3> DEFINE r == srv.rows[p]
               b == srv.tip[r.doc]
               m == [r EXCEPT !.base = b, !.text.from = b]
    <3>1. r # NoRow /\ r.op = "update" /\ srv'.rows = [srv.rows EXCEPT ![p] = m]
      BY <1>0, <2>3 DEF CliMerge, Changed
    <3>2. Shaped(r)
      BY <3>1 DEF ServerOK, GoodServer, GoodRows
    <3> HIDE DEF b, r
    <3>3. m.op = "update"
      BY <3>1, <3>2 DEF Shaped
    <3> HIDE DEF m
    <3> QED
      BY <1>1, <3>1, <3>3 DEF Reached
  <2> QED
    BY <1>1, <1>2, <1>3, <1>5, <2>1, <2>2, <2>3 DEF Others
<1>6. ASSUME NEW a \in Apps, OpenNode(a) \/ SaveStep(a) \/ RenameNode(a)
      PROVE  srv'.rows = srv.rows
  BY <1>6, HandlersTell
<1>7. CASE ~ ServerMoves
  BY <1>3, <1>7, ServerFrame DEF serverVars
<1> QED
  BY <1>3, <1>4, <1>5, <1>6, <1>7 DEF ServerMoves

(* A task moves nothing it did not move before, unless it is a page of the *)
(* tree, at the revision of the tree.                                      *)
LEMMA TaskRows ==
  ASSUME Shapes, Next, NEW docs, Ahead(docs), GoodDocs(docs), Newer(docs, view.docs)
  PROVE  \A a \in Apps : Reached(task'[a].row, docs)
<1> USE DEF Shapes
<1>0. \A a \in Apps : Reached(task[a].row, docs)
  BY DEF Ahead
<1>1. ASSUME NEW a \in Apps, NEW t, Reached(t.row, docs), task' = [task EXCEPT ![a] = t]
      PROVE  \A b \in Apps : Reached(task'[b].row, docs)
  BY <1>0, <1>1 DEF TasksOK
<1>2. CASE task' = task
  BY <1>0, <1>2
<1>3. ASSUME NEW a \in Apps, Stat(a) \/ Kernel(a) PROVE \A b \in Apps : Reached(task'[b].row, docs)
  <2>1. task' = task \/ \E t : t.row = NoRow /\ task' = [task EXCEPT ![a] = t]
    BY <1>3, CallMoves DEF TaskCall, Begins
  <2> QED
    BY <1>1, <1>2, <2>1 DEF Reached
<1>4. ASSUME NEW a \in Apps, Handler(a) PROVE \A b \in Apps : Reached(task'[b].row, docs)
  <2>1. CASE SaveStep(a)
    <3> DEFINE n == IF task[a].key \in NodeKeys(view) THEN Node(view, task[a].key) ELSE task[a].node
               r == Row("update", n.doc, BaseFor(n), task[a].text)
               t == Putting(task[a], n.path, r)
               u == [t EXCEPT !.todo = Tail(task[a].todo)]
    <3>1. task' = [task EXCEPT ![a] = u]
      BY <2>1 DEF SaveStep, Then, Go
    <3> HIDE DEF n
    <3>2. u.row = r /\ r.op = "update"
      BY DEF TasksOK, GoodTask, GoodFields, Putting, Idle, Row
    <3> HIDE DEF u, r
    <3> QED
      BY <1>1, <3>1, <3>2 DEF Reached
  <2>2. ASSUME NEW t, Sends(a, t), ~ SaveStep(a) PROVE Reached(t.row, docs)
    <3>1. ASSUME NEW k \in NodeKeys(view), Node(view, k).doc \in Docs,
                 t.row = Row("move", Node(view, k).doc, Node(view, k).tip, NoText)
          PROVE  Reached(t.row, docs)
      <4> DEFINE n == Node(view, k)
      <4>1. n.doc = k /\ k \in Docs /\ view.docs[k] # Hidden /\ n.tip = view.docs[k].tip
        BY <3>1, EntryShape, DocumentShape, MountAssumption DEF TreeOK, OfDraft
      <4> HIDE DEF n
      <4>2. t.row.doc = k /\ t.row.base = view.docs[k].tip
        BY <3>1, <4>1 DEF n, Row
      <4> QED
        BY <4>1, <4>2 DEF Reached, Newer
    <3> QED
      BY <1>0, <2>2, <3>1 DEF Sends, Reached
  <2> QED
    BY <1>1, <1>2, <1>4, <2>1, <2>2, HandlerSends DEF Sending
<1>5. CASE Refreshing
  <2>1. CASE task' # task
    <3>1. fetch.by \in Apps /\ At(fetch.by) # "none" /\ Proceed(fetch.by)
      BY <1>5, <2>1 DEF Refreshing, AnswerToken, Same, AnswerManifest, AnswerDrafts, Install,
         RefreshFails, Fetching, runVars, TreeOK, GoodFetch, Holder
    <3> DEFINE a == fetch.by
               t == [task[a] EXCEPT !.todo = Tail(task[a].todo)]
    <3>2. GoodFields(task[a])
      BY <3>1 DEF TasksOK, GoodTask
    <3>3. task' = [task EXCEPT ![a] = t]
      BY <3>1 DEF Proceed, Then, Go
    <3>4. t.row = task[a].row
      BY <3>2 DEF GoodFields, Idle
    <3> HIDE DEF t
    <3> QED
      BY <1>0, <1>1, <3>1, <3>3, <3>4
  <2> QED
    BY <1>2, <2>1
<1>6. CASE Expire \/ Others \/ \E i \in Numbers : Forgets(i)
  BY <1>2, <1>6, OthersMoves
<1>7. CASE Restart
  <2>1. task' = [a \in Apps |-> Idle] /\ Idle.row = NoRow
    BY <1>7 DEF Restart, Started, Idle
  <2> QED
    BY <2>1 DEF Reached
<1> QED
  BY <1>3, <1>4, <1>5, <1>6, <1>7 DEF Next

(* The tree stays ahead of what is moved, through refreshes and restarts.  *)
LEMMA AheadNext ==
  ASSUME Shapes, Seen, TreeAhead, Next PROVE TreeAhead'
<1> USE DEF Shapes
<1>1. ASSUME NEW docs, GoodDocs(docs), Ahead(docs), Newer(docs, view.docs)
      PROVE  AllReached(srv'.rows, docs) /\ \A a \in Apps : Reached(task'[a].row, docs)
  BY <1>1, RowsAfter, TaskRows
<1>2. Newer(view.docs, view.docs) /\ GoodDocs(view.docs)
  BY DEF Newer, TreeOK, GoodView, GoodDocs, GoodListing
<1>3. /\ AllReached(srv'.rows, view.docs) /\ \A a \in Apps : Reached(task'[a].row, view.docs)
      /\ AllReached(view.rows, view.docs)
  BY <1>1, <1>2 DEF TreeAhead
<1>4. fetch # NoFetch =>
        /\ AllReached(srv'.rows, fetch.docs) /\ \A a \in Apps : Reached(task'[a].row, fetch.docs)
        /\ AllReached(fetch.rows, fetch.docs) /\ Newer(fetch.docs, view.docs)
  BY <1>1 DEF TreeAhead, TreeOK, GoodFetch
<1>5. Seen' /\ ServerOK' /\ TasksOK' /\ TreeOK'
  BY SeenNext, ServerNext, TasksNext, TreeNext
<1>6. /\ AllReached(srv'.rows, Manifest') /\ \A a \in Apps : Reached(task'[a].row, Manifest')
  <2>1. /\ \A r : r = NoRow \/ Shaped(r) => (RowSeen(r, told') => Reached(r, Manifest'))
        /\ \A rows : GoodRows(rows) => (RowsSeen(rows, told') => AllReached(rows, Manifest'))
    <3>1. \A d \in Docs : Manifest'[d] # Hidden => Manifest'[d].tip = srv'.tip[d]
      BY DEF Manifest, Listed
    <3> QED
      BY <1>5, <3>1, SeenIsReached DEF Seen, ServerSeen, ServerOK, GoodServer
  <2> QED
    BY <1>5, <2>1 DEF Seen, ServerSeen, TasksSeen, TaskSeen, ServerOK, GoodServer, TasksOK,
       GoodTask, GoodFields
<1>7. ASSUME ~ Refreshing, ~ Restart PROVE TreeAhead'
  <2>1. view' = view /\ (fetch' = fetch \/ \E a \in Apps : TakeLock(a))
    BY <1>7, TreeFrame DEF TreeStays
  <2>2. ASSUME NEW a \in Apps, TakeLock(a) PROVE fetch'.docs = view.docs /\ fetch'.rows = view.rows
    BY <2>2 DEF TakeLock
  <2>3. fetch' = fetch \/ (fetch'.docs = view.docs /\ fetch'.rows = view.rows)
    BY <2>1, <2>2
  <2> QED
    BY <1>2, <1>3, <1>4, <2>1, <2>3 DEF TreeAhead, Ahead
<1>8. CASE Refreshing
  <2>1. serverVars' = serverVars /\ fetch # NoFetch /\ GoodFetch(fetch)
    BY <1>8 DEF Refreshing, AnswerToken, Same, AnswerManifest, AnswerDrafts, Install,
       RefreshFails, Fetching, TreeOK, serverVars
  <2>2. CASE AnswerToken
    <3>1. view' = view /\ fetch'.docs = fetch.docs /\ fetch'.rows = fetch.rows
      BY <2>1, <2>2 DEF AnswerToken, GoodFetch
    <3> QED
      BY <1>3, <1>4, <2>1, <3>1 DEF TreeAhead, Ahead
  <2>3. CASE AnswerManifest
    <3>1. view' = view /\ fetch'.docs = Manifest /\ fetch'.rows = fetch.rows
      BY <2>1, <2>3 DEF AnswerManifest, GoodFetch
    <3>2. Manifest' = Manifest
      BY <2>1 DEF serverVars, Manifest, Listed
    <3>3. AllReached(fetch.rows, Manifest)
      BY <2>1, SeenIsReached, ManifestTips
         DEF Seen, ServerSeen, TreeSeen, GoodFetch, ServerOK, GoodServer
    <3>4. Newer(Manifest, view.docs)
      BY NewerIsAhead DEF Seen, TreeSeen
    <3> QED
      BY <1>3, <1>6, <3>1, <3>2, <3>3, <3>4 DEF TreeAhead, Ahead
  <2>4. CASE AnswerDrafts
    <3>1. view' = view /\ fetch'.docs = fetch.docs /\ fetch'.rows = srv.rows
      BY <2>1, <2>4 DEF AnswerDrafts, GoodFetch
    <3> QED
      BY <1>3, <1>4, <2>1, <3>1 DEF TreeAhead, Ahead, serverVars
  <2>5. CASE Same \/ RefreshFails
    <3>1. view' = view /\ fetch' = NoFetch
      BY <2>5 DEF Same, RefreshFails
    <3> QED
      BY <1>3, <3>1 DEF TreeAhead, Ahead
  <2>6. CASE Install
    <3>1. view'.docs = fetch.docs /\ view'.rows = fetch.rows /\ fetch' = NoFetch
      BY <2>6 DEF Install, Answer
    <3> QED
      BY <1>4, <2>1, <3>1 DEF TreeAhead, Ahead
  <2> QED
    BY <1>8, <2>2, <2>3, <2>4, <2>5, <2>6 DEF Refreshing
<1>9. CASE Restart
  <2>1. /\ view'.docs = Manifest /\ view'.rows = srv.rows /\ fetch' = NoFetch
        /\ serverVars' = serverVars
    BY <1>9 DEF Restart, Started, Answer
  <2>2. Manifest' = Manifest
    BY <2>1 DEF serverVars, Manifest, Listed
  <2> QED
    BY <1>6, <2>1, <2>2 DEF TreeAhead, Ahead, serverVars
<1> QED
  BY <1>7, <1>8, <1>9

(* What is shown of a page whose body is read is not after what the tree   *)
(* lists: it is that, or the revision the page is moved from.              *)
LEMMA ShownIsListed ==
  ASSUME TreeOK, AllReached(view.rows, view.docs), NEW k \in NodeKeys(view),
         LET n == Node(view, k) IN ~ (n.row # NoRow /\ n.row.text # NoText)
  PROVE  LET n == Node(view, k) IN
         Shown(n) <= n.tip /\ n.doc = k /\ k \in Docs /\ OfDocument(n)
<1> DEFINE n == Node(view, k)
<1>1. GoodNode(n) /\ n.doc = k /\ k \in Docs /\ OfDocument(n)
  BY OwnOrPublished
<1>2. CASE n.row = NoRow
  BY <1>1, <1>2 DEF Shown, OfDocument
<1>3. CASE n.row # NoRow
  <2>1. k \in DocKeys(view) /\ n = DocNode(view, k)
    BY <1>1, EntryShape DEF TreeOK
  <2> DEFINE about == RowsFor(view, {"update", "move"}, k)
  <2>2. n.row = (IF about = {} THEN NoRow ELSE view.rows[LastOf(view, about)])
    BY <2>1 DEF DocNode
  <2>3. about \in SUBSET Paths
    BY DEF RowsFor
  <2>4. about # {} => LastOf(view, about) \in Paths
    BY <2>3, LastIsOne DEF TreeOK
  <2>5. PICK p \in Paths : n.row = view.rows[p]
    BY <1>3, <2>2, <2>4
  <2>6. n.tip = view.docs[k].tip /\ view.docs[k] # Hidden
    BY <2>1, DocumentShape DEF TreeOK
  <2> HIDE DEF n
  <2>7. n.row.op = "move"
    BY <1>1, <1>3, MountAssumption DEF n, OfDocument, Shaped, Bodies
  <2>8. n.row.base <= n.tip
    BY <1>1, <1>3, <2>5, <2>6, <2>7 DEF AllReached, Reached, OfDocument
  <2> QED
    BY <1>1, <2>8 DEF n, Shown, OfDocument
<1> QED
  BY <1>2, <1>3

(* What a step leaves in a handle says it has seen no more than it holds.  *)
Fresh(h) == h.seen <= h.text.from

HandlesFresh ==
  \A a \in Apps : handle[a] # NoHandle \/ task[a].op \in {"close", "fsync"} => Fresh(handle[a])

FreshMove(a) ==
  \E h : /\ h = NoHandle \/ Fresh(h)
         /\ handle' = [handle EXCEPT ![a] = h]
         /\ task'[a].op \in {"close", "fsync"} => Fresh(h)

(* A handle that is opened with a body not older than what it has seen.    *)
LEMMA LoadedIsFresh ==
  ASSUME NEW a \in Apps, NEW k
  PROVE  /\ \A text, seen : seen <= text.from /\ Loaded(a, k, text, seen) => FreshMove(a)
         /\ Truncated(a, k) => FreshMove(a)
<1>1. ASSUME NEW text, NEW seen, seen <= text.from, Loaded(a, k, text, seen) PROVE FreshMove(a)
  <2> DEFINE h == [ino |-> task[a].ino, key |-> k, text |-> text, seen |-> seen,
                   writing |-> task[a].writing, dirty |-> FALSE, raced |-> FALSE,
                   saved |-> text]
  <2>1. Fresh(h) /\ handle' = [handle EXCEPT ![a] = h]
    BY <1>1 DEF Loaded, Fresh
  <2> HIDE DEF h
  <2> QED
    BY <2>1 DEF FreshMove
<1>2. ASSUME Truncated(a, k) PROVE FreshMove(a)
  <2> DEFINE h == [ino |-> task[a].ino, key |-> k, text |-> Empty, seen |-> 0,
                   writing |-> task[a].writing, dirty |-> task[a].writing,
                   raced |-> FALSE, saved |-> NoText]
  <2>1. Fresh(h) /\ handle' = [handle EXCEPT ![a] = h]
    BY <1>2 DEF Truncated, Empty, Text, Fresh
  <2> HIDE DEF h
  <2> QED
    BY <2>1 DEF FreshMove
<1> QED
  BY <1>1, <1>2

(* Opening.                                                                *)
LEMMA OpensFresh ==
  ASSUME Shapes, Seen, TreeAhead, BodiesFresh, NEW a \in Apps,
         OpenScratch(a) \/ OpenNode(a) \/ AnswerContent(a)
  PROVE  (handle' = handle \/ FreshMove(a)) /\ BodiesFresh'
<1> USE DEF Shapes
<1>1. CASE OpenScratch(a)
  <2> DEFINE k == Resolved(task[a].ino)
  <2>1. /\ k \in ScratchKeys /\ content' = content
        /\ Truncated(a, k) \/ Loaded(a, k, scratch[k[2]].text, 0)
    BY <1>1 DEF OpenScratch
  <2>2. scratch[k[2]].text \in Bodies
    BY <2>1, ResolvedIs, KeysApart DEF FilesOK
  <2>3. 0 <= scratch[k[2]].text.from
    BY <2>2 DEF Bodies
  <2> HIDE DEF k
  <2> QED
    BY <2>1, <2>3, LoadedIsFresh DEF BodiesFresh
<1>2. CASE OpenNode(a)
  <2> DEFINE k == Resolved(task[a].ino)
             n == Node(view, k)
             own == n.row # NoRow /\ n.row.text # NoText
  <2>1. /\ k \in NodeKeys(view) /\ content' = content
        /\ \/ Truncated(a, k)
           \/ own /\ Loaded(a, k, n.row.text, 0)
           \/ ~ own /\ Cached(n) /\ Loaded(a, k, content[k].body, Shown(n))
           \/ handle' = handle
    BY <1>2 DEF OpenNode
  <2>2. own => n.row.text \in Bodies
    BY <2>1, OwnOrPublished
  <2>3. own => 0 <= n.row.text.from
    BY <2>2 DEF Bodies
  <2>4. ~ own => Shown(n) <= n.tip /\ n.doc = k /\ k \in Docs /\ OfDocument(n) /\ GoodNode(n)
    BY <2>1, ShownIsListed, OwnOrPublished DEF TreeAhead
  <2> HIDE DEF k, n
  <2>5. ~ own /\ Cached(n) => Shown(n) <= content[k].body.from
    <3>1. ~ own /\ Cached(n) => content[k].body \in Bodies
      BY <2>4, CachedIsBody
    <3>3. ~ own /\ Cached(n) => n.tip <= content[k].body.from
      BY <2>4 DEF Cached, BodiesFresh, OfDocument
    <3> QED
      BY <2>4, <3>1, <3>3, ShownIsRevision DEF Bodies
  <2> QED
    BY <2>1, <2>3, <2>5, LoadedIsFresh DEF BodiesFresh
<1>3. CASE AnswerContent(a)
  <2> DEFINE d == task[a].key
             body == Text(srv.tip[d], 0)
             n == task[a].node
  <2>1. /\ At(a) = "content" /\ Loaded(a, d, body, Shown(n))
        /\ content' = [content EXCEPT ![d] = [etag |-> n.tip, body |-> body]]
    BY <1>3 DEF AnswerContent, Answered
  <2>2. Holding(task[a]) /\ NodeSeen(n, srv.tip, told)
    BY <2>1, StepIsLeft DEF Steps, GoodPlan, Seen, TasksSeen, TaskSeen
  <2>3. d \in Docs /\ GoodNode(n) /\ n.doc = d
    BY <2>2 DEF Holding
  <2>4. Shown(n) \in 1..srv.tip[d] /\ n.tip \in 1..srv.tip[d]
    BY <2>2, <2>3, ShownIsSeen DEF Seen
  <2>5. body.from = srv.tip[d]
    BY DEF Text
  <2> HIDE DEF d, body, n
  <2>6. Shown(n) <= body.from /\ n.tip <= body.from
    BY <2>3, <2>4, <2>5 DEF ServerOK, GoodServer
  <2>7. FreshMove(a)
    BY <2>1, <2>6, LoadedIsFresh
  <2>8. BodiesFresh'
    BY <2>1, <2>3, <2>6 DEF BodiesFresh, FilesOK
  <2> QED
    BY <2>7, <2>8
<1> QED
  BY <1>1, <1>2, <1>3

(* Writing and saving: what was seen stays, and what is held is not older. *)
LEMMA EditsFresh ==
  ASSUME Shapes, HandlesFresh, NEW a \in Apps,
         \/ Write(a) \/ (\E n \in Names : Truncate(a, n))
         \/ PersistLocally(a) \/ PersistDraft(a) \/ AnswerPut(a) \/ SavedStep(a)
  PROVE  handle' = handle \/ FreshMove(a)
<1> USE DEF Shapes
<1> DEFINE h == handle[a]
<1>0. h # NoHandle \/ task[a].op \in {"close", "fsync"} => GoodHandle(h) /\ Fresh(h)
  BY DEF HandlesOK, HandlesFresh
<1>1. ASSUME NEW g, g.seen = h.seen, g.text.from = h.text.from,
             h # NoHandle \/ task[a].op \in {"close", "fsync"},
             handle' = [handle EXCEPT ![a] = g]
      PROVE  FreshMove(a)
  BY <1>0, <1>1 DEF FreshMove, Fresh
<1>2. CASE Write(a)
  <2> DEFINE from == IF h.text = Empty THEN buffer[a].from ELSE h.text.from
             text == Text(from, edits + 1)
             r == h.raced \/ task[a].op = "fsync"
             g == [h EXCEPT !.text = text, !.dirty = TRUE, !.raced = r]
  <2>1. h # NoHandle
    BY <1>2 DEF Write
  <2>2. handle' = [handle EXCEPT ![a] = g]
    BY <1>2 DEF Write, HandlesOK
  <2>3. text.from = from
    BY DEF Text
  <2>4. h.seen <= from
    BY <1>0, <2>1 DEF GoodHandle, Empty, Text, FilesOK, Bodies, Fresh
  <2> HIDE DEF h, text, from
  <2>5. g.seen = h.seen /\ g.text = text
    BY <1>0, <2>1 DEF GoodHandle
  <2> HIDE DEF g
  <2> QED
    BY <2>2, <2>3, <2>4, <2>5 DEF FreshMove, Fresh
<1>3. ASSUME NEW n \in Names, Truncate(a, n) PROVE handle' = handle \/ FreshMove(a)
  <2> DEFINE text == Text(h.text.from, edits + 1)
             g == [h EXCEPT !.text = text, !.dirty = TRUE]
  <2>1. handle' = handle \/ (h # NoHandle /\ handle' = [handle EXCEPT ![a] = g])
    BY <1>3 DEF Truncate, HandlesOK
  <2>2. text.from = h.text.from
    BY DEF Text
  <2> HIDE DEF text
  <2>3. h # NoHandle => g.seen = h.seen /\ g.text = text
    BY <1>0 DEF GoodHandle
  <2> HIDE DEF g
  <2> QED
    BY <1>1, <2>1, <2>2, <2>3
<1>4. ASSUME PersistLocally(a) \/ PersistDraft(a) \/ SavedStep(a)
      PROVE  task[a].op \in {"close", "fsync"}
  BY <1>4, StepIsLeft DEF Steps, GoodPlan, PersistLocally, PersistDraft, SavedStep, Now
<1>5. ASSUME Return(a), handle' = [handle EXCEPT ![a] = NoHandle] PROVE FreshMove(a)
  BY <1>5 DEF FreshMove, Return, TasksOK, Idle
<1>6. CASE PersistLocally(a)
  <2> DEFINE g == [h EXCEPT !.dirty = FALSE, !.saved = h.text]
  <2>1. /\ Return(a)
        /\ \/ handle' = handle
           \/ handle' = [handle EXCEPT ![a] = NoHandle]
           \/ handle' = [handle EXCEPT ![a] = g]
    BY <1>6 DEF PersistLocally
  <2> HIDE DEF h
  <2>2. g.seen = h.seen /\ g.text = h.text
    BY <1>0, <1>4, <1>6 DEF GoodHandle
  <2> HIDE DEF g
  <2> QED
    BY <1>1, <1>4, <1>5, <1>6, <2>1, <2>2
<1>7. CASE PersistDraft(a)
  <2> DEFINE g == [h EXCEPT !.raced = FALSE]
  <2>1. handle' = [handle EXCEPT ![a] = g]
    BY <1>7 DEF PersistDraft, HandlesOK
  <2> HIDE DEF h
  <2>2. g.seen = h.seen /\ g.text = h.text
    BY <1>0, <1>4, <1>7 DEF GoodHandle
  <2> HIDE DEF g
  <2> QED
    BY <1>1, <1>4, <1>7, <2>1, <2>2
<1>8. CASE AnswerPut(a)
  <2> DEFINE g == [h EXCEPT !.saved = task[a].row.text]
  <2>1. \/ handle' = handle
        \/ task[a].op \in {"close", "fsync"} /\ handle' = [handle EXCEPT ![a] = g]
    BY <1>8 DEF AnswerPut
  <2> HIDE DEF h
  <2>2. task[a].op \in {"close", "fsync"} => g.seen = h.seen /\ g.text = h.text
    BY <1>0 DEF GoodHandle
  <2> HIDE DEF g
  <2> QED
    BY <1>1, <2>1, <2>2
<1>9. CASE SavedStep(a)
  <2> DEFINE g == [h EXCEPT !.dirty = FALSE]
  <2>1. /\ Return(a)
        /\ \/ handle' = [handle EXCEPT ![a] = NoHandle]
           \/ handle' = [handle EXCEPT ![a] = g]
    BY <1>9 DEF SavedStep, HandlesOK
  <2> HIDE DEF h
  <2>2. g.seen = h.seen /\ g.text = h.text
    BY <1>0, <1>4, <1>9 DEF GoodHandle
  <2> HIDE DEF g
  <2> QED
    BY <1>1, <1>4, <1>5, <1>9, <2>1, <2>2
<1> QED
  BY <1>2, <1>3, <1>6, <1>7, <1>8, <1>9

(* Every step keeps handles fresh.                                         *)
LEMMA FreshNext ==
  ASSUME Shapes, Seen, TreeAhead, BodiesFresh, HandlesFresh, Next
  PROVE  BodiesFresh' /\ HandlesFresh'
<1> USE DEF Shapes
<1>1. \A b \in Apps : task'[b].op \in {"close", "fsync"} =>
        task[b].op \in {"close", "fsync"} \/ handle[b] # NoHandle
  BY ClosingBegan
<1>2. ASSUME handle' = handle PROVE HandlesFresh'
  BY <1>1, <1>2 DEF HandlesFresh
<1>3. ASSUME NEW a \in Apps, FreshMove(a) PROVE HandlesFresh'
  <2>1. PICK h : /\ h = NoHandle \/ Fresh(h)
                 /\ handle' = [handle EXCEPT ![a] = h]
                 /\ task'[a].op \in {"close", "fsync"} => Fresh(h)
    BY <1>3 DEF FreshMove
  <2>2. DOMAIN handle = Apps
    BY DEF HandlesOK
  <2>3. handle'[a] = h /\ \A b \in Apps : b # a => handle'[b] = handle[b]
    BY <2>1, <2>2
  <2>4. ASSUME NEW b \in Apps, handle'[b] # NoHandle \/ task'[b].op \in {"close", "fsync"}
        PROVE  Fresh(handle'[b])
    <3>1. CASE b = a
      BY <2>1, <2>3, <2>4, <3>1
    <3>2. CASE b # a
      <4>1. handle'[b] = handle[b] /\ (handle[b] # NoHandle \/ task[b].op \in {"close", "fsync"})
        BY <1>1, <2>3, <2>4, <3>2
      <4> QED
        BY <4>1 DEF HandlesFresh
    <3> QED
      BY <3>1, <3>2
  <2>5. \A b \in Apps : handle'[b] # NoHandle \/ task'[b].op \in {"close", "fsync"} =>
          Fresh(handle'[b])
    BY <2>4
  <2> QED
    BY <2>5 DEF HandlesFresh, Fresh
<1>4. BodiesFresh'
  <2>1. ASSUME NEW a \in Apps, OpenNode(a) \/ AnswerContent(a) PROVE BodiesFresh'
    BY <2>1, OpensFresh
  <2>2. CASE Restart
    BY <2>2 DEF Restart, Started, BodiesFresh
  <2>3. CASE content' = content
    BY <2>3 DEF BodiesFresh
  <2>4. ASSUME ~ Restart, \A a \in Apps : ~ OpenNode(a) /\ ~ AnswerContent(a)
        PROVE  content' = content
    BY <2>4, CheckoutFrame
  <2> QED
    BY <2>1, <2>2, <2>3, <2>4
<1>5. ASSUME Restart PROVE HandlesFresh'
  BY <1>5 DEF Restart, Started, HandlesFresh, Idle
<1>6. ASSUME NEW a \in Apps, Stat(a) \/ Kernel(a) PROVE handle' = handle \/ FreshMove(a)
  <2>1. ASSUME NEW t, Request(a, t) PROVE handle' = handle
    BY <2>1 DEF Request, fileVars
  <2>2. \/ \E t : Request(a, t)
        \/ Write(a)
        \/ \E n \in Names : Truncate(a, n)
    BY <1>6 DEF Stat, Kernel, Lookup, Create, Unlink, Rename, Open, List, Flush
  <2> QED
    BY <2>1, <2>2, EditsFresh
<1>7. ASSUME NEW a \in Apps, Handler(a) PROVE handle' = handle \/ FreshMove(a)
  <2>1. CASE \/ OpenScratch(a) \/ OpenNode(a) \/ AnswerContent(a)
    BY <2>1, OpensFresh
  <2>2. CASE PersistLocally(a) \/ PersistDraft(a) \/ AnswerPut(a) \/ SavedStep(a)
    BY <2>2, EditsFresh
  <2>3. ASSUME NEW k, Made(a, k) PROVE FreshMove(a)
    <3> DEFINE h == [ino |-> InodeOf(k), key |-> k, text |-> Empty, seen |-> 0,
                     writing |-> TRUE, dirty |-> FALSE, raced |-> FALSE, saved |-> Empty]
    <3>1. Fresh(h) /\ handle' = [handle EXCEPT ![a] = h]
      BY <2>3 DEF Made, Fresh, Empty, Text
    <3> HIDE DEF h
    <3> QED
      BY <3>1 DEF FreshMove
  <2>4. ASSUME Raise(a) PROVE handle' = handle \/ FreshMove(a)
    BY <2>4 DEF Raise, FreshMove, Return, TasksOK, Idle
  <2> QED
    BY <1>7, <2>1, <2>2, <2>3, <2>4, HandlerHandles
<1>8. ASSUME Refreshing \/ Expire \/ Others \/ \E i \in Numbers : Forgets(i)
      PROVE  HandlesFresh'
  BY <1>2, <1>8, RefreshHandles, OthersMoves
<1>9. HandlesFresh'
  <2>1. ASSUME NEW a \in Apps, Stat(a) \/ Kernel(a) \/ Handler(a) PROVE HandlesFresh'
    BY <1>2, <1>3, <1>6, <1>7, <2>1
  <2> QED
    BY <1>2, <1>5, <1>8, <2>1 DEF Next
<1> QED
  BY <1>4, <1>9

(* At the beginning nothing is known of any body.                          *)
LEMMA InitFresh ==
  ASSUME Init PROVE TreeAhead /\ BodiesFresh /\ HandlesFresh
<1>0. view.docs = Manifest /\ view.rows = srv.rows /\ fetch = NoFetch
  BY DEF Init, Answer
<1>1. /\ \A p \in Paths : srv.rows[p] = NoRow
      /\ \A a \in Apps : task[a] = Idle /\ handle[a] = NoHandle
      /\ \A d \in Docs : content[d].etag = 0
  BY DEF Init
<1>2. Idle.row = NoRow /\ Idle.op = "none"
  BY DEF Idle
<1> QED
  BY <1>0, <1>1, <1>2 DEF TreeAhead, Ahead, AllReached, Reached, BodiesFresh, HandlesFresh

(* What is known of a body stays so when nothing happens.                  *)
LEMMA FreshSame ==
  ASSUME TreeAhead, BodiesFresh, HandlesFresh, UNCHANGED vars
  PROVE  TreeAhead' /\ BodiesFresh' /\ HandlesFresh'
<1>1. /\ srv' = srv /\ view' = view /\ fetch' = fetch /\ task' = task /\ content' = content
      /\ handle' = handle
  BY DEF vars, serverVars, treeVars, fileVars, runVars
<1> QED
  BY <1>1 DEF TreeAhead, Ahead, AllReached, BodiesFresh, HandlesFresh, Newer

(* The tree is not behind any move that is stored or about to be, a cached *)
(* body is not older than the revision it is cached for, and an open file  *)
(* not older than the one its checkout recorded.                           *)
THEOREM BodiesStayFresh == Spec => [](TreeAhead /\ BodiesFresh /\ HandlesFresh)
<1> DEFINE Inv == TreeAhead /\ BodiesFresh /\ HandlesFresh
<1>1. Init => Inv
  BY InitFresh
<1>2. Shapes /\ Seen /\ Inv /\ [Next]_vars => Inv'
  BY AheadNext, FreshNext, FreshSame
<1> QED
  BY <1>1, <1>2, MountInShape, BasesWereTold, PTL DEF Spec

(* What open() hands out is never older than the revision it recorded: a   *)
(* base taken from the checkout never claims a text the user was not       *)
(* given, whatever is published between the tree and the body.             *)
THEOREM BasesNotNewerThanBodies == Spec => []BaseNotNewerThanBody
<1>1. HandlesFresh => BaseNotNewerThanBody
  BY DEF HandlesFresh, Fresh, BaseNotNewerThanBody
<1> QED
  BY <1>1, BodiesStayFresh, PTL

-----------------------------------------------------------------------------
(* What a flush has yet to do                                              *)

(* Until its row is stored a flush carries the bytes of its handle, and    *)
(* then they are the ones that were accepted, unless the handle was        *)
(* written to in between.                                                  *)
Flushing(t, h) ==
  \/ t.todo = <<"persist">>
  \/ /\ h.dirty /\ (~ h.raced => t.text = h.text)
     /\ t.todo \in {<<"current", "save", "put", "refresh", "saved">>,
                    <<"save", "put", "refresh", "saved">>}
  \/ /\ h.dirty /\ (~ h.raced => t.row.text = h.text)
     /\ t.todo = <<"put", "refresh", "saved">>
  \/ /\ h.dirty /\ (~ h.raced => h.saved = h.text)
     /\ t.todo \in {<<"refresh", "saved">>, <<"saved">>}

(* A clean handle holds what was accepted.                                 *)
Clean(h) == ~ h.dirty /\ ~ h.raced => h.text = h.saved

Kept(t, h) ==
  /\ t.op \in {"close", "fsync"} => Flushing(t, h)
  /\ h # NoHandle => Clean(h)

HandlesClean == \A a \in Apps : Kept(task[a], handle[a])

(* A step of one task and the file it has open.                            *)
CleanMove(a) ==
  /\ \A b \in Apps : b # a => task'[b] = task[b] /\ handle'[b] = handle[b]
  /\ Kept(task'[a], handle'[a])

(* What a flush knows at each of its steps.                                *)
LEMMA FlushSteps ==
  ASSUME NEW t, NEW h, Flushing(t, h)
  PROVE  /\ t.todo # <<>>
         /\ Head(t.todo) \in {"persist", "current", "save", "put", "refresh", "saved"}
         /\ Head(t.todo) # "persist" => h.dirty
         /\ Head(t.todo) = "current" =>
              /\ ~ h.raced => t.text = h.text
              /\ Tail(t.todo) = <<"save", "put", "refresh", "saved">>
         /\ Head(t.todo) = "save" =>
              /\ ~ h.raced => t.text = h.text
              /\ Tail(t.todo) = <<"put", "refresh", "saved">>
         /\ Head(t.todo) = "put" =>
              /\ ~ h.raced => t.row.text = h.text
              /\ Tail(t.todo) = <<"refresh", "saved">>
         /\ Head(t.todo) \in {"refresh", "saved"} => (~ h.raced => h.saved = h.text)
         /\ Head(t.todo) = "refresh" => Tail(t.todo) = <<"saved">>
<1>1. CASE t.todo = <<"persist">>
  BY <1>1
<1>2. CASE t.todo = <<"current", "save", "put", "refresh", "saved">>
  <2>1. h.dirty /\ (~ h.raced => t.text = h.text)
    BY <1>2 DEF Flushing
  <2>2. /\ Head(t.todo) = "current" /\ t.todo # <<>>
        /\ Tail(t.todo) = <<"save", "put", "refresh", "saved">>
    BY <1>2
  <2> QED
    BY <2>1, <2>2
<1>3. CASE t.todo = <<"save", "put", "refresh", "saved">>
  <2>1. h.dirty /\ (~ h.raced => t.text = h.text)
    BY <1>3 DEF Flushing
  <2>2. /\ Head(t.todo) = "save" /\ t.todo # <<>>
        /\ Tail(t.todo) = <<"put", "refresh", "saved">>
    BY <1>3
  <2> QED
    BY <2>1, <2>2
<1>4. CASE t.todo = <<"put", "refresh", "saved">>
  <2>1. h.dirty /\ (~ h.raced => t.row.text = h.text)
    BY <1>4 DEF Flushing
  <2>2. Head(t.todo) = "put" /\ t.todo # <<>> /\ Tail(t.todo) = <<"refresh", "saved">>
    BY <1>4
  <2> QED
    BY <2>1, <2>2
<1>5. CASE t.todo = <<"refresh", "saved">>
  <2>1. h.dirty /\ (~ h.raced => h.saved = h.text)
    BY <1>5 DEF Flushing
  <2>2. Head(t.todo) = "refresh" /\ t.todo # <<>> /\ Tail(t.todo) = <<"saved">>
    BY <1>5
  <2> QED
    BY <2>1, <2>2
<1>6. CASE t.todo = <<"saved">>
  <2>1. h.dirty /\ (~ h.raced => h.saved = h.text)
    BY <1>6 DEF Flushing
  <2>2. Head(t.todo) = "saved" /\ t.todo # <<>>
    BY <1>6
  <2> QED
    BY <2>1, <2>2
<1> QED
  BY <1>1, <1>2, <1>3, <1>4, <1>5, <1>6 DEF Flushing

(* A task that returns is no flush any more.                               *)
LEMMA ReturnKeeps ==
  ASSUME TasksOK, HandlesOK, HandlesClean, NEW a \in Apps, Return(a)
  PROVE  /\ handle' = handle => CleanMove(a)
         /\ \A h : (h = NoHandle \/ Clean(h)) /\ handle' = [handle EXCEPT ![a] = h]
              => CleanMove(a)
<1>1. /\ task'[a].op = "none"
      /\ \A b \in Apps : b # a => task'[b] = task[b]
  BY DEF Return, TasksOK, Idle
<1>2. ASSUME NEW h, h = NoHandle \/ Clean(h), handle' = [handle EXCEPT ![a] = h]
      PROVE  CleanMove(a)
  <2>1. handle'[a] = h /\ \A b \in Apps : b # a => handle'[b] = handle[b]
    BY <1>2 DEF HandlesOK
  <2>2. Kept(task'[a], handle'[a])
    BY <1>1, <1>2, <2>1 DEF Kept
  <2> QED
    BY <1>1, <2>1, <2>2 DEF CleanMove
<1>3. ASSUME handle' = handle PROVE CleanMove(a)
  <2>1. Kept(task'[a], handle'[a])
    BY <1>1, <1>3 DEF Kept, HandlesClean
  <2> QED
    BY <1>1, <1>3, <2>1 DEF CleanMove
<1> QED
  BY <1>2, <1>3

(* So is one that raises.                                                  *)
LEMMA RaiseKeeps ==
  ASSUME TasksOK, HandlesOK, HandlesClean, NEW a \in Apps, Raise(a)
  PROVE  CleanMove(a)
<1>1. Return(a) /\ (handle' = handle \/ handle' = [handle EXCEPT ![a] = NoHandle])
  BY DEF Raise
<1> QED
  BY <1>1, ReturnKeeps

(* A task at a step no flush has is no flush.                              *)
LEMMA MoveKeeps ==
  ASSUME TasksOK, HandlesClean, NEW a \in Apps, TaskMove(a), handle' = handle,
         At(a) \notin {"none", "persist", "current", "save", "put", "refresh", "saved"}
  PROVE  CleanMove(a)
<1>1. PICK t : (t.op = task[a].op \/ t = Idle) /\ task' = [task EXCEPT ![a] = t]
  BY DEF TaskMove
<1>2. task'[a] = t /\ \A b \in Apps : b # a => task'[b] = task[b]
  BY <1>1 DEF TasksOK
<1>3. task[a].op \notin {"close", "fsync"}
  <2>1. Head(task[a].todo) \notin {"persist", "current", "save", "put", "refresh", "saved"}
    BY AtIsNext DEF TasksOK
  <2>2. ~ Flushing(task[a], handle[a])
    BY <2>1, FlushSteps
  <2> QED
    BY <2>2 DEF HandlesClean, Kept
<1>4. t.op \notin {"close", "fsync"}
  BY <1>1, <1>3 DEF Idle
<1>5. Kept(task'[a], handle'[a])
  BY <1>2, <1>4 DEF HandlesClean, Kept
<1> QED
  BY <1>2, <1>5 DEF CleanMove

(* Waiting for the tree is not a step of the text.                         *)
LEMMA ProceedKeeps ==
  ASSUME TasksOK, HandlesClean, NEW a \in Apps, Proceed(a), handle' = handle,
         At(a) \in {"current", "refresh", "drop"}
  PROVE  CleanMove(a)
<1> DEFINE t == task[a]
           u == [t EXCEPT !.todo = Tail(t.todo)]
<1>1. GoodFields(t) /\ t.todo # <<>> /\ Head(t.todo) = At(a)
  BY AtIsNext DEF TasksOK, GoodTask
<1>2. task'[a] = u /\ \A b \in Apps : b # a => task'[b] = task[b]
  BY DEF Proceed, Then, Go, TasksOK
<1>3. u.op = t.op /\ u.todo = Tail(t.todo) /\ u.text = t.text /\ u.row = t.row
  BY <1>1 DEF GoodFields, Idle
<1>4. Kept(t, handle[a])
  BY DEF HandlesClean
<1> HIDE DEF t, u
<1>5. ASSUME u.op \in {"close", "fsync"} PROVE Flushing(u, handle[a])
  <2>1. Flushing(t, handle[a])
    BY <1>3, <1>4, <1>5 DEF Kept
  <2> QED
    BY <1>1, <1>3, <2>1, FlushSteps DEF Flushing
<1>6. Kept(u, handle[a])
  BY <1>4, <1>5 DEF Kept
<1> QED
  BY <1>2, <1>6 DEF CleanMove

(* Opening: what is handed out is what was accepted; a truncating open is  *)
(* for writing, and dirty.                                                 *)
LEMMA OpensClean ==
  ASSUME Shapes, HandlesClean, NEW a \in Apps,
         OpenScratch(a) \/ OpenNode(a) \/ AnswerContent(a)
  PROVE  CleanMove(a)
<1> USE DEF Shapes
<1>1. ASSUME NEW k, NEW text, NEW seen, Return(a), Loaded(a, k, text, seen) PROVE CleanMove(a)
  <2> DEFINE h == [ino |-> task[a].ino, key |-> k, text |-> text, seen |-> seen,
                   writing |-> task[a].writing, dirty |-> FALSE, raced |-> FALSE,
                   saved |-> text]
  <2>1. Clean(h) /\ handle' = [handle EXCEPT ![a] = h]
    BY <1>1 DEF Loaded, Clean
  <2> HIDE DEF h
  <2> QED
    BY <1>1, <2>1, ReturnKeeps
<1>2. ASSUME NEW k, Return(a), Truncated(a, k), task[a].writing PROVE CleanMove(a)
  <2> DEFINE h == [ino |-> task[a].ino, key |-> k, text |-> Empty, seen |-> 0,
                   writing |-> task[a].writing, dirty |-> task[a].writing,
                   raced |-> FALSE, saved |-> NoText]
  <2>1. Clean(h) /\ handle' = [handle EXCEPT ![a] = h]
    BY <1>2 DEF Truncated, Clean
  <2> HIDE DEF h
  <2> QED
    BY <1>2, <2>1, ReturnKeeps
<1>3. At(a) = "open" => (task[a].trunc => task[a].writing)
  BY StepIsLeft DEF Steps, GoodPlan
<1>4. CASE OpenScratch(a)
  <2>1. /\ At(a) = "open" /\ Return(a)
        /\ \/ task[a].trunc /\ \E k : Truncated(a, k)
           \/ \E k, text : Loaded(a, k, text, 0)
    BY <1>4 DEF OpenScratch, Now
  <2> QED
    BY <1>1, <1>2, <1>3, <2>1
<1>5. CASE OpenNode(a)
  <2>1. /\ At(a) = "open"
        /\ \/ Return(a) /\ task[a].trunc /\ \E k : Truncated(a, k)
           \/ Return(a) /\ \E k, text, seen : Loaded(a, k, text, seen)
           \/ handle' = handle
    BY <1>5 DEF OpenNode, Now
  <2>2. task' = task \/ TaskMove(a)
    BY <1>5, HandlerMoves DEF Handler
  <2>3. CASE handle' = handle /\ task' = task
    BY <2>3 DEF HandlesClean, CleanMove
  <2> QED
    BY <1>1, <1>2, <1>3, <2>1, <2>2, <2>3, MoveKeeps
<1>6. CASE AnswerContent(a)
  <2>1. Return(a) /\ \E k, text, seen : Loaded(a, k, text, seen)
    BY <1>6 DEF AnswerContent
  <2> QED
    BY <1>1, <2>1
<1> QED
  BY <1>4, <1>5, <1>6

(* Saving: a flush takes the bytes of its handle along, and what the       *)
(* server or the scratch file accepted is what it took.                    *)
LEMMA SavesClean ==
  ASSUME Shapes, HandlesClean, NEW a \in Apps,
         \/ PersistLocally(a) \/ PersistStale(a) \/ PersistDraft(a) \/ SaveStep(a)
         \/ AnswerPut(a) \/ PutFails(a) \/ SavedStep(a)
  PROVE  CleanMove(a)
<1> USE DEF Shapes
<1> DEFINE t == task[a]
           h == handle[a]
<1>0. /\ GoodFields(t) /\ DOMAIN handle = Apps /\ DOMAIN task = Apps
      /\ t.op \in {"close", "fsync"} => GoodHandle(h)
      /\ Kept(t, h)
  BY DEF TasksOK, GoodTask, HandlesOK, HandlesClean
<1>1. CASE PersistLocally(a)
  <2> DEFINE g == [h EXCEPT !.dirty = FALSE, !.saved = h.text]
  <2>1. /\ Return(a) /\ At(a) = "persist"
        /\ \/ handle' = handle
           \/ handle' = [handle EXCEPT ![a] = NoHandle]
           \/ handle' = [handle EXCEPT ![a] = g]
    BY <1>1 DEF PersistLocally, Now
  <2>2. GoodHandle(h)
    BY <1>0, <2>1, StepIsLeft DEF Steps, GoodPlan
  <2> HIDE DEF h
  <2>3. g.text = h.text /\ g.saved = h.text
    BY <2>2 DEF GoodHandle
  <2> HIDE DEF g
  <2>4. Clean(g)
    BY <2>3 DEF Clean
  <2> QED
    BY <2>1, <2>4, ReturnKeeps
<1>2. CASE PersistStale(a) \/ PutFails(a)
  <2>1. Raise(a)
    BY <1>2 DEF PersistStale, PutFails
  <2> QED
    BY <2>1, RaiseKeeps
<1>3. CASE PersistDraft(a)
  <2> DEFINE g == [h EXCEPT !.raced = FALSE]
             n == Node(view, h.key)
             v == [t EXCEPT !.key = h.key, !.node = n, !.text = h.text]
             c == Creating(t, n.path, h.text)
             short == <<"put", "refresh", "saved">>
             long == <<"current", "save", "put", "refresh", "saved">>
  <2>1. /\ At(a) = "persist" /\ h.dirty
        /\ handle' = [handle EXCEPT ![a] = g]
        /\ Then(a, c, short) \/ Then(a, v, long)
    BY <1>0, <1>3 DEF PersistDraft, WriteDraft, Now
  <2>2. GoodHandle(h)
    BY <1>0, <2>1, StepIsLeft DEF Steps, GoodPlan
  <2>3. g.dirty /\ g.text = h.text
    BY <2>1, <2>2 DEF GoodHandle
  <2>4. handle'[a] = g /\ \A b \in Apps : b # a => handle'[b] = handle[b]
    BY <1>0, <2>1
  <2>5. Clean(g)
    BY <2>3 DEF Clean
  <2>6. CASE Then(a, c, short)
    <3> DEFINE u == [c EXCEPT !.todo = short]
    <3>1. task'[a] = u /\ \A b \in Apps : b # a => task'[b] = task[b]
      BY <1>0, <2>6 DEF Then, Go
    <3>2. GoodFields(c) /\ c.row = Row("create", Nowhere, 0, h.text)
      BY <1>0, <2>2, PuttingIsGood, RowsAreShaped DEF Creating, GoodHandle
    <3> HIDE DEF c
    <3>3. u.todo = short /\ u.row.text = h.text
      BY <3>2 DEF GoodFields, Idle, Row
    <3> HIDE DEF u, g, h
    <3>4. Flushing(u, g)
      BY <2>3, <3>3 DEF Flushing
    <3> QED
      BY <2>4, <2>5, <3>1, <3>4 DEF CleanMove, Kept
  <2>7. CASE Then(a, v, long)
    <3> DEFINE u == [v EXCEPT !.todo = long]
    <3>1. task'[a] = u /\ \A b \in Apps : b # a => task'[b] = task[b]
      BY <1>0, <2>7 DEF Then, Go
    <3> HIDE DEF n, h
    <3>2. DOMAIN v = DOMAIN Idle /\ v.text = h.text
      BY <1>0 DEF GoodFields, Idle
    <3> HIDE DEF v
    <3>3. u.todo = long /\ u.text = h.text
      BY <3>2 DEF Idle
    <3> HIDE DEF u, g
    <3>4. Flushing(u, g)
      BY <2>3, <3>3 DEF Flushing
    <3> QED
      BY <2>4, <2>5, <3>1, <3>4 DEF CleanMove, Kept
  <2> QED
    BY <2>1, <2>6, <2>7
<1>4. CASE SaveStep(a)
  <2> DEFINE n == IF t.key \in NodeKeys(view) THEN Node(view, t.key) ELSE t.node
             r == Row("update", n.doc, BaseFor(n), t.text)
             c == Putting(t, n.path, r)
             u == [c EXCEPT !.todo = Tail(t.todo)]
  <2>1. /\ At(a) = "save" /\ handle' = handle
        /\ task'[a] = u /\ \A b \in Apps : b # a => task'[b] = task[b]
    BY <1>0, <1>4 DEF SaveStep, Then, Go, Now, fileVars
  <2>2. Head(t.todo) = "save"
    BY <2>1 DEF At
  <2>3. r.text = t.text
    BY DEF Row
  <2> HIDE DEF n, r
  <2>4. u.op = t.op /\ u.todo = Tail(t.todo) /\ u.row = r
    BY <1>0 DEF GoodFields, Idle, Putting
  <2> HIDE DEF t, u, h
  <2>5. ASSUME u.op \in {"close", "fsync"} PROVE Flushing(u, h)
    <3>1. Flushing(t, h)
      BY <1>0, <2>4, <2>5 DEF Kept
    <3> QED
      BY <2>2, <2>3, <2>4, <3>1, FlushSteps DEF Flushing
  <2>6. Kept(u, h)
    BY <1>0, <2>5 DEF Kept
  <2> QED
    BY <2>1, <2>6 DEF CleanMove, h
<1>5. CASE AnswerPut(a)
  <2> DEFINE u == [t EXCEPT !.todo = Tail(t.todo)]
             g == [h EXCEPT !.saved = t.row.text]
  <2>1. /\ At(a) = "put"
        /\ task'[a] = u /\ \A b \in Apps : b # a => task'[b] = task[b]
        /\ handle' = IF t.op \in {"close", "fsync"} THEN [handle EXCEPT ![a] = g] ELSE handle
    BY <1>0, <1>5 DEF AnswerPut, Proceed, Then, Go, Answered
  <2>2. Head(t.todo) = "put"
    BY <2>1 DEF At
  <2>3. u.op = t.op /\ u.todo = Tail(t.todo)
    BY <1>0 DEF GoodFields, Idle
  <2>4. CASE t.op \in {"close", "fsync"}
    <3>1. handle'[a] = g /\ \A b \in Apps : b # a => handle'[b] = handle[b]
      BY <1>0, <2>1, <2>4
    <3> HIDE DEF t, u, h
    <3>2. /\ g.saved = t.row.text /\ g.text = h.text /\ g.dirty = h.dirty
          /\ g.raced = h.raced
      BY <1>0, <2>4 DEF GoodHandle
    <3>3. Flushing(t, h)
      BY <1>0, <2>4 DEF Kept
    <3>4. h.dirty /\ (~ h.raced => t.row.text = h.text) /\ Tail(t.todo) = <<"refresh", "saved">>
      BY <2>2, <3>3, FlushSteps
    <3> HIDE DEF g
    <3>5. Flushing(u, g) /\ Clean(g)
      BY <2>3, <3>2, <3>4 DEF Flushing, Clean
    <3> QED
      BY <2>1, <3>1, <3>5 DEF CleanMove, Kept
  <2>5. CASE t.op \notin {"close", "fsync"}
    <3>1. handle' = handle
      BY <2>1, <2>5
    <3> HIDE DEF t, u
    <3>2. Kept(u, h)
      BY <1>0, <2>3, <2>5 DEF Kept
    <3> QED
      BY <2>1, <3>1, <3>2 DEF CleanMove
  <2> QED
    BY <2>4, <2>5
<1>6. CASE SavedStep(a)
  <2> DEFINE g == [h EXCEPT !.dirty = FALSE]
  <2>1. /\ Return(a) /\ At(a) = "saved"
        /\ \/ handle' = [handle EXCEPT ![a] = NoHandle]
           \/ handle' = [handle EXCEPT ![a] = g]
    BY <1>0, <1>6 DEF SavedStep, Now
  <2>2. t.op \in {"close", "fsync"} /\ Head(t.todo) = "saved"
    BY <2>1, StepIsLeft DEF Steps, GoodPlan, At
  <2> HIDE DEF t, h
  <2>3. Flushing(t, h) /\ GoodHandle(h)
    BY <1>0, <2>2 DEF Kept
  <2>4. ~ h.raced => h.saved = h.text
    BY <2>2, <2>3, FlushSteps
  <2>5. g.raced = h.raced /\ g.saved = h.saved /\ g.text = h.text
    BY <2>3 DEF GoodHandle
  <2> HIDE DEF g
  <2>6. Clean(g)
    BY <2>4, <2>5 DEF Clean
  <2> QED
    BY <2>1, <2>6, ReturnKeeps
<1> QED
  BY <1>1, <1>2, <1>3, <1>4, <1>5, <1>6

(* Writing to an open file, truncating it, beginning to close or sync it.  *)
LEMMA EditsClean ==
  ASSUME Shapes, HandlesClean, NEW a \in Apps, Stat(a) \/ Kernel(a)
  PROVE  CleanMove(a) \/ UNCHANGED <<task, handle>>
<1> USE DEF Shapes
<1> DEFINE t == task[a]
           h == handle[a]
<1>0. /\ DOMAIN handle = Apps /\ DOMAIN task = Apps
      /\ h # NoHandle => GoodHandle(h)
      /\ Kept(t, h)
  BY DEF TasksOK, HandlesOK, HandlesClean
<1>1. CASE Write(a)
  <2> DEFINE text == Text(IF h.text = Empty THEN buffer[a].from ELSE h.text.from, edits + 1)
             r == h.raced \/ t.op = "fsync"
             g == [h EXCEPT !.text = text, !.dirty = TRUE, !.raced = r]
  <2>1. /\ h # NoHandle /\ t.op \in {"none", "fsync"} /\ task' = task
        /\ handle' = [handle EXCEPT ![a] = g]
    BY <1>0, <1>1 DEF Write, runVars
  <2>2. handle'[a] = g /\ \A b \in Apps : b # a => handle'[b] = handle[b]
    BY <1>0, <2>1
  <2> HIDE DEF t, h, text
  <2>3. g.dirty /\ (t.op = "fsync" => g.raced)
    BY <1>0, <2>1 DEF GoodHandle
  <2> HIDE DEF g
  <2>4. t.op = "fsync" => Flushing(t, g)
    <3>1. t.op = "fsync" => Flushing(t, h)
      BY <1>0 DEF Kept
    <3> QED
      BY <2>3, <3>1 DEF Flushing
  <2>5. Kept(t, g)
    BY <2>1, <2>3, <2>4 DEF Kept, Clean
  <2> QED
    BY <2>1, <2>2, <2>5 DEF CleanMove, t
<1>2. ASSUME NEW n \in Names, Truncate(a, n) PROVE CleanMove(a) \/ UNCHANGED <<task, handle>>
  <2> DEFINE g == [h EXCEPT !.text = Text(h.text.from, edits + 1), !.dirty = TRUE]
  <2>1. /\ task' = task /\ t = Idle
        /\ \/ handle' = handle
           \/ h # NoHandle /\ handle' = [handle EXCEPT ![a] = g]
    BY <1>0, <1>2 DEF Truncate, runVars
  <2>2. CASE handle' = handle
    BY <2>1, <2>2
  <2>3. CASE h # NoHandle /\ handle' = [handle EXCEPT ![a] = g]
    <3>1. handle'[a] = g /\ \A b \in Apps : b # a => handle'[b] = handle[b]
      BY <1>0, <2>3
    <3> HIDE DEF h
    <3>2. g.dirty
      BY <1>0, <2>3 DEF GoodHandle
    <3> HIDE DEF g
    <3>3. Kept(t, g)
      BY <2>1, <3>2 DEF Kept, Clean, Idle
    <3> QED
      BY <2>1, <3>1, <3>3 DEF CleanMove
  <2> QED
    BY <2>1, <2>2, <2>3
<1>3. ASSUME NEW u, Request(a, u), u.op \notin {"close", "fsync"} \/ u.todo = <<"persist">>
      PROVE  CleanMove(a)
  <2>1. /\ task'[a] = u /\ handle' = handle /\ \A b \in Apps : b # a => task'[b] = task[b]
    BY <1>0, <1>3 DEF Request, Go, fileVars
  <2>2. Kept(u, h)
    BY <1>0, <1>3 DEF Kept, Flushing
  <2> QED
    BY <2>1, <2>2 DEF CleanMove
<1>4. ASSUME NEW u, NEW op, NEW step, op \notin {"close", "fsync"}, Request(a, u), u.op = op
      PROVE  CleanMove(a)
  BY <1>3, <1>4
<1>5. CASE Stat(a) \/ List(a)
  <2>1. \A op, step : Call(op, step).op = op
    BY CallShape
  <2>2. Request(a, Call("stat", "stat")) \/ Request(a, Call("list", "opendir"))
    BY <1>5 DEF Stat, List
  <2> QED
    BY <1>3, <2>1, <2>2
<1>6. ASSUME NEW n \in Names, Lookup(a, n) \/ Create(a, n) \/ Unlink(a, n) PROVE CleanMove(a)
  <2>1. \E op \in {"look", "create", "unlink"} :
          Request(a, [Call(op, op) EXCEPT !.name = n])
    BY <1>6 DEF Lookup, Create, Unlink
  <2>2. \A op : [Call(op, op) EXCEPT !.name = n].op = op
    BY DEF Call, Idle
  <2> QED
    BY <1>3, <2>1, <2>2
<1>7. ASSUME NEW n, NEW to, Rename(a, n, to) PROVE CleanMove(a)
  <2> DEFINE u == [Call("rename", "rename") EXCEPT !.name = n, !.to = to]
  <2>1. Request(a, u)
    BY <1>7 DEF Rename
  <2>2. u.op = "rename"
    BY DEF Call, Idle
  <2> HIDE DEF u
  <2> QED
    BY <1>3, <2>1, <2>2
<1>8. ASSUME NEW n, NEW writing, NEW trunc, Open(a, n, writing, trunc) PROVE CleanMove(a)
  <2> DEFINE u == [Call("open", "open") EXCEPT !.ino = dentry[n], !.writing = writing,
                                               !.trunc = trunc]
  <2>1. Request(a, u)
    BY <1>8 DEF Open
  <2>2. u.op = "open"
    BY DEF Call, Idle
  <2> HIDE DEF u
  <2> QED
    BY <1>3, <2>1, <2>2
<1>9. ASSUME NEW op, Flush(a, op) PROVE CleanMove(a)
  <2> DEFINE u == [Idle EXCEPT !.op = op, !.todo = <<"persist">>]
  <2>1. Request(a, u)
    BY <1>9 DEF Flush
  <2>2. u.todo = <<"persist">>
    BY DEF Idle
  <2> HIDE DEF u
  <2> QED
    BY <1>3, <2>1, <2>2
<1> QED
  <2>1. ASSUME Kernel(a), ~ Write(a)
        PROVE  \/ \E n \in Names : \/ Lookup(a, n) \/ Create(a, n) \/ Unlink(a, n)
                                   \/ Truncate(a, n) \/ \E to : Rename(a, n, to)
                                   \/ \E writing, trunc : Open(a, n, writing, trunc)
               \/ List(a) \/ \E op : Flush(a, op)
    BY <2>1 DEF Kernel
  <2> QED
    BY <1>1, <1>2, <1>5, <1>6, <1>7, <1>8, <1>9, <2>1

(* Every step keeps clean what it says is clean.                           *)
LEMMA CleanNext ==
  ASSUME Shapes, HandlesClean, Next PROVE HandlesClean'
<1> USE DEF Shapes
<1>1. ASSUME UNCHANGED <<task, handle>> PROVE HandlesClean'
  BY <1>1 DEF HandlesClean
<1>2. ASSUME NEW a \in Apps, CleanMove(a) PROVE HandlesClean'
  BY <1>2 DEF HandlesClean, CleanMove
<1>3. ASSUME NEW a \in Apps, Handler(a) PROVE CleanMove(a) \/ UNCHANGED <<task, handle>>
  <2>1. CASE OpenScratch(a) \/ OpenNode(a) \/ AnswerContent(a)
    BY <2>1, OpensClean
  <2>2. CASE \/ PersistLocally(a) \/ PersistStale(a) \/ PersistDraft(a) \/ SaveStep(a)
             \/ AnswerPut(a) \/ PutFails(a) \/ SavedStep(a)
    BY <2>2, SavesClean
  <2>3. CASE Current(a) \/ AnswerDrop(a)
    <3>1. Proceed(a) /\ handle' = handle /\ At(a) \in {"current", "drop"}
      BY <2>3 DEF Current, AnswerDrop, Answered, fileVars
    <3> QED
      BY <3>1, ProceedKeeps
  <2>4. CASE TakeLock(a)
    BY <2>4 DEF TakeLock, runVars, fileVars
  <2>5. ASSUME NEW k, Made(a, k) PROVE CleanMove(a)
    <3> DEFINE h == [ino |-> InodeOf(k), key |-> k, text |-> Empty, seen |-> 0,
                     writing |-> TRUE, dirty |-> FALSE, raced |-> FALSE, saved |-> Empty]
    <3>1. Return(a) /\ Clean(h) /\ handle' = [handle EXCEPT ![a] = h]
      BY <2>5 DEF Made, Clean
    <3> HIDE DEF h
    <3> QED
      BY <3>1, ReturnKeeps
  <2>6. CASE Raise(a)
    BY <2>6, RaiseKeeps
  <2>7. CASE Return(a) /\ handle' = handle
    BY <2>7, ReturnKeeps
  <2>8. CASE OpendirStep(a) \/ ReaddirStep(a) \/ CreatePage(a) \/ UnlinkNode(a)
    <3>1. handle' = handle /\ At(a) \in {"opendir", "readdir", "create", "unlink"}
      BY <2>8 DEF OpendirStep, ReaddirStep, CreatePage, UnlinkNode, Now, Answered, fileVars
    <3>2. task' = task \/ TaskMove(a)
      BY <2>8, HandlerMoves DEF Handler
    <3> QED
      BY <3>1, <3>2, MoveKeeps
  <2>9. CASE RenameScratch(a) \/ RenameNode(a)
    <3>1. handle' = handle /\ At(a) = "rename"
      BY <2>9 DEF RenameScratch, RenameNode, Now, fileVars
    <3>2. task' = task \/ TaskMove(a)
      BY <2>9, HandlerMoves DEF Handler
    <3> QED
      BY <3>1, <3>2, MoveKeeps
  <2> QED
    BY <1>3, <2>1, <2>2, <2>3, <2>4, <2>5, <2>6, <2>7, <2>8, <2>9, Endings, HandlerHandles
       DEF Handler
<1>4. CASE Refreshing
  <2>1. handle' = handle
    BY <1>4, RefreshHandles
  <2>2. CASE AnswerToken \/ AnswerManifest \/ AnswerDrafts
    BY <1>1, <2>1, <2>2 DEF AnswerToken, AnswerManifest, AnswerDrafts, runVars
  <2>3. CASE Same \/ Install \/ RefreshFails
    <3>1. fetch # NoFetch /\ (Proceed(fetch.by) \/ task' = task)
      BY <2>3 DEF Same, Install, RefreshFails, Fetching
    <3>2. fetch.by \in Apps /\ At(fetch.by) \in {"current", "refresh"}
      BY <3>1 DEF TreeOK, GoodFetch, Holder
    <3> QED
      BY <1>1, <1>2, <2>1, <3>1, <3>2, ProceedKeeps
  <2> QED
    BY <1>4, <2>2, <2>3 DEF Refreshing
<1>5. CASE Restart
  BY <1>5 DEF Restart, Started, HandlesClean, Kept, Idle
<1>6. CASE Expire \/ Others \/ \E i \in Numbers : Forgets(i)
  BY <1>1, <1>6, OthersMoves
<1>7. ASSUME NEW a \in Apps, Stat(a) \/ Kernel(a) PROVE HandlesClean'
  BY <1>1, <1>2, <1>7, EditsClean
<1>8. ASSUME NEW a \in Apps, Handler(a) PROVE HandlesClean'
  BY <1>1, <1>2, <1>3, <1>8
<1> QED
  BY <1>4, <1>5, <1>6, <1>7, <1>8 DEF Next

(* Whatever has been written, saved, lost or refused: an open file knows   *)
(* which bytes the server or the scratch file took, and a flush under way  *)
(* carries the bytes of its handle.                                        *)
THEOREM FlushesStayClean == Spec => []HandlesClean
<1>1. Init => HandlesClean
  BY DEF Init, HandlesClean, Kept, Idle
<1>2. Shapes /\ HandlesClean /\ [Next]_vars => HandlesClean'
  <2>1. Shapes /\ HandlesClean /\ UNCHANGED vars => HandlesClean'
    BY DEF vars, fileVars, runVars, HandlesClean
  <2> QED
    BY <2>1, CleanNext
<1> QED
  BY <1>1, <1>2, MountInShape, PTL DEF Spec

(* A handle marked clean holds what was last accepted, unless a write came *)
(* while an fsync of the same handle was waiting: flush() never says that  *)
(* bytes are safe which no one has taken.                                  *)
THEOREM CleanHandlesAreSaved == Spec => []CleanMeansSaved
<1>1. HandlesClean => CleanMeansSaved
  BY DEF HandlesClean, Kept, Clean, CleanMeansSaved
<1> QED
  BY <1>1, FlushesStayClean, PTL

-----------------------------------------------------------------------------
(* Whose turn it is                                                        *)

(* A list ends with a step that ends the task.                             *)
Waits == {"current", "refresh", "put", "drop", "save"}

Closed(todo) == todo # <<>> => todo[Len(todo)] \notin Waits

(* The kernel changes the directory for one task at a time, and a scratch  *)
(* file to be made has room.                                               *)
Alone ==
  /\ \A a, b \in Apps : task[a].op \in DirOps /\ task[b].op \in DirOps => a = b
  /\ \A a \in Apps : Has(task[a].todo, "create") =>
       task[a].op = "create" /\ (task[a].name \in Locals => scratchSeq < MaxScratch)
  /\ scratchSeq <= MaxScratch

Turns ==
  /\ up \in BOOLEAN /\ running \in Apps \cup {NoApp}
  /\ running # NoApp => task[running].todo # <<>>
  /\ \A a \in Apps : Closed(task[a].todo)
  /\ Alone

(* A task goes on with the call it began with, and a key to rename to is   *)
(* that of an entry of the tree.                                           *)
SameCall(t, u) ==
  /\ t.op = u.op /\ t.name = u.name /\ t.to = u.to
  /\ t.new = u.new \/ t.new \notin ScratchKeys

Renaming(todo) == Has(todo, "rename") \/ Has(todo, "renamed")

Follows(todo, before) ==
  /\ Has(todo, "create") => Has(before, "create")
  /\ Renaming(todo) => Renaming(before)

(* One task takes its turn: it goes on in its operation, or ends.          *)
Turn(a) ==
  \E t : /\ task' = [task EXCEPT ![a] = t]
         /\ t = Idle \/ (SameCall(t, task[a]) /\ Follows(t.todo, task[a].todo))
         /\ Closed(t.todo)
         /\ running' = NoApp \/ (running' = a /\ t.todo # <<>>)

(* The lists the handlers make, and the tails of any, are closed.          *)
LEMMA ClosedLists ==
  /\ Closed(<<>>)
  /\ \A x : x \notin Waits => Closed(<<x>>)
  /\ \A x, y : y \notin Waits => Closed(<<x, y>>)
  /\ \A x, y, z : z \notin Waits => Closed(<<x, y, z>>)
  /\ \A x, y, z, u, v : v \notin Waits => Closed(<<x, y, z, u, v>>)
<1>1. Closed(<<>>)
  BY DEF Closed
<1>2. ASSUME NEW x, x \notin Waits PROVE Closed(<<x>>)
  <2>1. Len(<<x>>) = 1 /\ <<x>>[1] = x
    OBVIOUS
  <2> QED
    BY <1>2, <2>1 DEF Closed
<1>3. ASSUME NEW x, NEW y, y \notin Waits PROVE Closed(<<x, y>>)
  <2>1. Len(<<x, y>>) = 2 /\ <<x, y>>[2] = y
    OBVIOUS
  <2> QED
    BY <1>3, <2>1 DEF Closed
<1>4. ASSUME NEW x, NEW y, NEW z, z \notin Waits PROVE Closed(<<x, y, z>>)
  <2>1. Len(<<x, y, z>>) = 3 /\ <<x, y, z>>[3] = z
    OBVIOUS
  <2> QED
    BY <1>4, <2>1 DEF Closed
<1>5. ASSUME NEW x, NEW y, NEW z, NEW u, NEW v, v \notin Waits
      PROVE  Closed(<<x, y, z, u, v>>)
  <2>1. Len(<<x, y, z, u, v>>) = 5 /\ <<x, y, z, u, v>>[5] = v
    OBVIOUS
  <2> QED
    BY <1>5, <2>1 DEF Closed
<1> QED
  BY <1>1, <1>2, <1>3, <1>4, <1>5

(* A closed list has more to do after a step that waits.                   *)
LEMMA ClosedGoesOn ==
  ASSUME NEW todo \in Seq(Steps), todo # <<>>, Closed(todo), Head(todo) \in Waits
  PROVE  Tail(todo) # <<>> /\ Closed(Tail(todo))
<1>1. Len(todo) \in Nat /\ Len(todo) >= 1 /\ Head(todo) = todo[1]
  OBVIOUS
<1>2. Len(todo) # 1
  BY <1>1 DEF Closed
<1>3. /\ Tail(todo) \in Seq(Steps) /\ Len(Tail(todo)) = Len(todo) - 1
      /\ \A i \in 1..(Len(todo) - 1) : Tail(todo)[i] = todo[i + 1]
  OBVIOUS
<1>4. Tail(todo)[Len(todo) - 1] = todo[Len(todo)]
  BY <1>1, <1>2, <1>3
<1>5. Tail(todo) # <<>>
  <2>1. Len(Tail(todo)) # 0 /\ Len(<<>>) = 0
    BY <1>1, <1>2, <1>3
  <2> QED
    BY <2>1
<1> QED
  BY <1>3, <1>4, <1>5 DEF Closed

(* A task that goes on with a new list takes its turn.                     *)
LEMMA ThenTurns ==
  ASSUME NEW a \in Apps, NEW t, DOMAIN t = DOMAIN Idle, SameCall(t, task[a]),
         NEW todo, todo # <<>>, Closed(todo), Follows(todo, task[a].todo), Then(a, t, todo)
  PROVE  Turn(a)
<1> DEFINE u == [t EXCEPT !.todo = todo]
<1>1. SameCall(u, task[a]) /\ u.todo = todo
  BY DEF Idle, SameCall
<1>2. task' = [task EXCEPT ![a] = u] /\ running' \in {NoApp, a}
  BY DEF Then, Go
<1> HIDE DEF u
<1> QED
  BY <1>1, <1>2 DEF Turn

(* So is one that puts a row.                                              *)
LEMMA PuttingTurns ==
  ASSUME NEW t, DOMAIN t = DOMAIN Idle, NEW p, NEW r
  PROVE  /\ DOMAIN Putting(t, p, r) = DOMAIN Idle
         /\ SameCall(Putting(t, p, r), t)
BY DEF Putting, Idle, SameCall

(* One that goes on with its list, and one that ends.                      *)
LEMMA GoesOn ==
  ASSUME TasksOK, Turns, NEW a \in Apps, Return(a) \/ (Proceed(a) /\ At(a) \in Waits)
  PROVE  Turn(a)
<1>1. CASE Return(a)
  <2>1. Idle.todo = <<>>
    BY DEF Idle
  <2> QED
    BY <1>1, <2>1, ClosedLists DEF Return, Turn
<1>2. CASE Proceed(a) /\ At(a) \in Waits
  <2> DEFINE t == task[a]
             todo == Tail(t.todo)
  <2>1. /\ DOMAIN t = DOMAIN Idle /\ t.todo \in Seq(Steps) /\ t.todo # <<>>
        /\ Head(t.todo) \in Waits
    BY <1>2, AtIsNext DEF TasksOK, GoodTask, GoodFields, Waits
  <2>2. todo # <<>> /\ Closed(todo) /\ Follows(todo, t.todo) /\ SameCall(t, t)
    BY <2>1, ClosedGoesOn, TailLeft DEF Turns, Follows, Renaming, SameCall
  <2>3. Then(a, t, todo)
    BY <1>2 DEF Proceed
  <2> HIDE DEF todo
  <2> QED
    BY <2>1, <2>2, <2>3, ThenTurns
<1> QED
  BY <1>1, <1>2

(* One that writes a draft.                                                *)
LEMMA WriteDraftTurns ==
  ASSUME NEW a \in Apps, NEW t, DOMAIN t = DOMAIN Idle, SameCall(t, task[a]),
         NEW k, NEW text, NEW after \in {"saved", "renamed"},
         after = "renamed" => Renaming(task[a].todo), WriteDraft(a, t, k, text, after)
  PROVE  Turn(a)
<1> DEFINE n == Node(view, k)
           c == Creating(t, n.path, text)
           v == [t EXCEPT !.key = k, !.node = n, !.text = text]
           short == <<"put", "refresh", after>>
           long == <<"current", "save", "put", "refresh", after>>
<1>1. Then(a, c, short) \/ Then(a, v, long)
  BY DEF WriteDraft
<1>2. /\ \A s : Has(short, s) <=> s \in {"put", "refresh", after}
      /\ \A s : Has(long, s) <=> s \in {"current", "save", "put", "refresh", after}
  BY HasOf
<1>3. Closed(short) /\ Closed(long)
  BY ClosedLists DEF Waits
<1>4. short # <<>> /\ long # <<>>
  OBVIOUS
<1>5. DOMAIN c = DOMAIN Idle /\ SameCall(c, task[a])
  BY PuttingTurns DEF Creating, SameCall
<1>6. DOMAIN v = DOMAIN Idle /\ SameCall(v, task[a])
  BY DEF Idle, SameCall
<1>7. Follows(short, task[a].todo) /\ Follows(long, task[a].todo)
  BY <1>2 DEF Follows, Renaming
<1> HIDE DEF n, c, v, short, long
<1> QED
  BY <1>1, <1>3, <1>4, <1>5, <1>6, <1>7, ThenTurns

(* Every handler takes a turn, or leaves its task to wait.                 *)
LEMMA HandlerTurns ==
  ASSUME Shapes, Turns, NEW a \in Apps, Handler(a)
  PROVE  UNCHANGED <<task, running>> \/ Turn(a)
<1> USE DEF Shapes
<1> DEFINE t == task[a]
<1>0. DOMAIN t = DOMAIN Idle
  BY DEF TasksOK, GoodTask, GoodFields
<1>1. CASE Current(a) \/ AnswerPut(a) \/ AnswerDrop(a)
  <2>1. Proceed(a) /\ At(a) \in Waits
    BY <1>1 DEF Current, AnswerPut, AnswerDrop, Answered, Waits
  <2> QED
    BY <2>1, GoesOn
<1>2. CASE TakeLock(a)
  BY <1>2 DEF TakeLock, runVars
<1>3. CASE OpendirStep(a)
  <2>1. PICK l : Then(a, [t EXCEPT !.left = l], <<"readdir">>)
    BY <1>3 DEF OpendirStep
  <2> DEFINE u == [t EXCEPT !.left = l]
             todo == <<"readdir">>
  <2>2. DOMAIN u = DOMAIN Idle /\ SameCall(u, t)
    BY <1>0 DEF Idle, SameCall
  <2>3. todo # <<>> /\ Closed(todo) /\ Follows(todo, t.todo)
    BY ClosedLists, HasOf DEF Waits, Follows, Renaming
  <2> HIDE DEF u, todo
  <2> QED
    BY <2>1, <2>2, <2>3, ThenTurns DEF u, todo
<1>4. CASE ReaddirStep(a)
  <2>1. running' = running /\ running = NoApp
    BY <1>4 DEF ReaddirStep, Answered
  <2>2. CASE UNCHANGED task
    BY <2>1, <2>2
  <2>3. CASE ~ UNCHANGED task
    <3>1. PICK e : task' = [task EXCEPT ![a].left = @ \ {e}]
      BY <1>4, <2>3 DEF ReaddirStep
    <3> DEFINE u == [t EXCEPT !.left = @ \ {e}]
    <3>2. task' = [task EXCEPT ![a] = u]
      BY <3>1
    <3>3. SameCall(u, t) /\ u.todo = t.todo
      BY <1>0 DEF Idle, SameCall
    <3> HIDE DEF u
    <3> QED
      BY <2>1, <3>2, <3>3 DEF Turn, Turns, Follows
  <2> QED
    BY <2>2, <2>3
<1>5. CASE OpenNode(a)
  <2> DEFINE k == Resolved(t.ino)
             u == [t EXCEPT !.key = k, !.node = Node(view, k)]
             todo == <<"content">>
  <2>1. Return(a) \/ Then(a, u, todo)
    BY <1>5 DEF OpenNode
  <2> HIDE DEF k
  <2>2. DOMAIN u = DOMAIN Idle /\ SameCall(u, t)
    BY <1>0 DEF Idle, SameCall
  <2>3. todo # <<>> /\ Closed(todo) /\ Follows(todo, t.todo)
    BY ClosedLists, HasOf DEF Waits, Follows, Renaming
  <2> HIDE DEF u, todo
  <2> QED
    BY <2>1, <2>2, <2>3, ThenTurns, GoesOn
<1>6. CASE PersistDraft(a)
  <2>1. WriteDraft(a, t, handle[a].key, handle[a].text, "saved")
    BY <1>6 DEF PersistDraft
  <2> QED
    BY <1>0, <2>1, WriteDraftTurns DEF SameCall
<1>7. CASE SaveStep(a)
  <2> DEFINE n == IF t.key \in NodeKeys(view) THEN Node(view, t.key) ELSE t.node
             u == Putting(t, n.path, Row("update", n.doc, BaseFor(n), t.text))
             todo == Tail(t.todo)
  <2>1. At(a) = "save" /\ Then(a, u, todo)
    BY <1>7 DEF SaveStep, Now
  <2>2. DOMAIN u = DOMAIN Idle /\ SameCall(u, t)
    BY <1>0, PuttingTurns
  <2>3. t.todo \in Seq(Steps) /\ t.todo # <<>> /\ Head(t.todo) = "save"
    BY <2>1, AtIsNext DEF TasksOK
  <2>4. todo # <<>> /\ Closed(todo) /\ Follows(todo, t.todo)
    BY <2>3, ClosedGoesOn, TailLeft DEF Turns, Waits, Follows, Renaming
  <2> HIDE DEF u, todo
  <2> QED
    BY <2>1, <2>2, <2>4, ThenTurns
<1>8. CASE CreatePage(a)
  <2> DEFINE u == Creating(t, t.name, Empty)
             todo == <<"put", "refresh", "made">>
  <2>1. Then(a, u, todo)
    BY <1>8 DEF CreatePage
  <2>2. DOMAIN u = DOMAIN Idle /\ SameCall(u, t)
    BY <1>0, PuttingTurns DEF Creating
  <2>3. todo # <<>> /\ Closed(todo) /\ Follows(todo, t.todo)
    BY ClosedLists, HasOf DEF Waits, Follows, Renaming
  <2> HIDE DEF u, todo
  <2> QED
    BY <2>1, <2>2, <2>3, ThenTurns
<1>9. CASE UnlinkNode(a)
  <2> DEFINE n == Node(view, Entry(t.name))
             u == [t EXCEPT !.dropped = n.path]
             v == Putting(t, n.path, Row("delete", n.doc, n.tip, NoText))
             drop == <<"drop", "refresh", "unlinked">>
             put == <<"put", "refresh", "unlinked">>
  <2>1. Then(a, u, drop) \/ Then(a, v, put)
    BY <1>9 DEF UnlinkNode
  <2> HIDE DEF n
  <2>2. /\ DOMAIN u = DOMAIN Idle /\ SameCall(u, t)
        /\ DOMAIN v = DOMAIN Idle /\ SameCall(v, t)
    BY <1>0, PuttingTurns DEF Idle, SameCall
  <2>3. /\ drop # <<>> /\ Closed(drop) /\ Follows(drop, t.todo)
        /\ put # <<>> /\ Closed(put) /\ Follows(put, t.todo)
    BY ClosedLists, HasOf DEF Waits, Follows, Renaming
  <2> HIDE DEF u, v, drop, put
  <2> QED
    BY <2>1, <2>2, <2>3, ThenTurns
<1>10. CASE RenameScratch(a)
  <2> DEFINE from == Entry(t.name)
             over == KeyAt(view, t.to)
             text == scratch[from[2]].text
             u == [t EXCEPT !.old = from, !.new = over]
             v == [t EXCEPT !.old = from, !.new = DraftKey(t.to)]
             c == Creating(v, t.to, text)
             todo == <<"put", "refresh", "renamed">>
  <2>1. (over \in Docs /\ WriteDraft(a, u, over, text, "renamed")) \/ Then(a, c, todo)
    BY <1>10 DEF RenameScratch
  <2> HIDE DEF from, over, text
  <2>2. /\ DOMAIN u = DOMAIN Idle /\ (over \in Docs => SameCall(u, t))
        /\ DOMAIN v = DOMAIN Idle /\ SameCall(v, t)
    BY <1>0, NoScratchKey DEF Idle, SameCall
  <2> HIDE DEF u, v
  <2>3. DOMAIN c = DOMAIN Idle /\ SameCall(c, t)
    BY <2>2, PuttingTurns DEF Creating, SameCall
  <2>4. Renaming(t.todo)
    BY <1>10, StepIsLeft DEF RenameScratch, Now, Steps, Renaming
  <2>5. todo # <<>> /\ Closed(todo) /\ Follows(todo, t.todo)
    BY <2>4, ClosedLists, HasOf DEF Waits, Follows, Renaming
  <2> HIDE DEF c, todo
  <2> QED
    BY <2>1, <2>2, <2>3, <2>4, <2>5, ThenTurns, WriteDraftTurns
<1>11. CASE RenameNode(a)
  <2> DEFINE from == Entry(t.name)
             n == Node(view, from)
             u == [t EXCEPT !.old = from, !.new = DraftKey(t.to), !.dropped = n.path]
             c == Creating(u, t.to, n.row.text)
             v == Putting(t, t.to, Row("move", n.doc, n.tip, NoText))
             twice == <<"put", "refresh", "drop", "refresh", "renamed">>
             once == <<"put", "refresh", "renamed">>
  <2>1. Then(a, c, twice) \/ Then(a, v, once)
    BY <1>11 DEF RenameNode
  <2> HIDE DEF from, n
  <2>2. /\ DOMAIN u = DOMAIN Idle /\ SameCall(u, t)
        /\ DOMAIN v = DOMAIN Idle /\ SameCall(v, t)
    BY <1>0, PuttingTurns, NoScratchKey DEF Idle, SameCall
  <2> HIDE DEF u, v
  <2>3. DOMAIN c = DOMAIN Idle /\ SameCall(c, t)
    BY <2>2, PuttingTurns DEF Creating, SameCall
  <2>4. Renaming(t.todo)
    BY <1>11, StepIsLeft DEF RenameNode, Now, Steps, Renaming
  <2>5. /\ twice # <<>> /\ Closed(twice) /\ Follows(twice, t.todo)
        /\ once # <<>> /\ Closed(once) /\ Follows(once, t.todo)
    BY <2>4, ClosedLists, HasOf DEF Waits, Follows, Renaming
  <2> HIDE DEF c, twice, once
  <2> QED
    BY <2>1, <2>2, <2>3, <2>5, ThenTurns
<1>12. CASE Return(a)
  BY <1>12, GoesOn
<1> QED
  BY <1>1, <1>2, <1>3, <1>4, <1>5, <1>6, <1>7, <1>8, <1>9, <1>10, <1>11, <1>12, Endings
     DEF Handler

(* What the handlers leave of the process and its scratch files.           *)
LEMMA HandlerFrame ==
  ASSUME NEW a \in Apps, Handler(a)
  PROVE  up' = up /\ (scratchSeq' = scratchSeq \/ CreateScratch(a))
<1>1. CASE \/ Current(a) \/ TakeLock(a) \/ StatStep(a) \/ LookupStep(a) \/ OpendirStep(a)
           \/ ReaddirStep(a) \/ Releasedir(a)
  BY <1>1 DEF Current, TakeLock, StatStep, LookupStep, OpendirStep, ReaddirStep, Releasedir,
     fileVars, runVars
<1>2. CASE \/ OpenScratch(a) \/ OpenRefused(a) \/ AnswerContent(a) \/ ContentFails(a)
  BY <1>2 DEF OpenScratch, OpenRefused, AnswerContent, ContentFails
<1>3. CASE OpenNode(a)
  BY <1>3 DEF OpenNode
<1>4. CASE \/ PersistLocally(a) \/ PersistStale(a) \/ PersistDraft(a) \/ SaveStep(a)
           \/ AnswerPut(a) \/ PutFails(a) \/ SavedStep(a)
  BY <1>4 DEF PersistLocally, PersistStale, PersistDraft, SaveStep, AnswerPut, PutFails,
     SavedStep, fileVars
<1>5. CASE CreateRefused(a) \/ CreatePage(a) \/ MadeStep(a) \/ UnlinkRefused(a)
  BY <1>5 DEF CreateRefused, CreatePage, MadeStep, UnlinkRefused, fileVars
<1>6. CASE CreateScratch(a)
  BY <1>6 DEF CreateScratch
<1>7. CASE \/ UnlinkScratch(a) \/ UnlinkNode(a) \/ UnlinkedStep(a) \/ AnswerDrop(a)
           \/ DropFails(a)
  BY <1>7 DEF UnlinkScratch, UnlinkNode, UnlinkedStep, AnswerDrop, DropFails, fileVars
<1>8. CASE \/ RenameRefused(a) \/ RenameLocally(a) \/ RenameScratch(a) \/ RenameNode(a)
           \/ RenamedStep(a)
  BY <1>8 DEF RenameRefused, RenameLocally, RenameScratch, RenameNode, RenamedStep, fileVars
<1> QED
  BY <1>1, <1>2, <1>3, <1>4, <1>5, <1>6, <1>7, <1>8 DEF Handler

(* A turn leaves everybody's turn in order.                                *)
LEMMA TurnIsAlone ==
  ASSUME TasksOK, Turns, NEW a \in Apps, Turn(a), up' \in BOOLEAN
  PROVE  /\ scratchSeq' = scratchSeq => Turns'
         /\ Return(a) /\ At(a) = "create" /\ task[a].name \in Locals
              /\ scratchSeq' = scratchSeq + 1 /\ scratchSeq \in Nat => Turns'
<1> DEFINE DirTask(t) == t.op \in DirOps
           Making(t) == Has(t.todo, "create")
<1>0. PICK t : /\ task' = [task EXCEPT ![a] = t]
               /\ \/ t = Idle
                  \/ /\ t.op = task[a].op /\ t.name = task[a].name
                     /\ Making(t) => Making(task[a])
               /\ Closed(t.todo)
               /\ running' = NoApp \/ (running' = a /\ t.todo # <<>>)
  BY DEF Turn, SameCall, Follows
<1>1. task'[a] = t /\ \A b \in Apps : b # a => task'[b] = task[b]
  BY <1>0 DEF TasksOK
<1>2. Idle.op \notin DirOps /\ ~ Making(Idle)
  BY HasOf DEF Idle, DirOps
<1> HIDE DEF Making, DirTask
<1>3. /\ running' \in Apps \cup {NoApp} /\ (running' # NoApp => task'[running'].todo # <<>>)
      /\ \A b \in Apps : Closed(task'[b].todo)
  BY <1>0, <1>1 DEF Turns
<1>4. \A b \in Apps : /\ task'[b].op \in DirOps => task[b].op \in DirOps
                      /\ Making(task'[b]) => /\ Making(task[b]) /\ task'[b].op = task[b].op
                                             /\ task'[b].name = task[b].name
  BY <1>0, <1>1, <1>2
<1>5. \A b, c \in Apps : task'[b].op \in DirOps /\ task'[c].op \in DirOps => b = c
  BY <1>4 DEF Turns, Alone
<1>6. ASSUME scratchSeq' = scratchSeq PROVE Turns'
  <2>1. \A b \in Apps : Making(task'[b]) =>
          /\ task'[b].op = "create"
          /\ task'[b].name \in Locals => scratchSeq' < MaxScratch
    BY <1>4, <1>6 DEF Turns, Alone, Making
  <2> QED
    BY <1>3, <1>5, <1>6, <2>1 DEF Turns, Alone, Making
<1>7. ASSUME Return(a), At(a) = "create", task[a].name \in Locals,
             scratchSeq' = scratchSeq + 1, scratchSeq \in Nat
      PROVE  Turns'
  <2>1. Making(task[a])
    BY <1>7, StepIsLeft DEF Steps, Making
  <2>2. scratchSeq < MaxScratch /\ task[a].op = "create"
    BY <1>7, <2>1 DEF Turns, Alone, Making
  <2>3. task'[a] = Idle
    BY <1>7 DEF Return, TasksOK
  <2>4. \A b \in Apps : ~ Making(task'[b])
    <3> SUFFICES ASSUME NEW b \in Apps, Making(task'[b]) PROVE FALSE
      OBVIOUS
    <3>1. b # a
      BY <1>2, <2>3
    <3>2. Making(task[b])
      BY <1>4
    <3>3. task[b].op = "create"
      BY <3>2 DEF Turns, Alone, Making
    <3> QED
      BY <2>2, <3>1, <3>3 DEF Turns, Alone, DirOps
  <2>5. scratchSeq' <= MaxScratch
    BY <1>7, <2>2, MountAssumption
  <2> QED
    BY <1>3, <1>5, <2>4, <2>5 DEF Turns, Alone, Making
<1> QED
  BY <1>6, <1>7

(* A call waits for its turn at the directory.                             *)
LEMMA CallTurns ==
  ASSUME TasksOK, Turns, NEW a \in Apps, NEW t, Request(a, t), t.todo # <<>>,
         Closed(t.todo), scratchSeq' = scratchSeq, up' = up,
         Has(t.todo, "create") =>
           t.op = "create" /\ (t.name \in Locals => scratchSeq < MaxScratch)
  PROVE  Turns'
<1>1. /\ task' = [task EXCEPT ![a] = t] /\ running' \in {NoApp, a}
      /\ t.op \in DirOps => \A b \in Apps : task[b].op \notin DirOps
  BY DEF Request, Go
<1>2. task'[a] = t /\ \A b \in Apps : b # a => task'[b] = task[b]
  BY <1>1 DEF TasksOK
<1>3. /\ running' \in Apps \cup {NoApp} /\ (running' # NoApp => task'[running'].todo # <<>>)
      /\ \A b \in Apps : Closed(task'[b].todo)
  BY <1>1, <1>2 DEF Turns
<1>4. \A b, c \in Apps : task'[b].op \in DirOps /\ task'[c].op \in DirOps => b = c
  BY <1>1, <1>2 DEF Turns, Alone
<1>5. \A b \in Apps : Has(task'[b].todo, "create") =>
        task'[b].op = "create" /\ (task'[b].name \in Locals => scratchSeq' < MaxScratch)
  BY <1>2 DEF Turns, Alone
<1> QED
  BY <1>3, <1>4, <1>5 DEF Turns, Alone

(* What an application asks of the mount is one of these requests, or      *)
(* needs no task.                                                          *)
LEMMA KernelTurns ==
  ASSUME TasksOK, Turns, NEW a \in Apps, Stat(a) \/ Kernel(a)
  PROVE  Turns'
<1>0. ASSUME NEW t, Request(a, t) PROVE scratchSeq' = scratchSeq /\ up' = up
  BY <1>0 DEF Request, fileVars
<1>1. ASSUME NEW t, NEW step, step \in {"stat", "look", "opendir", "open", "unlink", "rename"},
             t.todo = <<"current", step>>, Request(a, t)
      PROVE  Turns'
  <2>1. t.todo # <<>> /\ Closed(t.todo) /\ ~ Has(t.todo, "create")
    BY <1>1, ClosedLists, HasOf DEF Waits
  <2> QED
    BY <1>0, <1>1, <2>1, CallTurns
<1>2. CASE Stat(a) \/ List(a)
  <2>1. Request(a, Call("stat", "stat")) \/ Request(a, Call("list", "opendir"))
    BY <1>2 DEF Stat, List
  <2> QED
    BY <1>1, <2>1, CallShape
<1>3. ASSUME NEW n, Lookup(a, n) \/ Unlink(a, n) PROVE Turns'
  <2>1. \E op \in {"look", "unlink"} : Request(a, [Call(op, op) EXCEPT !.name = n])
    BY <1>3 DEF Lookup, Unlink
  <2>2. \A op : [Call(op, op) EXCEPT !.name = n].todo = <<"current", op>>
    BY DEF Call, Idle
  <2> QED
    BY <1>1, <2>1, <2>2
<1>4. ASSUME NEW n, Create(a, n) PROVE Turns'
  <2> DEFINE t == [Call("create", "create") EXCEPT !.name = n]
  <2>1. Request(a, t) /\ (n \in Locals => scratchSeq < MaxScratch)
    BY <1>4 DEF Create
  <2>2. t.todo = <<"current", "create">> /\ t.op = "create" /\ t.name = n
    BY DEF Call, Idle
  <2> HIDE DEF t
  <2>3. t.todo # <<>> /\ Closed(t.todo)
    BY <2>2, ClosedLists DEF Waits
  <2> QED
    BY <1>0, <2>1, <2>2, <2>3, CallTurns
<1>5. ASSUME NEW n, NEW to, Rename(a, n, to) PROVE Turns'
  <2> DEFINE t == [Call("rename", "rename") EXCEPT !.name = n, !.to = to]
  <2>1. Request(a, t)
    BY <1>5 DEF Rename
  <2>2. t.todo = <<"current", "rename">>
    BY DEF Call, Idle
  <2> HIDE DEF t
  <2> QED
    BY <1>1, <2>1, <2>2
<1>6. ASSUME NEW n, NEW writing, NEW trunc, Open(a, n, writing, trunc) PROVE Turns'
  <2> DEFINE t == [Call("open", "open") EXCEPT !.ino = dentry[n], !.writing = writing,
                                               !.trunc = trunc]
  <2>1. Request(a, t)
    BY <1>6 DEF Open
  <2>2. t.todo = <<"current", "open">>
    BY DEF Call, Idle
  <2> HIDE DEF t
  <2> QED
    BY <1>1, <2>1, <2>2
<1>7. ASSUME NEW op, Flush(a, op) PROVE Turns'
  <2> DEFINE t == [Idle EXCEPT !.op = op, !.todo = <<"persist">>]
  <2>1. Request(a, t)
    BY <1>7 DEF Flush
  <2>2. t.todo = <<"persist">>
    BY DEF Idle
  <2> HIDE DEF t
  <2>3. t.todo # <<>> /\ Closed(t.todo) /\ ~ Has(t.todo, "create")
    BY <2>2, ClosedLists, HasOf DEF Waits
  <2> QED
    BY <1>0, <2>1, <2>3, CallTurns
<1>8. ASSUME Write(a) \/ \E n : Truncate(a, n) PROVE Turns'
  <2>1. UNCHANGED <<runVars, scratchSeq>>
    BY <1>8 DEF Write, Truncate
  <2> QED
    BY <2>1 DEF runVars, Turns, Alone
<1> QED
  BY <1>2, <1>3, <1>4, <1>5, <1>6, <1>7, <1>8 DEF Kernel

(* Every step leaves the turns in order.                                   *)
LEMMA TurnsNext ==
  ASSUME Shapes, Turns, Next PROVE Turns'
<1> USE DEF Shapes
<1>1. ASSUME NEW a \in Apps, Stat(a) \/ Kernel(a) PROVE Turns'
  BY <1>1, KernelTurns
<1>2. ASSUME NEW a \in Apps, Handler(a) PROVE Turns'
  <2>1. up' = up /\ (scratchSeq' = scratchSeq \/ CreateScratch(a))
    BY <1>2, HandlerFrame
  <2>2. CASE CreateScratch(a)
    <3>1. /\ Return(a) /\ At(a) = "create" /\ task[a].name \in Locals
          /\ scratchSeq' = scratchSeq + 1
      BY <2>2 DEF CreateScratch, Made, Now
    <3>2. Turn(a) /\ scratchSeq \in Nat /\ up' \in BOOLEAN
      BY <2>1, <3>1, GoesOn DEF FilesOK, Turns
    <3> QED
      BY <3>1, <3>2, TurnIsAlone
  <2>3. CASE scratchSeq' = scratchSeq /\ UNCHANGED <<task, running>>
    BY <2>1, <2>3 DEF Turns, Alone
  <2>4. CASE scratchSeq' = scratchSeq /\ Turn(a)
    BY <2>1, <2>4, TurnIsAlone DEF Turns
  <2> QED
    BY <1>2, <2>1, <2>2, <2>3, <2>4, HandlerTurns
<1>3. CASE Refreshing
  <2>1. CASE AnswerToken \/ AnswerManifest \/ AnswerDrafts
    BY <2>1 DEF AnswerToken, AnswerManifest, AnswerDrafts, runVars, fileVars, Turns, Alone
  <2>2. CASE Same \/ Install \/ RefreshFails
    <3>1. /\ fetch # NoFetch /\ scratchSeq' = scratchSeq /\ up' \in {up, FALSE}
          /\ Proceed(fetch.by) \/ UNCHANGED <<task, running>>
      BY <2>2 DEF Same, Install, RefreshFails, Fetching, fileVars
    <3>2. fetch.by \in Apps /\ At(fetch.by) \in Waits /\ up' \in BOOLEAN
      BY <3>1 DEF TreeOK, GoodFetch, Holder, Waits, Turns
    <3>3. CASE UNCHANGED <<task, running>>
      BY <3>1, <3>2, <3>3 DEF Turns, Alone
    <3>4. CASE Proceed(fetch.by)
      BY <3>1, <3>2, <3>4, GoesOn, TurnIsAlone
    <3> QED
      BY <3>1, <3>3, <3>4
  <2> QED
    BY <1>3, <2>1, <2>2 DEF Refreshing
<1>4. CASE Restart
  <2>1. /\ up' = TRUE /\ running' = NoApp /\ scratchSeq' = 0
        /\ \A a \in Apps : task'[a] = Idle
    BY <1>4 DEF Restart, Started
  <2>2. Idle.todo = <<>> /\ Idle.op \notin DirOps
    BY DEF Idle, DirOps
  <2> QED
    BY <2>1, <2>2, ClosedLists, HasOf, MountAssumption DEF Turns, Alone
<1>5. CASE Expire \/ \E i \in Numbers : Forgets(i)
  BY <1>5 DEF Expire, Forgets, runVars, fileVars, Turns, Alone
<1>6. CASE Others
  <2>1. \E kind : Elsewhere(kind)
    BY <1>6 DEF Others, OtherPublishes, OtherRetires, OtherMoves, Grants, CliPush,
       CliMerge, CliRevert
  <2> QED
    BY <2>1 DEF Elsewhere, runVars, fileVars, Turns, Alone
<1> QED
  BY <1>1, <1>2, <1>3, <1>4, <1>5, <1>6 DEF Next

(* Whoever runs has something to do, a task that waits is not done, one    *)
(* task at a time is in the directory, and no more scratch files are made  *)
(* than there is room for.                                                 *)
THEOREM TurnsAreKept == Spec => []Turns
<1>1. Init => Turns
  <2>1. Idle.todo = <<>> /\ Idle.op \notin DirOps
    BY DEF Idle, DirOps
  <2> QED
    BY <2>1, ClosedLists, HasOf, MountAssumption DEF Init, Turns, Alone
<1>2. Shapes /\ Turns /\ [Next]_vars => Turns'
  <2>1. Turns /\ UNCHANGED vars => Turns'
    BY DEF vars, fileVars, runVars, Turns, Alone
  <2> QED
    BY <2>1, TurnsNext
<1> QED
  BY <1>1, <1>2, MountInShape, PTL DEF Spec

(* What every variable holds; a checkout is of a revision there is, and a  *)
(* draft row has base, document and text as its operation asks, whatever   *)
(* the handlers of fs.py write.                                            *)
THEOREM MountTypeCorrect == Spec => []TypeOK
<1>1. Shapes /\ Seen /\ Turns => TypeOK
  <2> SUFFICES ASSUME Shapes, Seen, Turns PROVE TypeOK
    OBVIOUS
  <2> USE DEF Shapes
  <2>1. /\ up \in BOOLEAN /\ fresh \in BOOLEAN /\ running \in Apps \cup {NoApp}
        /\ running # NoApp => task[running] # Idle
    BY DEF Turns, TreeOK, Idle
  <2>2. DOMAIN scratch \subseteq 1..scratchSeq /\ scratchSeq \in 0..MaxScratch
    BY MountAssumption DEF FilesOK, Turns, Alone
  <2>3. \A d \in Docs : /\ checkedOut[d] \in 0..srv.tip[d]
                        /\ told[d] \subseteq 1..srv.tip[d]
                        /\ content[d].etag <= srv.tip[d]
    BY DEF Seen, FilesSeen, ServerSeen, ServerOK, GoodServer, FilesOK
  <2>4. \A n \in Names : dentry[n] \in {0} \cup Numbers
    BY DEF FilesOK
  <2>5. \A a \in Apps : handle[a] # NoHandle => handle[a].ino \in Numbers
    BY DEF HandlesOK, GoodHandle
  <2>6. ASSUME NEW p \in Paths, srv.rows[p] # NoRow
        PROVE  /\ (srv.rows[p].op = "create") = (srv.rows[p].doc = Nowhere)
               /\ (srv.rows[p].op = "create") = (srv.rows[p].base = 0)
               /\ (srv.rows[p].op \in {"create", "update"}) = (srv.rows[p].text # NoText)
    <3>1. Shaped(srv.rows[p])
      BY <2>6 DEF ServerOK, GoodServer, GoodRows
    <3> QED
      BY <3>1, MountAssumption DEF Shaped, Bodies
  <2> QED
    BY <2>1, <2>2, <2>3, <2>4, <2>5, <2>6 DEF TypeOK
<1> QED
  BY <1>1, MountInShape, BasesWereTold, TurnsAreKept, PTL

-----------------------------------------------------------------------------
(* What a rename leaves under the new name                                 *)

(* A rename is from one name to another, and never to a scratch file's key. *)
Aimed(t) ==
  /\ t.new \notin ScratchKeys
  /\ Renaming(t.todo) => t.name # t.to /\ t.to \in Names

Aims == \A a \in Apps : Aimed(task[a])

(* Only one number is a scratch file's, and it is the one the table knows. *)
ScratchesLead ==
  \A i \in DOMAIN byInode : byInode[i] \in ScratchKeys =>
    byInode[i] \in DOMAIN byKey /\ byKey[byInode[i]] = i

(* A task that does nothing aims at nothing.                               *)
LEMMA IdleAims == Aimed(Idle)
<1>1. Idle.todo = <<>> /\ Idle.new = NoKey
  BY DEF Idle
<1> QED
  BY <1>1, HasOf, NoScratchKey DEF Aimed, Renaming

(* A turn changes no aim.                                                  *)
LEMMA TurnAims ==
  ASSUME TasksOK, Aims, NEW a \in Apps, Turn(a) PROVE Aims'
<1>1. PICK t : /\ task' = [task EXCEPT ![a] = t]
               /\ t = Idle \/ (SameCall(t, task[a]) /\ Follows(t.todo, task[a].todo))
  BY DEF Turn
<1>2. task'[a] = t /\ \A b \in Apps : b # a => task'[b] = task[b]
  BY <1>1 DEF TasksOK
<1>3. Aimed(t)
  BY <1>1, IdleAims DEF Aims, Aimed, SameCall, Follows
<1> QED
  BY <1>2, <1>3 DEF Aims

(* The kernel asks for a rename from one name to another.                  *)
LEMMA CallAims ==
  ASSUME TasksOK, Aims, NEW a \in Apps, Stat(a) \/ Kernel(a)
  PROVE  Aims'
<1>1. ASSUME NEW t, Aimed(t), Request(a, t) PROVE Aims'
  <2>1. task' = [task EXCEPT ![a] = t]
    BY <1>1 DEF Request, Go
  <2> QED
    BY <1>1, <2>1 DEF Aims, TasksOK
<1>2. ASSUME NEW t, t.new = NoKey, ~ Renaming(t.todo), Request(a, t) PROVE Aims'
  BY <1>1, <1>2, NoScratchKey DEF Aimed
<1>3. \A step : step # "rename" /\ step # "renamed" => ~ Renaming(<<"current", step>>)
  BY HasOf DEF Renaming
<1>4. CASE Stat(a) \/ List(a)
  <2>1. \E op, step : /\ op \in {"stat", "list"} /\ step \in {"stat", "opendir"}
                      /\ Request(a, Call(op, step))
    BY <1>4 DEF Stat, List
  <2>2. \A op, step : Call(op, step).new = NoKey /\ Call(op, step).todo = <<"current", step>>
    BY DEF Call, Idle
  <2> QED
    BY <1>2, <1>3, <2>1, <2>2
<1>5. ASSUME NEW n, Lookup(a, n) \/ Create(a, n) \/ Unlink(a, n) PROVE Aims'
  <2>1. PICK op \in {"look", "create", "unlink"} :
          Request(a, [Call(op, op) EXCEPT !.name = n])
    BY <1>5 DEF Lookup, Create, Unlink
  <2> DEFINE t == [Call(op, op) EXCEPT !.name = n]
  <2>2. t.todo = <<"current", op>> /\ t.new = NoKey
    BY DEF Call, Idle
  <2> HIDE DEF t
  <2> QED
    BY <1>2, <1>3, <2>1, <2>2 DEF t
<1>6. ASSUME NEW n, NEW to \in Names, Rename(a, n, to) PROVE Aims'
  <2> DEFINE t == [Call("rename", "rename") EXCEPT !.name = n, !.to = to]
  <2>1. Request(a, t) /\ n # to
    BY <1>6 DEF Rename
  <2>2. t.name = n /\ t.to = to /\ t.new = NoKey
    BY DEF Call, Idle
  <2> HIDE DEF t
  <2> QED
    BY <1>1, <2>1, <2>2, NoScratchKey DEF Aimed
<1>7. ASSUME NEW n, NEW writing, NEW trunc, Open(a, n, writing, trunc) PROVE Aims'
  <2> DEFINE t == [Call("open", "open") EXCEPT !.ino = dentry[n], !.writing = writing,
                                               !.trunc = trunc]
  <2>1. Request(a, t)
    BY <1>7 DEF Open
  <2>2. t.todo = <<"current", "open">> /\ t.new = NoKey
    BY DEF Call, Idle
  <2> HIDE DEF t
  <2> QED
    BY <1>2, <1>3, <2>1, <2>2
<1>8. ASSUME NEW op, Flush(a, op) PROVE Aims'
  <2> DEFINE t == [Idle EXCEPT !.op = op, !.todo = <<"persist">>]
  <2>1. Request(a, t)
    BY <1>8 DEF Flush
  <2>2. t.todo = <<"persist">> /\ t.new = NoKey
    BY DEF Idle
  <2> HIDE DEF t
  <2>3. ~ Renaming(t.todo)
    BY <2>2, HasOf DEF Renaming
  <2> QED
    BY <1>2, <2>1, <2>2, <2>3
<1>9. ASSUME Write(a) \/ \E n : Truncate(a, n) PROVE Aims'
  BY <1>9 DEF Write, Truncate, runVars, Aims
<1> QED
  BY <1>4, <1>5, <1>6, <1>7, <1>8, <1>9 DEF Kernel

(* Every step leaves the aims as they are.                                 *)
LEMMA AimsNext ==
  ASSUME Shapes, Turns, Aims, Next PROVE Aims'
<1> USE DEF Shapes
<1>1. ASSUME NEW a \in Apps, Stat(a) \/ Kernel(a) PROVE Aims'
  BY <1>1, CallAims
<1>2. ASSUME NEW a \in Apps, Handler(a) PROVE Aims'
  BY <1>2, HandlerTurns, TurnAims DEF Aims
<1>3. CASE Refreshing
  <2>1. CASE AnswerToken \/ AnswerManifest \/ AnswerDrafts
    BY <2>1 DEF AnswerToken, AnswerManifest, AnswerDrafts, runVars, Aims
  <2>2. CASE Same \/ Install \/ RefreshFails
    <3>1. fetch # NoFetch /\ (Proceed(fetch.by) \/ UNCHANGED <<task, running>>)
      BY <2>2 DEF Same, Install, RefreshFails, Fetching
    <3>2. fetch.by \in Apps /\ At(fetch.by) \in Waits
      BY <3>1 DEF TreeOK, GoodFetch, Holder, Waits
    <3> QED
      BY <3>1, <3>2, GoesOn, TurnAims DEF Aims
  <2> QED
    BY <1>3, <2>1, <2>2 DEF Refreshing
<1>4. CASE Restart
  <2>1. \A a \in Apps : task'[a] = Idle
    BY <1>4 DEF Restart, Started
  <2> QED
    BY <2>1, IdleAims DEF Aims
<1>5. CASE Expire \/ \E i \in Numbers : Forgets(i)
  BY <1>5 DEF Expire, Forgets, runVars, Aims
<1>6. CASE Others
  <2>1. \E kind : Elsewhere(kind)
    BY <1>6 DEF Others, OtherPublishes, OtherRetires, OtherMoves, Grants, CliPush,
       CliMerge, CliRevert
  <2> QED
    BY <2>1 DEF Elsewhere, runVars, Aims
<1> QED
  BY <1>1, <1>2, <1>3, <1>4, <1>5, <1>6 DEF Next

(* A scratch file's number is handed out once.                             *)
LEMMA AllocateLeads ==
  ASSUME ScratchesLead, Table, NEW k, Allocate(k) PROVE ScratchesLead'
<1>1. CASE k \in DOMAIN byKey
  BY <1>1 DEF Allocate, ScratchesLead
<1>2. CASE k \notin DOMAIN byKey
  BY <1>2 DEF Allocate, ScratchesLead, With
<1> QED
  BY <1>1, <1>2

(* Forgetting a number forgets the key that leads to it, and no other.     *)
LEMMA ForgetLeads ==
  ASSUME ScratchesLead, NEW i, NEW n, Forget(i, n) PROVE ScratchesLead'
<1>1. CASE UNCHANGED <<byKey, byInode>>
  BY <1>1 DEF ScratchesLead
<1>2. CASE /\ byInode' = Without(byInode, {i})
           /\ byKey' = IF /\ i \in DOMAIN byInode /\ byInode[i] \in DOMAIN byKey
                          /\ byKey[byInode[i]] = i
                       THEN Without(byKey, {byInode[i]}) ELSE byKey
  BY <1>2 DEF ScratchesLead, Without
<1> QED
  BY <1>1, <1>2 DEF Forget

(* A rename to a key that is no scratch file's leaves them their numbers.  *)
LEMMA RekeyLeads ==
  ASSUME ScratchesLead, NEW old, NEW new, new \notin ScratchKeys, Rekey(old, new)
  PROVE  ScratchesLead'
<1>1. CASE old \notin DOMAIN byKey
  BY <1>1 DEF Rekey, ScratchesLead
<1>2. CASE old \in DOMAIN byKey
  <2> DEFINE j == byKey[old]
  <2>1. byKey' = With(Without(byKey, {old}), new, j) /\ byInode' = With(byInode, j, new)
    BY <1>2 DEF Rekey
  <2>2. ASSUME NEW i \in DOMAIN byInode', byInode'[i] \in ScratchKeys
        PROVE  byInode'[i] \in DOMAIN byKey' /\ byKey'[byInode'[i]] = i
    <3>1. i # j /\ i \in DOMAIN byInode /\ byInode'[i] = byInode[i]
      BY <2>1, <2>2 DEF With
    <3>2. byInode[i] \in DOMAIN byKey /\ byKey[byInode[i]] = i
      BY <2>2, <3>1 DEF ScratchesLead
    <3>3. byInode[i] # old /\ byInode[i] # new
      BY <2>2, <3>1, <3>2
    <3> QED
      BY <2>1, <3>1, <3>2, <3>3 DEF With, Without
  <2> QED
    BY <2>2 DEF ScratchesLead
<1> QED
  BY <1>1, <1>2

(* So does pinning the root.                                               *)
LEMMA PinLeads ==
  ASSUME ScratchesLead, NEW k, k \notin ScratchKeys, PinRoot(k) PROVE ScratchesLead'
<1>1. CASE UNCHANGED <<byKey, byInode>>
  BY <1>1 DEF ScratchesLead
<1>2. CASE ~ UNCHANGED <<byKey, byInode>>
  <2> DEFINE old == IF Root \in DOMAIN byInode THEN {byInode[Root]} ELSE {}
  <2>1. byKey' = With(Without(byKey, old), k, Root) /\ byInode' = With(byInode, Root, k)
    BY <1>2 DEF PinRoot
  <2>2. ASSUME NEW i \in DOMAIN byInode', byInode'[i] \in ScratchKeys
        PROVE  byInode'[i] \in DOMAIN byKey' /\ byKey'[byInode'[i]] = i
    <3>1. i # Root /\ i \in DOMAIN byInode /\ byInode'[i] = byInode[i]
      BY <2>1, <2>2 DEF With
    <3>2. byInode[i] \in DOMAIN byKey /\ byKey[byInode[i]] = i
      BY <2>2, <3>1 DEF ScratchesLead
    <3>3. byInode[i] \notin old /\ byInode[i] # k
      BY <2>2, <3>1, <3>2 DEF ScratchesLead
    <3> QED
      BY <2>1, <3>1, <3>2, <3>3 DEF With, Without
  <2> QED
    BY <2>2 DEF ScratchesLead
<1> QED
  BY <1>1, <1>2

(* No step of the mount leaves a scratch file with two numbers.            *)
LEMMA LeadsNext ==
  ASSUME Table, Aims, ScratchesLead, Next PROVE ScratchesLead'
<1>1. ASSUME NEW a \in Apps,
             LookupStep(a) \/ ReaddirStep(a) \/ CreateScratch(a) \/ MadeStep(a)
      PROVE  ScratchesLead'
  <2>1. UNCHANGED inodeVars \/ \E k : Allocate(k)
    BY <1>1 DEF LookupStep, ReaddirStep, CreateScratch, MadeStep, Made, Hand, Mint
  <2> QED
    BY <2>1, AllocateLeads DEF inodeVars, ScratchesLead
<1>2. ASSUME NEW a \in Apps, RenamedStep(a) PROVE ScratchesLead'
  BY <1>2, RekeyLeads DEF RenamedStep, Aims, Aimed
<1>3. CASE Install
  <2>1. PinRoot(RootKey(view'))
    BY <1>3 DEF Install
  <2> QED
    BY <2>1, PinLeads, NoScratchKey
<1>4. ASSUME NEW i \in Numbers, Forgets(i) PROVE ScratchesLead'
  BY <1>4, ForgetLeads DEF Forgets
<1>5. CASE Restart
  <2>1. InodesReset(RootKey(view'))
    BY <1>5 DEF Restart
  <2> QED
    BY <2>1, NoScratchKey DEF InodesReset, ScratchesLead, Only
<1>6. CASE ~ InodeMoves
  BY <1>6, InodeFrame DEF inodeVars, ScratchesLead
<1> QED
  BY <1>1, <1>2, <1>3, <1>4, <1>5, <1>6 DEF InodeMoves

(* The number the kernel files under the new name is the one that is given *)
(* the new key.                                                            *)
LEMMA RenamedLeads ==
  ASSUME Table, TasksOK, FilesOK, Aims, ScratchesLead, NEW a \in Apps, RenamedStep(a),
         dentry[task[a].name] \in DOMAIN byInode,
         byInode[dentry[task[a].name]] = task[a].old,
         task[a].old \in ScratchKeys \/ InodeOf(task[a].old) = dentry[task[a].name]
  PROVE  byInode'[dentry'[task[a].to]] = task[a].new
<1> DEFINE t == task[a]
           i == dentry[t.name]
<1>1. Renaming(t.todo)
  BY StepIsLeft DEF RenamedStep, Now, Steps, Renaming
<1>2. t.to \in Names /\ t.name # t.to
  BY <1>1 DEF Aims, Aimed
<1>3. dentry'[t.to] = i
  BY <1>2 DEF RenamedStep, Moved, FilesOK
<1>4. t.old \in DOMAIN byKey /\ byKey[t.old] = i
  <2>1. CASE t.old \in ScratchKeys
    BY <2>1 DEF ScratchesLead
  <2>2. CASE InodeOf(t.old) = i
    <3>1. i < next /\ next \in Nat
      BY DEF Table, Books
    <3> QED
      BY <2>2, <3>1 DEF InodeOf
  <2> QED
    BY <2>1, <2>2
<1>5. byInode' = With(byInode, i, t.new)
  BY <1>4 DEF RenamedStep, Rekey
<1> QED
  BY <1>3, <1>5 DEF With

(* After a rename the inode the kernel keeps leads to what was renamed     *)
(* (fs.py's rekey), if the kernel's entry for the old name was not out of  *)
(* date, whatever was listed, forgotten, saved over and refreshed before.  *)
THEOREM RenamesResolve == Spec => RenameResolves
<1> DEFINE I == Shapes /\ Turns /\ Aims /\ ScratchesLead
           R == \A a \in Apps : RenamedStep(a) =>
                  LET t == task[a]
                      i == dentry[t.name] IN
                  /\ t.new # NoKey
                  /\ i \in DOMAIN byInode /\ byInode[i] = t.old
                  /\ t.old \in ScratchKeys \/ InodeOf(t.old) = i
                  => byInode'[dentry'[t.to]] = t.new
<1>1. Init => Aims /\ ScratchesLead
  <2> SUFFICES ASSUME Init PROVE Aims /\ ScratchesLead
    OBVIOUS
  <2>1. Aims
    BY IdleAims DEF Init, Aims
  <2>2. \E k : byInode = Only(Root, k)
    BY DEF Init, InodesInit
  <2>3. DOMAIN byInode = {Root} /\ byInode[Root] = RootKey(view)
    BY <2>2 DEF Init, Only
  <2> QED
    BY <2>1, <2>3, NoScratchKey DEF ScratchesLead
<1>2. Shapes /\ Turns /\ Aims /\ ScratchesLead /\ [Next]_vars => Aims' /\ ScratchesLead'
  <2>1. CASE UNCHANGED vars
    BY <2>1 DEF vars, runVars, inodeVars, Aims, ScratchesLead
  <2>2. CASE Next
    BY <2>2, AimsNext, LeadsNext DEF Shapes
  <2> QED
    BY <2>1, <2>2
<1>3. I /\ [Next]_vars => [R]_vars
  BY RenamedLeads DEF Shapes
<1> QED
  BY <1>1, <1>2, <1>3, MountInShape, TurnsAreKept, PTL DEF Spec, RenameResolves
=============================================================================
