----------------------------- MODULE AclProofs -----------------------------
(***************************************************************************)
(* What holds of Acl for every wiki: the context answers as the rule does, *)
(* requirements hold, traversal is exact, and every live folder on the way *)
(* to what can be mirrored can be mirrored.                                *)
(***************************************************************************)
EXTENDS Acl, WellFoundedInduction, TLAPS

-----------------------------------------------------------------------------
(* Paths.                                                                  *)

(* A path is a list of labels with at least one.                           *)
LEMMA PathLength ==
  ASSUME NEW p \in Paths
  PROVE  Len(p) \in Nat /\ Len(p) >= 1 /\ p \in Seq(Labels)
<1>1. p \in Seq(Labels) /\ p # <<>>
  BY AclAssumption
<1> QED
  BY <1>1

(* Among the ancestors of a path, nearer means longer.                     *)
LEMMA DistanceOrder ==
  ASSUME NEW p \in Paths, NEW q \in Paths, NEW d \in Paths
  PROVE  /\ Distance(q, p) < Distance(d, p) <=> Len(q) > Len(d)
         /\ Distance(q, p) = Distance(d, p) <=> Len(q) = Len(d)
<1>1. Len(p) \in Nat /\ Len(q) \in Nat /\ Len(d) \in Nat
  BY PathLength
<1>2. Len(p) - Len(q) < Len(p) - Len(d) <=> Len(q) > Len(d)
  BY <1>1
<1>3. Len(p) - Len(q) = Len(p) - Len(d) <=> Len(q) = Len(d)
  BY <1>1
<1> QED
  BY <1>2, <1>3 DEF Distance

(* Two ancestors of one path: the shorter contains the longer.             *)
LEMMA AncestorsNest ==
  ASSUME NEW p \in Paths, NEW q \in Paths, NEW d \in Paths,
         Contains(q, p), Contains(d, p), Len(q) < Len(d)
  PROVE  Below(d, q)
<1>1. Len(p) \in Nat /\ Len(q) \in Nat /\ Len(d) \in Nat
  BY PathLength
<1>2. /\ q = [i \in 1..Len(q) |-> p[i]]
      /\ d = [i \in 1..Len(d) |-> p[i]]
  BY DEF Contains, Subpath
<1>3. \A i \in 1..Len(q) : d[i] = p[i]
  <2>1. \A i \in 1..Len(q) : i \in 1..Len(d)
    BY <1>1
  <2> QED
    BY <1>2, <2>1
<1>4. [i \in 1..Len(q) |-> d[i]] = [i \in 1..Len(q) |-> p[i]]
  BY <1>3
<1> QED
  BY <1>1, <1>2, <1>4 DEF Below, Contains, Subpath

(* Containment is transitive.                                              *)
LEMMA ContainsTransitive ==
  ASSUME NEW p \in Paths, NEW q \in Paths, NEW d \in Paths,
         Contains(q, d), Contains(d, p)
  PROVE  Contains(q, p)
<1>1. Len(p) \in Nat /\ Len(q) \in Nat /\ Len(d) \in Nat
  BY PathLength
<1>2. /\ q = [i \in 1..Len(q) |-> d[i]]
      /\ d = [i \in 1..Len(d) |-> p[i]]
      /\ Len(q) <= Len(d) /\ Len(d) <= Len(p)
  BY DEF Contains, Subpath
<1>3. \A i \in 1..Len(q) : d[i] = p[i]
  <2>1. \A i \in 1..Len(q) : i \in 1..Len(d)
    BY <1>1, <1>2
  <2> QED
    BY <1>2, <2>1
<1>4. [i \in 1..Len(q) |-> d[i]] = [i \in 1..Len(q) |-> p[i]]
  BY <1>3
<1> QED
  BY <1>1, <1>2, <1>4 DEF Contains, Subpath

-----------------------------------------------------------------------------
(* Recursive queries.                                                      *)

(* What an edge of R leads to from something reached is reached.           *)
LEMMA ReachClosed ==
  ASSUME NEW R, NEW All, NEW S, NEW e \in R,
         e[2] \in All, e[1] \in Reach(R, All, S)
  PROVE  e[2] \in Reach(R, All, S)
BY DEF Reach, Closed

(* An allow that covers a capability covers what it requires; a deny that  *)
(* covers a capability covers what requires it.                            *)
LEMMA CoversRequired ==
  ASSUME NEW a \in Capabilities, NEW b \in Capabilities,
         <<a, b>> \in Requires, NEW r \in Roles
  PROVE  /\ AceCovers(r, a, "allow") => AceCovers(r, b, "allow")
         /\ AceCovers(r, b, "deny") => AceCovers(r, a, "deny")
<1>1. ASSUME NEW c \in Capabilities, a \in CapabilityDownward[c]
      PROVE  b \in CapabilityDownward[c]
  <2>1. a \in Reach(Requires, Capabilities, {c})
    BY <1>1 DEF CapabilityDownward
  <2>2. b \in Reach(Requires, Capabilities, {c})
    BY <2>1 DEF Reach, Closed
  <2> QED
    BY <2>2 DEF CapabilityDownward
<1>2. ASSUME NEW c \in Capabilities, b \in CapabilityUpward[c]
      PROVE  a \in CapabilityUpward[c]
  <2>1. <<b, a>> \in Backwards(Requires)
    BY DEF Backwards
  <2>2. b \in Reach(Backwards(Requires), Capabilities, {c})
    BY <1>2 DEF CapabilityUpward
  <2>3. a \in Reach(Backwards(Requires), Capabilities, {c})
    BY <2>1, <2>2 DEF Reach, Closed
  <2> QED
    BY <2>3 DEF CapabilityUpward
<1>3. RoleCapabilities[r] \subseteq Capabilities
  BY AclAssumption DEF RoleCapabilities
<1>4. /\ AceCoversUncached(r, a, "allow") => AceCoversUncached(r, b, "allow")
      /\ AceCoversUncached(r, b, "deny") => AceCoversUncached(r, a, "deny")
  BY <1>1, <1>2, <1>3 DEF AceCoversUncached
<1> QED
  BY <1>4 DEF AceCovers, AceClosure, AceTypes

-----------------------------------------------------------------------------
(* Typing.                                                                 *)

ACtx == AclContext(ask.cap, ask.user)

Typed ==
  /\ TypeOK
  /\ pc # "idle" => /\ ctx = ACtx
                    /\ cuts \subseteq ctx.cuts
                    /\ sources \subseteq ctx.sources

(* The tables as the rest of the proofs need them.                         *)
LEMMA TablesTyped ==
  ASSUME TypeOK
  PROVE  /\ Present \subseteq Paths
         /\ \A p \in Present : documents[p] \in Document
         /\ aces \subseteq Ace
         /\ \A a \in aces : a.document \in Present
BY AclAssumption DEF TypeOK, Present

(* What can_ctx's context is made of.                                      *)
LEMMA ContextTyped ==
  ASSUME TypeOK, NEW cap \in Capabilities, NEW u \in Subjects
  PROVE  /\ \A c \in AclContext(cap, u).cuts : c.depth \in Nat /\ c.depth >= 1
         /\ \A s \in AclContext(cap, u).sources :
              s.depth \in Nat /\ s.depth >= 1 /\ s.ace_type \in AceTypes
<1>1. ASSUME NEW c \in AclContext(cap, u).cuts
      PROVE  c.depth \in Nat /\ c.depth >= 1
  <2>1. PICK d \in Present : c = Cut(d)
    BY <1>1 DEF AclContext, Blocking
  <2> QED
    BY <2>1, TablesTyped, PathLength DEF Cut
<1>2. ASSUME NEW s \in AclContext(cap, u).sources
      PROVE  s.depth \in Nat /\ s.depth >= 1 /\ s.ace_type \in AceTypes
  <2>1. PICK a \in aces : s = Source(a)
    BY <1>2 DEF AclContext, Listed
  <2>2. a.document \in Paths /\ a.ace_type \in AceTypes
    BY TablesTyped DEF Ace
  <2> QED
    BY <2>1, <2>2, PathLength DEF Source
<1> QED
  BY <1>1, <1>2

(* A step of the loop leaves the tables and the call alone.                *)
LEMMA SameContext ==
  ASSUME UNCHANGED <<documents, aces, ask>>
  PROVE  ACtx' = ACtx /\ RowsOwn(ask)' = RowsOwn(ask)
BY DEF ACtx, AclContext, Listed, Blocking, Present, RowsOwn

(* Typed holds at the start.                                               *)
LEMMA TypedInit == Init => Typed
<1> SUFFICES ASSUME Init PROVE Typed
  OBVIOUS
<1>1. answer \in BOOLEAN /\ best = -1 /\ floor_depth = 0 /\ verdict = Null
  BY DEF Init
<1>2. documents \in Trees /\ aces = {} /\ pc = "idle"
  BY DEF Init
<1> QED
  BY <1>1, <1>2 DEF Typed, TypeOK

(* Editing the tables while no call runs.                                  *)
LEMMA EditTyped ==
  ASSUME Typed, pc = "idle", UNCHANGED <<documents, pc, ask, ctx, loop>>,
         aces' \subseteq Ace,
         \A a, b \in aces' : SameKey(a, b) => a = b,
         \A a \in aces' : a.document \in Present /\ AppliesSomewhere(a)
  PROVE  Typed'
BY DEF Typed, TypeOK, Present, loop

(* Every step keeps Typed.                                                 *)
LEMMA TypedNext == Typed /\ [Next]_vars => Typed'
<1> SUFFICES ASSUME Typed, [Next]_vars PROVE Typed'
  OBVIOUS
<1> USE DEF Typed
<1>1. ASSUME NEW call \in Questions, CanCtx(call) PROVE Typed'
  <2>1. call \in Calls
    BY AclAssumption
  <2>2. /\ ask' = call /\ documents' = documents /\ aces' = aces
        /\ ctx' = AclContext(call.cap, call.user)
        /\ cuts' = ctx'.cuts /\ sources' = ctx'.sources
    BY <1>1 DEF CanCtx
  <2>3. ACtx' = AclContext(call.cap, call.user)
    BY <2>2 DEF ACtx, AclContext, Listed, Blocking, Present
  <2>4. RowsOwn(call)'
    BY <1>1, <2>2 DEF CanCtx, RowsOwn, Present
  <2>5. Shortcut(call, ctx') \in BOOLEAN
    BY DEF Shortcut
  <2> QED
    <3>1. /\ pc' \in {"cuts", "answered"} /\ best' = -1 /\ floor_depth' = 0
          /\ verdict' = Null /\ answer' \in BOOLEAN
      BY <1>1, <2>2, <2>5 DEF CanCtx
    <3>2. ask' \in Calls /\ RowsOwn(ask)'
      BY <2>1, <2>2, <2>4
    <3> QED
      BY <2>2, <2>3, <3>1, <3>2 DEF TypeOK, Present
<1>2. ASSUME NEW c \in cuts, LookAtCut(c) PROVE Typed'
  <2>1. c.depth \in Nat
    BY <1>2, ContextTyped DEF LookAtCut, ACtx, TypeOK, Calls
  <2> QED
    BY <1>2, <2>1, SameContext DEF LookAtCut, TypeOK, Present
<1>3. ASSUME CutsDone PROVE Typed'
  BY <1>3, SameContext DEF CutsDone, TypeOK, Present, loop
<1>4. ASSUME NEW s \in sources, LookAtSource(s) PROVE Typed'
  <2>1. s.depth \in Nat /\ s.ace_type \in AceTypes
    BY <1>4, ContextTyped DEF LookAtSource, ACtx, TypeOK, Calls
  <2> QED
    BY <1>4, <2>1, SameContext DEF LookAtSource, TypeOK, Present
<1>5. ASSUME Return PROVE Typed'
  BY <1>5, SameContext DEF Return, TypeOK, Present
<1>6. ASSUME EndStatement PROVE Typed'
  <2>1. answer' \in BOOLEAN /\ best' = -1 /\ floor_depth' = 0 /\ verdict' = Null
    BY <1>6 DEF EndStatement
  <2>2. pc' = "idle" /\ documents' = documents /\ aces' = aces
    BY <1>6 DEF EndStatement
  <2> QED
    BY <2>1, <2>2 DEF TypeOK, Present
<1>7. ASSUME NEW u \in Editors, NEW e \in Entries, InsertAce(u, e)
      PROVE  Typed'
  BY <1>7, EditTyped, AclAssumption
     DEF InsertAce, Addable, TypeOK, SameKey
<1>8. ASSUME NEW u \in Editors, NEW a \in aces, NEW e \in Entries,
             UpdateAce(u, a, e)
      PROVE  Typed'
  BY <1>8, EditTyped, AclAssumption
     DEF UpdateAce, Addable, TypeOK, SameKey
<1>9. ASSUME NEW u \in Editors, NEW a \in aces, DeleteAce(u, a)
      PROVE  Typed'
  BY <1>9, EditTyped DEF DeleteAce, TypeOK
<1>10. ASSUME NEW a \in aces, Expire(a) PROVE Typed'
  <2> DEFINE x == [a EXCEPT !.expired = TRUE]
  <2>1. /\ x \in Ace /\ SameKey(x, a) /\ x.document = a.document
        /\ AppliesSomewhere(x) = AppliesSomewhere(a)
    BY DEF TypeOK, Ace, SameKey, AppliesSomewhere
  <2>2. aces' = (aces \ {a}) \cup {x}
    BY <1>10 DEF Expire
  <2> HIDE DEF x
  <2>3. \A b, c \in aces' : SameKey(b, c) => b = c
    BY <2>1, <2>2 DEF TypeOK, SameKey
  <2> QED
    BY <1>10, <2>1, <2>2, <2>3, EditTyped DEF Expire, TypeOK
<1>11. ASSUME UNCHANGED vars PROVE Typed'
  BY <1>11, SameContext DEF vars, loop, TypeOK, Present
<1> QED
  BY <1>1, <1>2, <1>3, <1>4, <1>5, <1>6, <1>7, <1>8, <1>9, <1>10, <1>11
     DEF Next

(* Typed is an invariant.                                                  *)
LEMMA AlwaysTyped == Spec => []Typed
BY TypedInit, TypedNext, PTL DEF Spec

(* The tables and the loop stay in their types, and wiki.ace keeps its key *)
(* (tables/035:41-50).                                                     *)
THEOREM TypeCorrect == Spec => []TypeOK
<1>1. Typed => TypeOK
  BY DEF Typed
<1> QED
  BY AlwaysTyped, <1>1, PTL

-----------------------------------------------------------------------------
(* The loop of can_ctx.                                                    *)

OnPath(c) == c.depth <= Depth /\ c.prefix = Key(c.depth)

(* The floor is the deepest cut on the path among those looked at.         *)
FloorOK ==
  /\ \A c \in ctx.cuts \ cuts : OnPath(c) => c.depth <= floor_depth
  /\ \/ floor_depth = 0
     \/ \E c \in ctx.cuts : OnPath(c) /\ c.depth = floor_depth

Eligible(s) ==
  /\ s.depth >= floor_depth
  /\ OnPath(s)
  /\ Applies(s, Depth - s.depth, ask.is_folder)

Looked == ctx.sources \ sources

(* best and verdict are those of the winner among the sources looked at.   *)
BestOK ==
  /\ \/ best = -1 /\ verdict = Null
     \/ \E s \in Looked :
          Eligible(s) /\ s.depth = best /\ s.ace_type = verdict
  /\ \A s \in Looked : Eligible(s) =>
       \/ s.depth < best
       \/ s.depth = best /\ (s.ace_type = "deny" => verdict = "deny")

LoopOK ==
  /\ pc \in {"cuts", "sources"} => ~Shortcut(ask, ctx) /\ FloorOK
  /\ pc = "cuts" => best = -1 /\ verdict = Null /\ sources = ctx.sources
  /\ pc = "sources" => cuts = {} /\ BestOK

LoopInv == Typed /\ LoopOK /\ ContextAgrees

(* With every cut looked at, a source is eligible exactly if the entry it  *)
(* was made from is applicable.                                            *)
LEMMA EligibleIsApplicable ==
  ASSUME Typed, pc = "sources", cuts = {}, FloorOK,
         NEW a \in Listed(ask.cap, ask.user)
  PROVE  Eligible(Source(a)) <=>
           a \in Applicable(ask.path, ask.is_folder, ask.cap, ask.user)
<1> DEFINE p == ask.path
           q == a.document
<1>1. p \in Paths /\ q \in Paths /\ q \in Present /\ a \in aces
  BY TablesTyped DEF Typed, TypeOK, Calls, Listed
<1>2. /\ Len(p) \in Nat /\ Len(q) \in Nat /\ Len(q) >= 1
      /\ Present \subseteq Paths
  BY <1>1, PathLength, TablesTyped DEF Typed
<1>3. OnPath(Source(a)) <=> Contains(q, p)
  BY DEF OnPath, Source, Contains, Key, Depth
<1>4. Applies(Source(a), Depth - Source(a).depth, ask.is_folder)
        <=> Applies(a, Distance(q, p), ask.is_folder)
  BY DEF Applies, Source, Inherits, Depth, Distance
<1>5. ASSUME Contains(q, p)
      PROVE  q \in AclChain(p) <=> Len(q) >= floor_depth
  <2>1. ASSUME NEW b \in Ancestors(p), documents[b].inheritance_blocked,
               Len(b) > Len(q)
        PROVE  Len(q) < floor_depth
    <3>1. b \in Present /\ b \in Paths /\ Contains(b, p)
      BY <2>1, <1>2 DEF Ancestors
    <3>2. Below(b, q)
      BY <1>1, <1>5, <2>1, <3>1, AncestorsNest
    <3>3. Cut(b) \in ctx.cuts
      BY <2>1, <3>1, <3>2 DEF Typed, ACtx, AclContext, Blocking
    <3>4. OnPath(Cut(b))
      BY <3>1 DEF OnPath, Cut, Contains, Key, Depth
    <3>5. Len(b) <= floor_depth
      BY <3>3, <3>4 DEF FloorOK, Cut
    <3> QED
      BY <2>1, <3>1, <3>5, <1>2, PathLength DEF Typed, TypeOK
  <2>2. ASSUME Len(q) < floor_depth
        PROVE  \E b \in Ancestors(p) :
                 documents[b].inheritance_blocked /\ Len(b) > Len(q)
    <3>1. PICK c \in ctx.cuts : OnPath(c) /\ c.depth = floor_depth
      BY <2>2, <1>2 DEF FloorOK
    <3>2. PICK b \in Present :
            c = Cut(b) /\ documents[b].inheritance_blocked
      BY <3>1 DEF Typed, ACtx, AclContext, Blocking
    <3>3. Contains(b, p)
      BY <3>1, <3>2 DEF OnPath, Cut, Contains, Key, Depth
    <3> QED
      BY <2>2, <3>1, <3>2, <3>3 DEF Ancestors, Cut
  <2>3. \A b \in Ancestors(p) :
          Distance(q, p) <= Distance(b, p) <=> Len(b) <= Len(q)
    BY <1>2, PathLength DEF Ancestors, Distance
  <2>4. q \in Ancestors(p)
    BY <1>1, <1>5 DEF Ancestors
  <2>5. q \in AclChain(p) <=>
          \A b \in Ancestors(p) :
            documents[b].inheritance_blocked => Len(b) <= Len(q)
    BY <2>3, <2>4 DEF AclChain
  <2>6. \A b \in Ancestors(p) : Len(b) \in Nat
    BY <1>2, PathLength DEF Ancestors
  <2> QED
    BY <1>2, <2>1, <2>2, <2>5, <2>6 DEF Typed, TypeOK
<1>6. q \in AclChain(p) => Contains(q, p)
  BY DEF AclChain, Ancestors
<1>7. Source(a).depth = Len(q)
  BY DEF Source
<1>8. a \in Applicable(p, ask.is_folder, ask.cap, ask.user) <=>
        q \in AclChain(p) /\ Applies(a, Distance(q, p), ask.is_folder)
  BY DEF Applicable, InScope, Listed
<1> QED
  BY <1>3, <1>4, <1>5, <1>6, <1>7, <1>8 DEF Eligible

(* With every source looked at as well, the verdict is the rule's.         *)
LEMMA VerdictIsRule ==
  ASSUME Typed, pc = "sources", cuts = {}, sources = {}, FloorOK, BestOK,
         ~Shortcut(ask, ctx)
  PROVE  (verdict = "allow") <=>
           Can(ask.path, ask.is_folder, ask.owner, ask.cap, ask.user)
<1> DEFINE p == ask.path
           L == Listed(ask.cap, ask.user)
           App == Applicable(p, ask.is_folder, ask.cap, ask.user)
<1>1. /\ p \in Paths /\ Len(p) \in Nat
      /\ ask.cap \in Capabilities /\ ask.user \in Subjects
  BY PathLength DEF Typed, TypeOK, Calls
<1>2. Looked = {Source(a) : a \in L}
  BY DEF Looked, Typed, ACtx, AclContext
<1>3. App \subseteq L /\ L \subseteq aces
  BY DEF Applicable, InScope, Listed
<1>4. \A a \in L : /\ Eligible(Source(a)) <=> a \in App
                   /\ Source(a).depth = Len(a.document)
                   /\ Source(a).ace_type = a.ace_type
                   /\ Len(a.document) \in Nat /\ Len(a.document) >= 1
                   /\ a.ace_type \in AceTypes
  <2> TAKE a \in L
  <2>1. Eligible(Source(a)) <=> a \in App
    BY EligibleIsApplicable
  <2>2. a.document \in Paths /\ a.ace_type \in AceTypes
    BY <1>3, TablesTyped DEF Typed, Ace
  <2> QED
    BY <2>1, <2>2, PathLength DEF Source
<1>5. \A a, b \in L :
        NotAfter(a, b, p) <=>
          \/ Len(a.document) > Len(b.document)
          \/ /\ Len(a.document) = Len(b.document)
             /\ a.ace_type = "deny" \/ b.ace_type = "allow"
  <2> TAKE a, b \in L
  <2>1. a.document \in Paths /\ b.document \in Paths
    BY <1>3, TablesTyped DEF Typed, Ace
  <2> QED
    BY <1>1, <2>1, DistanceOrder, Zenon DEF NotAfter
<1> HIDE DEF p, L, App
<1>6. \A a \in App : \/ Len(a.document) < best
                     \/ /\ Len(a.document) = best
                        /\ a.ace_type = "deny" => verdict = "deny"
  BY <1>2, <1>3, <1>4 DEF BestOK
<1>7. \/ best = -1 /\ verdict = Null
      \/ \E a \in App : Len(a.document) = best /\ a.ace_type = verdict
  BY <1>2, <1>3, <1>4 DEF BestOK
<1>8. best \in Int /\ Null \notin AceTypes
  BY AclAssumption DEF Typed, TypeOK
<1>9. ASSUME verdict = "allow"
      PROVE  \E a \in First(App, p) : a.ace_type = "allow"
  <2>1. PICK a \in App : Len(a.document) = best /\ a.ace_type = "allow"
    BY <1>7, <1>8, <1>9 DEF AceTypes
  <2>2. ASSUME NEW b \in App PROVE NotAfter(a, b, p)
    <3>1. \/ Len(b.document) < best
          \/ Len(b.document) = best /\ b.ace_type # "deny"
      BY <1>6, <1>9
    <3>2. b.ace_type \in {"allow", "deny"}
      BY <1>3, <1>4 DEF AceTypes
    <3> QED
      BY <1>3, <1>4, <1>5, <2>1, <3>1, <3>2
  <2> QED
    BY <2>1, <2>2 DEF First
<1>10. ASSUME NEW a \in First(App, p), a.ace_type = "allow"
       PROVE  verdict = "allow"
  <2>1. a \in App /\ \A b \in App : NotAfter(a, b, p)
    BY DEF First
  <2>2. Len(a.document) <= best /\ best # -1
    BY <1>3, <1>4, <1>6, <1>8, <2>1
  <2>3. PICK b \in App : Len(b.document) = best /\ b.ace_type = verdict
    BY <1>7, <2>2
  <2>4. NotAfter(a, b, p)
    BY <2>1
  <2>5. Len(a.document) \in Nat /\ Len(b.document) \in Nat
    BY <1>3, <1>4, <2>1
  <2>6. Len(a.document) > Len(b.document) \/ b.ace_type = "allow"
    BY <1>3, <1>5, <1>10, <2>1, <2>4
  <2> QED
    BY <2>2, <2>3, <2>5, <2>6
<1>11. "allow" \in ResolveAce(p, ask.is_folder, ask.cap, ask.user) <=>
         \E a \in First(App, p) : a.ace_type = "allow"
  BY DEF ResolveAce, App
<1>12. ~(ask.user \in Superusers) /\ ~OwnerMayGrant(ask.owner, ask.cap, ask.user)
  <2>1. /\ ctx.is_superuser = (ask.user \in Superusers)
        /\ ctx.principals = EffectivePrincipals[ask.user]
    BY DEF Typed, ACtx, AclContext
  <2> QED
    BY <2>1 DEF Shortcut, OwnerMayGrant
<1> QED
  BY <1>9, <1>10, <1>11, <1>12 DEF Can, p

(* The invariant of the loop holds at the start.                           *)
LEMMA LoopInit == Init => LoopInv
BY TypedInit DEF LoopInv, LoopOK, ContextAgrees, Init

(* Every step keeps the invariant of the loop.                             *)
LEMMA LoopNext == LoopInv /\ [Next]_vars => LoopInv'
<1> SUFFICES ASSUME LoopInv, [Next]_vars PROVE LoopInv'
  OBVIOUS
<1> USE DEF LoopInv
<1>0. Typed /\ Typed'
  BY TypedNext
<1>1. ASSUME NEW call \in Questions, CanCtx(call) PROVE LoopInv'
  <2>1. /\ ask' = call /\ documents' = documents /\ aces' = aces
        /\ cuts' = ctx'.cuts /\ sources' = ctx'.sources
        /\ ctx' = AclContext(call.cap, call.user)
        /\ floor_depth' = 0 /\ best' = -1 /\ verdict' = Null
    BY <1>1 DEF CanCtx
  <2>2. CASE Shortcut(call, ctx')
    <3>1. pc' = "answered" /\ answer'
      BY <1>1, <2>2 DEF CanCtx
    <3>2. \/ ask.user' \in Superusers
          \/ OwnerMayGrant(ask.owner, ask.cap, ask.user)'
      BY <2>1, <2>2 DEF Shortcut, OwnerMayGrant, AclContext
    <3>3. ContextAgrees'
      BY <3>1, <3>2 DEF ContextAgrees, Can
    <3> QED
      BY <1>0, <3>1, <3>3 DEF LoopOK
  <2>3. CASE ~Shortcut(call, ctx')
    <3>1. pc' = "cuts"
      BY <1>1, <2>3 DEF CanCtx
    <3>2. FloorOK'
      BY <2>1 DEF FloorOK
    <3>3. ContextAgrees'
      BY <3>1 DEF ContextAgrees
    <3> QED
      BY <1>0, <2>1, <2>3, <3>1, <3>2, <3>3 DEF LoopOK
  <2> QED
    BY <2>2, <2>3
<1>2. ASSUME NEW c \in cuts, LookAtCut(c) PROVE LoopInv'
  <2>1. /\ pc = "cuts" /\ pc' = pc /\ ask' = ask /\ ctx' = ctx
        /\ cuts' = cuts \ {c} /\ sources' = sources
        /\ best' = best /\ verdict' = verdict
        /\ floor_depth' = IF Deepens(c) THEN c.depth ELSE floor_depth
    BY <1>2 DEF LookAtCut
  <2>2. c \in ctx.cuts /\ c.depth \in Nat /\ floor_depth \in Nat
        /\ \A d \in ctx.cuts : d.depth \in Nat
    BY <1>0, <2>1, ContextTyped DEF Typed, TypeOK, ACtx, Calls
  <2>3. \A d \in ctx.cuts : OnPath(d)' = OnPath(d)
    BY <2>1 DEF OnPath, Key, Depth
  <2>4. FloorOK
    BY <2>1 DEF LoopOK
  <2>5. Deepens(c) <=> OnPath(c) /\ c.depth > floor_depth
    BY DEF Deepens, OnPath
  <2>6. FloorOK'
    <3>1. ASSUME NEW d \in ctx.cuts \ (cuts \ {c}), OnPath(d)
          PROVE  d.depth <= floor_depth'
      <4>1. CASE d = c
        BY <2>1, <2>2, <2>5, <3>1, <4>1
      <4>2. CASE d # c
        BY <2>1, <2>2, <2>4, <2>5, <3>1, <4>2 DEF FloorOK
      <4> QED
        BY <4>1, <4>2
    <3>2. \/ floor_depth' = 0
          \/ \E d \in ctx.cuts : OnPath(d) /\ d.depth = floor_depth'
      BY <2>1, <2>2, <2>4, <2>5 DEF FloorOK
    <3> QED
      BY <2>1, <2>3, <3>1, <3>2 DEF FloorOK
  <2>7. ContextAgrees'
    BY <2>1 DEF ContextAgrees
  <2> QED
    BY <1>0, <2>1, <2>6, <2>7 DEF LoopOK, Shortcut
<1>3. ASSUME CutsDone PROVE LoopInv'
  <2>1. /\ pc = "cuts" /\ pc' = "sources" /\ cuts = {}
        /\ ask' = ask /\ ctx' = ctx
        /\ cuts' = cuts /\ sources' = sources /\ floor_depth' = floor_depth
        /\ best' = best /\ verdict' = verdict
    BY <1>3 DEF CutsDone, loop
  <2>2. FloorOK'
    BY <2>1 DEF LoopOK, FloorOK, OnPath, Key, Depth
  <2>3. BestOK'
    BY <2>1 DEF LoopOK, BestOK, Looked
  <2>4. ContextAgrees'
    BY <2>1 DEF ContextAgrees
  <2> QED
    BY <1>0, <2>1, <2>2, <2>3, <2>4 DEF LoopOK, Shortcut
<1>4. ASSUME NEW s \in sources, LookAtSource(s) PROVE LoopInv'
  <2>1. /\ pc = "sources" /\ pc' = pc /\ ask' = ask /\ ctx' = ctx
        /\ sources' = sources \ {s} /\ cuts' = cuts
        /\ floor_depth' = floor_depth
        /\ best' = IF Wins(s) THEN s.depth ELSE best
        /\ verdict' = IF Wins(s) THEN s.ace_type ELSE verdict
    BY <1>4 DEF LookAtSource
  <2>2. /\ s \in ctx.sources /\ best \in Int
        /\ verdict \in AceTypes \cup {Null}
        /\ \A t \in ctx.sources :
             t.depth \in Nat /\ t.depth >= 1 /\ t.ace_type \in AceTypes
    BY <1>0, <2>1, ContextTyped DEF Typed, TypeOK, ACtx, Calls
  <2>3. FloorOK /\ BestOK /\ cuts = {} /\ ~Shortcut(ask, ctx)
    BY <2>1 DEF LoopOK
  <2>4. \A t : Eligible(t)' = Eligible(t)
    BY <2>1 DEF Eligible, OnPath, Key, Depth
  <2>5. Looked' = Looked \cup {s}
    BY <2>1, <2>2 DEF Looked
  <2>6. Wins(s) <=> /\ Eligible(s)
                    /\ ~(s.depth < best)
                    /\ ~(s.depth = best /\ verdict = "deny")
                    /\ s.depth > best \/ verdict = Null \/ s.ace_type = "deny"
    BY <2>2, <1>0
       DEF Wins, Skipped, Eligible, OnPath, Typed, TypeOK, Depth
  <2>7. BestOK'
    <3> HIDE DEF LoopInv
    <3>1. CASE Wins(s)
      <4>1. best' = s.depth /\ verdict' = s.ace_type /\ Eligible(s)
        BY <2>1, <2>6, <3>1
      <4>2. ASSUME NEW t \in Looked', Eligible(t)
            PROVE  \/ t.depth < s.depth
                   \/ t.depth = s.depth
                        /\ (t.ace_type = "deny" => s.ace_type = "deny")
        BY <2>2, <2>3, <2>5, <2>6, <3>1, <4>2 DEF BestOK, Looked
      <4> QED
        BY <2>4, <2>5, <4>1, <4>2 DEF BestOK
    <3>2. CASE ~Wins(s)
      <4>1. best' = best /\ verdict' = verdict
        BY <2>1, <3>2
      <4>2. ASSUME Eligible(s)
            PROVE  \/ s.depth < best
                   \/ s.depth = best
                        /\ (s.ace_type = "deny" => verdict = "deny")
        BY <2>2, <2>6, <3>2, <4>2
      <4> QED
        BY <2>3, <2>4, <2>5, <4>1, <4>2 DEF BestOK
    <3> QED
      BY <3>1, <3>2
  <2>8. FloorOK'
    BY <2>1, <2>3 DEF FloorOK, OnPath, Key, Depth
  <2>9. ContextAgrees'
    BY <2>1 DEF ContextAgrees
  <2> QED
    BY <1>0, <2>1, <2>3, <2>7, <2>8, <2>9 DEF LoopOK, Shortcut
<1>5. ASSUME Return PROVE LoopInv'
  <2>1. /\ pc = "sources" /\ sources = {} /\ pc' = "answered" /\ ask' = ask
        /\ documents' = documents /\ aces' = aces
    BY <1>5 DEF Return
  <2>2. answer' <=> verdict = "allow"
    BY <1>5 DEF Return
  <2>3. (verdict = "allow") <=>
          Can(ask.path, ask.is_folder, ask.owner, ask.cap, ask.user)
    BY <1>0, <2>1, VerdictIsRule DEF LoopOK
  <2>4. Can(ask.path, ask.is_folder, ask.owner, ask.cap, ask.user)' =
          Can(ask.path, ask.is_folder, ask.owner, ask.cap, ask.user)
    BY <2>1 DEF Can, ResolveAce, First, Applicable, InScope, AclChain,
                Ancestors, Present
  <2>5. ContextAgrees'
    BY <2>2, <2>3, <2>4 DEF ContextAgrees
  <2> QED
    BY <1>0, <2>1, <2>5 DEF LoopOK
<1>6. ASSUME pc' = "idle" PROVE LoopInv'
  BY <1>0, <1>6 DEF LoopOK, ContextAgrees
<1>7. ASSUME UNCHANGED vars PROVE LoopInv'
  <2>1. UNCHANGED <<documents, aces, pc, ask, ctx, cuts, sources, floor_depth,
                    best, verdict, answer>>
    BY <1>7 DEF vars, loop
  <2>2. ContextAgrees'
    BY <2>1 DEF ContextAgrees, Can, ResolveAce, First, Applicable, InScope,
                AclChain, Ancestors, Present
  <2>3. LoopOK'
    BY <2>1 DEF LoopOK, FloorOK, BestOK, Looked, Eligible, OnPath, Key, Depth,
                Shortcut
  <2> QED
    BY <1>0, <2>2, <2>3
<1> QED
  BY <1>1, <1>2, <1>3, <1>4, <1>5, <1>6, <1>7
     DEF Next, EndStatement, InsertAce, UpdateAce, DeleteAce, Expire

(* can_ctx() is can(): on every tree, with every ACL, for every caller and *)
(* in whatever order the arrays come (040_authz:500-504).                  *)
THEOREM ContextIsRule == Spec => []ContextAgrees
<1>1. LoopInv => ContextAgrees
  BY DEF LoopInv
<1> QED
  BY LoopInit, LoopNext, <1>1, PTL DEF Spec

-----------------------------------------------------------------------------
(* The rule.                                                               *)

(* A set of numbers that is not empty has a least one.                     *)
LEMMA LeastNatural ==
  ASSUME NEW T \in SUBSET Nat, T # {}
  PROVE  \E m \in T : \A n \in T : m <= n
<1>1. PICK m \in T : \A n \in T : ~(<<n, m>> \in OpToRel(<, Nat))
  BY NatLessThanWellFounded, WFMin, Zenon
<1>2. \A n \in T : <<n, m>> \in OpToRel(<, Nat) <=> n < m
  BY Zenon DEF OpToRel
<1>3. \A n \in T : ~(n < m)
  BY <1>1, <1>2, Zenon
<1>4. m \in T
  BY <1>1
<1> HIDE <1>1, <1>2
<1> QED
  BY <1>3, <1>4, SMT

(* The order of the entries, said without a first one: access is allowed   *)
(* exactly if some allow is nearer than every deny.                        *)
LEMMA AllowNearerThanDenies ==
  ASSUME NEW S \in SUBSET Ace, NEW p \in Paths,
         \A a \in S : Contains(a.document, p)
  PROVE  (\E f \in First(S, p) : f.ace_type = "allow") <=>
           \E x \in S : /\ x.ace_type = "allow"
                        /\ \A y \in S : y.ace_type = "deny" =>
                             Distance(x.document, p) < Distance(y.document, p)
<1>1. \A a \in S : /\ a.document \in Paths
                   /\ a.ace_type \in {"allow", "deny"}
                   /\ Distance(a.document, p) \in Nat
  <2> TAKE a \in S
  <2>1. a.document \in Paths /\ a.ace_type \in {"allow", "deny"}
    BY DEF Ace, AceTypes
  <2>2. /\ Len(p) \in Nat /\ Len(a.document) \in Nat
        /\ Len(a.document) <= Len(p)
    BY <2>1, PathLength DEF Contains
  <2>3. Len(p) - Len(a.document) \in Nat
    BY <2>2
  <2> QED
    BY <2>1, <2>3 DEF Distance
<1>2. ASSUME NEW f \in First(S, p), f.ace_type = "allow",
             NEW y \in S, y.ace_type = "deny"
      PROVE  Distance(f.document, p) < Distance(y.document, p)
  BY <1>2 DEF First, NotAfter
<1>3. ASSUME NEW x \in S, x.ace_type = "allow",
             \A y \in S : y.ace_type = "deny" =>
               Distance(x.document, p) < Distance(y.document, p)
      PROVE  \E f \in First(S, p) : f.ace_type = "allow"
  <2> DEFINE T == {Distance(a.document, p) : a \in S}
  <2>1. T \in SUBSET Nat /\ T # {}
    BY <1>1
  <2>2. PICK m \in T : \A n \in T : m <= n
    BY <2>1, LeastNatural, Zenon
  <2>3. PICK f \in S : Distance(f.document, p) = m
    BY <2>2
  <2>4. \A b \in S : m <= Distance(b.document, p)
    BY <2>2
  <2>5. \A b \in S : Distance(b.document, p) = m => b.ace_type = "allow"
    <3> TAKE b \in S
    <3> HAVE Distance(b.document, p) = m
    <3>1. m <= Distance(x.document, p)
      BY <2>4
    <3>2. b.ace_type # "deny"
      <4> HIDE DEF T
      <4> SUFFICES ASSUME b.ace_type = "deny" PROVE FALSE
        OBVIOUS
      <4>1. Distance(x.document, p) < Distance(b.document, p)
        BY <1>3
      <4> QED
        BY <1>1, <3>1, <4>1
    <3> QED
      BY <1>1, <3>2
  <2>6. \A b \in S : NotAfter(f, b, p)
    BY <1>1, <2>3, <2>4, <2>5 DEF NotAfter
  <2> QED
    BY <2>3, <2>5, <2>6 DEF First
<1> QED
  BY <1>2, <1>3 DEF First

(* The verdict on a row, in those terms.                                   *)
Nearer(x, y, p) == Distance(x.document, p) < Distance(y.document, p)

(* An allow decides where it is nearer than every deny.                    *)
LEMMA RowAllowed ==
  ASSUME TypeOK, NEW p \in Paths, NEW is_folder, NEW cap, NEW u
  PROVE  "allow" \in ResolveAce(p, is_folder, cap, u) <=>
           \E x \in Applicable(p, is_folder, cap, u) :
             /\ x.ace_type = "allow"
             /\ \A y \in Applicable(p, is_folder, cap, u) :
                  y.ace_type = "deny" => Nearer(x, y, p)
<1> DEFINE S == Applicable(p, is_folder, cap, u)
<1>1. S \in SUBSET Ace /\ \A a \in S : Contains(a.document, p)
  BY TablesTyped DEF Applicable, InScope, AclChain, Ancestors
<1>2. "allow" \in ResolveAce(p, is_folder, cap, u) <=>
        \E f \in First(S, p) : f.ace_type = "allow"
  BY DEF ResolveAce
<1> HIDE DEF S
<1>3. (\E f \in First(S, p) : f.ace_type = "allow") <=>
        \E x \in S : /\ x.ace_type = "allow"
                     /\ \A y \in S : y.ace_type = "deny" => Nearer(x, y, p)
  BY <1>1, AllowNearerThanDenies DEF Nearer
<1> QED
  BY <1>2, <1>3 DEF S

(* Requirements.                                                           *)
LEMMA RequiresHoldTyped == TypeOK => RequiresHold
<1> SUFFICES ASSUME TypeOK, NEW u \in Subjects, NEW p \in Present,
                    NEW r \in Requires, CanRow(p, r[1], u),
                    ~OwnerMayGrant(documents[p].owner_id, r[1], u),
                    u \notin Superusers
             PROVE  CanRow(p, r[2], u)
  BY DEF RequiresHold, CanRow, Can
<1> DEFINE f == documents[p].is_folder
           A == Applicable(p, f, r[1], u)
           B == Applicable(p, f, r[2], u)
<1>1. /\ p \in Paths /\ r[1] \in Capabilities /\ r[2] \in Capabilities
      /\ <<r[1], r[2]>> \in Requires
  <2>1. p \in Paths
    BY TablesTyped
  <2>2. Requires \subseteq Capabilities \X Capabilities
    BY AclAssumption
  <2> QED
    BY <2>1, <2>2
<1>2. \A a \in aces : a.role \in Roles /\ a.ace_type \in AceTypes
  BY TablesTyped DEF Ace
<1>3. \A a \in A : a.ace_type = "allow" => a \in B
  BY <1>1, <1>2, CoversRequired DEF Applicable, InScope
<1>4. \A b \in B : b.ace_type = "deny" => b \in A
  BY <1>1, <1>2, CoversRequired DEF Applicable, InScope
<1>5. "allow" \in ResolveAce(p, f, r[1], u)
  BY DEF CanRow, Can
<1>6. PICK x \in A : /\ x.ace_type = "allow"
                     /\ \A y \in A : y.ace_type = "deny" => Nearer(x, y, p)
  BY <1>1, <1>5, RowAllowed
<1>7. \E z \in B : /\ z.ace_type = "allow"
                   /\ \A y \in B : y.ace_type = "deny" => Nearer(z, y, p)
  BY <1>3, <1>4, <1>6
<1>8. "allow" \in ResolveAce(p, f, r[2], u)
  BY <1>1, <1>7, RowAllowed
<1> QED
  BY <1>8 DEF CanRow, Can

(* Whoever may do something may do what it requires, in every wiki         *)
(* (tables/020:24-36).                                                     *)
THEOREM RequirementsHold == Spec => []RequiresHold
BY TypeCorrect, RequiresHoldTyped, PTL

(* Traversal.                                                              *)
LEMMA TraverseAgreesTyped == TypeOK => TraverseAgrees
<1> SUFFICES ASSUME TypeOK, NEW u \in Subjects \ Superusers,
                    NEW p \in Present, NEW cap \in Capabilities
             PROVE  CanTraverse(p, cap, u) <=>
                      \E d \in Present : Below(d, p) /\ CanRow(d, cap, u)
  BY DEF TraverseAgrees
<1>1. ASSUME CanTraverse(p, cap, u)
      PROVE  \E d \in Present : Below(d, p) /\ CanRow(d, cap, u)
  BY <1>1 DEF CanTraverse, CanRow, Can
<1>2. ASSUME NEW d \in Present, Below(d, p), CanRow(d, cap, u)
      PROVE  CanTraverse(p, cap, u)
  <2>1. CASE OwnerMayGrant(documents[d].owner_id, cap, u)
    BY <1>2, <2>1 DEF CanTraverse
  <2>2. CASE "allow" \in ResolveAce(d, documents[d].is_folder, cap, u)
    <3>1. PICK a \in Applicable(d, documents[d].is_folder, cap, u) :
            a.ace_type = "allow"
      BY <2>2 DEF ResolveAce, First
    <3>2. /\ a \in aces /\ Named(a, u) /\ AceCovers(a.role, cap, "allow")
          /\ Contains(a.document, d)
      BY <3>1 DEF Applicable, InScope, AclChain, Ancestors
    <3> QED
      BY <1>2, <3>1, <3>2 DEF CanTraverse
  <2> QED
    BY <1>2, <2>1, <2>2 DEF CanRow, Can
<1> QED
  BY <1>1, <1>2

(* can_traverse() finds exactly what has something reachable below it      *)
(* (040_authz:730-733).                                                    *)
THEOREM TraverseIsExact == Spec => []TraverseAgrees
BY TypeCorrect, TraverseAgreesTyped, PTL

(* The mount.                                                              *)
(* What a path is below is shorter than it.                                *)
LEMMA BelowIsLonger ==
  ASSUME NEW p \in Paths, NEW f \in Paths, Below(p, f)
  PROVE  Len(f) < Len(p)
<1>1. Len(p) \in Nat /\ Len(f) \in Nat /\ p \in Seq(Labels)
  BY PathLength
<1>2. Len(f) <= Len(p) /\ f = [i \in 1..Len(f) |-> p[i]] /\ f # p
  BY DEF Below, Contains, Subpath
<1>3. Len(f) # Len(p)
  <2> SUFFICES ASSUME Len(f) = Len(p) PROVE f = p
    BY <1>2
  <2>1. f = [i \in 1..Len(p) |-> p[i]]
    BY <1>2
  <2> QED
    BY <1>1, <2>1
<1> QED
  BY <1>1, <1>2, <1>3

(* What is syncable under a folder makes the folder syncable.              *)
LEMMA SyncableAbove ==
  ASSUME TypeOK, NEW u \in Subjects, NEW q \in Present,
         documents[q].is_folder, ~documents[q].retired,
         \/ u \in Superusers
         \/ \E d \in Present : Below(d, q) /\ CanRow(d, "sync", u)
  PROVE  q \in SyncableDocument(u)
<1>1. CanTraverse(q, "sync", u) /\ CanTraverse(q, "read", u)
  <2>1. CASE u \in Superusers
    BY <2>1 DEF CanTraverse
  <2>2. CASE u \notin Superusers
    <3>1. PICK d \in Present : Below(d, q) /\ CanRow(d, "sync", u)
      BY <2>2
    <3>2. ~OwnerMayGrant(documents[d].owner_id, "sync", u)
      BY DEF OwnerMayGrant
    <3>3. CanRow(d, "read", u)
      <4>1. <<"sync", "read">> \in Requires
        BY AclAssumption
      <4>2. \A r \in Requires : CanRow(d, r[1], u) =>
              CanRow(d, r[2], u) \/ OwnerMayGrant(documents[d].owner_id, r[1], u)
        BY RequiresHoldTyped DEF RequiresHold
      <4> QED
        BY <3>1, <3>2, <4>1, <4>2
    <3>4. "sync" \in Capabilities /\ "read" \in Capabilities
      BY AclAssumption
    <3> QED
      BY <2>2, <3>1, <3>3, <3>4, TraverseAgreesTyped DEF TraverseAgrees
  <2> QED
    BY <2>1, <2>2
<1> QED
  BY <1>1 DEF SyncableDocument, CurrentDocument, DocumentSelect

(* FoldersLeadOn follows from the types.                                   *)
LEMMA FoldersLeadOnTyped == TypeOK => FoldersLeadOn
<1> SUFFICES ASSUME TypeOK, NEW u \in Subjects,
                    NEW p \in SyncableDocument(u), NEW f \in Present,
                    Below(p, f), documents[f].is_folder, ~documents[f].retired
             PROVE  f \in SyncableDocument(u)
  BY DEF FoldersLeadOn
<1>1. p \in Present /\ Present \subseteq Paths
  BY TablesTyped DEF SyncableDocument, CurrentDocument
<1>2. p \in Paths /\ f \in Paths /\ Len(f) < Len(p)
  BY <1>1, BelowIsLonger
<1>3. \/ u \in Superusers
      \/ \E d \in Present : Below(d, f) /\ CanRow(d, "sync", u)
  <2>1. CASE CanRow(p, "sync", u)
    BY <1>1, <2>1
  <2>2. CASE CanTraverse(p, "sync", u) /\ u \notin Superusers
    <3>1. "sync" \in Capabilities
      BY AclAssumption
    <3>2. PICK d \in Present : Below(d, p) /\ CanRow(d, "sync", u)
      BY <1>1, <2>2, <3>1, TraverseAgreesTyped DEF TraverseAgrees
    <3>3. d \in Paths /\ Contains(p, d) /\ Contains(f, p)
      BY <1>1, <3>2 DEF Below
    <3>4. Contains(f, d)
      BY <1>2, <3>3, ContainsTransitive
    <3>5. Len(p) <= Len(d)
      BY <3>3 DEF Contains
    <3>6. d # f
      BY <1>2, <3>3, <3>5, PathLength
    <3> QED
      BY <3>2, <3>4, <3>6 DEF Below
  <2> QED
    BY <2>1, <2>2 DEF SyncableDocument
<1> QED
  BY <1>3, SyncableAbove

(* Every live folder above what a client may mirror is in its mirror, on   *)
(* every tree: also where a page lies below a page, or a document above    *)
(* is retired (070_views:77-78, 080:243-273).                              *)
THEOREM FoldersAlwaysLeadOn == Spec => []FoldersLeadOn
BY TypeCorrect, FoldersLeadOnTyped, PTL

(* Edits.                                                                  *)
RowsAllowed ==
  \A p \in Paths, is_folder \in BOOLEAN, cap \in Capabilities, u \in Subjects :
    "allow" \in ResolveAce(p, is_folder, cap, u) <=>
      \E x \in Applicable(p, is_folder, cap, u) :
        /\ x.ace_type = "allow"
        /\ \A y \in Applicable(p, is_folder, cap, u) :
             y.ace_type = "deny" => Nearer(x, y, p)

(* RowsAllowed follows from the types.                                     *)
LEMMA RowsAllowedTyped == TypeOK => RowsAllowed
BY RowAllowed DEF RowsAllowed

(* No step changes a document.                                             *)
LEMMA DocumentsFixed == [Next]_vars => UNCHANGED documents
BY DEF Next, vars, loop, CanCtx, LookAtCut, CutsDone, LookAtSource, Return,
       EndStatement, InsertAce, UpdateAce, DeleteAce, Expire

(* What applied and is still there and live applies after the edit.        *)
LEMMA ApplicableAfter ==
  ASSUME UNCHANGED documents, NEW p, NEW f, NEW cap, NEW u
  PROVE  /\ Applicable(p, f, cap, u) \cap aces' \subseteq
              Applicable(p, f, cap, u)'
         /\ Applicable(p, f, cap, u)' \cap aces \subseteq
              Applicable(p, f, cap, u)
         /\ Applicable(p, f, cap, u) \subseteq Live(aces)
         /\ Applicable(p, f, cap, u)' \subseteq Live(aces')
<1>1. \A q : AclChain(q)' = AclChain(q)
  BY DEF AclChain, Ancestors, Present
<1> QED
  BY <1>1 DEF Applicable, InScope, Named, Live

(* What an edit of the ACL adds and takes away, for one question.          *)
LEMMA MonotoneStep ==
  ASSUME RowsAllowed, RowsAllowed', UNCHANGED documents,
         Present \subseteq Paths, \A d \in Present : documents[d] \in Document,
         NEW u \in Subjects, NEW p \in Present, NEW cap \in Capabilities
  PROVE  LET gained == Live(aces') \ Live(aces)
             lost   == Live(aces) \ Live(aces')
         IN /\ AllOf("allow", gained) /\ AllOf("deny", lost) =>
                 (CanRow(p, cap, u) => CanRow(p, cap, u)')
            /\ AllOf("deny", gained) /\ AllOf("allow", lost) =>
                 (CanRow(p, cap, u)' => CanRow(p, cap, u))
<1> DEFINE gained == Live(aces') \ Live(aces)
           lost   == Live(aces) \ Live(aces')
           f == documents[p].is_folder
           A == Applicable(p, f, cap, u)
           B == Applicable(p, f, cap, u)'
<1>1. p \in Paths /\ f \in BOOLEAN
  BY DEF Document
<1>2. /\ A \subseteq Live(aces) /\ B \subseteq Live(aces')
      /\ A \cap Live(aces') \subseteq B /\ B \cap Live(aces) \subseteq A
  BY ApplicableAfter DEF Live
<1>3. "allow" \in ResolveAce(p, f, cap, u) <=>
        \E x \in A : /\ x.ace_type = "allow"
                     /\ \A y \in A : y.ace_type = "deny" => Nearer(x, y, p)
  BY <1>1 DEF RowsAllowed
<1>4. "allow" \in ResolveAce(p, f, cap, u)' <=>
        \E x \in B : /\ x.ace_type = "allow"
                     /\ \A y \in B : y.ace_type = "deny" => Nearer(x, y, p)
  BY <1>1 DEF RowsAllowed, Nearer, Distance
<1>5. /\ CanRow(p, cap, u) <=>
           \/ u \in Superusers
           \/ OwnerMayGrant(documents[p].owner_id, cap, u)
           \/ "allow" \in ResolveAce(p, f, cap, u)
      /\ CanRow(p, cap, u)' <=>
           \/ u \in Superusers
           \/ OwnerMayGrant(documents[p].owner_id, cap, u)
           \/ "allow" \in ResolveAce(p, f, cap, u)'
  BY DEF CanRow, Can, OwnerMayGrant
<1> HIDE DEF A, B, f
<1>6. ASSUME AllOf("allow", gained), AllOf("deny", lost), CanRow(p, cap, u)
      PROVE  CanRow(p, cap, u)'
  <2>1. /\ \A x \in A : x.ace_type = "allow" => x \in B
        /\ \A y \in B : y.ace_type = "deny" => y \in A
    BY <1>2, <1>6 DEF AllOf
  <2> QED
    BY <1>3, <1>4, <1>5, <1>6, <2>1
<1>7. ASSUME AllOf("deny", gained), AllOf("allow", lost), CanRow(p, cap, u)'
      PROVE  CanRow(p, cap, u)
  <2>1. /\ \A x \in B : x.ace_type = "allow" => x \in A
        /\ \A y \in A : y.ace_type = "deny" => y \in B
    BY <1>2, <1>7 DEF AllOf
  <2> QED
    BY <1>3, <1>4, <1>5, <1>7, <2>1
<1> QED
  BY <1>6, <1>7

(* Adding allows and removing denies never takes access away, and the      *)
(* other way round never gives it, anywhere in the tree (040_authz:409-420).*)
THEOREM EditsMonotone == Spec => EditsAreMonotone
<1>1. TypeOK /\ RowsAllowed /\ RowsAllowed' /\ [Next]_vars =>
        [\A u \in Subjects, p \in Present, cap \in Capabilities :
           LET gained == Live(aces') \ Live(aces)
               lost   == Live(aces) \ Live(aces')
           IN /\ AllOf("allow", gained) /\ AllOf("deny", lost) =>
                   (CanRow(p, cap, u) => CanRow(p, cap, u)')
              /\ AllOf("deny", gained) /\ AllOf("allow", lost) =>
                   (CanRow(p, cap, u)' => CanRow(p, cap, u))]_aces
  BY TablesTyped, DocumentsFixed, MonotoneStep
<1> QED
  BY <1>1, TypeCorrect, RowsAllowedTyped, PTL DEF Spec, EditsAreMonotone
=============================================================================
