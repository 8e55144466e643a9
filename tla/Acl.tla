-------------------------------- MODULE Acl --------------------------------
(***************************************************************************)
(* Authorization (runtime/040_authz.sql).  The rule is can(): the access   *)
(* control entry nearest the document wins, deny before allow at equal     *)
(* distance, and nothing means no.  The policies that filter reads do not  *)
(* ask it: they build an acl_context once per statement and let can_ctx()  *)
(* answer every row from that, in a loop over two arrays whose order is    *)
(* whatever array_agg produced.  This module has both: the rule as         *)
(* operators, the loop as a state machine that may take the arrays in any  *)
(* order.  In between, whoever holds `grant' edits the ACL and time passes.*)
(*                                                                         *)
(* A statement reads one snapshot, so the ACL does not change while a call *)
(* of can_ctx() is running.  Documents are fixed; every tree of Trees is a *)
(* possible one, moved, blocked and retired documents and pages below      *)
(* pages included.                                                         *)
(***************************************************************************)
EXTENDS Integers, Sequences, FiniteSets

CONSTANTS
  Principals,      \* rows of wiki.principal: users and groups
  Public,          \* the group everybody is in
  MemberOf,        \* rows of group_member, as pairs <<member, group>>
  Subjects,        \* callers: a user, nobody, or somebody with these groups
  Seeds,           \* [Subjects -> SUBSET Principals]: what a caller starts from
  Superusers,      \* active accounts with is_superuser
  Editors,         \* callers with INSERT and DELETE on wiki.ace
  Null,            \* SQL's null, of an owner and of a verdict
  Capabilities,
  Requires,        \* rows of capability_requires, as pairs <<cap, requires>>
  Roles,
  RoleCapability,  \* rows of role_capability
  RoleInherits,    \* rows of role_inherits
  Labels, Paths,   \* paths are sequences of labels
  Trees,           \* the trees a run starts from
  Entries,         \* the entries an editor may add
  Questions,       \* the calls of can_ctx that clients' reads lead to
  MaxAces          \* bound on the rows of wiki.ace

AceTypes == {"allow", "deny"}

Ace == [document: Paths, principal: Principals, role: Roles,
        ace_type: AceTypes, inherit_only: BOOLEAN,
        container_inherit: BOOLEAN, object_inherit: BOOLEAN,
        no_propagate: BOOLEAN, expired: BOOLEAN]

AppliesSomewhere(a) ==
  ~a.inherit_only \/ a.container_inherit \/ a.object_inherit

SameKey(a, b) ==
  /\ a.document = b.document
  /\ a.principal = b.principal
  /\ a.role = b.role
  /\ a.ace_type = b.ace_type

(* The group public may not own a document.                                *)
Document ==
  [is_folder: BOOLEAN, owner_id: (Principals \ {Public}) \cup {Null},
   inheritance_blocked: BOOLEAN, retired: BOOLEAN]

-----------------------------------------------------------------------------
(* Paths.                                                                  *)

Subpath(p, n) == [i \in 1..n |-> p[i]]

(* q @> p: q is p or an ancestor of it.                                    *)
Contains(q, p) == Len(q) <= Len(p) /\ q = Subpath(p, Len(q))

Below(p, q) == Contains(q, p) /\ p # q

-----------------------------------------------------------------------------
(* Recursive queries: the least set that holds S and is closed under R.    *)

Closed(R, S) == \A e \in R : e[1] \in S => e[2] \in S

Reach(R, All, S) ==
  {x \in All : \A T \in SUBSET All : S \subseteq T /\ Closed(R, T) => x \in T}

Backwards(R) == {<<e[2], e[1]>> : e \in R}

EffectivePrincipals ==
  [u \in Subjects |-> Reach(MemberOf, Principals, Seeds[u] \cup {Public})]

RoleCapabilities ==
  [r \in Roles |-> {rc[2] : rc \in
     {x \in RoleCapability : x[1] \in Reach(RoleInherits, Roles, {r})}}]

CapabilityDownward ==
  [c \in Capabilities |-> Reach(Requires, Capabilities, {c})]

(* Mutant: one closure for both directions.                                *)
CapabilityRequired ==
  [c \in Capabilities |-> Reach(Requires, Capabilities, {c})]

CapabilityUpward ==
  [c \in Capabilities |-> Reach(Backwards(Requires), Capabilities, {c})]

(* An allow covers what its capabilities require, a deny what requires     *)
(* them.                                                                   *)
AceCoversUncached(r, cap, type) ==
  \E c \in RoleCapabilities[r] :
    IF type = "allow" THEN cap \in CapabilityDownward[c]
                      ELSE cap \in CapabilityUpward[c]

AceClosure ==
  {x \in Roles \X Capabilities \X AceTypes :
     AceCoversUncached(x[1], x[2], x[3])}

AceCovers(r, cap, type) == <<r, cap, type>> \in AceClosure

(* The arguments of can_ctx.                                               *)
Calls ==
  [user: Subjects, cap: Capabilities, path: Paths, is_folder: BOOLEAN,
   owner: (Principals \ {Public}) \cup {Null}]

ASSUME AclAssumption ==
  /\ Public \in Principals
  /\ MemberOf \subseteq Principals \X Principals
  /\ Seeds \in [Subjects -> SUBSET Principals]
  /\ Superusers \subseteq Subjects
  /\ Null \notin AceTypes \cup Principals
  /\ {"read", "sync", "grant"} \subseteq Capabilities
  /\ Requires \subseteq Capabilities \X Capabilities
  /\ <<"sync", "read">> \in Requires
  /\ RoleCapability \subseteq Roles \X Capabilities
  /\ RoleInherits \subseteq Roles \X Roles
  /\ Paths \subseteq Seq(Labels) \ {<<>>}
  /\ \A t \in Trees :
       /\ DOMAIN t \subseteq Paths
       /\ t \in [DOMAIN t -> Document]
  /\ Entries \subseteq Ace
  /\ \A e \in Entries : AppliesSomewhere(e)
  /\ Questions \subseteq Calls
  /\ MaxAces \in Nat

-----------------------------------------------------------------------------
VARIABLES
  documents,   \* path -> Document
  aces,        \* rows of wiki.ace
  pc,          \* where the call of can_ctx is
  ask,         \* its arguments
  ctx,         \* its context
  cuts,        \* cuts the loop has not looked at
  sources,     \* sources the loop has not looked at
  floor_depth, best, verdict, answer

loop == <<cuts, sources, floor_depth, best, verdict, answer>>
vars == <<documents, aces, pc, ask, ctx, loop>>

Present == DOMAIN documents

(* The ancestors of p that have a row, from the nearest that blocks        *)
(* inheritance down.                                                       *)
Ancestors(p) == {d \in Present : Contains(d, p)}

Distance(d, p) == Len(p) - Len(d)

AclChain(p) ==
  {d \in Ancestors(p) : \A b \in Ancestors(p) :
     documents[b].inheritance_blocked => Distance(d, p) <= Distance(b, p)}

Inherits(a, is_folder) ==
  IF is_folder THEN a.container_inherit ELSE a.object_inherit

(* Does entry a, at this distance, apply at all?                           *)
Applies(a, distance, is_folder) ==
  IF distance = 0
  THEN ~a.inherit_only
  ELSE Inherits(a, is_folder) /\ (~a.no_propagate \/ distance = 1)

Named(a, u) == a.principal \in EffectivePrincipals[u] /\ ~a.expired

InScope(p, is_folder, u) ==
  {a \in aces : /\ a.document \in AclChain(p)
                /\ Named(a, u)
                /\ Applies(a, Distance(a.document, p), is_folder)}

Applicable(p, is_folder, cap, u) ==
  {a \in InScope(p, is_folder, u) : AceCovers(a.role, cap, a.ace_type)}

(* ORDER BY distance, deny first.                                          *)
NotAfter(a, b, p) ==
  \/ Distance(a.document, p) < Distance(b.document, p)
  \/ /\ Distance(a.document, p) = Distance(b.document, p)
     /\ a.ace_type = "deny" \/ b.ace_type = "allow"

First(S, p) == {a \in S : \A b \in S : NotAfter(a, b, p)}

(* Mutant: the nearest entry is chosen before it is asked what it covers.  *)
ResolveNearest(p, is_folder, cap, u) ==
  {a.ace_type : a \in {x \in First(InScope(p, is_folder, u), p) :
                         AceCovers(x.role, cap, x.ace_type)}}

(* The verdict, as a set with at most one member: empty is null.           *)
ResolveAce(p, is_folder, cap, u) ==
  {a.ace_type : a \in First(Applicable(p, is_folder, cap, u), p)}

OwnerMayGrant(owner, cap, u) ==
  cap = "grant" /\ owner \in EffectivePrincipals[u]

Can(p, is_folder, owner, cap, u) ==
  \/ u \in Superusers
  \/ OwnerMayGrant(owner, cap, u)
  \/ "allow" \in ResolveAce(p, is_folder, cap, u)

CanRow(p, cap, u) ==
  Can(p, documents[p].is_folder, documents[p].owner_id, cap, u)

HasCapability(p, cap, u) == p \in Present /\ CanRow(p, cap, u)

-----------------------------------------------------------------------------
(* The same rule, derived once per statement.                              *)

Listed(cap, u) ==
  {a \in aces : Named(a, u) /\ AceCovers(a.role, cap, a.ace_type)}

(* path_key is a hash; a path stands for its own.                          *)
Source(a) ==
  [prefix |-> a.document, depth |-> Len(a.document), ace_type |-> a.ace_type,
   inherit_only |-> a.inherit_only,
   container_inherit |-> a.container_inherit,
   object_inherit |-> a.object_inherit, no_propagate |-> a.no_propagate]

Cut(d) == [prefix |-> d, depth |-> Len(d)]

(* Mutant: containment the wrong way round.                                *)
BlockingAbove(cap, u) ==
  {d \in Present : /\ documents[d].inheritance_blocked
                   /\ \E a \in Listed(cap, u) : Below(a.document, d)}

Blocking(cap, u) ==
  {d \in Present : /\ documents[d].inheritance_blocked
                   /\ \E a \in Listed(cap, u) : Below(d, a.document)}

AclContext(cap, u) ==
  [is_superuser |-> u \in Superusers,
   principals   |-> EffectivePrincipals[u],
   sources      |-> {Source(a) : a \in Listed(cap, u)},
   cuts         |-> {Cut(d) : d \in Blocking(cap, u)}]

Key(depth) == Subpath(ask.path, depth)

Depth == Len(ask.path)

(* The call returns before it looks at an entry.                           *)
Shortcut(call, c) ==
  c.is_superuser \/ (call.cap = "grant" /\ call.owner \in c.principals)

(* A row that is being inserted is not there yet in the snapshot its own   *)
(* policies are evaluated in.                                              *)
RowsOwn(call) ==
  call.path \in Present =>
    /\ call.is_folder = documents[call.path].is_folder
    /\ call.owner = documents[call.path].owner_id

CanCtx(call) ==
  LET c == AclContext(call.cap, call.user) IN
  /\ pc = "idle"
  /\ RowsOwn(call)
  /\ ask' = call
  /\ ctx' = c
  /\ cuts' = c.cuts
  /\ sources' = c.sources
  /\ floor_depth' = 0
  /\ best' = -1
  /\ verdict' = Null
  /\ answer' = Shortcut(call, c)
  /\ pc' = IF Shortcut(call, c) THEN "answered" ELSE "cuts"
  /\ UNCHANGED <<documents, aces>>

Deepens(c) ==
  c.depth <= Depth /\ c.depth > floor_depth /\ c.prefix = Key(c.depth)

LookAtCut(c) ==
  /\ pc = "cuts"
  /\ c \in cuts
  /\ cuts' = cuts \ {c}
  /\ floor_depth' = IF Deepens(c) THEN c.depth ELSE floor_depth
  /\ UNCHANGED <<documents, aces, pc, ask, ctx, sources, best, verdict, answer>>

CutsDone ==
  /\ pc = "cuts"
  /\ cuts = {}
  /\ pc' = "sources"
  /\ UNCHANGED <<documents, aces, ask, ctx, loop>>

Skipped(s) ==
  \/ s.depth < floor_depth \/ s.depth > Depth \/ s.depth < best
  \/ s.depth = best /\ verdict = "deny"

Wins(s) ==
  /\ ~Skipped(s)
  /\ Applies(s, Depth - s.depth, ask.is_folder)
  /\ s.prefix = Key(s.depth)
  /\ s.depth > best \/ verdict = Null \/ s.ace_type = "deny"

LookAtSource(s) ==
  /\ pc = "sources"
  /\ s \in sources
  /\ sources' = sources \ {s}
  /\ best' = IF Wins(s) THEN s.depth ELSE best
  /\ verdict' = IF Wins(s) THEN s.ace_type ELSE verdict
  /\ UNCHANGED <<documents, aces, pc, ask, ctx, cuts, floor_depth, answer>>

Return ==
  /\ pc = "sources"
  /\ sources = {}
  /\ answer' = (verdict = "allow")
  /\ pc' = "answered"
  /\ UNCHANGED <<documents, aces, ask, ctx, cuts, sources, floor_depth, best,
                 verdict>>

NoCall == [user |-> Null]

EndStatement ==
  /\ pc = "answered"
  /\ pc' = "idle"
  /\ ask' = NoCall
  /\ ctx' = NoCall
  /\ cuts' = {}
  /\ sources' = {}
  /\ floor_depth' = 0
  /\ best' = -1
  /\ verdict' = Null
  /\ answer' = FALSE
  /\ UNCHANGED <<documents, aces>>

-----------------------------------------------------------------------------
(* Editing the ACL.                                                        *)

(* Mutant: no unique key.                                                  *)
AddableTwice(S, e) == e \in Entries /\ e.document \in Present

Addable(S, e) ==
  /\ e \in Entries
  /\ e.document \in Present
  /\ \A a \in S : ~SameKey(a, e)

InsertAce(u, e) ==
  /\ pc = "idle"
  /\ Cardinality(aces) < MaxAces
  /\ HasCapability(e.document, "grant", u)
  /\ Addable(aces, e)
  /\ aces' = aces \cup {e}
  /\ UNCHANGED <<documents, pc, ask, ctx, loop>>

UpdateAce(u, a, e) ==
  /\ pc = "idle"
  /\ a \in aces
  /\ HasCapability(a.document, "grant", u)
  /\ HasCapability(e.document, "grant", u)
  /\ Addable(aces \ {a}, e)
  /\ aces' = (aces \ {a}) \cup {e}
  /\ UNCHANGED <<documents, pc, ask, ctx, loop>>

DeleteAce(u, a) ==
  /\ pc = "idle"
  /\ a \in aces
  /\ HasCapability(a.document, "grant", u)
  /\ aces' = aces \ {a}
  /\ UNCHANGED <<documents, pc, ask, ctx, loop>>

Expire(a) ==
  /\ pc = "idle"
  /\ a \in aces
  /\ ~a.expired
  /\ aces' = (aces \ {a}) \cup {[a EXCEPT !.expired = TRUE]}
  /\ UNCHANGED <<documents, pc, ask, ctx, loop>>

Init ==
  /\ documents \in Trees
  /\ aces = {}
  /\ pc = "idle"
  /\ ask = NoCall
  /\ ctx = NoCall
  /\ cuts = {}
  /\ sources = {}
  /\ floor_depth = 0
  /\ best = -1
  /\ verdict = Null
  /\ answer = FALSE

Next ==
  \/ \E call \in Questions : CanCtx(call)
  \/ \E c \in cuts : LookAtCut(c)
  \/ CutsDone
  \/ \E s \in sources : LookAtSource(s)
  \/ Return
  \/ EndStatement
  \/ \E u \in Editors, e \in Entries : InsertAce(u, e)
  \/ \E u \in Editors, a \in aces, e \in Entries : UpdateAce(u, a, e)
  \/ \E u \in Editors, a \in aces : DeleteAce(u, a)
  \/ \E a \in aces : Expire(a)

Spec == Init /\ [][Next]_vars

-----------------------------------------------------------------------------
(* What the policies and views show.                                       *)

(* Mutant: without the owner's arm.                                        *)
CanTraverseEntries(p, cap, u) ==
  \/ u \in Superusers
  \/ \E a \in aces, d \in Present :
       /\ a.ace_type = "allow"
       /\ Named(a, u)
       /\ AceCovers(a.role, cap, "allow")
       /\ Below(d, p)
       /\ Contains(a.document, d)
       /\ CanRow(d, cap, u)

(* Driven from the caller's allow entries; can_ctx() decides each, and     *)
(* ContextAgrees says what it answers.                                     *)
CanTraverse(p, cap, u) ==
  \/ u \in Superusers
  \/ \E a \in aces, d \in Present :
       /\ a.ace_type = "allow"
       /\ Named(a, u)
       /\ AceCovers(a.role, cap, "allow")
       /\ Below(d, p)
       /\ Contains(a.document, d)
       /\ CanRow(d, cap, u)
  \/ \E d \in Present :
       Below(d, p) /\ OwnerMayGrant(documents[d].owner_id, cap, u)

(* Mutant: no traversal.                                                   *)
DocumentSelectRead(p, u) == CanRow(p, "read", u)

DocumentSelect(p, u) ==
  \/ CanRow(p, "read", u)
  \/ documents[p].is_folder /\ CanTraverse(p, "read", u)

CurrentDocument(u) ==
  {p \in Present : DocumentSelect(p, u) /\ ~documents[p].retired}

SyncableDocument(u) ==
  {p \in CurrentDocument(u) :
     \/ CanRow(p, "sync", u)
     \/ documents[p].is_folder /\ CanTraverse(p, "sync", u)}

-----------------------------------------------------------------------------
(* Properties.                                                             *)

ContextType ==
  [is_superuser: BOOLEAN, principals: SUBSET Principals,
   sources: SUBSET {Source(a) : a \in Ace}, cuts: SUBSET {Cut(d) : d \in Paths}]

(* The types of the tables and of can_ctx's variables.  The key of wiki.ace *)
(* holds.                                                                   *)
TypeOK ==
  /\ documents \in Trees
  /\ aces \subseteq Ace
  /\ \A a, b \in aces : SameKey(a, b) => a = b
  /\ \A a \in aces : a.document \in Present /\ AppliesSomewhere(a)
  /\ pc \in {"idle", "cuts", "sources", "answered"}
  /\ pc = "idle" \/ (ask \in Calls /\ RowsOwn(ask))
  /\ best \in Int /\ floor_depth \in Nat
  /\ verdict \in AceTypes \cup {Null}
  /\ answer \in BOOLEAN

(* can_ctx() answers what can() answers, whatever the order of its arrays: *)
(* for every caller, capability and row, and for the row that an INSERT    *)
(* ... RETURNING is about to add (040_authz:500-504).                      *)
ContextAgrees ==
  pc = "answered" =>
    (answer <=> Can(ask.path, ask.is_folder, ask.owner, ask.cap, ask.user))

(* Whoever may do something may do all that it requires, however many      *)
(* entries of however many groups the access comes from                    *)
(* (tables/020:24-36).  The exception is the owner's standing grant, which *)
(* does not come from an entry.                                            *)
RequiresHold ==
  \A u \in Subjects, p \in Present : \A r \in Requires :
    CanRow(p, r[1], u) =>
      CanRow(p, r[2], u) \/ OwnerMayGrant(documents[p].owner_id, r[1], u)

(* can_traverse(), which looks only below the caller's allow entries, is   *)
(* true exactly of what has something below it that the caller can reach   *)
(* (040_authz:730-733).                                                    *)
TraverseAgrees ==
  \A u \in Subjects \ Superusers, p \in Present, cap \in Capabilities :
    CanTraverse(p, cap, u) <=>
      \E d \in Present : Below(d, p) /\ CanRow(d, cap, u)

(* What a client may mirror leads all the way down by folders: whatever is *)
(* in syncable_document, every live folder above it is in it too, however  *)
(* far above and whatever lies between (070_views:77-78).  A page above it *)
(* need not be: push makes pages below pages (080:243-273), and such a     *)
(* page may be retired or kept off the mirror.                             *)
FoldersLeadOn ==
  \A u \in Subjects : \A p \in SyncableDocument(u), f \in Present :
    Below(p, f) /\ documents[f].is_folder /\ ~documents[f].retired =>
      f \in SyncableDocument(u)

Live(S) == {a \in S : ~a.expired}

AllOf(type, S) == \A a \in S : a.ace_type = type

(* An edit that only adds allows and removes denies takes nothing from     *)
(* anybody, and one that only adds denies and removes allows gives nothing *)
(* to anybody, at any document.  Time passing counts as a removal.         *)
EditsAreMonotone ==
  [][LET gained == Live(aces') \ Live(aces)
         lost   == Live(aces) \ Live(aces')
     IN \A u \in Subjects, p \in Present, cap \in Capabilities :
          /\ AllOf("allow", gained) /\ AllOf("deny", lost) =>
               (CanRow(p, cap, u) => CanRow(p, cap, u)')
          /\ AllOf("deny", gained) /\ AllOf("allow", lost) =>
               (CanRow(p, cap, u)' => CanRow(p, cap, u))]_aces
=============================================================================
