-------------------------------- MODULE MCAcl -------------------------------
(* A small wiki for TLC: root, a folder in it, a page in that, and names    *)
(* for rows that are not there yet.                                         *)
EXTENDS Acl

CONSTANTS alice, staff, public,     \* principals
          crew, anon, admin,        \* more callers
          reader, writer, syncer, granter,
          root, docs, intro, draft  \* labels

(* alice and crew are members of staff: alice has an account, crew is       *)
(* somebody who is looked at as "a member of staff".  anon has no account.  *)
MCMemberOf == {<<alice, staff>>}
MCSeeds ==
  [u \in Subjects |-> CASE u = alice -> {alice}
                        [] u = crew  -> {staff}
                        [] OTHER     -> {}]

MCRequires ==
  {<<"write", "read">>, <<"sync", "read">>, <<"grant", "read">>}
MCRoleCapability ==
  {<<reader, "read">>, <<syncer, "sync">>, <<writer, "write">>,
   <<granter, "grant">>}
MCRoleInherits == {<<granter, writer>>}

Top    == <<root>>
Folder == <<root, docs>>
Page   == <<root, docs, intro>>
New    == <<root, docs, draft>>
MCPaths == {Top, Folder, Page, New}

Row(folder, owner, blocked, retired) ==
  [is_folder |-> folder, owner_id |-> owner,
   inheritance_blocked |-> blocked, retired |-> retired]

(* The page may be retired; inheritance may be blocked anywhere.            *)
Tree(blocked, retired) ==
  [p \in MCPaths \ {New} |->
     Row(p # Page, IF p = Folder THEN alice ELSE Null, p \in blocked,
         p = Page /\ retired)]
MCTrees == {Tree({}, FALSE), Tree({Folder}, FALSE), Tree({Page}, FALSE),
            Tree({Top, Folder}, TRUE)}

(* A page was published where the folder is, and another below it, as      *)
(* wiki.push allows; the upper page may be retired since.                  *)
PageBelowPage(retired) ==
  [p \in MCPaths \ {New} |-> Row(p = Top, Null, FALSE, p = Folder /\ retired)]
RuleTrees == MCTrees \cup {PageBelowPage(r) : r \in BOOLEAN}

Entry(d, who, role, type, io, ci, oi, np) ==
  [document |-> d, principal |-> who, role |-> role, ace_type |-> type,
   inherit_only |-> io, container_inherit |-> ci, object_inherit |-> oi,
   no_propagate |-> np, expired |-> FALSE]

Everywhere(d, who, role, type) ==
  Entry(d, who, role, type, FALSE, TRUE, TRUE, FALSE)

(* Every combination of flags for a reader on the root.                     *)
Flags == {f \in [io: BOOLEAN, ci: BOOLEAN, oi: BOOLEAN, np: BOOLEAN] :
            /\ ~f.io \/ f.ci \/ f.oi
            /\ f.np => f.ci /\ f.oi}
Flagged(d, who, role, type) ==
  {Entry(d, who, role, type, f.io, f.ci, f.oi, f.np) : f \in Flags}

(* For the loop: entries that meet each other at every distance.            *)
LoopEntries ==
  Flagged(Top, staff, reader, "allow")
  \cup {Everywhere(d, staff, granter, t) : d \in {Top, Folder}, t \in AceTypes}
  \cup {Everywhere(Page, public, reader, t) : t \in AceTypes}
  \cup {Entry(Folder, staff, reader, "deny", TRUE, TRUE, TRUE, TRUE),
        Entry(Folder, staff, reader, "allow", FALSE, TRUE, FALSE, FALSE)}

Call(u, c, p, folder, owner) ==
  [user |-> u, cap |-> c, path |-> p, is_folder |-> folder, owner |-> owner]

(* About every row, about a row that is being added as a page or a folder,  *)
(* and once by a superuser.                                                 *)
LoopQuestions ==
  {Call(u, c, p, p # Page, IF p = Folder THEN alice ELSE Null) :
     u \in {alice, anon}, c \in {"read", "grant"}, p \in {Top, Folder, Page}}
  \cup {Call(crew, "read", New, f, Null) : f \in BOOLEAN}
  \cup {Call(admin, "read", Page, FALSE, Null)}

(* For the rules: roles that imply, contain and contradict each other.      *)
RuleEntries ==
  {Everywhere(d, staff, reader, t) : d \in {Top, Folder, Page},
                                    t \in AceTypes}
  \cup {Everywhere(d, staff, syncer, t) : d \in {Top, Page}, t \in AceTypes}
  \cup {Everywhere(Folder, staff, writer, t) : t \in AceTypes}
  \cup {Everywhere(Folder, public, granter, "allow"),
        Entry(Folder, staff, reader, "allow", TRUE, FALSE, TRUE, FALSE),
        Entry(Top, staff, syncer, "allow", FALSE, TRUE, FALSE, TRUE)}

TwoQuestions == {Call(alice, "sync", Page, FALSE, Null),
                 Call(crew, "read", Page, FALSE, Null)}
=============================================================================
