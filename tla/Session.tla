------------------------------ MODULE Session ------------------------------
(***************************************************************************)
(* The command line at work on the drafts of one user (cli/__main__.py,    *)
(* core/merge.py): push, merge --apply, merge --abort and revert --apply   *)
(* in several terminals, while the same user saves in the mount and other  *)
(* users publish.                                                          *)
(*                                                                         *)
(* A command reads the list of drafts once, when it starts, and then makes *)
(* one request after the other on the strength of it.  Each request is one *)
(* step here: inside, it is a transaction of module Push.                  *)
(*                                                                         *)
(* A text is its sections, which lie apart from each other, and a section  *)
(* is the set of edits one can read in it: one edit, or the sides of a     *)
(* conflict between markers.                                               *)
(***************************************************************************)
EXTENDS Naturals, Sequences, FiniteSets

CONSTANTS Docs,       \* pages, numbered in the order of their paths
          Sections,
          Terminals,  \* where the user runs commands
          NoDraft, NoText, NoRun,
          MaxEdits, \* bound: edits made, by anyone
          Menus     \* bound: what a behaviour may touch and use up

Edits == 0..MaxEdits     \* 0: what was there at the start
Text == [Sections -> (SUBSET Edits) \ {{}}]

Draft == [text : Text, base : Nat, state : {"clean", "conflicted"},
          pre : Text \cup {NoText}, from : Nat]  \* pre_merge_content, merged_from (0: null)

ASSUME SessionAssumption ==
  /\ Docs \subseteq Nat
  /\ MaxEdits \in Nat
  /\ Menus \subseteq [pages : SUBSET Docs, commands : Nat, faults : Nat]
  /\ NoText \notin Text /\ NoDraft \notin Draft

Kinds == {"push", "merge", "abort", "revert"}

Run == [kind : Kinds, pc : {"resolve", "push", "manifest", "theirs", "write"},
        want : SUBSET Docs,                    \* the paths named; {} for none
        list : [Docs -> Draft \cup {NoDraft}], \* the drafts, when it asked
        todo : SUBSET Docs,
        live : [Docs -> Nat],                  \* what the manifest said
        theirs : Text \cup {NoText}]

VARIABLES hist,      \* page -> its revisions
          row,       \* page -> the user's draft
          buffer,    \* page -> the text in the editor, and the revision it shows
          run,       \* terminal -> the command that runs there
          menu,      \* one of Menus
          edits, commands, faults, \* counters
          over,      \* history: edit -> the edits its author saw in its place
          own,       \* history: <<page, edit>> the user saved
          discarded, \* history: edits the user asked a command to throw away
          raced,     \* history: pages whose draft was not what a command had
                     \* listed when the command changed it
          outdated,  \* history: pages saved from a text that takes account of
                     \* another revision than their draft says
          marked     \* history: pages where the user saved a text with markers
                     \* while the draft had no merge to undo

vars == <<hist, row, buffer, run, menu, edits, commands, faults,
          over, own, discarded, raced, outdated, marked>>

server == <<hist, row>>
history == <<menu, over, own, discarded, raced, outdated, marked>>

-----------------------------------------------------------------------------
(* Texts                                                                   *)

Seen(line) == line \cup UNION {over[e] : e \in line \ {0}}
SeenIn(text) == UNION {Seen(text[s]) : s \in Sections}

(* has_markers                                                             *)
HasMarkers(text) == \E s \in Sections : Cardinality(text[s]) > 1

Conflicting(base, mine, theirs, s) ==
  mine[s] # base[s] /\ theirs[s] # base[s] /\ mine[s] # theirs[s]

Conflicts(base, mine, theirs) ==
  \E s \in Sections : Conflicting(base, mine, theirs, s)

(* Mutant of Merge: the draft is passed for the ancestor.                  *)
MergeSwapped(base, mine, theirs) ==
  [s \in Sections |->
     IF Conflicting(mine, base, theirs, s) THEN base[s] \cup theirs[s]
     ELSE IF base[s] = mine[s] THEN theirs[s] ELSE base[s]]

Merge(base, mine, theirs) ==
  [s \in Sections |->
     IF Conflicting(base, mine, theirs, s) THEN mine[s] \cup theirs[s]
     ELSE IF mine[s] = base[s] THEN theirs[s] ELSE mine[s]]

-----------------------------------------------------------------------------
(* The editor and the other users                                          *)

Live(p) == Len(hist[p])
Rows == {p \in Docs : row[p] # NoDraft}

Later(a, b) == IF a > b THEN a ELSE b

(* The revision a draft says its text takes account of.                    *)
Claims(d) == Later(d.base, d.from)

(* What the mount shows: the draft, or else the page.                      *)
Open(p) ==
  /\ buffer' = [buffer EXCEPT ![p] =
       IF row[p] # NoDraft THEN [text |-> row[p].text, shows |-> Claims(row[p])]
       ELSE [text |-> hist[p][Live(p)].text, shows |-> Live(p)]]
  /\ buffer' # buffer
  /\ UNCHANGED <<server, run, edits, commands, faults, history>>

NewEdit(p, s, seen) ==
  /\ edits < MaxEdits
  /\ edits' = edits + 1
  /\ over' = [over EXCEPT ![edits + 1] = seen]

(* _base_version_for, of a mount that knows what it has shown.             *)
BaseOfSave(p) ==
  IF row[p] # NoDraft THEN row[p].base
  ELSE IF hist[p][Live(p)].own THEN Live(p)
  ELSE buffer[p].shows

(* put_draft names neither the state nor the merge columns.                *)
Upserted(p, text) ==
  IF row[p] # NoDraft THEN [row[p] EXCEPT !.text = text, !.base = BaseOfSave(p)]
  ELSE [text |-> text, base |-> BaseOfSave(p), state |-> "clean",
        pre |-> NoText, from |-> 0]

Save(p, s) ==
  LET text == [buffer[p].text EXCEPT ![s] = {edits + 1}] IN
  /\ NewEdit(p, s, Seen(buffer[p].text[s]))
  /\ row' = [row EXCEPT ![p] = Upserted(p, text)]
  /\ buffer' = [buffer EXCEPT ![p].text = text]
  /\ own' = own \cup {<<p, edits + 1>>}
  /\ outdated' = IF Claims(row'[p]) # buffer[p].shows
                 THEN outdated \cup {p} ELSE outdated
  /\ marked' = IF HasMarkers(text) /\ row'[p].pre = NoText
               THEN marked \cup {p} ELSE marked
  /\ UNCHANGED <<hist, run, commands, faults, menu, discarded, raced>>

(* Somebody else edits what is live, and publishes it.                     *)
Publish(p, s) ==
  LET text == hist[p][Live(p)].text IN
  /\ NewEdit(p, s, Seen(text[s]))
  /\ hist' = [hist EXCEPT ![p] = Append(@, [text |-> [text EXCEPT ![s] = {edits + 1}],
                                            own |-> FALSE])]
  /\ UNCHANGED <<row, buffer, run, commands, faults, menu, own, discarded, raced, outdated,
                 marked>>

-----------------------------------------------------------------------------
(* A command starts: the list of drafts, and the paths it is for           *)

Selected(want) == IF want = {} THEN Rows ELSE want

(* Mutant of Refuses: a draft the server calls clean needs no look.        *)
RefusesConflicted(want) == \E p \in Selected(want) : row[p].state = "conflicted"

Refuses(want) == \E p \in Selected(want) : HasMarkers(row[p].text)

ToResolve(want) == {p \in Selected(want) : row[p].from # 0}

Started(t, kind, pc, want, todo) ==
  /\ run[t] = NoRun /\ commands < menu.commands
  /\ commands' = commands + 1
  /\ run' = [run EXCEPT ![t] = [kind |-> kind, pc |-> pc, want |-> want,
                                list |-> row, todo |-> todo,
                                live |-> [p \in Docs |-> 0], theirs |-> NoText]]
  /\ UNCHANGED <<server, buffer, edits, faults, history>>

BeginPush(t, want) ==
  /\ Selected(want) # {} /\ ~ Refuses(want)
  /\ Started(t, "push", IF ToResolve(want) = {} THEN "push" ELSE "resolve",
             want, ToResolve(want))

BeginMerge(t, want) ==
  Selected(want) # {} /\ Started(t, "merge", "manifest", want, Selected(want))

Restorable(want) == {p \in Selected(want) : row[p].pre # NoText}

BeginAbort(t, want) ==
  Restorable(want) # {} /\ Started(t, "abort", "write", want, Restorable(want))

BeginRevert(t, want) ==
  Selected(want) # {} /\ Started(t, "revert", "write", want, Selected(want))

Begin(t) ==
  \E want \in SUBSET Rows :
    BeginPush(t, want) \/ BeginMerge(t, want) \/ BeginAbort(t, want) \/ BeginRevert(t, want)

-----------------------------------------------------------------------------
(* Its requests                                                            *)

Now(t, kind, pc) == run[t] # NoRun /\ run[t].kind = kind /\ run[t].pc = pc

First(S) == CHOOSE p \in S : \A q \in S : p <= q

Ended(t) == run' = [run EXCEPT ![t] = NoRun]

(* On to the next draft of the list, or to the end.                        *)
OnFrom(t, p, pc) ==
  LET left == run[t].todo \ {p} IN
  IF left = {} THEN Ended(t)
  ELSE run' = [run EXCEPT ![t] = [@ EXCEPT !.todo = left, !.pc = pc, !.theirs = NoText]]

RacedOn(t, ps) == {p \in ps : run[t].list[p] # row[p]}

(* _merge: the live revisions, once for all drafts.                        *)
Manifest(t) ==
  LET live == [p \in Docs |-> Live(p)]
      todo == {p \in run[t].todo : live[p] # run[t].list[p].base}
  IN
  /\ Now(t, "merge", "manifest")
  /\ IF todo = {} THEN Ended(t)
     ELSE run' = [run EXCEPT ![t] = [@ EXCEPT !.live = live, !.todo = todo,
                                              !.pc = "theirs"]]
  /\ UNCHANGED <<server, buffer, edits, commands, faults, history>>

(* The ancestor is a closed revision and does not change; what is live may *)
(* have changed since the manifest was read.                               *)
Theirs(t) ==
  /\ Now(t, "merge", "theirs")
  /\ LET p == First(run[t].todo) IN
     run' = [run EXCEPT ![t] = [@ EXCEPT !.theirs = hist[p][Live(p)].text, !.pc = "write"]]
  /\ UNCHANGED <<server, buffer, edits, commands, faults, history>>

(* Mutant of Kept: a second merge keeps the text of the first.             *)
KeptLast(d) == d.text

Kept(d) == IF d.pre = NoText THEN d.text ELSE d.pre

Rewritten(t, p) ==
  LET d == run[t].list[p]
      base == hist[p][d.base].text
  IN [row[p] EXCEPT !.pre = Kept(row[p]),
                    !.text = Merge(base, d.text, run[t].theirs),
                    !.from = run[t].live[p],
                    !.state = IF Conflicts(base, d.text, run[t].theirs)
                              THEN "conflicted" ELSE @]

(* Mutant of Resolved: the draft is said to descend from what is live.     *)
ResolvedToLive(p) ==
  [row[p] EXCEPT !.base = Live(p), !.state = "clean", !.pre = NoText, !.from = 0]

Resolved(p) ==
  [row[p] EXCEPT !.base = IF row[p].from # 0 THEN row[p].from ELSE @,
                 !.state = "clean", !.pre = NoText, !.from = 0]

(* Mutant of Restored: the merge is not forgotten.                         *)
RestoredHalf(p) == [row[p] EXCEPT !.text = IF row[p].pre # NoText THEN row[p].pre ELSE @,
                                  !.state = "clean", !.pre = NoText]

Restored(p) ==
  [row[p] EXCEPT !.text = IF row[p].pre # NoText THEN row[p].pre ELSE @,
                 !.state = "clean", !.pre = NoText, !.from = 0]

Wrote(t, p, d) ==
  /\ row' = [row EXCEPT ![p] = d]
  /\ raced' = raced \cup RacedOn(t, {p})

(* No row came back: the draft is not there any more, and the command ends.*)
Gone(t, p) ==
  /\ row[p] = NoDraft /\ Ended(t)
  /\ UNCHANGED <<server, buffer, edits, commands, faults, history>>

(* begin_merge                                                             *)
Rewrite(t) ==
  LET p == First(run[t].todo) IN
  /\ Now(t, "merge", "write")
  /\ \/ Gone(t, p)
     \/ /\ row[p] # NoDraft
        /\ Wrote(t, p, Rewritten(t, p))
        /\ OnFrom(t, p, "theirs")
        /\ UNCHANGED <<hist, buffer, edits, commands, faults, menu, over, own,
                       discarded, outdated, marked>>

(* resolve_merge: the command knows of its own change of the draft.        *)
Resolve(t) ==
  LET p == First(run[t].todo)
      left == run[t].todo \ {p}
  IN
  /\ Now(t, "push", "resolve")
  /\ \/ Gone(t, p)
     \/ /\ row[p] # NoDraft
        /\ Wrote(t, p, Resolved(p))
        /\ run' = [run EXCEPT ![t] =
             [run[t] EXCEPT !.todo = left, !.list = [run[t].list EXCEPT ![p] = Resolved(p)],
                            !.pc = IF left = {} THEN "push" ELSE "resolve"]]
        /\ UNCHANGED <<hist, buffer, edits, commands, faults, menu, over, own,
                       discarded, outdated, marked>>

(* abort_merge                                                             *)
Restore(t) ==
  LET p == First(run[t].todo) IN
  /\ Now(t, "abort", "write")
  /\ \/ Gone(t, p)
     \/ /\ row[p] # NoDraft
        /\ Wrote(t, p, Restored(p))
        /\ discarded' = discarded \cup (SeenIn(row[p].text) \ SeenIn(Restored(p).text))
        /\ OnFrom(t, p, "write")
        /\ UNCHANGED <<hist, buffer, edits, commands, faults, menu, over, own,
                       outdated, marked>>

(* delete_draft                                                            *)
Withdraw(t) ==
  LET p == First(run[t].todo) IN
  /\ Now(t, "revert", "write")
  /\ \/ Gone(t, p)
     \/ /\ row[p] # NoDraft
        /\ Wrote(t, p, NoDraft)
        /\ discarded' = discarded \cup SeenIn(row[p].text)
                        \cup (IF row[p].pre = NoText THEN {} ELSE SeenIn(row[p].pre))
        /\ OnFrom(t, p, "write")
        /\ UNCHANGED <<hist, buffer, edits, commands, faults, menu, over, own,
                       outdated, marked>>

(* push: all the drafts it is for, or none.  Without paths that is every   *)
(* draft there is by now.                                                  *)
Pushed(t) == IF run[t].want = {} THEN Rows ELSE run[t].want \cap Rows

Publishable(p) == row[p].state = "clean" /\ row[p].base = Live(p)

Submit(t) ==
  LET ps == Pushed(t) IN
  /\ Now(t, "push", "push")
  /\ Ended(t)
  /\ IF \A p \in ps : Publishable(p)
     THEN /\ hist' = [p \in Docs |->
                        IF p \in ps THEN Append(hist[p], [text |-> row[p].text, own |-> TRUE])
                        ELSE hist[p]]
          /\ row' = [p \in Docs |-> IF p \in ps THEN NoDraft ELSE row[p]]
          /\ buffer' = [p \in Docs |->
                          IF p \in ps /\ buffer[p].text = row[p].text
                          THEN [buffer[p] EXCEPT !.shows = Live(p) + 1] ELSE buffer[p]]
          /\ raced' = raced \cup RacedOn(t, ps)
     ELSE UNCHANGED <<server, buffer, raced>>
  /\ UNCHANGED <<edits, commands, faults, menu, over, own, discarded, outdated, marked>>

(* A request that does not arrive ends the command.  One whose answer is   *)
(* lost has had its effect first.                                          *)
Fails(t) ==
  /\ run[t] # NoRun /\ faults < menu.faults
  /\ faults' = faults + 1
  /\ Ended(t)
  /\ UNCHANGED <<server, buffer, edits, commands, history>>

Step(t) ==
  Manifest(t) \/ Theirs(t) \/ Rewrite(t) \/ Resolve(t) \/ Restore(t) \/ Withdraw(t) \/ Submit(t)

-----------------------------------------------------------------------------

Init ==
  /\ hist = [p \in Docs |-> <<[text |-> [s \in Sections |-> {0}], own |-> FALSE]>>]
  /\ row = [p \in Docs |-> NoDraft]
  /\ buffer = [p \in Docs |-> [text |-> [s \in Sections |-> {0}], shows |-> 1]]
  /\ run = [t \in Terminals |-> NoRun]
  /\ menu \in Menus
  /\ edits = 0 /\ commands = 0 /\ faults = 0
  /\ over = [e \in 1..MaxEdits |-> {}]
  /\ own = {} /\ discarded = {} /\ raced = {} /\ outdated = {} /\ marked = {}

Next ==
  \/ \E p \in menu.pages : Open(p)
  \/ \E p \in menu.pages, s \in Sections : Save(p, s) \/ Publish(p, s)
  \/ \E t \in Terminals : Begin(t) \/ Step(t) \/ Fails(t)

Spec == Init /\ [][Next]_vars

-----------------------------------------------------------------------------
(* Properties                                                              *)

(* What every variable holds.  The merge columns of a draft go together, as *)
(* the table's draft_merge_shape asks: a draft in conflict has the text to  *)
(* go back to, and the text and the revision are there both or neither,     *)
(* whatever merge, abort, push and the mount's upsert do to the row.        *)
TypeOK ==
  /\ \A p \in Docs : \A n \in 1..Live(p) : hist[p][n] \in [text : Text, own : BOOLEAN]
  /\ row \in [Docs -> Draft \cup {NoDraft}]
  /\ buffer \in [Docs -> [text : Text, shows : Nat \ {0}]]
  /\ run \in [Terminals -> Run \cup {NoRun}]
  /\ edits \in 0..MaxEdits /\ menu \in Menus
  /\ commands \in 0..menu.commands /\ faults \in 0..menu.faults
  /\ over \in [1..MaxEdits -> SUBSET Edits]
  /\ own \subseteq Docs \X Edits /\ discarded \subseteq Edits
  /\ raced \subseteq Docs /\ outdated \subseteq Docs /\ marked \subseteq Docs
  /\ \A p \in Rows : /\ (row[p].pre = NoText) = (row[p].from = 0)
                     /\ row[p].state = "conflicted" => row[p].pre # NoText

(* The revision that follows another takes account of every edit of it:    *)
(* it has the edit, or comes from somebody who saw it and wrote over it.   *)
(* That is what base_version, the merge and resolve_merge's rebase are for.*)
(* Left out are the pages where a command changed a draft other than the   *)
(* one it had listed, and those saved from a stale editor.                 *)
NoLostUpdate ==
  \A p \in Docs \ (outdated \cup raced) : \A n \in 2..Live(p), s \in Sections :
    hist[p][n - 1].text[s] \subseteq Seen(hist[p][n].text[s])

(* No command publishes a text with conflict markers in it: run() looks    *)
(* for them in the drafts it listed, resolves, and pushes later.           *)
NoMarkersPublished ==
  \A p \in Docs \ raced : \A n \in 1..Live(p) : ~ HasMarkers(hist[p][n].text)

(* Where an edit of a page can be found again, or was seen and replaced.   *)
Held(p) ==
  UNION ({SeenIn(hist[p][n].text) : n \in 1..Live(p)}
         \cup (IF row[p] = NoDraft THEN {} ELSE {SeenIn(row[p].text)})
         \cup (IF row[p] = NoDraft \/ row[p].pre = NoText THEN {} ELSE {SeenIn(row[p].pre)}))

(* What the user saved is published, in the draft, or in the text that     *)
(* merge --abort brings back, until the user asks for it to be thrown      *)
(* away: no sequence of merge, abort, push and saves drops it.             *)
EditsKept ==
  \A o \in own : o[1] \in raced \/ o[2] \in Held(o[1]) \cup discarded

(* What merge --abort brings back is a text the user wrote and not the     *)
(* outcome of an earlier merge: begin_merge keeps the first.  Left out are *)
(* the pages whose user saved markers on their own account, from an editor *)
(* that still shows a merge whose draft is gone.                           *)
BackupIsTheUsers ==
  \A p \in Rows \ (marked \cup raced) : row[p].pre # NoText => ~ HasMarkers(row[p].pre)
=============================================================================
