------------------------------- MODULE Inodes -------------------------------
(***************************************************************************)
(* The inode table of the mount (fuse/inodes.py): which key of the working *)
(* tree each inode number stands for, and how many references the kernel   *)
(* holds to it.  The kernel's own books are held: it adds one for every    *)
(* entry handed back and may give references back with FORGET.             *)
(*                                                                         *)
(* The operators that build a table are used by Mount, whose handlers make *)
(* the calls; Spec below is what the table promises whoever calls it.      *)
(***************************************************************************)
EXTENDS Naturals, FiniteSets

CONSTANTS Keys,      \* document ids, "draft:" and "scratch:" keys
          MaxInode,  \* bound: the highest inode number
          MaxHeld    \* bound: references the kernel holds to one inode

ASSUME InodesAssumption == MaxInode \in Nat \ {0} /\ MaxHeld \in Nat

Root == 1
Numbers == 1..MaxInode

VARIABLES byKey,    \* _by_key, a partial function
          byInode,  \* _by_inode, a partial function
          lookups,  \* _lookups
          next,     \* _next
          held      \* what the kernel holds

inodeVars == <<byKey, byInode, lookups, next, held>>

Only(x, v) == [y \in {x} |-> v]
With(f, x, v) == [y \in DOMAIN f \cup {x} |-> IF y = x THEN v ELSE f[y]]
Without(f, S) == [x \in DOMAIN f \ S |-> f[x]]

(* A mount begins with an empty table and a first refresh, which pins the  *)
(* root.                                                                   *)
InodesInit ==
  /\ \E k \in Keys : byKey = Only(k, Root) /\ byInode = Only(Root, k)
  /\ next = Root + 1
  /\ lookups = [i \in Numbers |-> 0] /\ held = [i \in Numbers |-> 0]

(* Started again: a new table, and a kernel that holds nothing.            *)
InodesReset(k) ==
  /\ byKey' = Only(k, Root) /\ byInode' = Only(Root, k) /\ next' = Root + 1
  /\ lookups' = [i \in Numbers |-> 0] /\ held' = [i \in Numbers |-> 0]

PinRoot(k) ==
  /\ IF Root \in DOMAIN byInode /\ byInode[Root] = k
     THEN UNCHANGED <<byKey, byInode>>
     ELSE LET old == IF Root \in DOMAIN byInode THEN {byInode[Root]} ELSE {}
          IN /\ byKey' = With(Without(byKey, old), k, Root)
             /\ byInode' = With(byInode, Root, k)
  /\ UNCHANGED <<lookups, next, held>>

(* inode_for(k): the number k has, or the next one.                        *)
InodeOf(k) == IF k \in DOMAIN byKey THEN byKey[k] ELSE next

Allocate(k) ==
  IF k \in DOMAIN byKey
  THEN UNCHANGED <<byKey, byInode, next>>
  ELSE /\ next <= MaxInode
       /\ byKey' = With(byKey, k, next)
       /\ byInode' = With(byInode, next, k)
       /\ next' = next + 1

Remembered(i) == IF i = Root THEN lookups
                 ELSE [lookups EXCEPT ![i] = @ + 1]

(* Mutant of Hand: the kernel's reference is not counted.                  *)
HandUncounted(k) ==
  /\ Allocate(k) /\ UNCHANGED lookups
  /\ held' = [held EXCEPT ![InodeOf(k)] = @ + 1]

(* lookup, create and readdir hand an entry to the kernel.                 *)
Hand(k) ==
  /\ Allocate(k)
  /\ lookups' = Remembered(InodeOf(k))
  /\ held' = [held EXCEPT ![InodeOf(k)] = @ + 1]

(* readdir with no room left in the reply: the number is allocated, but    *)
(* the kernel never sees it.                                               *)
Mint(k) == Allocate(k) /\ UNCHANGED <<lookups, held>>

(* Only the last reference takes the number with it, and the key only if   *)
(* it still leads to that number.                                          *)
Forget(i, n) ==
  /\ n \in 1..held[i]
  /\ held' = [held EXCEPT ![i] = @ - n]
  /\ UNCHANGED next
  /\ \/ /\ i = Root \/ lookups[i] > n
        /\ lookups' = IF i = Root THEN lookups
                      ELSE [lookups EXCEPT ![i] = @ - n]
        /\ UNCHANGED <<byKey, byInode>>
     \/ /\ i # Root /\ lookups[i] <= n
        /\ lookups' = [lookups EXCEPT ![i] = 0]
        /\ byInode' = Without(byInode, {i})
        /\ byKey' = IF /\ i \in DOMAIN byInode
                       /\ byInode[i] \in DOMAIN byKey
                       /\ byKey[byInode[i]] = i
                    THEN Without(byKey, {byInode[i]}) ELSE byKey

(* Mutant of Rekey: left to the next lookup.                               *)
RekeyNothing(old, new) == UNCHANGED inodeVars

(* A saved scratch file keeps its number under the key of what it became.  *)
Rekey(old, new) ==
  /\ IF old \notin DOMAIN byKey THEN UNCHANGED <<byKey, byInode>>
     ELSE LET i == byKey[old]
          IN /\ byKey' = With(Without(byKey, {old}), new, i)
             /\ byInode' = With(byInode, i, new)
  /\ UNCHANGED <<lookups, next, held>>

InodesNext ==
  \/ \E k \in Keys : PinRoot(k) \/ Hand(k) \/ Mint(k) \/ InodesReset(k)
  \/ \E i \in Numbers, n \in 1..MaxHeld : Forget(i, n)
  \/ \E old, new \in Keys : Rekey(old, new)

InodesSpec == InodesInit /\ [][InodesNext]_inodeVars

-----------------------------------------------------------------------------
(* What the table promises                                                 *)

(* The table and the kernel's books agree: a key leads to a number that    *)
(* leads back to it, and a number the kernel holds a reference to is still *)
(* in the table, so that no open file dangles.                             *)
InodesAgree ==
  /\ \A k \in DOMAIN byKey : /\ byKey[k] \in DOMAIN byInode
                             /\ byInode[byKey[k]] = k
  /\ \A i \in Numbers \ {Root} : /\ lookups[i] = held[i]
                                 /\ held[i] > 0 => i \in DOMAIN byInode
  /\ \A i \in DOMAIN byInode : i < next

(* Stability: while the kernel holds a number, only a rename (Rekey)       *)
(* changes what it stands for, and then to a key that was not its own.     *)
HeldInodesKeepTheirKey ==
  [][\A i \in Numbers \ {Root} :
       held[i] > 0 /\ held'[i] > 0 =>
         \/ i \in DOMAIN byInode' /\ byInode'[i] = byInode[i]
         \/ \E new \in Keys : Rekey(byInode[i], new)]_inodeVars
=============================================================================
