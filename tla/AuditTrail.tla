----------------------------- MODULE AuditTrail -----------------------------
(***************************************************************************)
(* What the audit of a mount promises (fuse/audit.py), and nothing about   *)
(* files or requests: an event that was kept is recorded once, in the      *)
(* order of keeping, and is not lost meanwhile.                            *)
(***************************************************************************)
EXTENDS Lists

CONSTANT Events

VARIABLES kept,  \* promised and not yet recorded, oldest first
          trail  \* recorded, oldest first

Without(s, e) == Only(s, Among(s) \ {e})

Init == kept = <<>> /\ trail = <<>>

Keep(e) ==
  /\ e \notin Among(kept) \cup Among(trail)
  /\ kept' = Append(kept, e) /\ UNCHANGED trail

(* A batch: the oldest of what was kept.                                   *)
Ship(n) ==
  /\ trail' = trail \o SubSeq(kept, 1, n)
  /\ kept' = SubSeq(kept, n + 1, Len(kept))

(* The server saw the read itself, before or after the event was kept.     *)
Witness(e) ==
  /\ e \notin Among(trail)
  /\ trail' = Append(trail, e) /\ kept' = Without(kept, e)

Next == \/ \E e \in Events : Keep(e) \/ Witness(e)
        \/ \E n \in 1..Len(kept) : Ship(n)

Spec == Init /\ [][Next]_<<kept, trail>>
=============================================================================
