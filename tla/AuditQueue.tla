----------------------------- MODULE AuditQueue -----------------------------
(***************************************************************************)
(* The audit queue of a mount (fuse/audit.py) between the handlers that    *)
(* mint events (fuse/fs.py) and wiki.record_opens(): two files, a task     *)
(* that ships them, a process that may be killed at any point and started  *)
(* again, and requests that get lost, or arrive when nobody waits for them.*)
(***************************************************************************)
EXTENDS Lists

CONSTANTS Events,    \* ids, made by the client; an initial segment of 1, 2, ...
          Torn,      \* a line without its end
          Unreadable,  \* a line that does not parse
          Line, Part,       \* bytes of a line and of a torn one
          QueueCap,         \* QUEUE_CAP_BYTES
          BatchEvents,      \* BATCH_BYTES, in events
          MaxFaults, MaxStops  \* bounds: what goes wrong, and clean unmounts

ASSUME AuditAssumption ==
  /\ Events \subseteq Nat \ {0} /\ \A e \in Events : 1..e \subseteq Events
  /\ Torn \notin Events /\ Unreadable \notin Events /\ Torn # Unreadable
  /\ Line \in Nat \ {0} /\ Part \in 1..Line
  /\ QueueCap \in Nat /\ BatchEvents \in Nat \ {0}
  /\ MaxFaults \in Nat /\ MaxStops \in Nat

VARIABLES
  live, sending,  \* audit.jsonl and audit.sending.jsonl
  trail,          \* rows of wiki.access_event, in order of insertion
  late,           \* batches the server may yet be given, unawaited
  phase,          \* of the process
  size, dropped,  \* _size, _dropped
  todo,           \* events of audit.sending.jsonl not yet acknowledged
  carried,        \* events a content fetch under way has taken along
  minted,         \* how many events there have been
  lost,           \* events dropped, damaged, or with a process when it died
  faults, stops

diskVars    == <<live, sending>>
serverVars  == <<trail, late>>
processVars == <<phase, size, dropped, todo, carried>>
boundVars   == <<minted, faults, stops>>
vars == <<diskVars, serverVars, processVars, boundVars, lost>>

-----------------------------------------------------------------------------
(* Files and batches                                                       *)

NoFile == [lines |-> <<>>, bytes |-> 0]

(* An append goes behind whatever there is: behind a torn line it makes    *)
(* one unreadable line of both.                                            *)
Readable(f) == ~ (f.lines # <<>> /\ f.lines[Len(f.lines)] = Torn)

Written(f, e) ==
  IF Readable(f) THEN [lines |-> Append(f.lines, e), bytes |-> f.bytes + Line]
  ELSE [lines |-> Append(f.lines, Unreadable), bytes |-> f.bytes + Line]

Cut(f) == [lines |-> Append(f.lines, Torn), bytes |-> f.bytes + Part]

(* Mutant of Parsed: lines that do not parse are shipped like the others.  *)
ParsedAll(f) == f.lines

(* Mutant of Parsed: the newest first.                                     *)
ParsedBackwards(f) ==
  LET s == Only(f.lines, Events)
  IN [i \in 1..Len(s) |-> s[Len(s) + 1 - i]]

(* Lines that do not parse are discarded.                                  *)
Parsed(f) == Only(f.lines, Events)

Smaller(a, b) == IF a < b THEN a ELSE b

Batch(s) == SubSeq(s, 1, Smaller(BatchEvents, Len(s)))
Rest(s)  == SubSeq(s, BatchEvents + 1, Len(s))

(* Mutant of Recorded: the insert without its "on conflict".               *)
RecordedAgain(batch) == trail \o batch

(* on conflict (event_id) do nothing                                       *)
Recorded(batch) == trail \o Only(batch, Events \ Among(trail))

Fault == faults < MaxFaults /\ faults' = faults + 1

-----------------------------------------------------------------------------
(* Recording                                                               *)

Mint(e) == phase = "up" /\ e = minted + 1 /\ e \in Events /\ minted' = e

(* queue(): the event is dropped, written, cut short by a full disk, or    *)
(* not written at all.                                                     *)
Full == size + Line > QueueCap

Lose(S) == lost' = lost \cup S

Drop(e) ==
  Full /\ dropped' = dropped + 1 /\ Lose({e}) /\ UNCHANGED <<live, size>>

Spool(e) ==
  /\ ~Full
  /\ live' = Written(live, e) /\ size' = size + Line
  /\ Lose(IF Readable(live) THEN {} ELSE {e})
  /\ UNCHANGED dropped

DiskFull(e) ==
  /\ ~Full /\ Lose({e}) /\ UNCHANGED dropped
  /\ \/ Readable(live) /\ live' = Cut(live) /\ size' = size + Line
     \/ UNCHANGED <<live, size>>

(* Nothing carries the event: a refusal, a body that is at hand, a change. *)
Record(e) ==
  /\ Mint(e)
  /\ \/ (Drop(e) \/ Spool(e)) /\ UNCHANGED faults
     \/ Fault /\ DiskFull(e)
  /\ UNCHANGED <<sending, serverVars, phase, todo, carried, stops>>

(* A body is fetched, and the event goes with the request.                 *)
Fetch(e) ==
  /\ Mint(e) /\ carried' = carried \cup {e}
  /\ UNCHANGED <<diskVars, serverVars, phase, size, dropped, todo, faults, stops,
                 lost>>

(* read_document() records the read, whether or not it finds anything.     *)
Fetched(e) ==
  /\ e \in carried /\ carried' = carried \ {e}
  /\ trail' = Recorded(<<e>>)
  /\ UNCHANGED <<diskVars, late, phase, size, dropped, todo, boundVars, lost>>

(* No answer: the event is spooled, although it may have been recorded.    *)
FetchFails(e) ==
  /\ e \in carried /\ carried' = carried \ {e}
  /\ Fault /\ late' = late \cup {<<e>>}
  /\ Drop(e) \/ Spool(e) \/ DiskFull(e)
  /\ UNCHANGED <<sending, trail, phase, todo, minted, stops>>

-----------------------------------------------------------------------------
(* Shipping                                                                *)

(* Mutant of ToSend: whatever is live replaces what was being sent.        *)
LiveFirst == IF live # NoFile THEN live ELSE sending

(* Mutant of ToSend: a batch that is being sent is somebody else's.        *)
NotWhileSending == IF sending # NoFile THEN NoFile ELSE live

(* What is left of a failed attempt goes first.                            *)
ToSend == IF sending # NoFile THEN sending ELSE live

Unlinked(left) == sending' = NoFile /\ size' = left.bytes

Flush ==
  LET file == ToSend
      left == IF file = sending THEN live ELSE NoFile
  IN
  /\ phase \in {"up", "closing"} /\ todo = <<>> /\ file # NoFile
  /\ phase' = IF phase = "up" THEN "up" ELSE "draining"
  /\ live' = left
  /\ todo' = Parsed(file)
  /\ IF Parsed(file) = <<>> THEN Unlinked(left) ELSE sending' = file /\ UNCHANGED size
  /\ UNCHANGED <<serverVars, dropped, carried, boundVars, lost>>

(* The file goes when the last of its batches was acknowledged.            *)
Shipped ==
  /\ todo # <<>>
  /\ trail' = Recorded(Batch(todo)) /\ todo' = Rest(todo)
  /\ IF Rest(todo) = <<>> THEN Unlinked(live) /\ dropped' = 0
     ELSE UNCHANGED <<sending, size, dropped>>
  /\ UNCHANGED <<live, late, phase, carried, boundVars, lost>>

GiveUp == todo' = <<>> /\ late' = late \cup {Batch(todo)}

(* The request failed, or the last flush took more than its five seconds.  *)
ShipFails ==
  /\ todo # <<>> /\ Fault /\ GiveUp
  /\ UNCHANGED <<diskVars, trail, phase, size, dropped, carried, minted, stops, lost>>

(* A request whose client gave up reaches the server after all.            *)
Late(b) ==
  /\ b \in late /\ late' = late \ {b}
  /\ trail' = Recorded(b)
  /\ UNCHANGED <<diskVars, processVars, boundVars, lost>>

-----------------------------------------------------------------------------
(* The process                                                             *)

(* An unmount: the shipper is cancelled where it is, and then the queue    *)
(* is flushed once more.                                                   *)
Unmount ==
  /\ phase = "up" /\ carried = {} /\ stops < MaxStops /\ stops' = stops + 1
  /\ phase' = "closing"
  /\ IF todo = <<>> THEN UNCHANGED <<todo, late>> ELSE GiveUp
  /\ UNCHANGED <<diskVars, trail, size, dropped, carried, minted, faults, lost>>

Exit ==
  /\ \/ phase = "draining" /\ todo = <<>>
     \/ phase = "closing" /\ ToSend = NoFile
  /\ phase' = "down"
  /\ UNCHANGED <<diskVars, serverVars, size, dropped, todo, carried, boundVars, lost>>

(* Killed, perhaps in the middle of writing a line.                        *)
Killed ==
  /\ phase # "down" /\ Fault /\ phase' = "down"
  /\ todo' = <<>> /\ carried' = {}
  /\ late' = late \cup {<<e>> : e \in carried}
                  \cup (IF todo = <<>> THEN {} ELSE {Batch(todo)})
  /\ Lose(carried)
  /\ live' = live \/ (phase = "up" /\ ~Full /\ Readable(live) /\ live' = Cut(live))
  /\ UNCHANGED <<sending, trail, size, dropped, minted, stops>>

(* Mutant of Seed: a new process starts from nothing.                      *)
SeedZero == 0

Seed == live.bytes + sending.bytes

Mounted ==
  /\ phase = "down" /\ phase' = "up"
  /\ size' = Seed /\ dropped' = 0
  /\ UNCHANGED <<diskVars, serverVars, todo, carried, boundVars, lost>>

-----------------------------------------------------------------------------
Init ==
  /\ live = NoFile /\ sending = NoFile /\ trail = <<>> /\ late = {}
  /\ phase = "up" /\ size = 0 /\ dropped = 0 /\ todo = <<>> /\ carried = {}
  /\ minted = 0 /\ lost = {} /\ faults = 0 /\ stops = 0

Next ==
  \/ \E e \in Events : Record(e) \/ Fetch(e) \/ Fetched(e) \/ FetchFails(e)
  \/ Flush \/ Shipped \/ ShipFails
  \/ \E b \in late : Late(b)
  \/ Unmount \/ Exit \/ Killed \/ Mounted

(* run() flushes for ever, requests are answered, and a wiki that was      *)
(* mounted is mounted again.                                               *)
Fairness ==
  /\ WF_vars(Flush) /\ WF_vars(Shipped) /\ WF_vars(Exit) /\ WF_vars(Mounted)
  /\ \A e \in Events : WF_vars(Fetched(e))

Spec == Init /\ [][Next]_vars /\ Fairness

-----------------------------------------------------------------------------
(* Properties                                                              *)

(* What every variable holds; only whole events of this log get onto the   *)
(* wire and into wiki.access_event, whatever torn line a crash left behind.*)
TypeOK ==
  /\ \A f \in {live, sending} : /\ f.lines \in Seq(Events \cup {Torn, Unreadable})
                                /\ f.bytes \in Nat
  /\ trail \in Seq(Events) /\ todo \in Seq(Events)
  /\ late \subseteq Seq(Events)
  /\ phase \in {"up", "closing", "draining", "down"}
  /\ size \in Nat /\ dropped \in Nat
  /\ carried \subseteq Events /\ lost \subseteq Events
  /\ minted \in Nat /\ faults \in Nat /\ stops \in Nat

(* Delivery is at least once and the trail has every event at most once:   *)
(* lost answers, resent batches, requests that arrive late, and an event   *)
(* that went both with a fetch and through the queue count once.           *)
RecordedOnce ==
  \A i, j \in 1..Len(trail) : trail[i] = trail[j] => i = j

(* An event is with a fetch, in a file, or recorded, unless it was dropped *)
(* for want of space, damaged on the disk, or died with its process before *)
(* it was spooled.                                                       *)
NothingLost ==
  1..minted \subseteq carried \cup Among(live.lines) \cup Among(sending.lines)
                       \cup Among(trail) \cup lost

(* The two files together stay under the cap, over any number of restarts. *)
CapHolds == live.bytes + sending.bytes <= QueueCap

(* Every other event is recorded in the end.                               *)
Delivered ==
  \A e \in Events : e <= minted ~> e \in Among(trail) \cup lost

(* The queue does what AuditTrail says: events are recorded in the order   *)
(* they were spooled, whatever is resent.                                  *)
Outstanding == Only(sending.lines \o live.lines, Events \ Among(trail))

Trail == INSTANCE AuditTrail WITH kept <- Outstanding

TrailSpec == Trail!Spec
=============================================================================
