---------------------------- MODULE DurableStore ----------------------------
(***************************************************************************)
(* The durable store both processes keep their state in: two snapshot      *)
(* slots and a journal (src/include/cf/store.hpp, src/src/journal.cpp).    *)
(*                                                                         *)
(* A change is a number that is never used again.  Replay applies records  *)
(* in file order and the scan insists on consecutive sequence numbers, so  *)
(* a state is determined by the set of changes in it.  A crash may fall    *)
(* between any two file operations and inside an append.                   *)
(***************************************************************************)
EXTENDS Naturals

CONSTANTS
  MaxChanges,       \* bound: changes ever committed
  MaxCompactions,   \* bound: compactions of one process
  MaxCrashes        \* bound: crashes

ASSUME BoundsAssumption ==
  MaxChanges \in Nat /\ MaxCompactions \in Nat /\ MaxCrashes \in Nat

Slots == {"a", "b"}

VARIABLES
  slots,        \* the two snapshot files
  journal,      \* the journal file
  st,           \* where the process is
  mem,          \* state_: the changes applied in memory
  lastSeq,      \* lastSequence_ of the open journal
  settled,      \* changes acknowledged, or seen in an opened state
  used,         \* number of changes used so far
  compactions, crashes

vars == <<slots, journal, st, mem, lastSeq, settled, used, compactions, crashes>>

\* A snapshot says up to which sequence number it covers the journal.
Snapshot == [ok : BOOLEAN, covered : Nat, state : SUBSET Nat]

NoSnapshot == [ok |-> FALSE, covered |-> 0, state |-> {}]

Record == [seq : Nat, change : Nat]

\* The journal file: its header, the base its first SegmentStart names (0:
\* there is none), the change records after it, the number of the last good
\* record, and what an incomplete append left behind them.
JournalFile == [header : {"absent", "partial", "whole"}, base : Nat,
                recs : SUBSET Record, last : Nat, torn : {"none", "header", "payload"}]

States == {"down", "scan", "create", "createStart", "replay", "open",
           "snapped", "cut"}

\* The variables have the shape of the files and of the process.
TypeOK ==
  /\ slots \in [Slots -> Snapshot]
  /\ journal \in JournalFile
  /\ st \in States
  /\ mem \in SUBSET Nat
  /\ lastSeq \in Nat
  /\ settled \in SUBSET Nat
  /\ used \in Nat
  /\ compactions \in Nat
  /\ crashes \in Nat

-----------------------------------------------------------------------------
(* Reading the files.                                                      *)

\* Mutant: the first slot wins whenever it is valid.
FirstSlot == IF slots["a"].ok THEN "a" ELSE IF slots["b"].ok THEN "b" ELSE "none"

\* SnapshotFile::load: the valid slot that covers most; `a` on a tie.
BestSlot ==
  IF slots["a"].ok /\ (slots["b"].ok => slots["a"].covered >= slots["b"].covered)
  THEN "a"
  ELSE IF slots["b"].ok THEN "b" ELSE "none"

Loaded == IF BestSlot = "none" THEN NoSnapshot ELSE slots[BestSlot]

\* The state the files hold, which a replay of them rebuilds if Replayable:
\* the snapshot, then what it does not cover.
Rebuilt ==
  Loaded.state \cup
  {r.change : r \in {q \in journal.recs : q.seq > Loaded.covered}}

\* The scan meets a record that does not follow its predecessor.
SequenceBroken == \E q, r \in journal.recs : q # r /\ q.seq = r.seq

\* Mutant: a gap behind the newest loadable snapshot goes unnoticed.
ReplayableIgnoringGap ==
  journal.header = "whole" /\ journal.base # 0 /\ ~SequenceBroken

\* The scanned journal has a base, and no record between the snapshot and
\* that base is missing.
Replayable ==
  /\ journal.header = "whole"
  /\ ~SequenceBroken
  /\ journal.base # 0
  /\ journal.base <= Loaded.covered + 1

-----------------------------------------------------------------------------
(* open()                                                                  *)

Start ==
  /\ st = "down"
  /\ \/ /\ journal.header = "absent"
        /\ journal' = [journal EXCEPT !.header = "partial"]
        /\ st' = "create"
     \/ /\ journal.header # "absent"
        /\ st' = "scan"
        /\ UNCHANGED journal
  /\ UNCHANGED <<slots, mem, lastSeq, settled, used, compactions, crashes>>

\* A journal that did not exist is created: its header is flushed, then the
\* first segment is started at sequence 1.
CreateHeader ==
  /\ st = "create"
  /\ journal' = [journal EXCEPT !.header = "whole"]
  /\ st' = "createStart"
  /\ UNCHANGED <<slots, mem, lastSeq, settled, used, compactions, crashes>>

\* Mutant: the new segment names the record before the last one as its base.
StartSegmentBefore ==
  /\ journal' = [journal EXCEPT !.base = lastSeq - 1, !.last = lastSeq + 1]
  /\ lastSeq' = lastSeq + 1

\* restartSegment() after the truncation: the SegmentStart record takes the
\* base sequence for itself.
StartSegment ==
  /\ journal' = [journal EXCEPT !.base = lastSeq + 1, !.last = lastSeq + 1]
  /\ lastSeq' = lastSeq + 1

CreateStart ==
  /\ st = "createStart"
  /\ StartSegment
  /\ st' = "replay"
  /\ UNCHANGED <<slots, mem, settled, used, compactions, crashes>>

Fatal == journal.header # "whole" \/ SequenceBroken

\* The journal with its tail cut off at the last good record.
Trimmed == [journal EXCEPT !.torn = "none"]

\* scanInto(): a clean file and a torn end are accepted, the latter cut off.
Scan ==
  /\ st = "scan"
  /\ ~Fatal
  /\ journal' = Trimmed
  /\ st' = "replay"
  /\ lastSeq' = journal.last
  /\ UNCHANGED <<slots, mem, settled, used, compactions, crashes>>

\* The process gives up: the file is no journal, or it is corrupted.
ScanRefuses ==
  /\ st = "scan"
  /\ Fatal
  /\ st' = "down"
  /\ UNCHANGED <<slots, journal, mem, lastSeq, settled, used, compactions, crashes>>

\* On the torn-payload path the stream is closed twice and flushed in
\* between, which is undefined: the process may die of it, before or after
\* the tail is cut off.
ScanAborts ==
  /\ st = "scan"
  /\ ~Fatal
  /\ journal.torn = "payload"
  /\ journal' \in {journal, Trimmed}
  /\ st' = "down"
  /\ UNCHANGED <<slots, mem, lastSeq, settled, used, compactions, crashes>>

\* The checks on the base, and the replay onto the snapshot.
Replay ==
  /\ st = "replay"
  /\ IF Replayable
     THEN /\ st' = "open"
          /\ mem' = Rebuilt
          /\ settled' = settled \cup Rebuilt
     ELSE /\ st' = "down"
          /\ UNCHANGED <<mem, settled>>
  /\ UNCHANGED <<slots, journal, lastSeq, used, compactions, crashes>>

-----------------------------------------------------------------------------
(* commit() and compact()                                                  *)

\* The file with the record of the next change at its end.
Appended ==
  LET r == [seq |-> lastSeq + 1, change |-> used + 1] IN
  [journal EXCEPT !.recs = @ \cup {r}, !.last = lastSeq + 1]

CanCommit == st = "open" /\ used < MaxChanges

Commit ==
  /\ CanCommit
  /\ journal' = Appended
  /\ mem' = mem \cup {used + 1}
  /\ settled' = settled \cup {used + 1}
  /\ lastSeq' = lastSeq + 1
  /\ used' = used + 1
  /\ UNCHANGED <<slots, st, compactions, crashes>>

\* Mutant: the snapshot claims to cover the record after the last one.
CompactSnapshotAhead ==
  /\ st = "open"
  /\ compactions < MaxCompactions
  /\ LET target == IF BestSlot = "a" THEN "b" ELSE "a" IN
     slots' = [slots EXCEPT ![target] =
                 [ok |-> TRUE, covered |-> lastSeq + 1, state |-> mem]]
  /\ st' = "snapped"
  /\ compactions' = compactions + 1
  /\ UNCHANGED <<journal, mem, lastSeq, settled, used, crashes>>

\* The state is written, by an atomic file replacement, into the slot that
\* does not hold the newest valid snapshot ...
CompactSnapshot ==
  /\ st = "open"
  /\ compactions < MaxCompactions
  /\ LET target == IF BestSlot = "a" THEN "b" ELSE "a" IN
     slots' = [slots EXCEPT ![target] =
                 [ok |-> TRUE, covered |-> lastSeq, state |-> mem]]
  /\ st' = "snapped"
  /\ compactions' = compactions + 1
  /\ UNCHANGED <<journal, mem, lastSeq, settled, used, crashes>>

\* ... the journal is truncated to its header ...
CompactTruncate ==
  /\ st = "snapped"
  /\ journal' = [journal EXCEPT !.base = 0, !.recs = {}, !.last = 0,
                                !.torn = "none"]
  /\ st' = "cut"
  /\ UNCHANGED <<slots, mem, lastSeq, settled, used, compactions, crashes>>

\* ... and the new segment is started.
CompactStart ==
  /\ st = "cut"
  /\ StartSegment
  /\ st' = "open"
  /\ UNCHANGED <<slots, mem, settled, used, compactions, crashes>>

-----------------------------------------------------------------------------
(* Failures.                                                               *)

\* What a crash leaves of the journal: it may fall inside an append, with
\* none, part or all of the record in the file, or inside the writing of a
\* SegmentStart record.
Left ==
  {journal} \cup
  (IF CanCommit /\ journal.torn = "none"
   THEN {Appended, [journal EXCEPT !.torn = "header"],
         [journal EXCEPT !.torn = "payload"]} ELSE {}) \cup
  (IF st \in {"cut", "createStart"}
   THEN {[journal EXCEPT !.torn = "header"], [journal EXCEPT !.torn = "payload"]}
   ELSE {})

Crash ==
  /\ st # "down"
  /\ crashes < MaxCrashes
  /\ journal' \in Left
  /\ st' = "down"
  /\ mem' = {}
  /\ lastSeq' = 0
  /\ used' = IF st = "open" /\ journal' # journal THEN used + 1 ELSE used
  /\ compactions' = 0
  /\ crashes' = crashes + 1
  /\ UNCHANGED <<slots, settled>>

\* A snapshot file goes bad while the process is down; its checksums say so.
DamageSlot ==
  /\ st = "down"
  /\ \E s \in Slots : slots[s].ok /\ slots' = [slots EXCEPT ![s].ok = FALSE]
  /\ UNCHANGED <<journal, st, mem, lastSeq, settled, used, compactions, crashes>>

-----------------------------------------------------------------------------
Init ==
  /\ slots = [s \in Slots |-> NoSnapshot]
  /\ journal = [header |-> "absent", base |-> 0, recs |-> {}, last |-> 0,
                torn |-> "none"]
  /\ st = "down"
  /\ mem = {}
  /\ lastSeq = 0
  /\ settled = {}
  /\ used = 0
  /\ compactions = 0
  /\ crashes = 0

Opening ==
  Start \/ CreateHeader \/ CreateStart \/ Scan \/ ScanRefuses \/ ScanAborts \/ Replay

Compacting == CompactTruncate \/ CompactStart

Next == Opening \/ Commit \/ CompactSnapshot \/ Compacting \/ Crash

Spec == Init /\ [][Next]_vars

DamageSpec == Init /\ [][Next \/ DamageSlot]_vars

-----------------------------------------------------------------------------
(* Properties.                                                             *)

\* The owner has the store and works on it.
Running == st \in {"open", "snapped", "cut"}

\* At every step of a commit or a compaction the files hold exactly the
\* state in memory, and a restart would be able to rebuild it; except that
\* between the truncation and the new SegmentStart record open() refuses the
\* journal, and only the snapshot holds the state (CanReopen is about that).
FilesHoldState ==
  Running => /\ Rebuilt = mem
             /\ st # "cut" => Replayable

\* A store that opens has every change it ever acknowledged or showed; with
\* a snapshot damaged it opens with all of them or not at all.
SettledKept == st = "open" => settled \subseteq mem

\* "it must survive a controller kill": what a store has acknowledged can be
\* opened again after a crash, wherever in a compaction it falls.
CanReopen == settled # {} /\ st = "down" => Replayable

\* The store implements the promise: compaction, crashes and recovery, step
\* by step, neither lose a change nor bring one back.
Promise == INSTANCE DurableLog WITH Changes <- 1 .. MaxChanges,
                                    kept <- Rebuilt, up <- Running
KeepsPromise == Promise!Spec
=============================================================================
