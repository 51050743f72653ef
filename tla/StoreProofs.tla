---------------------------- MODULE StoreProofs ----------------------------
(***************************************************************************)
(* The durable store keeps its promise for any number of changes,          *)
(* compactions and crashes.                                                *)
(***************************************************************************)
EXTENDS DurableStore, TLAPS

\* The file names its records between its base and its last one, and without
\* a base it has none.
JournalShape ==
  /\ journal.base <= journal.last
  /\ \A r \in journal.recs : journal.base < r.seq /\ r.seq <= journal.last
  /\ ~SequenceBroken
  /\ journal.base = 0 => journal.recs = {} /\ journal.last = 0
  /\ journal.header # "whole" => journal.base = 0 /\ journal.torn = "none" /\ BestSlot = "none"

\* A journal with a base starts no later than the snapshot ends, and goes on
\* at least as far.
JournalMeetsSnapshot ==
  journal.base # 0 =>
    /\ journal.base <= Loaded.covered + 1
    /\ Loaded.covered <= journal.last

\* Only changes that were used are anywhere.
ChangesUsed ==
  /\ used <= MaxChanges
  /\ Rebuilt \subseteq 1 .. used
  /\ \A r \in journal.recs : r.change \in 1 .. used

\* What each place of the process knows about the files.
PlaceInv ==
  /\ journal.header = "absent" => st = "down" /\ lastSeq = 0
  /\ st = "create" => journal.header = "partial" /\ lastSeq = 0
  /\ st = "createStart" => /\ journal.base = 0
                           /\ lastSeq = 0
                           /\ BestSlot = "none"
                           /\ journal.header = "whole"
                           /\ journal.torn = "none"
  /\ st = "scan" => journal.header # "absent"
  /\ st = "replay" => lastSeq = journal.last /\ journal.torn = "none"
  /\ Running => /\ journal.header = "whole"
                /\ journal.torn = "none"
                /\ mem = Rebuilt
  /\ st \in {"open", "snapped"} => journal.base # 0 /\ lastSeq = journal.last
  /\ st \in {"snapped", "cut"} => Loaded.covered = lastSeq /\ Loaded.state = mem
  /\ st = "cut" => journal.base = 0

\* The inductive invariant.
StoreInv ==
  /\ TypeOK
  /\ JournalShape
  /\ JournalMeetsSnapshot
  /\ ChangesUsed
  /\ PlaceInv
  /\ settled \subseteq Rebuilt

-----------------------------------------------------------------------------
(* Reading the files.                                                      *)

\* What a load finds is a snapshot, and depends on the slots alone.
LEMMA LoadedType == ASSUME TypeOK PROVE Loaded \in Snapshot
  BY DEF TypeOK, Loaded, BestSlot, Snapshot, NoSnapshot, Slots

\* Which snapshot is loaded depends on the slots alone.
LEMMA LoadedFrame ==
  ASSUME UNCHANGED slots PROVE Loaded' = Loaded /\ BestSlot' = BestSlot
  BY DEF Loaded, BestSlot

\* What a replay rebuilds depends on the slots and the good records alone.
LEMMA RebuiltFrame ==
  ASSUME UNCHANGED slots, journal'.recs = journal.recs PROVE Rebuilt' = Rebuilt
  BY LoadedFrame DEF Rebuilt

\* Whether the scan finds its records in sequence depends on the good records alone.
LEMMA SequenceFrame ==
  ASSUME journal'.recs = journal.recs PROVE SequenceBroken' <=> SequenceBroken
  BY DEF SequenceBroken

\* A journal without records has no break in its sequence.
LEMMA NoBreak == ASSUME journal.recs = {} PROVE ~SequenceBroken
  BY DEF SequenceBroken

\* An append behind the snapshot adds its change, and only that.
LEMMA RebuiltAppend ==
  ASSUME TypeOK, UNCHANGED slots, journal.torn = "none", journal' = Appended,
         Loaded.covered <= lastSeq
  PROVE  Rebuilt' = Rebuilt \cup {used + 1}
<1> DEFINE new == [seq |-> lastSeq + 1, change |-> used + 1]
           Beyond(recs) == {q \in recs : q.seq > Loaded.covered}
<1>1. Loaded' = Loaded
  BY LoadedFrame
<1>2. journal'.recs = journal.recs \cup {new}
  BY DEF Appended, TypeOK, JournalFile
<1>3. new.seq > Loaded.covered /\ new.change = used + 1
  BY LoadedType DEF TypeOK, Snapshot
<1> HIDE DEF new
<1>4. Beyond(journal'.recs) = Beyond(journal.recs) \cup {new}
  BY <1>2, <1>3
<1>5. {r.change : r \in Beyond(journal'.recs)} =
      {r.change : r \in Beyond(journal.recs)} \cup {used + 1}
  BY <1>3, <1>4
<1> QED
  BY <1>1, <1>5 DEF Rebuilt

\* The slot a compaction writes is the one a load then finds, unless the
\* other one already holds the same state.
LEMMA SnapshotLoaded ==
  ASSUME TypeOK, CompactSnapshot, Loaded.covered <= lastSeq,
         Loaded.covered = lastSeq => Loaded.state = mem
  PROVE  Loaded'.covered = lastSeq /\ Loaded'.state = mem /\ BestSlot' # "none"
<1> DEFINE target == IF BestSlot = "a" THEN "b" ELSE "a"
           new == [ok |-> TRUE, covered |-> lastSeq, state |-> mem]
<1>1. slots' = [slots EXCEPT ![target] = new]
  BY DEF CompactSnapshot
<1>2. CASE BestSlot = "a"
  <2>1. slots'["b"] = new /\ slots'["a"] = slots["a"]
    BY <1>1, <1>2 DEF TypeOK, Slots
  <2>2. slots["a"].ok /\ Loaded = slots["a"]
    BY <1>2 DEF BestSlot, Loaded
  <2> QED
    BY <2>1, <2>2 DEF TypeOK, Slots, Snapshot, BestSlot, Loaded
<1>3. CASE BestSlot # "a"
  <2>1. slots'["a"] = new /\ slots'["b"] = slots["b"]
    BY <1>1, <1>3 DEF TypeOK, Slots
  <2>2. slots["b"].ok => Loaded = slots["b"]
    BY <1>3 DEF BestSlot, Loaded
  <2> QED
    BY <2>1, <2>2 DEF TypeOK, Slots, Snapshot, BestSlot, Loaded
<1> QED
  BY <1>2, <1>3

-----------------------------------------------------------------------------
(* The invariant.                                                          *)

\* An empty directory satisfies the invariant.
LEMMA StoreInit == Init => StoreInv
<1> SUFFICES ASSUME Init PROVE StoreInv
  OBVIOUS
<1>1. TypeOK
  BY DEF Init, TypeOK, Snapshot, NoSnapshot, JournalFile, States, Slots
<1>2. BestSlot = "none" /\ Loaded = NoSnapshot
  BY DEF Init, BestSlot, Loaded, NoSnapshot, Slots
<1>3. Rebuilt = {}
  BY <1>2 DEF Init, Rebuilt, NoSnapshot
<1>4. JournalShape /\ JournalMeetsSnapshot /\ settled \subseteq Rebuilt
  BY <1>2, NoBreak DEF Init, JournalShape, JournalMeetsSnapshot
<1>5. ChangesUsed
  BY <1>3, BoundsAssumption DEF Init, ChangesUsed
<1>6. PlaceInv
  BY DEF Init, PlaceInv, Running
<1> QED
  BY <1>1, <1>4, <1>5, <1>6 DEF StoreInv

\* Every step keeps the types.
LEMMA TypeStep == TypeOK /\ Next => TypeOK'
<1> SUFFICES ASSUME TypeOK, Next PROVE TypeOK'
  OBVIOUS
<1> USE DEF TypeOK, States
<1> DEFINE n == lastSeq + 1
           new == [seq |-> n, change |-> used + 1]
<1>0. n \in Nat /\ new \in Record
  BY DEF Record
<1>n. [journal EXCEPT !.base = n, !.last = n] \in JournalFile
  <2> HIDE DEF n
  <2> QED BY <1>0 DEF JournalFile
<1>1. Appended \in JournalFile
  <2>1. Appended = [journal EXCEPT !.recs = @ \cup {new}, !.last = n]
    BY DEF Appended
  <2> HIDE DEF n, new
  <2> QED BY <1>0, <2>1 DEF JournalFile
<1>2. Trimmed \in JournalFile
  BY DEF Trimmed, JournalFile
<1>3. Left \subseteq JournalFile
  BY <1>1 DEF Left, JournalFile
<1>4. CASE Start
  BY <1>4 DEF Start, JournalFile
<1>5. CASE CreateHeader
  BY <1>5 DEF CreateHeader, JournalFile
<1>6. CASE CreateStart
  BY <1>6, <1>0, <1>n DEF CreateStart, StartSegment
<1>7. CASE Scan
  BY <1>7, <1>2 DEF Scan, JournalFile
<1>8. CASE ScanRefuses
  BY <1>8 DEF ScanRefuses
<1>9. CASE ScanAborts
  BY <1>9, <1>2 DEF ScanAborts
<1>10. CASE Replay
  <2>1. Rebuilt \in SUBSET Nat
    BY LoadedType DEF Rebuilt, Snapshot, JournalFile, Record
  <2> QED
    BY <1>10, <2>1 DEF Replay
<1>11. CASE Commit
  BY <1>11, <1>1 DEF Commit, CanCommit
<1>12. CASE CompactSnapshot
  BY <1>12 DEF CompactSnapshot, Snapshot, Slots
<1>13. CASE CompactTruncate
  BY <1>13 DEF CompactTruncate, JournalFile
<1>14. CASE CompactStart
  BY <1>14, <1>0, <1>n DEF CompactStart, StartSegment
<1>15. CASE Crash
  BY <1>15, <1>3 DEF Crash
<1> QED
  BY <1>4, <1>5, <1>6, <1>7, <1>8, <1>9, <1>10, <1>11, <1>12, <1>13, <1>14, <1>15
  DEF Next, Opening, Compacting

\* Whatever the store does, its variables keep their shape.
THEOREM StoreTypes == Spec => []TypeOK
<1>1. Init => TypeOK
  BY StoreInit DEF StoreInv
<1>2. TypeOK /\ UNCHANGED vars => TypeOK'
  BY DEF TypeOK, vars
<1> QED
  BY <1>1, <1>2, TypeStep, PTL DEF Spec

\* A step that changes neither slots nor the good part of the journal keeps
\* what is said about the files alone.
LEMMA FilesFrame ==
  ASSUME StoreInv, UNCHANGED <<slots, settled>>,
         used <= used', used' <= MaxChanges, used' \in Nat,
         journal'.base = journal.base,
         journal'.recs = journal.recs, journal'.last = journal.last,
         journal'.header # "whole" => journal.header # "whole" /\ journal'.torn = "none"
  PROVE  /\ JournalShape' /\ JournalMeetsSnapshot' /\ ChangesUsed'
         /\ (settled \subseteq Rebuilt)'
         /\ Rebuilt' = Rebuilt /\ Loaded' = Loaded /\ BestSlot' = BestSlot
<1>1. Rebuilt' = Rebuilt /\ Loaded' = Loaded /\ BestSlot' = BestSlot
  BY RebuiltFrame, LoadedFrame
<1>2. JournalShape' /\ JournalMeetsSnapshot'
  BY <1>1, SequenceFrame DEF StoreInv, JournalShape, JournalMeetsSnapshot
<1>3. 1 .. used \subseteq 1 .. used'
  BY DEF StoreInv, TypeOK
<1>4. ChangesUsed'
  BY <1>1, <1>3 DEF StoreInv, ChangesUsed
<1> QED
  BY <1>1, <1>2, <1>4 DEF StoreInv

\* An append keeps what is said about the files, and adds its change.
LEMMA AppendKeepsFiles ==
  ASSUME StoreInv, st = "open", UNCHANGED slots, journal' = Appended,
         used' = used + 1, used + 1 <= MaxChanges
  PROVE  /\ JournalShape' /\ JournalMeetsSnapshot' /\ ChangesUsed'
         /\ Rebuilt' = Rebuilt \cup {used + 1}
         /\ journal'.base # 0 /\ journal'.last = lastSeq + 1
         /\ journal'.header = "whole" /\ journal'.torn = "none"
<1> DEFINE new == [seq |-> lastSeq + 1, change |-> used + 1]
<1>0. /\ TypeOK /\ journal \in JournalFile /\ used \in Nat /\ lastSeq \in Nat
      /\ Loaded.covered \in Nat
  BY LoadedType DEF StoreInv, TypeOK, Snapshot
<1>1. /\ journal.torn = "none" /\ lastSeq = journal.last /\ journal.base # 0
      /\ Loaded.covered <= lastSeq /\ journal.header = "whole"
  BY DEF StoreInv, PlaceInv, Running, JournalMeetsSnapshot
<1>2. Rebuilt' = Rebuilt \cup {used + 1}
  BY <1>0, <1>1, RebuiltAppend
<1>3. Loaded' = Loaded /\ BestSlot' = BestSlot
  BY LoadedFrame
<1>4. journal' = [journal EXCEPT !.recs = @ \cup {new}, !.last = lastSeq + 1]
  BY <1>1 DEF Appended
<1>5. new.seq = lastSeq + 1 /\ new.change = used + 1
  OBVIOUS
<1> HIDE DEF new
<1>6. /\ journal'.recs = journal.recs \cup {new} /\ journal'.last = lastSeq + 1
      /\ journal'.base = journal.base
      /\ journal'.header = journal.header /\ journal'.torn = journal.torn
  BY <1>0, <1>4 DEF JournalFile
<1>7. JournalShape' /\ JournalMeetsSnapshot'
  <2>1. journal.base \in Nat /\ \A r \in journal.recs : r.seq \in Nat
    BY <1>0 DEF JournalFile, Record
  <2>2. \A r \in journal.recs : r.seq <= lastSeq
    BY <1>1 DEF StoreInv, JournalShape
  <2>3. ~SequenceBroken'
    BY <1>0, <1>5, <1>6, <2>1, <2>2 DEF SequenceBroken, StoreInv, JournalShape
  <2> QED
    BY <1>0, <1>1, <1>3, <1>5, <1>6, <2>1, <2>3
    DEF StoreInv, JournalShape, JournalMeetsSnapshot
<1>8. ChangesUsed'
  <2>1. 1 .. used \subseteq 1 .. used + 1 /\ used + 1 \in 1 .. used + 1
    BY <1>0
  <2> QED
    BY <1>2, <1>5, <1>6, <2>1 DEF StoreInv, ChangesUsed
<1> QED
  BY <1>1, <1>2, <1>6, <1>7, <1>8

\* Every step of opening, committing, compacting and crashing keeps the invariant.
LEMMA StoreStep == StoreInv /\ Next => StoreInv'
<1> SUFFICES ASSUME StoreInv, Next PROVE StoreInv'
  OBVIOUS
<1>0. TypeOK /\ TypeOK'
  BY TypeStep DEF StoreInv
<1> DEFINE FilesInv == JournalShape /\ JournalMeetsSnapshot /\ ChangesUsed
                       /\ settled \subseteq Rebuilt
<1>A. journal \in JournalFile /\ used \in Nat /\ used <= MaxChanges /\ lastSeq \in Nat
  BY <1>0 DEF StoreInv, ChangesUsed, TypeOK
<1>B. SUFFICES FilesInv' /\ PlaceInv'
  BY <1>0 DEF StoreInv
<1>1. CASE Start
  <2>1. FilesInv' /\ Rebuilt' = Rebuilt /\ BestSlot' = BestSlot
    BY <1>1, <1>A, FilesFrame DEF Start, StoreInv, JournalShape, JournalFile
  <2> QED
    BY <1>1, <1>A, <2>1 DEF Start, StoreInv, PlaceInv, Running, JournalFile
<1>2. CASE CreateHeader
  <2>1. FilesInv' /\ Rebuilt' = Rebuilt /\ BestSlot' = BestSlot
    BY <1>2, <1>A, LoadedFrame, RebuiltFrame, SequenceFrame
    DEF CreateHeader, StoreInv, PlaceInv, JournalShape, JournalMeetsSnapshot,
        ChangesUsed, JournalFile
  <2>2. journal.base = 0 /\ BestSlot = "none" /\ journal.torn = "none"
    BY <1>2 DEF CreateHeader, StoreInv, PlaceInv, JournalShape
  <2> QED
    BY <1>2, <1>A, <2>1, <2>2 DEF CreateHeader, StoreInv, PlaceInv, Running, JournalFile
<1>4. CASE Scan
  <2>1. FilesInv' /\ Rebuilt' = Rebuilt /\ BestSlot' = BestSlot
    BY <1>4, <1>A, FilesFrame DEF Scan, Trimmed, Fatal, JournalFile
  <2> QED
    BY <1>4, <1>A, <2>1 DEF Scan, Trimmed, Fatal, StoreInv, PlaceInv, Running, JournalFile
<1>5. CASE ScanRefuses
  <2>1. FilesInv' /\ Rebuilt' = Rebuilt /\ BestSlot' = BestSlot
    BY <1>5, <1>A, FilesFrame DEF ScanRefuses, StoreInv, JournalShape
  <2> QED
    BY <1>5, <1>A, <2>1 DEF ScanRefuses, StoreInv, PlaceInv, Running
<1>6. CASE ScanAborts
  <2>0. /\ journal'.base = journal.base
        /\ journal'.recs = journal.recs /\ journal'.last = journal.last
        /\ journal'.header = "whole"
    BY <1>6, <1>A DEF ScanAborts, Trimmed, Fatal, StoreInv, JournalShape, JournalFile
  <2>1. FilesInv' /\ Rebuilt' = Rebuilt /\ BestSlot' = BestSlot
    BY <1>6, <1>A, <2>0, FilesFrame DEF ScanAborts
  <2> QED
    BY <1>6, <1>A, <2>1 DEF ScanAborts, Trimmed, Fatal, StoreInv, PlaceInv, Running, JournalFile
<1>3. CASE CreateStart
  <2>1. /\ journal.base = 0 /\ lastSeq = 0 /\ BestSlot = "none"
        /\ journal.recs = {} /\ journal.header = "whole" /\ journal.torn = "none"
    BY <1>3 DEF CreateStart, StoreInv, PlaceInv, JournalShape
  <2>2. journal' = [journal EXCEPT !.base = 1, !.last = 1] /\ lastSeq' = 1
    BY <1>3, <2>1 DEF CreateStart, StartSegment
  <2>3. Rebuilt' = Rebuilt /\ Loaded' = Loaded /\ BestSlot' = BestSlot
    BY <1>3, <1>A, <2>2, RebuiltFrame, LoadedFrame DEF CreateStart, JournalFile
  <2>4. Loaded.covered = 0
    BY <2>1 DEF Loaded, NoSnapshot
  <2>5. JournalShape' /\ JournalMeetsSnapshot'
    BY <1>A, <2>1, <2>2, <2>3, <2>4, SequenceFrame
    DEF StoreInv, JournalShape, JournalMeetsSnapshot, JournalFile
  <2>6. ChangesUsed' /\ (settled \subseteq Rebuilt)'
    BY <1>3, <1>A, <2>2, <2>3 DEF CreateStart, StoreInv, ChangesUsed, JournalFile
  <2>7. PlaceInv'
    BY <1>3, <1>A, <2>1, <2>2 DEF CreateStart, PlaceInv, Running, JournalFile
  <2> QED
    BY <2>5, <2>6, <2>7
<1>7. CASE Replay
  <2>1. Rebuilt' = Rebuilt /\ Loaded' = Loaded /\ BestSlot' = BestSlot
    BY <1>7, RebuiltFrame, LoadedFrame DEF Replay
  <2>2. FilesInv'
    BY <1>7, <2>1, SequenceFrame DEF Replay, StoreInv, JournalShape, JournalMeetsSnapshot, ChangesUsed
  <2>3. PlaceInv'
    BY <1>7, <2>1 DEF Replay, Replayable, StoreInv, PlaceInv, Running
  <2> QED
    BY <2>2, <2>3
<1>8. CASE Commit
  <2>1. st = "open" /\ mem = Rebuilt
    BY <1>8 DEF Commit, CanCommit, StoreInv, PlaceInv, Running
  <2>2. used' = used + 1 /\ used + 1 <= MaxChanges
    BY <1>8, <1>A, BoundsAssumption DEF Commit, CanCommit
  <2>3. /\ JournalShape' /\ JournalMeetsSnapshot' /\ ChangesUsed'
        /\ Rebuilt' = Rebuilt \cup {used + 1}
        /\ journal'.base # 0 /\ journal'.last = lastSeq + 1
        /\ journal'.header = "whole" /\ journal'.torn = "none"
    BY <1>8, <2>1, <2>2, AppendKeepsFiles DEF Commit
  <2>4. (settled \subseteq Rebuilt)' /\ mem' = Rebuilt'
    BY <1>8, <2>1, <2>3 DEF Commit, StoreInv
  <2>5. PlaceInv'
    BY <1>8, <2>1, <2>3, <2>4 DEF Commit, PlaceInv, Running
  <2> QED
    BY <2>3, <2>4, <2>5
<1>9. CASE CompactSnapshot
  <2>1. /\ st = "open" /\ journal.torn = "none" /\ lastSeq = journal.last
        /\ journal.base # 0 /\ mem = Rebuilt /\ Loaded.covered <= lastSeq
        /\ journal.header = "whole"
    BY <1>9 DEF CompactSnapshot, StoreInv, PlaceInv, Running, JournalMeetsSnapshot
  <2>2. Loaded.covered = lastSeq => Loaded.state = mem
    <3>1. \A r \in journal.recs : r.seq \in Nat /\ r.seq <= lastSeq
      BY <1>A, <2>1 DEF StoreInv, JournalShape, JournalFile, Record
    <3>2. Loaded.covered = lastSeq => {q \in journal.recs : q.seq > Loaded.covered} = {}
      BY <1>A, <3>1
    <3> QED
      BY <2>1, <3>2 DEF Rebuilt
  <2>3. Loaded'.covered = lastSeq /\ Loaded'.state = mem /\ BestSlot' # "none"
    BY <1>0, <1>9, <2>1, <2>2, SnapshotLoaded
  <2>4. journal' = journal /\ mem' = mem /\ lastSeq' = lastSeq /\ settled' = settled
        /\ used' = used /\ st' = "snapped"
    BY <1>9 DEF CompactSnapshot
  <2>5. Rebuilt' = mem
    <3>1. \A r \in journal.recs : r.seq \in Nat /\ r.seq <= lastSeq
      BY <1>A, <2>1 DEF StoreInv, JournalShape, JournalFile, Record
    <3>2. {q \in journal'.recs : q.seq > Loaded'.covered} = {}
      BY <1>A, <2>3, <2>4, <3>1
    <3> QED
      BY <2>3, <3>2 DEF Rebuilt
  <2>6. JournalShape' /\ JournalMeetsSnapshot'
    BY <1>A, <2>1, <2>3, <2>4, SequenceFrame
    DEF StoreInv, JournalShape, JournalMeetsSnapshot, JournalFile
  <2>7. ChangesUsed' /\ (settled \subseteq Rebuilt)'
    BY <2>1, <2>4, <2>5 DEF StoreInv, ChangesUsed
  <2>8. PlaceInv'
    BY <2>1, <2>3, <2>4, <2>5 DEF PlaceInv, Running
  <2> QED
    BY <2>6, <2>7, <2>8
<1>10. CASE CompactTruncate
  <2>1. /\ mem = Rebuilt /\ journal.header = "whole"
        /\ Loaded.covered = lastSeq /\ Loaded.state = mem
    BY <1>10 DEF CompactTruncate, StoreInv, PlaceInv, Running
  <2>2. /\ journal'.recs = {} /\ journal'.base = 0 /\ journal'.last = 0
        /\ journal'.torn = "none" /\ journal'.header = "whole"
    BY <1>10, <1>A, <2>1 DEF CompactTruncate, JournalFile
  <2>3. Loaded' = Loaded /\ BestSlot' = BestSlot
    BY <1>10, LoadedFrame DEF CompactTruncate
  <2>4. Rebuilt' = Rebuilt
    BY <2>1, <2>2, <2>3 DEF Rebuilt
  <2>5. JournalShape' /\ JournalMeetsSnapshot'
    BY <2>2 DEF JournalShape, JournalMeetsSnapshot, SequenceBroken
  <2>6. ChangesUsed' /\ (settled \subseteq Rebuilt)'
    BY <1>10, <2>2, <2>4 DEF CompactTruncate, StoreInv, ChangesUsed
  <2>7. PlaceInv'
    BY <1>10, <2>1, <2>2, <2>3, <2>4 DEF CompactTruncate, PlaceInv, Running
  <2> QED
    BY <2>5, <2>6, <2>7
<1>11. CASE CompactStart
  <2>1. /\ st = "cut" /\ mem = Rebuilt /\ journal.header = "whole" /\ journal.base = 0
        /\ Loaded.covered = lastSeq /\ journal.torn = "none" /\ journal.recs = {}
    BY <1>11 DEF CompactStart, StoreInv, PlaceInv, Running, JournalShape
  <2>2. /\ journal'.recs = {} /\ journal'.base = lastSeq + 1 /\ journal'.last = lastSeq + 1
        /\ journal'.torn = "none"
        /\ journal'.header = "whole" /\ lastSeq' = lastSeq + 1 /\ st' = "open"
    BY <1>11, <1>A, <2>1 DEF CompactStart, StartSegment, JournalFile
  <2>3. Loaded' = Loaded /\ BestSlot' = BestSlot /\ Rebuilt' = Rebuilt
    BY <1>11, <2>1, <2>2, LoadedFrame, RebuiltFrame DEF CompactStart
  <2>4. JournalShape' /\ JournalMeetsSnapshot'
    BY <1>A, <2>1, <2>2, <2>3, SequenceFrame DEF StoreInv, JournalShape, JournalMeetsSnapshot
  <2>5. ChangesUsed' /\ (settled \subseteq Rebuilt)'
    BY <1>11, <2>2, <2>3 DEF CompactStart, StoreInv, ChangesUsed
  <2>6. PlaceInv'
    BY <1>11, <1>A, <2>1, <2>2, <2>3 DEF CompactStart, PlaceInv, Running
  <2> QED
    BY <2>4, <2>5, <2>6
<1>12. CASE Crash
  <2>1. PICK j \in Left : journal' = j
    BY <1>12 DEF Crash
  <2>2. CASE journal'.recs = journal.recs /\ journal'.base = journal.base
             /\ journal'.last = journal.last
             /\ journal'.header = journal.header
             /\ (journal.header # "whole" => journal'.torn = journal.torn)
    <3>1. used <= used' /\ used' <= MaxChanges /\ used' \in Nat
      BY <1>12, <1>A, BoundsAssumption DEF Crash, Left, CanCommit
    <3>2. FilesInv'
      BY <1>12, <2>2, <3>1, FilesFrame DEF Crash, StoreInv, JournalShape
    <3>3. PlaceInv'
      BY <1>12, <2>2 DEF Crash, PlaceInv, Running, StoreInv
    <3> QED
      BY <3>2, <3>3
  <2>3. CASE CanCommit /\ journal.torn = "none" /\ journal' = Appended
    <3>1. st = "open" /\ used + 1 <= MaxChanges
      BY <1>A, <2>3, BoundsAssumption DEF CanCommit
    <3>2. used' = used + 1
      <4>1. journal'.recs # journal.recs \/ journal'.last # journal.last
        <5>1. journal.last = lastSeq
          BY <3>1 DEF StoreInv, PlaceInv
        <5>2. journal'.last = lastSeq + 1
          BY <1>A, <2>3 DEF Appended, JournalFile
        <5> QED
          BY <1>A, <5>1, <5>2
      <4> QED
        BY <1>12, <3>1, <4>1 DEF Crash
    <3>3. /\ JournalShape' /\ JournalMeetsSnapshot' /\ ChangesUsed'
          /\ Rebuilt' = Rebuilt \cup {used + 1} /\ journal'.header = "whole"
      BY <1>12, <2>3, <3>1, <3>2, AppendKeepsFiles DEF Crash
    <3>4. (settled \subseteq Rebuilt)'
      BY <1>12, <3>3 DEF Crash, StoreInv
    <3>5. PlaceInv'
      BY <1>12, <3>3 DEF Crash, PlaceInv, Running
    <3> QED
      BY <3>3, <3>4, <3>5
  <2>4. \/ CanCommit /\ journal.torn = "none" /\ journal' = Appended
        \/ /\ journal'.recs = journal.recs /\ journal'.base = journal.base
           /\ journal'.last = journal.last
           /\ journal'.header = journal.header
           /\ (journal.header # "whole" => journal'.torn = journal.torn)
    <3>1. st \in {"open", "cut", "createStart"} => journal.header = "whole"
      BY DEF StoreInv, PlaceInv, Running
    <3> QED
      BY <1>A, <2>1, <3>1 DEF Left, CanCommit, JournalFile
  <2> QED
    BY <2>2, <2>3, <2>4
<1> QED
  BY <1>1, <1>2, <1>3, <1>4, <1>5, <1>6, <1>7, <1>8, <1>9, <1>10, <1>11, <1>12
  DEF Next, Opening, Compacting

\* The inductive invariant of the store holds in every behaviour.
THEOREM StoreInvariant == Spec => []StoreInv
<1>1. StoreInv /\ UNCHANGED vars => StoreInv'
  <2> SUFFICES ASSUME StoreInv, UNCHANGED vars PROVE StoreInv'
    OBVIOUS
  <2>1. Loaded' = Loaded /\ BestSlot' = BestSlot /\ Rebuilt' = Rebuilt
    BY LoadedFrame, RebuiltFrame DEF vars
  <2> QED
    BY <2>1, SequenceFrame DEF vars, StoreInv, TypeOK, JournalShape, JournalMeetsSnapshot,
       ChangesUsed, PlaceInv, Running
<1> QED
  BY <1>1, StoreInit, StoreStep, PTL DEF Spec

\* At every step of a commit or a compaction the files hold exactly the state
\* in memory, and open() would accept them and rebuild it, except between the
\* truncation of the journal and its new SegmentStart record.
THEOREM FilesAlwaysHoldState == Spec => []FilesHoldState
<1>1. StoreInv => FilesHoldState
  BY DEF StoreInv, PlaceInv, JournalShape, JournalMeetsSnapshot, Running, Replayable, FilesHoldState
<1> QED
  BY <1>1, StoreInvariant, PTL

\* An opened store has every change it acknowledged or showed before.
THEOREM NothingSettledIsLost == Spec => []SettledKept
<1>1. StoreInv => SettledKept
  BY DEF StoreInv, PlaceInv, Running, SettledKept
<1> QED
  BY <1>1, StoreInvariant, PTL

-----------------------------------------------------------------------------
(* The refinement: every step of the store is a step of DurableLog or      *)
(* changes neither what a replay rebuilds nor whether the owner runs.      *)

\* What one step does to the rebuilt state.
LEMMA RebuiltStep ==
  ASSUME StoreInv, StoreInv', Next
  PROVE  \/ Rebuilt' = Rebuilt
         \/ /\ Commit \/ Crash
            /\ st = "open"
            /\ used + 1 \in (1 .. MaxChanges) \ Rebuilt
            /\ Rebuilt' = Rebuilt \cup {used + 1}
<1>A. journal \in JournalFile /\ used \in Nat /\ Rebuilt \subseteq 1 .. used
  BY DEF StoreInv, TypeOK, ChangesUsed
<1>B. CanCommit => used + 1 \in (1 .. MaxChanges) \ Rebuilt
  BY <1>A, BoundsAssumption DEF CanCommit
<1>C. ASSUME UNCHANGED slots, CanCommit, journal' = Appended
      PROVE  Rebuilt' = Rebuilt \cup {used + 1}
  <2>1. TypeOK /\ journal.torn = "none" /\ Loaded.covered <= lastSeq
    BY <1>C DEF CanCommit, StoreInv, PlaceInv, Running, JournalMeetsSnapshot
  <2> QED
    BY <1>C, <2>1, RebuiltAppend
<1>1. CASE Opening
  <2>1. UNCHANGED slots /\ journal'.recs = journal.recs
    BY <1>1, <1>A DEF Opening, Start, CreateHeader, CreateStart, StartSegment, Scan,
       ScanRefuses, ScanAborts, Replay, Trimmed, JournalFile
  <2> QED
    BY <2>1, RebuiltFrame
<1>2. CASE Commit
  BY <1>2, <1>B, <1>C DEF Commit, CanCommit
<1>3. CASE CompactSnapshot \/ Compacting
  <2>1. st \in {"open", "snapped", "cut"} /\ st' \in {"open", "snapped", "cut"} /\ mem' = mem
    BY <1>3 DEF CompactSnapshot, Compacting, CompactTruncate, CompactStart
  <2> QED
    BY <2>1 DEF StoreInv, PlaceInv, Running
<1>4. CASE Crash
  <2>1. UNCHANGED slots /\ journal' \in Left
    BY <1>4 DEF Crash
  <2>2. (CanCommit /\ journal' = Appended) \/ journal'.recs = journal.recs
    BY <1>A, <2>1 DEF Left, JournalFile
  <2> QED
    BY <1>4, <1>B, <1>C, <2>1, <2>2, RebuiltFrame DEF CanCommit
<1> QED
  BY <1>1, <1>2, <1>3, <1>4 DEF Next

\* Through compactions, crashes inside any file operation and recoveries, the
\* store never loses a change and never brings one back.
THEOREM StoreKeepsPromise == Spec => KeepsPromise
<1>1. Init => Promise!Init
  <2> SUFFICES ASSUME Init PROVE Promise!Init
    OBVIOUS
  <2>1. Rebuilt = {}
    BY DEF Init, Rebuilt, Loaded, BestSlot, NoSnapshot, Slots
  <2> QED
    BY <2>1 DEF Init, Promise!Init, Running
<1>2. StoreInv /\ StoreInv' /\ [Next]_vars => [Promise!Next]_(Promise!vars)
  <2> SUFFICES ASSUME StoreInv, StoreInv', [Next]_vars
               PROVE  [Promise!Next]_(Promise!vars)
    OBVIOUS
  <2> USE DEF Promise!vars, Promise!Next, Promise!Commit, Promise!Stop, Promise!Start
  <2>1. CASE UNCHANGED vars
    <3>1. Rebuilt' = Rebuilt /\ Running' = Running
      BY <2>1, RebuiltFrame DEF vars, Running
    <3> QED
      BY <3>1
  <2>0. Running \in BOOLEAN /\ Running' \in BOOLEAN
    BY DEF Running
  <2>2. CASE Next /\ Rebuilt' = Rebuilt
    BY <2>0, <2>2, Zenon
  <2>3. CASE Commit /\ Rebuilt' # Rebuilt
    <3>1. used + 1 \in (1 .. MaxChanges) \ Rebuilt /\ Rebuilt' = Rebuilt \cup {used + 1}
      BY <2>3, RebuiltStep DEF Next
    <3>2. Running /\ Running'
      BY <2>3 DEF Commit, CanCommit, Running
    <3> QED
      BY <3>1, <3>2
  <2>4. CASE Crash /\ Rebuilt' # Rebuilt
    <3>1. /\ used + 1 \in (1 .. MaxChanges) \ Rebuilt
          /\ Rebuilt' = Rebuilt \cup {used + 1}
          /\ st = "open"
      BY <2>4, RebuiltStep DEF Next
    <3>2. Running /\ Running' = FALSE
      BY <2>4, <3>1 DEF Crash, Running
    <3> QED
      BY <3>1, <3>2
  <2> QED
    BY <2>1, <2>2, <2>3, <2>4, RebuiltStep DEF Next
<1> QED
  BY <1>1, <1>2, StoreInvariant, PTL DEF Spec, KeepsPromise, Promise!Spec

=============================================================================
