# Configuration Fabric: a TLA+ verification project

Configuration Fabric distributes configuration artifacts from one controller
(the *distributor*) to many *target agents* over TCP and records, durably and
on both sides, what each target activated.  This directory models the parts of
it that are hard to test: what a crash between two durable effects leaves and
what recovery makes of it, what threads that work on copies of one record do to
each other, what lost, late and repeated messages do to the two sides' view of a
target, and whether a plan converges in the end.
`PROJECT.json` is the index: components, runs, the map from
definitions to source lines, hazards, findings and theorems.

## 1. Inventory

| Component | State it keeps | Operations | Hard behaviour | Correct means |
|---|---|---|---|---|
| Target agent (`src/src/agent.cpp`, state in `state.cpp`) | journaled `AgentState` (boot term, committed pair, prepare window, transfers, findings, rollback count); files: staging files, payloads, `current` pointers, `pending` markers | handlers for Prepare, ArtifactChunk, TransferComplete, Stage, ApplyPrepare, ApplyCommit, ApplyAbort, Retire; `open()` with `recoverLiveArea()` | several durable effects per handler; unsynced staging files; crashes during recovery; rival generations in any order | only verified bytes go live; the pointer never goes back and never dangles; the record follows the pointer; a window does not outlive a restart; answers are true |
| Durable store (`include/cf/store.hpp`, `src/journal.cpp`) | two snapshot slots, a journal, the state in memory | `open`, `commit`, `compact`, `compactIfNeeded` | crash inside an append and between the steps of a compaction; torn tails; damaged slots | nothing acknowledged is lost, nothing comes back |
| Distributor (`src/src/distributor.cpp`) | journaled `ControllerState`: deployments, deliveries, targets; sessions of worker threads | `submitPlan`, `retireDeployment`, worker sessions (offer, transfer, activate, await), `reconcile`, `open` | worker and control threads on copies of one record; retries and timeouts against late answers; restart | acknowledged implies activated; a final state is final; every delivery is settled in the end |
| Lifecycle (`lifecycle.cpp`) | none (a table) | `isLegalTransition` | – | the table is the only way a state changes |
| Policy (`policy.cpp`) | none | `decide` | retry and backoff limits | no delivery stuck, no decision that the table refuses |
| Reconciliation (`reconciliation.cpp`) | none | `reconcileDelivery` | stale or other-key reports | only what a report proves is adopted |
| Convergence (`convergence.cpp`) | none | `buildConvergenceReport` | – | the report agrees with the records |
| Handshake (`agent.cpp`, `distributor.cpp`, `protocol.cpp`) | epochs, boot terms, incarnations, durable on both sides | hello and acknowledgement on both sides | restarted and duplicated processes; a plan that writes back the target record | one process per epoch and per boot term; both ends of a session agree |
| Artifact store (`artifact.cpp`) | content-addressed files, an index and its byte count | ingest, read, verify, quarantine, open | index behind a lock and files outside it; crash between payload and metadata; resumed reads | the account agrees with the index; what was published is there and is served |
| Framing, transport (`frame.cpp`, `transport.cpp`) | byte stream, decode buffer, deadlines, an interrupt flag | send, receive, interrupt, close | partial writes and reads; a frame behind a torn one; interrupt against wait | frames in order and whole; bounded memory; a cancelled receive returns |
| Wire codecs (`protocol.cpp`) | none | encoding and decoding | messages the decoders refuse | what a decoder lets through is what the handlers expect |
| Control surface (`control.cpp`) | none | `plan`, `retire`, `verify` and queries | – | the operations of the distributor's control thread |
| Plan format, applications, primitives | none, or process set-up | parsing, formatting, hashing | – | outside this project |

Interactions.  A distributor worker opens a session to one agent, shakes hands,
asks for a report and reconciles, then drives its deliveries: Prepare, chunks,
TransferComplete, Stage, (ApplyPrepare,) ApplyCommit, and waits for the
delivery acknowledgement.  The agent answers one frame at a time and keeps one
session at a time.  Both processes keep their state in a durable store, and
the agent writes the files of the live area next to it.

## 2. Modules

| Module | Models |
|---|---|
| `DurableLog` | the abstract specification of a durable store: a set of changes that only grows; a crash keeps or drops the one change being committed |
| `DurableStore` | `DurableStore<State>` over `SnapshotFile` and `Journal`; `KeepsPromise` says that it implements `DurableLog` |
| `DeploymentSet` | the constants both sides know: deployments and their contents |
| `Agent` | the target agent: handlers, crash, start-up |
| `Lifecycle`, `Policy`, `Reconciliation`, `Convergence` | pure operators: the transition table, `decide()`, `reconcileDelivery()`, the convergence report |
| `ArtifactReader` | the reader of a stored artifact, used by the next two |
| `Distributor` | the controller: records of the deliveries to one target and the threads that write them, against any peer |
| `Fabric` | `Distributor` and `Agent` joined by a session |
| `Handshake` | epochs, terms and incarnations of several controllers and agents |
| `ArtifactStore` | the content-addressed store under several threads |
| `Transport` | one direction of a framed connection |
| `MC...` | instances for TLC |
| `...Proofs` | theorems about `DurableStore`, `Agent`, `Distributor`, `Fabric`, `Handshake`, `ArtifactStore`, `Transport` |
| `SetSums` | facts about sums over finite sets, for `ArtifactStoreProofs` |

### `Agent`

A *deployment* is the record (key, generation, digest, size, strict): the
deployment id of the code is derived from these, so the record is the identity.
An artifact is `size` chunks; a staging file is its length and the length of
its right prefix, which is all a digest comparison tells apart (SHA-256 is
taken as collision free).  A payload file is named by generation and digest,
says whether it hashes, and carries its age for `prunePayloads()`.

Every handler is one action, or a chain of actions joined by `pc` where the
code makes several durable changes.  A commit is the chain `OnApplyCommit`
(write the pointer), `ActivateUnmark` (remove the marker), `CommitResolve`
(record that the window is over), `CommitRecord` (TargetCommit),
`CommitFinding` (FindingUpsert), `PrunePayloads` (and the acknowledgement).
`Crash` may fall before each of them.  It resets what was in memory, and
shortens or removes staging files, which are flushed but never synced;
everything else is written with a sync or through an atomic replacement.
`Open`, `RecoverKey` ... `RecoverDone` are `recoverLiveArea()`: first the
transfers, then the key directories in any order (`directory_iterator` promises
none), then a window still on record.  Recovery can itself be cut by a crash at
each of its durable effects.

The peer is unconstrained: every request about every deployment is possible at
any time, so lost, repeated and reordered requests, several sessions and a
faulty controller are covered.  Stage, ApplyPrepare, ApplyCommit, ApplyAbort
and Retire carry a generation of their own, which may differ from the
deployment's.

The copy into the live area is two steps, because `copyFileAtomic()` writes it under
a temporary name first (`OnStage`, then `StageRename`).  A crash between them leaves
the temporary file (`PartFile`), which recovery does not remove and `PrunePayloads`
counts as a payload.

Steps that are one action although the code makes several effects: `Open` and
`DestroyTransfer` touch staging files and their records; a crash in between
leaves a state that a crash before the step also can leave (`Remains` includes
the absent file, and `Open` removes a record without a file).

### `DurableStore`

A change is a number used once, so a state is the set of its changes.  The
journal is its header, the base named by its SegmentStart record, its change
records, the number of the last good one and what an incomplete append left
(`torn`, in the record header or in the payload).  `Start`, `CreateHeader`,
`CreateStart`, `Scan`, `ScanRefuses`, `ScanAborts` and `Replay` are `open()`;
`Commit` is `commit()`; `CompactSnapshot`, `CompactTruncate`, `CompactStart` are
`compact()`, which both `compactIfNeeded()` and an orderly stop call.
`ScanAborts` is the outcome of undefined behaviour: on the torn-payload path
`scanInto()` closes its stream, and later flushes and closes it again.

### `Distributor`

The durable part is `rec` (a state and a failure count for each deployment, the
key of a delivery), `tgt` (the record of the target), the artifacts `stored` as
files and `listed` in the journal, and the `epoch`.  The store's lock is held for
one read or one commit at a time.  So each thread has its copies: `held` for the
worker whose session owns the target, `loc` for a worker that applies a decision
that needs no session, `ctl` for the control thread; and every write is the write
of a whole copy (`recordTransition`, `recordFailure`, `submitPlan`), later than
its read.  Each read and each commit is an action.

Every write asks the table as `recordTransition` does, about the writer's copy.
One step of the code's is coarser here than in `Handshake`: `OnHello` joins the fence
check, the record of the target and the reading of the failed deliveries.

`ses.pc` says where the session is: it waits for an answer (`Receiving`), is about
to send (`Offer`, `chunk`), works off a list (`fail`, `rearm`, `apply`, `drive`) or
is between two commits of one operation (`adopt`, `acknowledge`, `rewrite`).
`ses.after` says where a nested call returns to.  Every answer is checked exactly
as far as the code checks it: a refusal is taken for the current delivery's
whatever it names, an acknowledgement must name it.  `Frames` is what the
decoders of `protocol.cpp` let through.  Identifiers are ordered by `Rank`, since
`std::map` decides in which order deliveries are charged, re-armed and retired.
Time is a choice: a backoff has elapsed or not, contact is fresh or not.
`Restart` is a stop or a crash followed by `open()`.

### `Fabric`

`Fabric` extends `Distributor` and `Agent` (whose specification and type invariant
are called `AgentInit`, `AgentNext`, `AgentSpec`, `AgentTypeOK` for that reason), so
that the theorems about each can be used for both.  Between them is a connection:
a request the agent has not read, an answer its handler is still preparing,
the frames on their way back.  A session that ends may leave its request
behind, which the agent reads or not before it sees the end.  The history variable
`live` collects what the pointer has named.  Nacks nobody waits
for stay in the inbox and are read as the next answer.  The answers are computed
by the agent's own decisions (`PrepareCode`, `CommitCode`, ...), so both
modules mean the same by a duplicate or a stale generation.

### `Handshake`

Every process has a number (epoch or boot term) that grows with each start and an
incarnation.  A copied or restored store directory brings up two processes with
the same numbers, so any number of controllers and of agents may contend.  The
model includes the control thread's `submitPlan`, which copies the target record
and writes the copy back, and so can take the fence back: `raced` remembers it.
The agent reads HelloConfirm in a step of its own (`OnConfirm`), when its sender may
be gone.

### `ArtifactStore` and `ArtifactReader`

Payload and metadata files, the index with its byte count, and threads that
publish, verify and read.  The steps of `publish()` are actions: budget check
(under the lock), rename, metadata, index (under the lock).  A reader holds the
content it opened and a hash that covers what it was asked for in sequence; its
look-up in the index and the opening of the file are one step.  The history variables
name the digests that a quarantine hit in a race: `raced`, a payload removed
while it was being published, and `taken`, a good payload renamed by a thread that had
read an earlier, damaged one.

### `Transport`

A byte is the pair of a frame and a position in it, which states what the
checksums are relied on for: a header or payload that is not exactly one frame's
is rejected.  `writeAll` writes in pieces and may give up anywhere, and a frame
may be sent after that; `recv` returns any number of bytes; the decoder compacts
its buffer only when more than half of it is consumed; an interrupt may come at
any time.

## 3. Runs

`tlc -workers 2 -config <run>.cfg <module>` in this directory; the modules are in
`PROJECT.json`.

Passing:

- `agent_window`: one key, two generations, two contents competing for the
  second, a prepare-commit-abort target, one crash at any step, a retained file for each
  payload and for what the crash may leave.  The pointer
  never goes back (`GenerationMonotone`) and always names an intact payload
  (`PointerNamesPayload`); in the session loop the record equals the pointer
  (`RecordFollowsPointer`); acknowledgements are true (`AckedIsLive`); a full
  findings table drops only superseded evidence (`EvidenceKept`).
- `agent_transfer`: artifacts of 2 and 3 chunks and one over the limit, on an
  atomic target, checkpoints every second chunk, two crashes.  Chunks may be
  corrupt, repeated or out of order.  `LiveAreaVerified`, `TransferBacked`.  Only two
  files are retained, so that with what crashes leave pruning does take what a pointer names;
  `MissingOnlyIfCrowded` says when: only if as many copies as files are retained
  were begun in the directory after that payload was put there.  `MCAgentRetention` adds
  the count.
- `agent_two_keys`: two keys with a deployment each, two crashes (so one may
  hit recovery itself), payloads damaged at rest.  `SwitchInsideWindow`,
  `RecoveryClosesWindow`, `ClaimIsIntact`, `AgentTypeOK`, and `ServesAgain` under
  fairness.  With `RecordFollowsPointer` and `GenerationMonotone` it follows that, for one
  key, a switch whose record a crash prevented is recorded in the end.
- `store_compaction`: four changes, two compactions per process, three
  crashes.  `KeepsPromise` (refinement of `DurableLog`).
- `store_damage`: as above with snapshot slots going bad while the process is
  down.  `SettledKept`, `TypeOK`, and `FilesHoldState`: the files hold the state in memory
  at every step, and `open()` would accept them at every step but one (`store_cut.cfg`).
- `distributor`: one generation delivered before, one whose source cannot be read and
  one of three chunks to come; a peer that has been restarted and answers anything at any time, two
  operations of the control thread, a second worker, a restart and a fault.  A record claims an activation or acknowledgement only if a frame said
  so of that deployment (`EvidenceBacked`); the newest plan of a lineage never goes
  back (`DesiredStays`); every change of state is one of
  the table or of its documented exceptions, unless the thread that writes it works from a
  copy of that very record which another thread has overtaken
  (`TableUnlessOvertaken`); `TypeOK`.
- `fabric`: both sides, an upgrade on a prepare-commit-abort target, one crash of the
  agent, one restart of the distributor and one further fault (timeout, reset,
  unreadable or corrupted bytes).  What is claimed was live (`ClaimedWasLive`); what the
  report calls converged runs (`ConvergedIsRunning`); and every plan converges (`EveryPlanConverges`; after a restart of the
  distributor it may end as blocked, see section 5).
- `handshake`: two controllers, two agents, six starts.  `OneControllerPerEpoch`,
  `OneTargetPerTerm`, `TypeOK`, and `SessionAgrees`: the ends of a session name each
  other, and each has the other on record unless a plan wrote back the controller's.
- `artifact_store`: two threads, two artifacts of which the store holds either but not
  both, damage and crashes without bound.  `Accounting`, `BudgetKept`,
  `PublishedIsKept`, `TypeOK`.
- `transport`: three sends of any size up to one above what the sender
  allows, which is one above what the receiver does, short writes and reads, a
  damaged byte.  `ReceivedInOrder`, `BufferBounded`, `CleanCloseIsComplete`,
  `CancelledReceiveReturns`, `TypeOK`.

Violation, a disagreement between the code and a statement of the repository,
quoted in `PROJECT.json`:

- `artifact_resume`: an artifact of three chunks read from the second on.  The reader
  compares the hash of the suffix with the digest of the whole, so the last chunk of a
  resumed transfer fails although nothing is damaged (`IntactIsServed`).
- `distributor_lost_update`: the instance of `distributor`.  A thread writes back an
  overtaken copy, and the record leaves the table (`TableAlways`).

Seven more configurations are kept beside the runs, so that the gaps of section 5 can be
reproduced.  Each checks one property, and TLC finds it violated:

- `agent_orphans.cfg` (`MCAgent`): three generations, three retained files, an atomic target.
  A crash inside the copy of a payload leaves its temporary file, and the commit of the
  generation staged first prunes the payload it has just made live (`PointerNamesPayload`).
- `agent_other_key.cfg` (`MCAgent`): two keys with the same content at the same generation.
  The commit for the second is acknowledged from the record of the first (`AckedIsLive`).
- `store_cut.cfg` (`DurableStore`): a crash between the truncation of the journal and its new
  SegmentStart record; `open()` refuses the store although the snapshot is whole (`CanReopen`).
- `fabric_rearm.cfg` (`MCFabric`): the instance of `fabric`, under its fairness.  The distributor
  restarts between the record of the target's new term and the re-arming of the exhausted
  delivery, which is then never re-armed (`RestartRearms`).
- `handshake_write_back.cfg` (`MCHandshake`): a plan writes back the target record, and one
  boot term is accepted from two processes (`TermFenceHolds`).
- `artifact_quarantine.cfg` (`MCArtifactStore`): a thread that read a damaged payload renames
  away the good one that was published since (`QuarantineSparesIntact`).
- `artifact_budget.cfg` (`MCArtifactStore`): two publishers that both saw room
  (`BudgetReserved`).

### Bounds

`MaxTerm` counts process starts of the agent, so a run has `MaxTerm - 1` crashes: 2
reaches every crash point of a handler, 3 a crash inside the recovery of a crash.
`MaxRollbacks` closes the window protocol after that many rollbacks, otherwise
an abort loop would grow `applyRollbacks` forever.  One chunk is enough where
the property is about activation; three chunks with a checkpoint every second
one give a count ahead of, equal to and behind its checkpoint.  Two
generations and two contents are the smallest set in which a generation can be
stale, duplicate and conflicting.  Pruning goes by file age and not by the pointer, so
a commit that follows `RetainedPayloads` younger copies in its directory removes the
payload it has just made live; a copy that a crash cut off counts as one.  In
`agent_window` there is room for every payload and one such copy,
which is enough for `PointerNamesPayload` (`RoomSuffices`); `agent_transfer` and
`agent_orphans.cfg` have room for the payloads only, so that both prune.  The default is 4.
An unconstrained peer may send such a sequence; this distributor, which drives one
delivery at a time and only what is not superseded, adds nothing newer behind
what it commits, so that only cut-off copies can crowd a payload out.
`PruningIsHarmless` proves it for a single content per generation and at least as many
retained files as starts, which is what `fabric` has (2 and 2).  In the store, two
compactions use both slots, a third reuses one, and three crashes allow one in
each of commit, compaction and recovery.

In `distributor`, `MaxAttempts` is 1 so that budgets run out, `MaxHistory` 1 so that
records are removed while workers hold copies of them, three chunks make a
resumed transfer meet the reader's comparison, and two operations let a submit
and a retire overlap with a session and with each other's effects.  In `fabric`
`MaxAttempts` is 3: a budget lasts for some retries, and runs out while the agent
is down.  `MaxFaults`, `MaxEpoch` and `MaxTerm` bound faults; liveness needs them
to be finite.  In `handshake`, six starts let each process start and two restart, or one restart
twice.  In `transport`, headers of two bytes can be torn, payloads may be empty,
accepted or too large, the socket buffers hold one maximum frame, and
a read may span two frames.

Deadlock is not checked where the system may stop: an owner of a store that has
used up `MaxChanges`, a distributor whose deliveries are settled, processes without
starts left, a connection that is closed.

### Fairness

Only in `DamageFairSpec` (agent) and the `FairSpec`s (fabric, transport).

- Agent: single threaded, no handler or start-up step waits for a peer or a
  lock, and a supervisor restarts it: weak fairness of `HandlerStep` and
  `RecoveryStep`.  Requests are not fair.  Crashes are finitely many because `MaxTerm`
  bounds them.
- Fabric: weak fairness of the worker that runs sessions (`pickWork` polls), of the
  agent, of the other threads once they have begun an operation, and of the
  connection's end being noticed (TCP and the agent's read timeout).  Strong fairness of `BackoffElapsed`:
  a backoff is a fixed time, so a worker that keeps asking finds it elapsed
  once; weak fairness is not enough because the question is not asked continuously.
  Operations and faults are not fair.
- Transport: weak fairness of the receiving thread's own steps and of the poll slice,
  a timed wait.  It is not assumed that `shutdown()` wakes a blocked `select` (the code
  says some platforms do not), nor that the peer writes or closes.

## 4. Theorems

Proved by TLAPS for all values of the constants, from the named assumptions of
the modules (the deployments are records over the keys and digests, the limits
are natural numbers, positive where the code requires it).

`StoreProofs`.  `StoreTypes`, `FilesAlwaysHoldState`, `NothingSettledIsLost`,
`StoreKeepsPromise` (initial states map to initial states of `DurableLog`, every
step to a step or a stutter).  `FilesAlwaysHoldState` is about the state a
replay gives and, outside the one step of `store_cut.cfg`, about its being accepted.  `FilesHoldState` is not inductive: that a replay
gives the state in memory depends on what happens when the process is elsewhere.
`StoreInv` adds
- `JournalShape`: the records lie between the base and the last number, a
  journal without a base has none, one without a whole header has no snapshot;
- `JournalMeetsSnapshot`: a journal with a base starts no later than the loaded
  snapshot ends, and reaches at least as far;
- `ChangesUsed`: no file holds a change that has not been handed out, so a
  commit really adds one;
- `PlaceInv`: for each step of opening and compacting, how memory, the sequence
  counter and the files relate there;
- everything settled can be rebuilt.

`HandshakeProofs`.  `HandshakeTypes`, `EpochIsUnambiguous`, `TermIsUnambiguous`,
`SessionsAgree`, for any number of processes and starts.  The properties speak of
everything accepted so far; the invariant `Inv` ties that history to the one identity on
record: all that was accepted is behind it, or is it (`BehindRecord`).  For a
controller, which checks when it reads the answer and records after it has
confirmed, `ControllersOK` adds that what it checked is still not fenced when it
records, unless a plan got in between, and that an established session still has the
target it recorded.  `LinksOK` says how far the two ends of one
connection can be from each other, also when the confirmation is still under way, and
`EndsOK` that an open end knows its peer.

`TransportProofs`.  `TransportTypes` and `BufferStaysBounded`, for any sizes of headers,
payloads, reads and socket buffers.  The bound is not inductive alone: `IInv` adds
where the receiver is, since outside the decoder's loop less than a maximum frame is
unconsumed, and the compaction then leaves at most twice that.
`ReceivesInOrder` and `CleanCloseComplete` come from `OrderInv`, about the unconsumed
bytes of the buffer followed by those on the wire: the first one starts the frame
that is to be returned next, each one (damage aside) continues the frame before it or starts
the frame that began after it, the last one is of the frame that began last, and
what `writeAll` has left continues it.  A frame that was given up may end early there; its length
in the header and the checksum then keep it from being returned.

`ArtifactStoreProofs`.  `StoreTypes`, `StoreAccounting`, `StoreBudget`,
`StoreKeepsPublished`, for any number of threads.  `Accounting` compares a counter
with a sum over the index, so its step needs that adding or removing one element
changes the sum by its size: `SetSums` proves that from the fold's definition, with an
induction over finite sets that picks a smallest counterexample under strict
inclusion (`WFMin`), the form the provers can instantiate.  `IInv` adds, for each
step of a publisher or a reader, which files are there (`Sound`, for every digest that
no quarantine hit in a race), and that what a publisher past the check will add fits the
budget as well (`Budgeted`).  The
digests are assumed to be a finite set: they have 32 bytes.

`DistributorProofs`.  `DistributorTypes`, `EvidenceHolds`, `DesiredNeverGoesBack`,
`TableKept`, for any deployments and whatever the target answers.  `EvidenceBacked`
speaks of the records, but records are overwritten by copies, so `DInv` says the same of
every copy a thread holds:
- `RecordsOK`: the records are backed by what was heard, and there are finitely many;
- `WorkerOK`: so are the copies of the worker; a session that is about to adopt or
  acknowledge has heard of that delivery, and a report proves only what was heard;
- `LocalOK`: so is the copy that a record written without the target goes through;
- `ControlOK`: so are the control thread's copies, and a removal under way leaves a
  survivor of the lineage that is at least as new as what it removes;
- `RestOK`: what was heard settled was heard active.

That a removal leaves a survivor needs `MaxHistory` to be at least 1, as `policy.cpp`
line 62 demands; attempts are at least 1 for the same reason (line 35).

`AgentProofs`.
- `AgentTypes`.
- `SwitchesInsideWindow` and `RecoveryAlwaysClosesWindow`, under `DamageSpec`, from `WindowInv` (an
  open window is one of a prepare-commit-abort target, its marker is on disk
  whenever a commit may start, and no step after its resolution has it open) and `BootInv` (a marker that
  is still there belongs to a directory recovery has yet to visit).
- `AreaAlwaysVerified` and `TransfersAlwaysBacked`, from `AreaInv`.
  `LiveAreaVerified` alone is not inductive: the copy into the live area reads
  the staging file long after it was verified.  While the agent runs, each
  transfer is *backed*: its count is the length of its file, and a verified one
  hashes.  While it is down only a weaker fact holds: the file is a prefix of
  what it was, and *if it is as long as the record says* it hashes.
  `Open` turns the second into the first, because it drops each transfer whose
  file is shorter than the record and cuts each longer one.

- `PointerAlwaysNamesPayload`, `RecordAlwaysFollows`, `AcksAreTrue`,
  `PointerNeverGoesBack` and `EvidenceAlwaysKept`, under two hypotheses.  `OneKey`: with several
  keys the committed pair of one is overwritten by the other's (section 5).
  `RetentionSuffices`: pruning removes only files older than the generation just
  committed; without it a pointer can lose its payload, as described under
  Bounds.  The pointer, the record and the answers depend on each other, so one invariant,
  `LiveInv`, holds them together: `FilesInv` (what may still be committed has its payload),
  `RecordInv` (at which steps the record is the pointer, at which it is behind, and that
  it is never ahead) and `FindingsInv` (no finding is ahead of the pointer).
- `RoomSuffices` discharges the second hypothesis (`Room`): if `RetainedPayloads` is at least
  the number of names the payloads of a key can have plus the number of crashes, it holds for
  any peer.  `ShelfInv` says that the ages of the files of a key are distinct and have no
  gap, so an age is less than the number of files, and that a name is there once;
  `PartsInv` counts the files without a name: fewer than there were starts, but for the one being
  written.  That the names alone are not enough is `agent_orphans.cfg`.
  `RoomyAgentIsSound` puts the pieces together.
- `ClaimsAreIntact`, under `DamageSpec` and for any number of keys: `ClaimInv` says that
  a commit on record implies a pointer, hence a directory for recovery to visit, and
  that after each visit the commit on record is one whose payload has just been hashed.

`FabricProofs`.  The two parts together.  TLAPS cannot use the theorems of a module that
is instantiated, therefore `Fabric` extends both.  The invariants are proved in layers,
each from those before it:
1. `BaseInv` (`FabricInvariant`): both parts keep their own invariants, the frames on the
   wire are in `Frames`, a request names what it is about.  It rests on two facts about every
   step: for the distributor it is one of those `DistributorProofs` considers
   (`EveryTurn`, also where the session goes: `SessionMove`), and for the agent it is a step of
   `AgentNext` (`AgentPart`).  So `AgentRefined`, `AgentImplemented` (the composition
   with a fresh agent implements `AgentSpec`) and `FabricDesired`
   follow.
2. `HonestInv` (`ClaimsAreHonest`): everything that says of a deployment that it is or was
   active, in the agent's records, in a commit under way, in a frame on the wire or
   still being prepared, in what the distributor has heard, speaks of something that has been
   live.  With `DInv` this is `ClaimedWasLive` (`ClaimedAlwaysWasLive`).
3. `PlanReaches` (`NothingBeyondThePlans`): neither the pointer nor a request, however
   old, is newer than the newest plan on record, although records are removed.
4. `OrderInv` (`PruningIsHarmless`): files were staged in the order of their generations, and
   nothing older than a staged file is driven, asked for or committed.  The session
   starts only what is not superseded, a request that outlived its session is about
   nothing newer than what the next one drives, and what was staged was
   reached by a plan; the same is said of what is being copied.  So the files in front of what is committed are copies cut off
   by crashes, which `PartsInv` bounds, and with `CrashRoom` a prune removes only what is older
   than the commit, the hypothesis `RetentionSuffices` of the theorems about the agent.
5. `RunInv` (`RunningInLine`): `AreaInv` and `LiveInv` of the agent, and what has been live is
   what the pointer names or is older.  `TargetIsSound` restates the agent's
   properties for the composition, with `CrashRoom` in the place of that hypothesis.
6. `ConvergedIsRunning` (`ConvergedAlwaysRuns`): an acknowledged record has been live (2), so
   the pointer names it or something newer (5), and something newer would be reached by a newer
   plan (3), which the latest record has not.

Layers 1 and 3, and `FabricAreaVerified`, need no hypothesis.  Layer 2 needs `OneKey`: reports
name pairs without a key, so two keys with the same content prove each other (section 5).  From layer
4 on also `OneContent` (a generation is not used again for other content) with `CrashRoom`
(as many files are retained as the agent may start), or `Room` (all
payloads of a key and what crashes leave are retained): rival contents of one generation have no order
in which a prune could respect them.

Only model-checked:
- liveness (`ServesAgain`, `EveryPlanConverges`, `CancelledReceiveReturns`), which is outside TLAPS's reach;
- the store under its `DamageSpec` (proved without damage to slots at rest);
- `MissingOnlyIfCrowded`;
- what fails: the properties of the violation runs and of the configurations beside them.

## 5. Known gaps between the code and its documents

Those with the name of a run or of a configuration are its counterexample (section 3); those
marked T were shown by TLC as counterexamples in other instances of these modules, the
rest were met while reading.

Agent and store:

- T: generations are ordered per (target, key) (`docs/ARCHITECTURE.md:52`), but the
  agent keeps one committed pair for all keys (`agent.cpp:584`), and start-up sets
  it to the pair of whichever key directory comes last.  A key can then go back.
- `agent_orphans.cfg`: prunePayloads (`agent.cpp:659`) counts the temporary files of copies
  that a crash cut off, and can remove the payload that has just been made live.
- `agent_other_key.cfg`: a commit for a second key with the same generation and digest is acknowledged
  from the first key's record (`agent.cpp:1500`) although `agent.hpp:19-21` records
  outcomes per key.  Reconciliation has the same blind spot (`reconciliation.cpp:53`).
- T: the marker file is removed before the window's record is resolved; a crash in
  between is counted as a rollback although the switch completed (`agent.cpp:605`).
- `store_cut.cfg`: a crash between the truncation of the journal and the new SegmentStart record
  (`journal.cpp:565`) leaves a store that refuses to open although its newest snapshot
  holds the whole state (`journal.cpp:623-624` promises otherwise).
- T: a failed append does not put the store into its failed state
  (`store.hpp:195`; `store.hpp:11-12` says it does); the next commit is acknowledged
  and lost behind the torn record.
- T: a record torn in its payload takes a path that closes the stream twice
  (`journal.cpp:404`); the process may die there at every start.
- `onChunk` has no generation test, so a chunk of a superseded generation is still
  written to its staging file; with several keys the findings table may drop the
  evidence of a live generation; an activation adopted by start-up never gets its
  finding; and when start-up withdraws a damaged commit, a repeated commit is still
  acknowledged from the finding.

Distributor:

- `distributor_lost_update`: `recordTransition` checks a transition on a copy and commits the
  whole copy (`distributor.cpp:933`), and `submitPlan` writes its copy back (1899): a retire made
  while a worker waits for an answer is lost, and a final state is left outside the table.
  `TableUnlessOvertaken` shows that this is the only way.
- `handshake_write_back.cfg`: `submitPlan` writes back the target record it copied (`distributor.cpp:1896`): a
  newer term recorded in between is undone and the handshake's fence with it.
  `OneTargetPerTerm` holds otherwise.
- `fabric_rearm.cfg`: the new boot term is durable (`distributor.cpp:605`) before the failed deliveries
  are re-armed (607).  A controller that dies in between sees no restart the next
  time and leaves them blocked (`docs/ARCHITECTURE.md:167-169`).
- A DeliveryNack or PrepareReject is taken for the current delivery's whatever
  deployment it names (`distributor.cpp:1294-1310`), so a late nack is charged to the wrong one.
- A crash between the ingestion of an artifact and its ArtifactUpsert record
  (`distributor.cpp:1723`): the next submit finds the bytes stored and never lists them.
- `compactIfNeeded` is called without the state lock at `distributor.cpp:1923`.
- A session that has reached `driveDeliveries` and loses its connection charges no
  failure, while a receive interrupted by `stop()` before that does, although
  `docs/CONCURRENCY.md` says that it records nothing.
- `submitPlan` reports LimitExceeded (1912-1922) only after everything was committed.

Artifact store and transport:

- `artifact_resume`: a reader that starts behind byte 0 compares the hash of a suffix
  (`artifact.cpp:723`).
- `artifact_budget.cfg`: "Budget is reserved" (`artifact.cpp:288`), but it is only compared: two publishers
  together may exceed it.
- `artifact_quarantine.cfg`: a quarantine may rename away a payload that another thread has just
  published again (`artifact.cpp:531`).
- T: a publish whose metadata cannot be written removes the payload of a concurrent
  one that succeeded (`artifact.cpp:356-360`).
- A failed flush goes unnoticed in `ingestFromFile`.
- `verify` returns success for a read error that is not one of integrity.
- Frames decoded in the same feed before a bad one are not returned; an interrupt with
  half a frame in the buffer is reported as a truncated stream.

## 6. Not modelled

- Errors of single file operations in the agent (disk full, permission): each
  ends the handler with an error answer, and the next start sees what a
  crash at that place leaves.
- Statistics, log lines, artifact ids, error texts, a `current` file that does
  not parse, and file contents that a power loss fills with zeros.
- I/O errors inside a compaction, and appends that fail in a store that lives on.
- The distributor's fault-injection options (they reproduce, for tests, faults the
  models have as actions), its budget of live deliveries across targets, and
  several targets: sessions of different targets share only the store's lock.
- `collectGarbage`, which nothing calls.
- The layout of frames and records in bytes: `codec.cpp`, `protocol.cpp` and
  `state.cpp` encode and decode field by field without state.  What the decoders
  refuse is in `Frames`.
- Connecting and accepting beyond one step of `Fabric`; address resolution.
- The text format of plans, control requests and rendered reports; process set-up.
- Hashing, identifiers, randomness: SHA-256 is taken as collision free,
  CRC32C as detecting what `Transport` damages, identifiers as injective.

## 7. What could follow

Every safety property that holds in a run is also proved, but for `MissingOnlyIfCrowded`;
what remains is
- `MissingOnlyIfCrowded` for any number of names and crashes, from `ShelfInv` and the count;
- appends that fail in a process that lives on;
- the store's theorems under `DamageSpec`: damage at rest takes only slots that
  a later open does not need, which depends on how the journal was left;
- the window properties of the agent for an installation that starts with a running
  agent (for a fresh one they follow from `AgentImplemented`);
- more than one target: sessions share only the store's lock, and the live-delivery budget.
