------------------------- MODULE DistributorProofs -------------------------
(***************************************************************************)
(* The distributor against any peer, for any set of deployments, plans,    *)
(* budgets and limits: type correctness, the evidence behind every record, *)
(* the desired generation and the transition table.                        *)
(***************************************************************************)
EXTENDS Distributor, SetSums

-----------------------------------------------------------------------------
(* The inductive invariant, by what each thread works on.                  *)

\* r, as a record of d, claims no more than was heard of d.
Backed(h, r, d) ==
  /\ r.state = "Applied" => d \in h.active
  /\ r.state = "Acknowledged" => d \in h.settled

RecordsOK ==
  /\ rec \in [Deployments -> Copy]
  /\ \A d \in Deployments : Backed(heard, rec[d], d)
  /\ IsFiniteSet(Known(rec))

\* The places where the worker is at one delivery, and those where its copy
\* is of a record it has found.
AtWork == (Receiving \ {"helloAck", "report"}) \cup Sending \cup LocalActions
            \cup {"adopt", "acknowledge", "rewrite", "GiveUp"}
HoldsCopy == AtWork \ {"abortAck", "ack", "adopt", "acknowledge"}

WorkerControl ==
  /\ IF ses.pc \in AtWork THEN ses.cur \in Deployments
     ELSE ses.cur = NoDeployment /\ ses.after = "done"
  /\ ses.pc \in HoldsCopy => held[ses.cur].state # "None"
  /\ ses.pc = "rearm" => ses.todo # {} /\ \A d \in ses.todo : held[d].state = "Failed"
  /\ ses.pc = "fail" => \A d \in ses.todo : IsPendingState(held[d].state)
  /\ ses.pc \in {"apply", "abortAck"} \/ ses.after = "apply" =>
       \A d \in ses.todo \ {ses.cur} : IsPendingState(held[d].state)

\* What the worker holds, and is about to record, has been heard.
WorkerEvidence ==
  /\ \A d \in Deployments : Backed(heard, held[d], d)
  /\ ses.pc = "adopt" => ses.cur \in heard.active /\ (ses.after # "ack" => ses.cur \in heard.settled)
  /\ ses.pc = "acknowledge" => ses.cur \in heard.settled
  /\ \A d \in Deployments : ReportProvesActivation(ses.report, d) => d \in heard.settled

WorkerOK ==
  /\ ses \in Session /\ held \in [Deployments -> Copy]
  /\ WorkerControl /\ WorkerEvidence

LocalOK ==
  /\ loc \in Local
  /\ loc.step # "idle" => loc.dep \in Deployments /\ Backed(heard, loc.copy, loc.dep)
  /\ loc.step = "write" => IsPendingState(loc.copy.state)
  /\ loc.step = "rewrite" => loc.copy.state \in {"Rejected", "Retired"}

\* A record of the lineage that the removal under way is not about, at least
\* as new as those it is about.
Survivor(top) ==
  /\ top \in SameLineage(ctl.dep) \ ctl.todo
  /\ rec[top].state # "None"
  /\ \A e \in ctl.todo : e \in SameLineage(ctl.dep) /\ e.gen <= top.gen

ControlControl ==
  /\ ctl.step # "idle" => ctl.dep \in Deployments
  /\ ctl.step \in {"older", "supersede", "supersede2", "remove", "target", "delivery", "retire"} =>
       ctl.copies[ctl.dep].state # "None"
  /\ ctl.step \in {"supersede", "supersede2"} => ctl.dep \notin ctl.todo
  /\ ctl.step = "supersede" => \A e \in ctl.todo : IsPendingState(ctl.copies[e].state)
  /\ ctl.step = "supersede2" =>
       /\ ctl.todo # {} /\ ctl.copies[FirstId(ctl.todo)].state = "Retired"
       /\ \A e \in ctl.todo \ {FirstId(ctl.todo)} : IsPendingState(ctl.copies[e].state)
  /\ ctl.step = "retire2" => ctl.copies[ctl.dep].state = "Retired"

ControlOK ==
  /\ ctl \in Control
  /\ ControlControl
  /\ \A d \in Deployments : Backed(heard, ctl.copies[d], d)
  /\ ctl.step = "remove" /\ ctl.todo # {} => \E top \in Deployments : Survivor(top)

\* What was heard: a deployment that is settled has been active.
HeardOK ==
  /\ heard \in [active : SUBSET Deployments, settled : SUBSET Deployments]
  /\ heard.settled \subseteq heard.active

RestOK ==
  /\ tgt \in Target
  /\ stored \subseteq Digests /\ listed \subseteq Digests
  /\ epoch \in Nat /\ verify \in BOOLEAN
  /\ HeardOK
  /\ faults \in Nat /\ ops \in Nat

DInv == RecordsOK /\ WorkerOK /\ LocalOK /\ ControlOK /\ RestOK

-----------------------------------------------------------------------------
(* The choices: the first by generation, the first by id, and the newest.  *)

\* A set of naturals has a least element.
LEMMA LeastNatural ==
  ASSUME NEW S \in SUBSET Nat, S # {}
  PROVE  \E n \in S : \A m \in S : n <= m
  <1>1. PICK k \in S : TRUE
    OBVIOUS
  <1> DEFINE D == 0 .. k
             B == {0 .. n : n \in {m \in S : m <= k}}
  <1>2. k \in Nat
    BY <1>1
  <1>3. IsFiniteSet(D)
    BY <1>2, FS_Interval
  <1>4. B \in SUBSET SUBSET D /\ B # {}
    BY <1>1, <1>2
  <1>5. PICK T \in B : \A U \in B : U \subseteq T => U = T
    <2> HIDE DEF B, D
    <2> QED BY <1>3, <1>4, SmallestSubset
  <1>6. PICK n \in {m \in S : m <= k} : T = 0 .. n
    BY <1>5
  <1>7. ASSUME NEW m \in S, ~(n <= m)
        PROVE  FALSE
    <2>1. m \in Nat /\ n \in Nat /\ m < n /\ m <= k
      BY <1>2, <1>6, <1>7
    <2>2. (0 .. m) \in B /\ (0 .. m) \subseteq T
      BY <1>6, <2>1
    <2>3. 0 .. m = 0 .. n
      BY <1>5, <1>6, <2>2
    <2>4. n \in 0 .. n /\ n \notin 0 .. m
      BY <2>1
    <2> QED BY <2>3, <2>4
  <1> QED
    BY <1>6, <1>7

\* What is used of the assumption on deployments: they have generations,
\* digests and an order.
LEMMA DeploymentFacts ==
  /\ NoDeployment \notin Deployments
  /\ \A d \in Deployments : /\ Rank[d] \in Nat
                            /\ d.gen \in Nat /\ d.gen # 0
                            /\ d.digest \in Digests
  /\ \A d, e \in Deployments : Rank[d] = Rank[e] => d = e
  BY DistributorAssumption

\* The first identifier of a set is in the set.
LEMMA FirstIdIn ==
  ASSUME NEW S \in SUBSET Deployments, S # {}
  PROVE  FirstId(S) \in S
  <1>1. {Rank[d] : d \in S} \in SUBSET Nat /\ {Rank[d] : d \in S} # {}
    BY DeploymentFacts
  <1>2. PICK n \in {Rank[d] : d \in S} : \A m \in {Rank[d] : d \in S} : n <= m
    BY <1>1, LeastNatural
  <1>3. \E d \in S : \A e \in S : Rank[d] <= Rank[e]
    BY <1>2
  <1> QED
    BY <1>3 DEF FirstId

\* The oldest deployment of a set is in the set.
LEMMA FirstIn ==
  ASSUME NEW S \in SUBSET Deployments, S # {}
  PROVE  First(S) \in S
  <1>1. {d.gen : d \in S} \in SUBSET Nat /\ {d.gen : d \in S} # {}
    BY DeploymentFacts
  <1>2. PICK g \in {d.gen : d \in S} : \A m \in {d.gen : d \in S} : g <= m
    BY <1>1, LeastNatural
  <1> DEFINE T == {d \in S : d.gen = g}
  <1>3. T \in SUBSET Deployments /\ T # {}
    BY <1>2
  <1>4. {Rank[d] : d \in T} \in SUBSET Nat /\ {Rank[d] : d \in T} # {}
    BY <1>3, DeploymentFacts
  <1>5. PICK n \in {Rank[d] : d \in T} : \A m \in {Rank[d] : d \in T} : n <= m
    <2> HIDE DEF T
    <2> QED BY <1>4, LeastNatural
  <1>6. PICK d \in T : \A e \in T : Rank[d] <= Rank[e]
    BY <1>5
  <1>7. ASSUME NEW e \in S, e # d
        PROVE  Before(d, e)
    <2>1. /\ d \in Deployments /\ e \in Deployments /\ d.gen = g /\ g <= e.gen
          /\ e.gen \in Nat /\ g \in Nat
      BY <1>1, <1>2, <1>6, DeploymentFacts
    <2>2. CASE e.gen = g
      <3>1. Rank[d] <= Rank[e] /\ Rank[d] # Rank[e] /\ Rank[d] \in Nat /\ Rank[e] \in Nat
        BY <1>6, <1>7, <2>1, <2>2, DeploymentFacts
      <3> QED BY <2>1, <2>2, <3>1 DEF Before
    <2>3. CASE e.gen # g
      BY <2>1, <2>3 DEF Before
    <2> QED BY <2>2, <2>3
  <1>8. \E x \in S : \A e \in S : e = x \/ Before(x, e)
    BY <1>6, <1>7
  <1> QED
    BY <1>8 DEF First

\* A finite set of deployments has a newest one.
LEMMA NewestIn ==
  ASSUME NEW S \in SUBSET Deployments, IsFiniteSet(S), S # {}
  PROVE  \E top \in S : {f \in S : Before(top, f)} = {}
  <1> DEFINE Above(e) == {f \in S : Before(e, f)}
             B == {Above(e) : e \in S}
  <1>1. B \in SUBSET SUBSET S /\ B # {}
    <2>1. \A T \in B : T \in SUBSET S
      OBVIOUS
    <2>2. PICK e \in S : TRUE
      OBVIOUS
    <2>3. Above(e) \in B
      BY <2>2
    <2> HIDE DEF B
    <2> QED BY <2>1, <2>3
  <1>2. PICK T \in B : \A U \in B : U \subseteq T => U = T
    <2> HIDE DEF B
    <2> QED BY <1>1, SmallestSubset
  <1>3. PICK top \in S : T = Above(top)
    BY <1>2
  <1>4. ASSUME NEW f \in Above(top)
        PROVE  FALSE
    <2>1. f \in S /\ Before(top, f)
      BY <1>4
    <2>2. ~Before(f, f)
      BY <2>1, DeploymentFacts DEF Before
    <2>3. Above(f) \subseteq Above(top)
      <3> SUFFICES ASSUME NEW x \in S, Before(f, x) PROVE Before(top, x)
        OBVIOUS
      <3>1. top.gen \in Nat /\ f.gen \in Nat /\ x.gen \in Nat /\ Rank[top] \in Nat
            /\ Rank[f] \in Nat /\ Rank[x] \in Nat
        BY <2>1, DeploymentFacts
      <3> QED BY <2>1, <3>1 DEF Before
    <2>4. Above(f) \in B
      BY <2>1
    <2>5. Above(f) = Above(top)
      <3> HIDE DEF Above, B
      <3> QED BY <1>2, <1>3, <2>3, <2>4
    <2> QED BY <1>4, <2>1, <2>2, <2>5
  <1> QED
    BY <1>3, <1>4

-----------------------------------------------------------------------------
(* Steps.                                                                  *)

\* Nothing that was heard is forgotten.
HeardGrows ==
  /\ HeardOK'
  /\ heard.active \subseteq heard'.active /\ heard.settled \subseteq heard'.settled

\* What a step may do to the records, besides keeping them sound.
Desired ==
  \A d \in Known(rec) : \E e \in SameLineage(d) : rec'[e].state # "None" /\ e.gen >= d.gen
Table(S) == \A d \in Deployments : d \in S \/ Allowed(rec[d].state, rec'[d].state)

\* A step that removes no record, of a thread whose copies of the records of S
\* were overtaken.
RecordStep(S) == RecordsOK' /\ Known(rec) \subseteq Known(rec') /\ Table(S)

\* What was backed by what had been heard stays backed.
LEMMA BackedGrows ==
  ASSUME NEW r, NEW d, HeardGrows, Backed(heard, r, d)
  PROVE  Backed(heard', r, d)
  BY DEF HeardGrows, Backed

\* The copies that the threads make are copies.
LEMMA CopyType ==
  /\ Absent \in Copy
  /\ NoCopies \in [Deployments -> Copy]
  /\ \A r \in Copy, s \in DeliveryStates : [r EXCEPT !.state = s] \in Copy
  /\ \A r \in Copy : Charged(r) \in Copy
  BY DistributorAssumption DEF Absent, NoCopies, Copy, Charged, DeliveryStates

\* A record that is not there claims nothing.
LEMMA AbsentBacked ==
  ASSUME NEW h, NEW d
  PROVE  Backed(h, Absent, d)
  BY DEF Backed, Absent

\* The states a delivery that is pending may be moved to by threads that do
\* not ask the table.
LEMMA PendingMoves ==
  ASSUME NEW s, IsPendingState(s)
  PROVE  /\ s \in DeliveryStates /\ s # "None" /\ s # "Acknowledged"
         /\ Allowed(s, "Failed") /\ Allowed(s, "Retired") /\ Allowed(s, "Applied")
  BY DEF IsPendingState, IsTerminalState, DeliveryStates, Allowed, IsLegalTransition, Successors

\* Both ends of a legal transition are states of a record that is there.
LEMMA LegalMoves ==
  ASSUME NEW s, NEW t, IsLegalTransition(s, t)
  PROVE  s # "None" /\ t # "None" /\ Allowed(s, t) /\ t \in DeliveryStates
  BY DEF IsLegalTransition, Successors, Allowed, DeliveryStates

\* One commit of one record keeps them all sound.
LEMMA CommitSound ==
  ASSUME RecordsOK, HeardGrows, NEW S, NEW d \in Deployments, NEW r \in Copy,
         rec' = [rec EXCEPT ![d] = r], r.state # "None", Backed(heard', r, d),
         d \in S \/ Allowed(rec[d].state, r.state)
  PROVE  RecordStep(S)
  <1>1. rec' \in [Deployments -> Copy]
    BY DEF RecordsOK
  <1>2. ASSUME NEW e \in Deployments
        PROVE  Backed(heard', rec'[e], e) /\ (e \in S \/ Allowed(rec[e].state, rec'[e].state))
    <2>1. CASE e = d
      BY <2>1 DEF RecordsOK
    <2>2. CASE e # d
      <3>1. rec'[e] = rec[e] /\ Backed(heard, rec[e], e)
        BY <2>2 DEF RecordsOK
      <3>2. Backed(heard', rec'[e], e)
        BY <3>1, BackedGrows
      <3> QED BY <3>1, <3>2 DEF Allowed
    <2> QED BY <2>1, <2>2
  <1>3. Known(rec') = Known(rec) \cup {d}
    <2>1. \A e \in Deployments : rec'[e] = IF e = d THEN r ELSE rec[e]
      BY DEF RecordsOK
    <2> QED BY <2>1 DEF Known
  <1>4. IsFiniteSet(Known(rec'))
    <2>1. IsFiniteSet(Known(rec))
      BY DEF RecordsOK
    <2>2. IsFiniteSet(Known(rec) \cup {d})
      BY <2>1, FS_AddElement
    <2> QED BY <1>3, <2>2
  <1> QED
    BY <1>1, <1>2, <1>3, <1>4 DEF RecordStep, RecordsOK, Table

\* A step that commits nothing keeps the records sound.
LEMMA NoCommit ==
  ASSUME RecordsOK, HeardGrows, UNCHANGED rec, NEW S
  PROVE  RecordStep(S)
  <1>1. \A d \in Deployments : Backed(heard', rec'[d], d)
    BY BackedGrows DEF RecordsOK
  <1> QED
    BY <1>1 DEF RecordStep, RecordsOK, Table, Allowed

-----------------------------------------------------------------------------
(* The session worker: how it goes on.                                     *)

Places == Receiving \cup Sending \cup LocalActions
            \cup {"idle", "dial", "fail", "rearm", "apply", "adopt", "acknowledge", "rewrite",
                  "drive", "GiveUp"}

\* Where the worker is at a delivery, and where it has a copy of its record.
LEMMA PlaceFacts ==
  /\ AtWork \subseteq Places
  /\ HoldsCopy \subseteq AtWork
  BY DEF AtWork, HoldsCopy, Places, Receiving, Sending, LocalActions

\* The empty pair, report and session have their types.
LEMMA UnsetType == Unset \in PairOfAny /\ NoReport \in Reported /\ Idle \in Session
  <1>1. Unset \in PairOfAny
    BY DEF Unset, PairOfAny
  <1>2. NoReport \in Reported
    BY <1>1 DEF NoReport, Reported, MaybeDeployment
  <1>3. NewReader \in Reader
    BY DEF NewReader, Reader
  <1> QED
    BY <1>1, <1>2, <1>3 DEF Idle, Session, MaybeDeployment

\* The empty report proves nothing: no deployment has generation 0.
LEMMA NoReportProvesNothing ==
  ASSUME NEW d \in Deployments
  PROVE  ~ReportProvesActivation(NoReport, d)
  BY DeploymentFacts DEF ReportProvesActivation, NoReport, Unset, PairOf

\* The copies of the records of a set of deliveries.
LEMMA CopiesSound ==
  ASSUME RecordsOK, HeardGrows, NEW S \in SUBSET Deployments
  PROVE  /\ Copies(S) \in [Deployments -> Copy]
         /\ \A d \in Deployments : Backed(heard', Copies(S)[d], d)
         /\ \A d \in S : Copies(S)[d] = rec[d]
  <1>1. Copies(S) \in [Deployments -> Copy]
    BY CopyType DEF Copies, RecordsOK
  <1>2. ASSUME NEW d \in Deployments
        PROVE  Backed(heard', Copies(S)[d], d)
    <2>1. Copies(S)[d] = rec[d] \/ Copies(S)[d] = Absent
      BY DEF Copies
    <2>2. Backed(heard', rec[d], d)
      BY BackedGrows DEF RecordsOK
    <2> QED BY <2>1, <2>2, AbsentBacked
  <1> QED
    BY <1>1, <1>2 DEF Copies

\* A worker that holds copies of sound records and no report, between
\* deliveries.
LEMMA FreshWorker ==
  ASSUME HeardGrows, ses' \in Session, held' \in [Deployments -> Copy],
         \A d \in Deployments : Backed(heard', held'[d], d),
         ses'.pc \notin AtWork, ses'.cur = NoDeployment, ses'.report = NoReport,
         ses'.pc # "rearm", ses'.pc # "apply", ses'.after = "done",
         ses'.pc = "fail" => \A d \in ses'.todo : IsPendingState(held'[d].state)
  PROVE  WorkerOK'
  <1>1. ses'.pc \notin HoldsCopy /\ ses'.pc \notin {"adopt", "acknowledge", "abortAck"}
    BY DEF AtWork, HoldsCopy, Receiving
  <1>2. WorkerControl'
    BY <1>1 DEF WorkerControl
  <1>3. \A d \in Deployments : ~ReportProvesActivation(ses'.report, d)
    BY NoReportProvesNothing
  <1>4. WorkerEvidence'
    BY <1>1, <1>3 DEF WorkerEvidence
  <1> QED
    BY <1>2, <1>4 DEF WorkerOK

\* A session that fails goes on to charge the deliveries that were pending.
LEMMA FailSessionSound ==
  ASSUME RecordsOK, HeardGrows, FailSession
  PROVE  WorkerOK'
  <1> DEFINE S == Pending(rec)
  <1>1. S \in SUBSET Deployments /\ \A d \in S : IsPendingState(rec[d].state)
    BY DEF Pending
  <1>2. /\ ses' \in Session /\ ses'.pc = "fail" /\ ses'.todo = S
        /\ ses'.cur = NoDeployment /\ ses'.report = NoReport /\ ses'.after = "done"
    BY <1>1, UnsetType DEF FailSession, Idle, Session
  <1>3. held' = Copies(S)
    BY DEF FailSession
  <1> HIDE DEF S
  <1>4. /\ held' \in [Deployments -> Copy]
        /\ \A d \in Deployments : Backed(heard', held'[d], d)
        /\ \A d \in ses'.todo : IsPendingState(held'[d].state)
    BY <1>1, <1>2, <1>3, CopiesSound
  <1>5. "fail" \notin AtWork
    BY DEF AtWork, Receiving, Sending, LocalActions
  <1> QED
    BY <1>2, <1>4, <1>5, FreshWorker

\* A session that ends leaves no copies behind.
LEMMA EndSessionSound ==
  ASSUME HeardGrows, EndSession
  PROVE  WorkerOK'
  <1>1. /\ ses' \in Session /\ ses'.pc = "idle"
        /\ ses'.cur = NoDeployment /\ ses'.report = NoReport /\ ses'.after = "done"
    BY UnsetType DEF EndSession, Idle
  <1>2. held' \in [Deployments -> Copy] /\ \A d \in Deployments : held'[d] = Absent
    BY CopyType DEF EndSession, NoCopies
  <1>3. "idle" \notin AtWork
    BY DEF AtWork, Receiving, Sending, LocalActions
  <1> QED
    BY <1>1, <1>2, <1>3, AbsentBacked, FreshWorker

\* The copy of one delivery is dropped, or replaced by a sound one.
LEMMA ReplaceCopy ==
  ASSUME WorkerOK, HeardGrows, NEW d \in Deployments, NEW r \in Copy, Backed(heard', r, d),
         held' = [held EXCEPT ![d] = r]
  PROVE  /\ held' \in [Deployments -> Copy]
         /\ held'[d] = r /\ \A e \in Deployments \ {d} : held'[e] = held[e]
         /\ \A e \in Deployments : Backed(heard', held'[e], e)
  <1>1. held \in [Deployments -> Copy] /\ \A e \in Deployments : Backed(heard, held[e], e)
    BY DEF WorkerOK, WorkerEvidence
  <1>2. held' \in [Deployments -> Copy]
        /\ held'[d] = r /\ \A e \in Deployments \ {d} : held'[e] = held[e]
    BY <1>1
  <1>3. \A e \in Deployments : Backed(heard', held[e], e)
    BY <1>1, BackedGrows
  <1> QED
    BY <1>2, <1>3

\* Copies that are not touched stay backed.
LEMMA KeepCopies ==
  ASSUME WorkerOK, HeardGrows, UNCHANGED held
  PROVE  /\ held' \in [Deployments -> Copy]
         /\ \A e \in Deployments : Backed(heard', held'[e], e)
  BY BackedGrows DEF WorkerOK, WorkerEvidence

\* The report of the session goes on proving only what was heard.
ReportOK == \A d \in Deployments : ReportProvesActivation(ses.report, d) => d \in heard.settled

\* The report of a session keeps proving only what was heard.
LEMMA KeepReport ==
  ASSUME WorkerOK, HeardGrows, ses'.report = ses.report
  PROVE  ReportOK'
  BY DEF WorkerOK, WorkerEvidence, ReportOK, HeardGrows

\* Between two deliveries: the report, if there is one, is still at hand.
LEMMA BetweenDeliveries ==
  ASSUME ses' \in Session, held' \in [Deployments -> Copy],
         \A d \in Deployments : Backed(heard', held'[d], d), ReportOK',
         ses'.pc \in {"drive", "apply"}, ses'.cur = NoDeployment, ses'.after = "done",
         ses'.pc = "apply" => \A d \in ses'.todo : IsPendingState(held'[d].state)
  PROVE  WorkerOK'
  <1>1. ses'.pc \notin AtWork /\ ses'.pc \notin HoldsCopy
    BY DEF AtWork, HoldsCopy, Receiving, Sending, LocalActions
  <1>2. WorkerControl'
    BY <1>1 DEF WorkerControl
  <1>3. WorkerEvidence'
    BY <1>1 DEF WorkerEvidence, ReportOK
  <1> QED
    BY <1>2, <1>3 DEF WorkerOK

\* Going on to the next delivery drops the copy of this one.
LEMMA NextDeliverySound ==
  ASSUME WorkerOK, HeardGrows, ses.cur \in Deployments, NEW errs \in Nat, NextDelivery(errs)
  PROVE  WorkerOK'
  <1>1. /\ ses' \in Session /\ ses'.pc = "drive" /\ ses'.cur = NoDeployment
        /\ ses'.after = "done" /\ ses'.report = ses.report
    BY DEF WorkerOK, NextDelivery, Session, MaybeDeployment, NewReader, Reader
  <1>2. held' \in [Deployments -> Copy] /\ \A d \in Deployments : Backed(heard', held'[d], d)
    <2>1. held' = [held EXCEPT ![ses.cur] = Absent]
      BY DEF NextDelivery
    <2> QED BY <2>1, ReplaceCopy, CopyType, AbsentBacked
  <1> QED
    BY <1>1, <1>2, KeepReport, BetweenDeliveries

\* An error at a delivery goes on to the next, or ends the session.
LEMMA DriveErrorSound ==
  ASSUME WorkerOK, HeardGrows, ses.cur \in Deployments, DriveError
  PROVE  WorkerOK'
  <1>1. ses.errs + 1 \in Nat
    BY DEF WorkerOK, Session
  <1> QED
    BY <1>1, NextDeliverySound, EndSessionSound DEF DriveError

\* The deliveries that applyReconcileReport has still to look at are pending.
TodoPending == \A d \in ses.todo \ {ses.cur} : IsPendingState(held[d].state)

\* A nested operation returns to where it was called from.
LEMMA ReturnSound ==
  ASSUME WorkerOK, HeardGrows, ses.cur \in Deployments, NEW after, Return(after),
         after = "apply" => TodoPending
  PROVE  WorkerOK'
  <1>1. CASE after = "done" /\ NextDelivery(ses.errs)
    <2>1. ses.errs \in Nat
      BY DEF WorkerOK, Session
    <2> QED BY <1>1, <2>1, NextDeliverySound
  <1>2. ASSUME after = "loop" \/ after = "apply", held' = [held EXCEPT ![ses.cur] = Absent]
        PROVE  /\ held' \in [Deployments -> Copy]
               /\ \A d \in Deployments : Backed(heard', held'[d], d)
               /\ \A e \in Deployments \ {ses.cur} : held'[e] = held[e]
    BY <1>2, ReplaceCopy, CopyType, AbsentBacked
  <1>3. CASE after = "loop" /\ ~(after = "done" /\ NextDelivery(ses.errs))
    <2>1. /\ ses' \in Session /\ ses'.pc = "drive" /\ ses'.cur = NoDeployment
          /\ ses'.after = "done" /\ ses'.report = ses.report
      <3>1. ses' = [ses EXCEPT !.pc = "drive", !.cur = NoDeployment, !.offset = 0,
                               !.reader = NewReader, !.again = TRUE, !.after = "done"]
        BY <1>3 DEF Return
      <3>2. ses \in Session
        BY DEF WorkerOK
      <3> QED BY <3>1, <3>2 DEF Session, MaybeDeployment, NewReader, Reader
    <2>2. held' = [held EXCEPT ![ses.cur] = Absent]
      BY <1>3 DEF Return
    <2> QED BY <1>2, <1>3, <2>1, <2>2, KeepReport, BetweenDeliveries
  <1>4. CASE after = "apply" /\ ~(after = "done" /\ NextDelivery(ses.errs))
    <2>1. /\ ses' \in Session /\ ses'.pc = "apply" /\ ses'.cur = NoDeployment
          /\ ses'.after = "done" /\ ses'.report = ses.report /\ ses'.todo = ses.todo \ {ses.cur}
      <3>1. ses' = [ses EXCEPT !.pc = "apply", !.todo = @ \ {ses.cur},
                               !.cur = NoDeployment, !.after = "done"]
        BY <1>4 DEF Return
      <3>2. ses \in Session
        BY DEF WorkerOK
      <3> QED BY <3>1, <3>2 DEF Session, MaybeDeployment
    <2>2. held' = [held EXCEPT ![ses.cur] = Absent]
      BY <1>4 DEF Return
    <2>3. \A d \in ses'.todo : IsPendingState(held'[d].state)
      <3>1. ses.todo \subseteq Deployments
        BY DEF WorkerOK, Session
      <3> QED BY <1>2, <1>4, <2>1, <2>2, <3>1 DEF TodoPending
    <2> QED BY <1>2, <1>4, <2>1, <2>2, <2>3, KeepReport, BetweenDeliveries
  <1> QED
    BY <1>1, <1>3, <1>4 DEF Return

\* An error is charged to the session or to the delivery, depending on where it
\* occurs.
LEMMA ErrorSound ==
  ASSUME RecordsOK, WorkerOK, HeardGrows, ses.cur \in Deployments, NEW after, Error(after)
  PROVE  WorkerOK'
  BY FailSessionSound, DriveErrorSound DEF Error

-----------------------------------------------------------------------------
(* The session worker: commits.                                            *)

Afters == {"done", "loop", "apply", "ack"}

\* The worker is at a delivery.
LEMMA AtDelivery ==
  ASSUME ses' \in Session, held' \in [Deployments -> Copy],
         \A d \in Deployments : Backed(heard', held'[d], d), ReportOK',
         ses'.pc \in AtWork, ses'.cur \in Deployments,
         ses'.pc \in HoldsCopy => held'[ses'.cur].state # "None",
         ses'.pc = "abortAck" \/ ses'.after = "apply" => TodoPending',
         ses'.pc = "adopt" => /\ ses'.cur \in heard'.active
                              /\ ses'.after # "ack" => ses'.cur \in heard'.settled,
         ses'.pc = "acknowledge" => ses'.cur \in heard'.settled
  PROVE  WorkerOK'
  <1>1. ses'.pc \notin {"rearm", "fail", "apply"}
    BY DEF AtWork, Receiving, Sending, LocalActions
  <1>2. WorkerControl'
    BY <1>1 DEF WorkerControl, TodoPending
  <1>3. WorkerEvidence'
    BY <1>1 DEF WorkerEvidence, ReportOK
  <1> QED
    BY <1>2, <1>3 DEF WorkerOK

\* The worker's copy that it writes back is the record, or was overtaken.
LEMMA OwnCopy ==
  ASSUME NEW d \in Deployments, held[d].state # "None", NEW s, Allowed(held[d].state, s)
  PROVE  d \in StaleHeld \/ Allowed(rec[d].state, s)
  BY DEF StaleHeld, Absent

\* recordTransition(): the copy is checked against the table, changed and
\* committed.
LEMMA TransitionSound ==
  ASSUME RecordsOK, WorkerOK, HeardGrows, ses.cur \in Deployments,
         NEW to \in DeliveryStates, NEW pc \in AtWork, NEW after \in Afters,
         Transition(to, pc, after),
         to = "Applied" => ses.cur \in heard'.active,
         to = "Acknowledged" => ses.cur \in heard'.settled,
         pc \notin {"abortAck", "acknowledge"},
         pc = "adopt" => /\ ses.cur \in heard'.active
                         /\ after # "ack" => ses.cur \in heard'.settled,
         after = "apply" => TodoPending
  PROVE  WorkerOK' /\ RecordStep(StaleHeld)
  <1>1. held[ses.cur] \in Copy
    BY DEF WorkerOK
  <1> DEFINE r == [held[ses.cur] EXCEPT !.state = to]
  <1>2. r \in Copy /\ r.state = to
    BY <1>1, CopyType DEF Copy
  <1>3. CASE IsLegalTransition(held[ses.cur].state, to)
    <2>1. /\ rec' = [rec EXCEPT ![ses.cur] = r]
          /\ held' = [held EXCEPT ![ses.cur] = r]
          /\ ses' = [ses EXCEPT !.pc = pc, !.after = after]
      BY <1>3 DEF Transition, Commit
    <2> HIDE DEF r
    <2>2. /\ held[ses.cur].state # "None" /\ to # "None"
          /\ Allowed(held[ses.cur].state, r.state)
      BY <1>2, <1>3, LegalMoves
    <2>3. Backed(heard', r, ses.cur)
      BY <1>2 DEF Backed
    <2>4. RecordStep(StaleHeld)
      BY <1>2, <2>1, <2>2, <2>3, OwnCopy, CommitSound
    <2>5. ses \in Session /\ pc \in Places
      BY PlaceFacts DEF WorkerOK
    <2>6. /\ ses' \in Session /\ ses'.pc = pc /\ ses'.cur = ses.cur /\ ses'.after = after
          /\ ses'.report = ses.report /\ ses'.todo = ses.todo
      BY <2>1, <2>5 DEF Session, Places, Afters
    <2>7. /\ held' \in [Deployments -> Copy] /\ held'[ses.cur] = r
          /\ \A e \in Deployments \ {ses.cur} : held'[e] = held[e]
          /\ \A d \in Deployments : Backed(heard', held'[d], d)
      BY <1>2, <2>1, <2>3, ReplaceCopy
    <2>8. after = "apply" => TodoPending'
      BY <2>5, <2>6, <2>7 DEF TodoPending, Session
    <2>9. ReportOK'
      BY <2>6, KeepReport
    <2> QED BY <1>2, <2>2, <2>4, <2>6, <2>7, <2>8, <2>9, AtDelivery
  <1>4. CASE ~IsLegalTransition(held[ses.cur].state, to)
    BY <1>4, ErrorSound, NoCommit DEF Transition
  <1> QED
    BY <1>3, <1>4

\* A copy that is committed as it is.
LEMMA CommitOwn ==
  ASSUME RecordsOK, WorkerOK, HeardGrows, ses.cur \in Deployments,
         held[ses.cur].state # "None", Commit(held[ses.cur])
  PROVE  RecordStep(StaleHeld)
  <1> DEFINE r == held[ses.cur]
  <1>1. r \in Copy /\ Backed(heard, r, ses.cur)
    BY DEF WorkerOK, WorkerEvidence
  <1>2. rec' = [rec EXCEPT ![ses.cur] = r] /\ r.state # "None"
    BY DEF Commit
  <1>3. ses.cur \in StaleHeld \/ Allowed(rec[ses.cur].state, r.state)
    BY OwnCopy DEF Allowed
  <1> HIDE DEF r
  <1> QED
    BY <1>1, <1>2, <1>3, BackedGrows, CommitSound

\* recordRejected() commits a rejection.
LEMMA RecordRejectedSound ==
  ASSUME RecordsOK, WorkerOK, HeardGrows, ses.cur \in Deployments, NEW after \in Afters,
         RecordRejected(after), after = "apply" => TodoPending
  PROVE  WorkerOK' /\ RecordStep(StaleHeld)
  <1>1. CASE held[ses.cur].state = "Rejected"
    BY <1>1, CommitOwn, ReturnSound DEF RecordRejected
  <1>2. CASE held[ses.cur].state # "Rejected"
    <2>1. "Rejected" \in DeliveryStates /\ "rewrite" \in AtWork
      BY DEF DeliveryStates, AtWork
    <2> QED BY <1>2, <2>1, TransitionSound DEF RecordRejected
  <1> QED
    BY <1>1, <1>2

\* recordRetired() commits a retirement, unless the copy is retired already.
LEMMA RecordRetiredSound ==
  ASSUME RecordsOK, WorkerOK, HeardGrows, ses.cur \in Deployments, NEW after \in Afters,
         RecordRetired(after), after = "apply" => TodoPending
  PROVE  WorkerOK' /\ RecordStep(StaleHeld)
  <1>1. CASE held[ses.cur].state = "Retired"
    BY <1>1, NoCommit, ReturnSound DEF RecordRetired
  <1>2. CASE held[ses.cur].state # "Retired"
    <2>1. "Retired" \in DeliveryStates /\ "rewrite" \in AtWork
      BY DEF DeliveryStates, AtWork
    <2> QED BY <1>2, <2>1, TransitionSound DEF RecordRetired
  <1> QED
    BY <1>1, <1>2

\* recordFailure() charges an attempt, or ends the delivery when none are left.
LEMMA RecordFailureSound ==
  ASSUME RecordsOK, WorkerOK, HeardGrows, ses.cur \in Deployments, NEW after \in Afters,
         RecordFailure(after), after = "apply" => TodoPending
  PROVE  WorkerOK' /\ RecordStep(StaleHeld)
  <1>1. CASE MayFail(held[ses.cur])
    <2> DEFINE r == Charged(held[ses.cur])
    <2>1. r \in Copy /\ r.state = "Failed"
      BY CopyType DEF WorkerOK, Charged
    <2>2. held[ses.cur].state # "None" /\ Allowed(held[ses.cur].state, "Failed")
      BY <1>1, LegalMoves DEF MayFail, Allowed
    <2>3. rec' = [rec EXCEPT ![ses.cur] = r] /\ Return(after)
      BY <1>1 DEF RecordFailure, Commit
    <2>4. Backed(heard', r, ses.cur)
      BY <2>1 DEF Backed
    <2> HIDE DEF r
    <2>5. RecordStep(StaleHeld)
      BY <2>1, <2>2, <2>3, <2>4, OwnCopy, CommitSound
    <2> QED BY <2>3, <2>5, ReturnSound
  <1>2. CASE ~MayFail(held[ses.cur])
    BY <1>2, ErrorSound, NoCommit DEF RecordFailure
  <1> QED
    BY <1>1, <1>2

\* Adopting an activation needs a frame that proved it.
LEMMA AdoptSound ==
  ASSUME RecordsOK, WorkerOK, HeardGrows, ses.cur \in Deployments, NEW after \in Afters,
         Adopt(after), after = "apply" => TodoPending,
         ses.cur \in heard'.active, after # "ack" => ses.cur \in heard'.settled
  PROVE  WorkerOK' /\ RecordStep(StaleHeld)
  <1>1. CASE IsActivationState(held[ses.cur].state)
    <2>1. ses' = [ses EXCEPT !.pc = "adopt", !.after = after] /\ UNCHANGED <<rec, held>>
      BY <1>1 DEF Adopt
    <2>2. ses \in Session
      BY DEF WorkerOK
    <2>3. /\ ses' \in Session /\ ses'.pc = "adopt" /\ ses'.cur = ses.cur /\ ses'.after = after
          /\ ses'.report = ses.report /\ ses'.todo = ses.todo
      BY <2>1, <2>2 DEF Session, Afters
    <2>4. "adopt" \in AtWork /\ "adopt" \notin HoldsCopy
      BY DEF AtWork, HoldsCopy
    <2>5. after = "apply" => TodoPending'
      BY <2>1, <2>3 DEF TodoPending
    <2> QED BY <2>1, <2>3, <2>4, <2>5, KeepCopies, KeepReport, AtDelivery, NoCommit
  <1>2. CASE ~IsActivationState(held[ses.cur].state)
    <2>1. "Applied" \in DeliveryStates /\ "adopt" \in AtWork
      BY DEF DeliveryStates, AtWork
    <2> QED BY <1>2, <2>1, TransitionSound DEF Adopt
  <1> QED
    BY <1>1, <1>2

-----------------------------------------------------------------------------
(* The session worker: its steps, one lemma per action.                    *)

\* What a step of the session worker does besides hearing and counting.
SessionEffect ==
  /\ WorkerOK' /\ RecordStep(StaleHeld)
  /\ tgt' \in Target /\ verify' \in BOOLEAN
  /\ UNCHANGED aside

\* The worker is between deliveries.
LEMMA OffDelivery ==
  ASSUME ses' \in Session, held' \in [Deployments -> Copy],
         \A d \in Deployments : Backed(heard', held'[d], d), ReportOK',
         ses'.pc \notin AtWork, ses'.cur = NoDeployment, ses'.after = "done",
         ses'.pc = "rearm" => ses'.todo # {} /\ \A d \in ses'.todo : held'[d].state = "Failed",
         ses'.pc \in {"fail", "apply"} => \A d \in ses'.todo : IsPendingState(held'[d].state)
  PROVE  WorkerOK'
  <1>1. ses'.pc \notin HoldsCopy /\ ses'.pc \notin {"adopt", "acknowledge", "abortAck"}
    BY DEF AtWork, HoldsCopy, Receiving
  <1>2. WorkerControl'
    BY <1>1 DEF WorkerControl
  <1>3. WorkerEvidence'
    BY <1>1 DEF WorkerEvidence, ReportOK
  <1> QED
    BY <1>2, <1>3 DEF WorkerOK

\* The worker goes on with the same delivery and the same copy.
LEMMA StayAtDelivery ==
  ASSUME WorkerOK, HeardGrows, ses.pc \in HoldsCopy, UNCHANGED held,
         ses' \in Session, ses'.pc \in HoldsCopy, ses'.cur = ses.cur, ses'.report = ses.report,
         ses'.todo = ses.todo, ses'.after \in {ses.after, "loop"}
  PROVE  WorkerOK'
  <1>1. ses.cur \in Deployments /\ held[ses.cur].state # "None"
        /\ (ses.after = "apply" => TodoPending)
    BY PlaceFacts DEF WorkerOK, WorkerControl, TodoPending
  <1>2. ses'.pc \in AtWork /\ ses'.pc \notin {"abortAck", "adopt", "acknowledge"}
    BY DEF HoldsCopy
  <1>3. ses'.after = "apply" => TodoPending'
    BY <1>1 DEF TodoPending
  <1> QED
    BY <1>1, <1>2, <1>3, KeepCopies, KeepReport, AtDelivery

\* What the worker knows where it is at a delivery.
LEMMA AtWorkFacts ==
  ASSUME WorkerOK, ses.pc \in AtWork
  PROVE  /\ ses.cur \in Deployments /\ ses.after \in Afters
         /\ ses.pc \in HoldsCopy => held[ses.cur].state # "None"
         /\ ses.after = "apply" \/ ses.pc = "abortAck" => TodoPending
  BY DEF WorkerOK, WorkerControl, TodoPending, Session, Afters

\* A worker that is not at a delivery holds none.
LEMMA OffWorkFacts ==
  ASSUME WorkerOK, ses.pc \notin AtWork
  PROVE  ses.cur = NoDeployment /\ ses.after = "done"
  BY DEF WorkerOK, WorkerControl

\* A worker picks up the target.
LEMMA PickSound ==
  ASSUME DInv, HeardGrows,
         \/ \E d \in Deployments, elapsed \in BOOLEAN : PickWork(d, elapsed)
         \/ PickVerification
  PROVE  SessionEffect
  <1>1. ses' = [Idle EXCEPT !.pc = "dial"] /\ UNCHANGED <<rec, tgt, held, aside>>
        /\ verify' \in {verify, FALSE}
    BY DEF PickWork, PickVerification
  <1>2. /\ ses' \in Session /\ ses'.pc = "dial" /\ ses'.cur = NoDeployment
        /\ ses'.report = NoReport /\ ses'.after = "done"
    BY <1>1, UnsetType DEF Idle, Session
  <1>3. "dial" \notin AtWork
    BY DEF AtWork, Receiving, Sending, LocalActions
  <1>4. WorkerOK'
    BY <1>1, <1>2, <1>3, KeepCopies, FreshWorker DEF DInv
  <1> QED
    BY <1>1, <1>4, NoCommit DEF DInv, RestOK, SessionEffect

\* A session begins with the connection, or fails with it.
LEMMA ConnectSound ==
  ASSUME DInv, HeardGrows, Connect
  PROVE  SessionEffect
  <1>1. ses' = [ses EXCEPT !.pc = "helloAck"] /\ UNCHANGED <<rec, tgt, held, verify, aside>>
        /\ ses.pc = "dial" /\ ses \in Session
    BY DEF Connect, DInv, WorkerOK
  <1>2. "dial" \notin AtWork /\ "helloAck" \notin AtWork
    BY DEF AtWork, Receiving, Sending, LocalActions
  <1>3. ses.cur = NoDeployment /\ ses.after = "done"
    BY <1>1, <1>2, OffWorkFacts DEF DInv
  <1>4. /\ ses' \in Session /\ ses'.pc = "helloAck" /\ ses'.cur = NoDeployment
        /\ ses'.report = ses.report /\ ses'.after = "done"
    BY <1>1, <1>3 DEF Session, Receiving
  <1>5. WorkerOK'
    BY <1>1, <1>2, <1>4, KeepCopies, KeepReport, OffDelivery DEF DInv
  <1> QED
    BY <1>1, <1>5, NoCommit DEF DInv, RestOK, SessionEffect

\* Every charge of recordSessionFailure is a move the table allows.
LEMMA SessionFailureOneSound ==
  ASSUME DInv, HeardGrows, SessionFailureOne
  PROVE  SessionEffect
  <1> DEFINE d == FirstId(ses.todo)
             r == Charged(held[d])
  <1>1. /\ ses.pc = "fail" /\ ses.todo # {} /\ ses \in Session
        /\ rec' = IF MayFail(held[d]) THEN [rec EXCEPT ![d] = r] ELSE rec
        /\ ses' = [ses EXCEPT !.todo = @ \ {d}]
        /\ held' = [held EXCEPT ![d] = Absent]
        /\ UNCHANGED <<tgt, verify, aside>>
    BY DEF SessionFailureOne, DInv, WorkerOK
  <1>2. d \in ses.todo /\ ses.todo \subseteq Deployments
    BY <1>1, FirstIdIn DEF Session
  <1>3. r \in Copy /\ r.state = "Failed" /\ Backed(heard', r, d)
    BY <1>2, CopyType DEF DInv, WorkerOK, Charged, Backed
  <1> HIDE DEF d, r
  <1>4. \A e \in ses.todo : IsPendingState(held[e].state)
    BY <1>1 DEF DInv, WorkerOK, WorkerControl
  <1>5. RecordStep(StaleHeld)
    <2>1. held[d].state # "None" /\ Allowed(held[d].state, "Failed")
      BY <1>2, <1>4, PendingMoves
    <2>2. CASE MayFail(held[d])
      BY <1>1, <1>2, <1>3, <2>1, <2>2, OwnCopy, CommitSound DEF DInv
    <2>3. CASE ~MayFail(held[d])
      BY <1>1, <2>3, NoCommit DEF DInv
    <2> QED BY <2>2, <2>3
  <1>6. "fail" \notin AtWork
    BY DEF AtWork, Receiving, Sending, LocalActions
  <1>7. ses.cur = NoDeployment /\ ses.after = "done"
    BY <1>1, <1>6, OffWorkFacts DEF DInv
  <1>8. /\ ses' \in Session /\ ses'.pc = "fail" /\ ses'.cur = NoDeployment /\ ses'.after = "done"
        /\ ses'.report = ses.report /\ ses'.todo = ses.todo \ {d}
    BY <1>1, <1>7 DEF Session
  <1>9. /\ held' \in [Deployments -> Copy] /\ \A e \in Deployments \ {d} : held'[e] = held[e]
        /\ \A e \in Deployments : Backed(heard', held'[e], e)
    BY <1>1, <1>2, ReplaceCopy, CopyType, AbsentBacked DEF DInv
  <1>10. \A e \in ses'.todo : IsPendingState(held'[e].state)
    BY <1>2, <1>4, <1>8, <1>9
  <1>11. WorkerOK'
    BY <1>6, <1>8, <1>9, <1>10, KeepReport, OffDelivery DEF DInv
  <1> QED
    BY <1>1, <1>5, <1>11 DEF DInv, RestOK, SessionEffect

\* All pending deliveries were charged: the session is over.
LEMMA SessionFailureDoneSound ==
  ASSUME DInv, HeardGrows, SessionFailureDone
  PROVE  SessionEffect
  <1>1. tgt' \in Target
    BY DEF SessionFailureDone, DInv, RestOK, Target
  <1> QED
    BY <1>1, EndSessionSound, NoCommit DEF SessionFailureDone, DInv, RestOK, SessionEffect

\* The answer to the hello, which may show a restart of the target.
LEMMA OnHelloSound ==
  ASSUME DInv, HeardGrows, NEW m \in Frames, OnHello(m)
  PROVE  SessionEffect
  <1>1. CASE m.kind # "HelloAck" \/ m.term < tgt.term
    BY <1>1, FailSessionSound, NoCommit DEF OnHello, DInv, RestOK, SessionEffect
  <1>2. CASE ~(m.kind # "HelloAck" \/ m.term < tgt.term)
    <2> DEFINE failed == {d \in Deployments : rec[d].state = "Failed"}
               restarted == tgt.term # 0 /\ m.term > tgt.term /\ failed # {}
    <2>1. m.term \in Nat /\ m.pair \in PairOfAny
      BY <1>2 DEF Frames, HelloAcks, Reports, PrepareAnswers, TransferAnswers, ApplyAnswers,
                  Acknowledgements
    <2>2. /\ ses.pc = "helloAck"
          /\ tgt' = [tgt EXCEPT !.known = TRUE, !.atomic = Atomic, !.term = m.term,
                                !.pair = m.pair, !.contact = TRUE]
          /\ ses' = [ses EXCEPT !.term = m.term,
                                !.pc = IF restarted THEN "rearm" ELSE "report",
                                !.todo = IF restarted THEN failed ELSE {}]
          /\ held' = IF restarted THEN Copies(failed) ELSE NoCopies
          /\ UNCHANGED <<rec, verify, aside>>
      BY <1>2 DEF OnHello
    <2>3. tgt' \in Target
      BY <2>1, <2>2, DistributorAssumption DEF DInv, RestOK, Target
    <2>4. "helloAck" \notin AtWork /\ "report" \notin AtWork /\ "rearm" \notin AtWork
      BY DEF AtWork, Receiving, Sending, LocalActions
    <2>5. ses.cur = NoDeployment /\ ses.after = "done" /\ ses \in Session
      BY <2>2, <2>4, OffWorkFacts DEF DInv, WorkerOK
    <2>6. failed \in SUBSET Deployments /\ \A d \in failed : rec[d].state = "Failed"
      OBVIOUS
    <2>7. restarted \in BOOLEAN /\ (restarted => failed # {})
      OBVIOUS
    <2> HIDE DEF failed, restarted
    <2>8. /\ ses' \in Session /\ ses'.cur = NoDeployment /\ ses'.after = "done"
          /\ ses'.report = ses.report
          /\ ses'.pc = IF restarted THEN "rearm" ELSE "report"
          /\ ses'.todo = IF restarted THEN failed ELSE {}
      BY <2>1, <2>2, <2>5, <2>6 DEF Session, Receiving
    <2>9. /\ held' \in [Deployments -> Copy]
          /\ \A d \in Deployments : Backed(heard', held'[d], d)
          /\ restarted => \A d \in failed : held'[d] = rec[d]
      <3>1. CASE restarted
        BY <2>2, <2>6, <3>1, CopiesSound DEF DInv
      <3>2. CASE ~restarted
        BY <2>2, <3>2, CopyType, AbsentBacked DEF NoCopies
      <3> QED BY <3>1, <3>2
    <2>10. WorkerOK'
      <3>1. CASE restarted
        BY <2>4, <2>6, <2>7, <2>8, <2>9, <3>1, KeepReport, OffDelivery DEF DInv
      <3>2. CASE ~restarted
        BY <2>4, <2>8, <2>9, <3>2, KeepReport, OffDelivery DEF DInv
      <3> QED BY <3>1, <3>2
    <2> QED
      BY <2>2, <2>3, <2>10, NoCommit DEF DInv, RestOK, SessionEffect
  <1> QED
    BY <1>1, <1>2

\* A failed delivery gets new attempts after a restart of the target.
LEMMA RearmOneSound ==
  ASSUME DInv, HeardGrows, RearmOne
  PROVE  SessionEffect
  <1> DEFINE d == FirstId(ses.todo)
             r == [held[d] EXCEPT !.failures = 0]
  <1>1. /\ ses.pc = "rearm" /\ ses \in Session
        /\ rec' = [rec EXCEPT ![d] = r]
        /\ ses' = [ses EXCEPT !.todo = @ \ {d},
                              !.pc = IF ses.todo = {d} THEN "report" ELSE "rearm"]
        /\ held' = [held EXCEPT ![d] = Absent]
        /\ UNCHANGED <<tgt, verify, aside>>
    BY DEF RearmOne, DInv, WorkerOK
  <1>2. ses.todo # {} /\ \A e \in ses.todo : held[e].state = "Failed"
    BY <1>1 DEF DInv, WorkerOK, WorkerControl
  <1>3. d \in ses.todo /\ ses.todo \subseteq Deployments
    BY <1>1, <1>2, FirstIdIn DEF Session
  <1>4. r \in Copy /\ r.state = "Failed"
    <2>1. held[d] \in Copy /\ held[d].state = "Failed"
      BY <1>2, <1>3 DEF DInv, WorkerOK
    <2> HIDE DEF d
    <2> QED BY <2>1, DistributorAssumption DEF Copy
  <1>5. Backed(heard', r, d)
    BY <1>4 DEF Backed
  <1> HIDE DEF d, r
  <1>6. RecordStep(StaleHeld)
    <2>1. held[d].state # "None" /\ Allowed(held[d].state, r.state)
      BY <1>2, <1>3, <1>4 DEF Allowed
    <2> QED BY <1>1, <1>3, <1>4, <1>5, <2>1, OwnCopy, CommitSound DEF DInv
  <1>7. "rearm" \notin AtWork /\ "report" \notin AtWork
    BY DEF AtWork, Receiving, Sending, LocalActions
  <1>8. ses.cur = NoDeployment /\ ses.after = "done"
    BY <1>1, <1>7, OffWorkFacts DEF DInv
  <1>9. /\ ses' \in Session /\ ses'.cur = NoDeployment /\ ses'.after = "done"
        /\ ses'.pc = (IF ses.todo = {d} THEN "report" ELSE "rearm")
        /\ ses'.report = ses.report /\ ses'.todo = ses.todo \ {d}
    BY <1>1, <1>8 DEF Session, Receiving
  <1>10. /\ held' \in [Deployments -> Copy] /\ \A e \in Deployments \ {d} : held'[e] = held[e]
         /\ \A e \in Deployments : Backed(heard', held'[e], e)
    BY <1>1, <1>3, ReplaceCopy, CopyType, AbsentBacked DEF DInv
  <1>11. /\ \A e \in ses'.todo : held'[e].state = "Failed"
         /\ ses'.pc = "rearm" => ses'.todo # {}
    BY <1>2, <1>3, <1>9, <1>10
  <1>12. WorkerOK'
    BY <1>7, <1>9, <1>10, <1>11, KeepReport, OffDelivery DEF DInv
  <1> QED
    BY <1>1, <1>6, <1>12 DEF DInv, RestOK, SessionEffect

\* What the session's own report says of a deployment has been heard.
ReportHeard(m) ==
  m.kind = "Report" /\ m.term = ses.term =>
    \A d \in Deployments : ReportProvesActivation(m, d) => d \in heard'.settled

\* A report that was heard is put to use on the pending deliveries.
LEMMA OnReportSound ==
  ASSUME DInv, HeardGrows, NEW m \in Frames, OnReport(m), ReportHeard(m)
  PROVE  SessionEffect
  <1>1. CASE m.kind # "Report" \/ m.term # ses.term
    BY <1>1, FailSessionSound, NoCommit DEF OnReport, DInv, RestOK, SessionEffect
  <1>2. CASE ~(m.kind # "Report" \/ m.term # ses.term)
    <2> DEFINE S == Pending(rec)
    <2>1. m \in Reported
      <3>1. m \in Reports
        BY <1>2 DEF Frames, HelloAcks, Reports, PrepareAnswers, TransferAnswers, ApplyAnswers,
                    Acknowledgements
      <3> QED BY <3>1 DEF Reports, Reported, MaybeDeployment
    <2>2. /\ ses.pc = "report" /\ ses \in Session
          /\ tgt' = [tgt EXCEPT !.known = TRUE, !.atomic = Atomic, !.term = m.term,
                                !.pair = m.pair, !.contact = TRUE,
                                !.window = m.window # NoDeployment]
          /\ ses' = [ses EXCEPT !.pc = "apply", !.report = m, !.todo = S]
          /\ held' = Copies(S)
          /\ UNCHANGED <<rec, verify, aside>>
      BY <1>2 DEF OnReport, DInv, WorkerOK
    <2>3. tgt' \in Target
      <3>1. m.term \in Nat /\ m.pair \in PairOfAny /\ (m.window # NoDeployment) \in BOOLEAN
        BY <2>1 DEF Reported
      <3> QED BY <2>2, <3>1, DistributorAssumption DEF DInv, RestOK, Target
    <2>4. S \in SUBSET Deployments /\ \A d \in S : IsPendingState(rec[d].state)
      BY DEF Pending
    <2>5. "report" \notin AtWork /\ "apply" \notin AtWork
      BY DEF AtWork, Receiving, Sending, LocalActions
    <2>6. ses.cur = NoDeployment /\ ses.after = "done"
      BY <2>2, <2>5, OffWorkFacts DEF DInv
    <2> HIDE DEF S
    <2>7. /\ ses' \in Session /\ ses'.cur = NoDeployment /\ ses'.after = "done"
          /\ ses'.pc = "apply" /\ ses'.report = m /\ ses'.todo = S
      BY <2>1, <2>2, <2>4, <2>6 DEF Session
    <2>8. /\ held' \in [Deployments -> Copy]
          /\ \A d \in Deployments : Backed(heard', held'[d], d)
          /\ \A d \in S : held'[d] = rec[d]
      BY <2>2, <2>4, CopiesSound DEF DInv
    <2>9. ReportOK'
      BY <1>2, <2>7 DEF ReportOK, ReportHeard
    <2>10. WorkerOK'
      BY <2>4, <2>5, <2>7, <2>8, <2>9, OffDelivery
    <2> QED
      BY <2>2, <2>3, <2>10, NoCommit DEF DInv, RestOK, SessionEffect
  <1> QED
    BY <1>1, <1>2

\* The answer to an abort is noted.
LEMMA OnAbortAckSound ==
  ASSUME DInv, HeardGrows, NEW m, OnAbortAck(m)
  PROVE  SessionEffect
  <1>1. ses.pc = "abortAck" /\ "abortAck" \in AtWork
    BY DEF OnAbortAck, AtWork, Receiving
  <1>2. ses.cur \in Deployments /\ TodoPending
    BY <1>1, AtWorkFacts DEF DInv
  <1>3. WorkerOK'
    BY <1>2, ReturnSound, FailSessionSound DEF OnAbortAck, DInv
  <1> QED
    BY <1>3, NoCommit DEF OnAbortAck, DInv, RestOK, SessionEffect

\* When the report has been applied, the deliveries are driven.
LEMMA ApplyDoneSound ==
  ASSUME DInv, HeardGrows, ApplyDone
  PROVE  SessionEffect
  <1>1. /\ ses.pc = "apply" /\ ses \in Session
        /\ ses' = [ses EXCEPT !.pc = "drive", !.todo = Pending(rec), !.report = NoReport]
        /\ held' = NoCopies /\ UNCHANGED <<rec, tgt, verify, aside>>
    BY DEF ApplyDone, DInv, WorkerOK
  <1>2. "apply" \notin AtWork /\ "drive" \notin AtWork
    BY DEF AtWork, Receiving, Sending, LocalActions
  <1>3. ses.cur = NoDeployment /\ ses.after = "done"
    BY <1>1, <1>2, OffWorkFacts DEF DInv
  <1>4. Pending(rec) \subseteq Deployments
    BY DEF Pending
  <1>5. /\ ses' \in Session /\ ses'.pc = "drive" /\ ses'.cur = NoDeployment
        /\ ses'.report = NoReport /\ ses'.after = "done"
    BY <1>1, <1>3, <1>4, UnsetType DEF Session
  <1>6. held' \in [Deployments -> Copy] /\ \A d \in Deployments : held'[d] = Absent
    BY <1>1, CopyType DEF NoCopies
  <1>7. WorkerOK'
    BY <1>2, <1>5, <1>6, AbsentBacked, FreshWorker
  <1> QED
    BY <1>1, <1>7, NoCommit DEF DInv, RestOK, SessionEffect

\* What reconciliation concludes for one delivery from the report.
LEMMA ApplyReportSound ==
  ASSUME DInv, HeardGrows, ApplyReport
  PROVE  SessionEffect
  <1> DEFINE d == First(ses.todo)
             outcome == ReconcileDelivery(ses.report, ses.term, d, NoDeployment)
             moved(s) == [held[d] EXCEPT !.state = s]
  <1>1. ses.pc = "apply" /\ ses.todo # {} /\ ses \in Session /\ UNCHANGED <<tgt, verify, aside>>
    BY DEF ApplyReport, DInv, WorkerOK
  <1>2. d \in ses.todo /\ ses.todo \subseteq Deployments
    BY <1>1, FirstIn DEF Session
  <1>3. /\ \A e \in ses.todo : IsPendingState(held[e].state)
        /\ ses.cur = NoDeployment /\ ses.after = "done"
    <2>1. "apply" \notin AtWork
      BY DEF AtWork, Receiving, Sending, LocalActions
    <2>2. ses.cur = NoDeployment /\ ses.after = "done"
      BY <1>1, <2>1, OffWorkFacts DEF DInv
    <2>3. \A e \in ses.todo \ {ses.cur} : IsPendingState(held[e].state)
      BY <1>1 DEF DInv, WorkerOK, WorkerControl
    <2> QED BY <1>2, <2>2, <2>3, DeploymentFacts
  <1>4. \/ /\ outcome = "ResolvePrepareWindow"
           /\ ses' = [ses EXCEPT !.cur = d, !.pc = "abortAck"]
           /\ UNCHANGED <<rec, held>>
        \/ /\ outcome = "RetireStale"
           /\ rec' = [rec EXCEPT ![d] = moved("Retired")]
           /\ held' = [held EXCEPT ![d] = moved("Retired")]
           /\ ses' = [ses EXCEPT !.cur = d, !.pc = "rewrite", !.after = "apply"]
        \/ /\ outcome = "AdoptActivation"
           /\ rec' = (IF held[d].state = "Applied" THEN rec
                      ELSE [rec EXCEPT ![d] = moved("Applied")])
           /\ held' = [held EXCEPT ![d] = moved("Applied")]
           /\ ses' = [ses EXCEPT !.cur = d, !.pc = "adopt", !.after = "apply"]
        \/ /\ outcome = "Drive"
           /\ ses' = [ses EXCEPT !.todo = @ \ {d}]
           /\ held' = [held EXCEPT ![d] = Absent]
           /\ UNCHANGED rec
        \/ FailSession /\ UNCHANGED rec
    BY DEF ApplyReport
  <1>5. outcome = "AdoptActivation" => d \in heard.settled
    <2>1. outcome = "AdoptActivation" => ReportProvesActivation(ses.report, d)
      BY DEF ReconcileDelivery
    <2> QED BY <1>2, <2>1 DEF DInv, WorkerOK, WorkerEvidence
  <1>6. \A s \in {"Retired", "Applied"} : moved(s) \in Copy /\ moved(s).state = s
    <2>1. held[d] \in Copy
      BY <1>2 DEF DInv, WorkerOK
    <2> HIDE DEF d
    <2> QED BY <2>1 DEF Copy, DeliveryStates
  <1> HIDE DEF d, outcome, moved
  <1>7. held[d].state # "None" /\ Allowed(held[d].state, "Retired")
        /\ Allowed(held[d].state, "Applied")
    BY <1>2, <1>3, PendingMoves
  <1>8. CASE /\ ses' = [ses EXCEPT !.cur = d, !.pc = "abortAck"]
             /\ UNCHANGED <<rec, held>>
    <2>1. /\ ses' \in Session /\ ses'.pc = "abortAck" /\ ses'.cur = d /\ ses'.after = "done"
          /\ ses'.report = ses.report /\ ses'.todo = ses.todo
      BY <1>1, <1>2, <1>3, <1>8 DEF Session, Receiving, MaybeDeployment
    <2>2. "abortAck" \in AtWork /\ "abortAck" \notin HoldsCopy
      BY DEF AtWork, HoldsCopy, Receiving
    <2>3. TodoPending'
      BY <1>3, <1>8, <2>1 DEF TodoPending
    <2>4. WorkerOK'
      BY <1>2, <1>8, <2>1, <2>2, <2>3, KeepCopies, KeepReport, AtDelivery DEF DInv
    <2> QED BY <1>1, <1>8, <2>4, NoCommit DEF DInv, RestOK, SessionEffect
  <1>9. ASSUME NEW s \in {"Retired", "Applied"}, NEW pc \in {"rewrite", "adopt"},
               pc = "adopt" => s = "Applied", s = "Applied" => d \in heard.settled,
               held' = [held EXCEPT ![d] = moved(s)],
               ses' = [ses EXCEPT !.cur = d, !.pc = pc, !.after = "apply"]
        PROVE  WorkerOK'
    <2>1. /\ ses' \in Session /\ ses'.pc = pc /\ ses'.cur = d /\ ses'.after = "apply"
          /\ ses'.report = ses.report /\ ses'.todo = ses.todo
      BY <1>1, <1>2, <1>3, <1>9 DEF Session, MaybeDeployment
    <2>2. pc \in AtWork /\ pc \notin {"abortAck", "acknowledge"}
      BY <1>9 DEF AtWork
    <2>3. moved(s) \in Copy /\ moved(s).state = s
      BY <1>6
    <2>4. s = "Applied" => d \in heard'.active /\ d \in heard'.settled
      BY <1>9 DEF HeardGrows, HeardOK
    <2>5. Backed(heard', moved(s), d)
      BY <2>3, <2>4 DEF Backed
    <2>6. /\ held' \in [Deployments -> Copy]
          /\ held'[d] = moved(s) /\ \A e \in Deployments \ {d} : held'[e] = held[e]
          /\ \A e \in Deployments : Backed(heard', held'[e], e)
      BY <1>2, <1>9, <2>3, <2>5, ReplaceCopy DEF DInv
    <2>7. TodoPending'
      BY <1>2, <1>3, <2>1, <2>6 DEF TodoPending
    <2>8. ReportOK'
      BY <2>1, KeepReport DEF DInv
    <2>9. ses'.pc \in HoldsCopy => held'[ses'.cur].state # "None"
      BY <2>1, <2>3, <2>6
    <2> QED BY <1>2, <1>9, <2>1, <2>2, <2>4, <2>6, <2>7, <2>8, <2>9, AtDelivery
  <1>10. ASSUME NEW s \in {"Retired", "Applied"}, s = "Applied" => d \in heard.settled,
                rec' = [rec EXCEPT ![d] = moved(s)]
         PROVE  RecordStep(StaleHeld)
    <2>1. moved(s) \in Copy /\ moved(s).state = s
      BY <1>6
    <2>2. Backed(heard', moved(s), d)
      BY <1>10, <2>1 DEF Backed, HeardGrows, HeardOK
    <2>3. Allowed(held[d].state, moved(s).state)
      BY <1>7, <2>1
    <2> QED BY <1>2, <1>7, <1>10, <2>1, <2>2, <2>3, OwnCopy, CommitSound DEF DInv
  <1>11. CASE /\ outcome = "RetireStale"
              /\ rec' = [rec EXCEPT ![d] = moved("Retired")]
              /\ held' = [held EXCEPT ![d] = moved("Retired")]
              /\ ses' = [ses EXCEPT !.cur = d, !.pc = "rewrite", !.after = "apply"]
    BY <1>1, <1>9, <1>10, <1>11 DEF DInv, RestOK, SessionEffect
  <1>12. CASE /\ outcome = "AdoptActivation"
              /\ rec' = (IF held[d].state = "Applied" THEN rec
                         ELSE [rec EXCEPT ![d] = moved("Applied")])
              /\ held' = [held EXCEPT ![d] = moved("Applied")]
              /\ ses' = [ses EXCEPT !.cur = d, !.pc = "adopt", !.after = "apply"]
    <2>1. WorkerOK'
      BY <1>5, <1>9, <1>12
    <2>2. RecordStep(StaleHeld)
      BY <1>5, <1>10, <1>12, NoCommit DEF DInv
    <2> QED BY <1>1, <2>1, <2>2 DEF DInv, RestOK, SessionEffect
  <1>13. CASE /\ ses' = [ses EXCEPT !.todo = @ \ {d}]
              /\ held' = [held EXCEPT ![d] = Absent]
              /\ UNCHANGED rec
    <2>1. /\ ses' \in Session /\ ses'.pc = "apply" /\ ses'.cur = NoDeployment
          /\ ses'.after = "done" /\ ses'.report = ses.report /\ ses'.todo = ses.todo \ {d}
      BY <1>1, <1>3, <1>13 DEF Session
    <2>2. /\ held' \in [Deployments -> Copy] /\ \A e \in Deployments \ {d} : held'[e] = held[e]
          /\ \A e \in Deployments : Backed(heard', held'[e], e)
      BY <1>2, <1>13, ReplaceCopy, CopyType, AbsentBacked DEF DInv
    <2>3. \A e \in ses'.todo : IsPendingState(held'[e].state)
      BY <1>2, <1>3, <2>1, <2>2
    <2>4. WorkerOK'
      BY <2>1, <2>2, <2>3, KeepReport, BetweenDeliveries DEF DInv
    <2> QED BY <1>1, <1>13, <2>4, NoCommit DEF DInv, RestOK, SessionEffect
  <1>14. CASE FailSession /\ UNCHANGED rec
    BY <1>1, <1>14, FailSessionSound, NoCommit DEF DInv, RestOK, SessionEffect
  <1> QED
    BY <1>4, <1>8, <1>11, <1>12, <1>13, <1>14

\* The second commit of an adoption: the committed pair of the target.
LEMMA AdoptTargetSound ==
  ASSUME DInv, HeardGrows, AdoptTarget
  PROVE  SessionEffect
  <1> DEFINE d == ses.cur
             r == rec[d]
  <1>1. /\ ses.pc = "adopt" /\ ses \in Session
        /\ tgt' = (IF ~tgt.known \/ tgt.pair.gen > d.gen THEN tgt
                   ELSE [tgt EXCEPT !.pair = PairOf(d)])
        /\ held' = [held EXCEPT ![d] = r]
        /\ ses' = [ses EXCEPT !.pc = IF ses.after = "ack" THEN "ack" ELSE "acknowledge",
                              !.after = IF ses.after = "ack" THEN "loop" ELSE @]
        /\ UNCHANGED <<rec, verify, aside>>
    BY DEF AdoptTarget, DInv, WorkerOK
  <1>2. {"adopt", "ack", "acknowledge"} \subseteq AtWork
        /\ "ack" \notin HoldsCopy /\ "acknowledge" \notin HoldsCopy
    BY DEF AtWork, HoldsCopy, Receiving
  <1>3. d \in Deployments /\ ses.after \in Afters /\ (ses.after = "apply" => TodoPending)
    BY <1>1, <1>2, AtWorkFacts DEF DInv
  <1>4. tgt' \in Target
    <2>1. PairOf(d) \in PairOfAny
      BY <1>3, DeploymentFacts DEF PairOf, PairOfAny
    <2> HIDE DEF d
    <2> QED BY <1>1, <2>1 DEF DInv, RestOK, Target
  <1>5. r \in Copy /\ Backed(heard', r, d)
    BY <1>3, BackedGrows DEF DInv, RecordsOK
  <1> HIDE DEF r
  <1>6. /\ held' \in [Deployments -> Copy] /\ \A e \in Deployments \ {d} : held'[e] = held[e]
        /\ \A e \in Deployments : Backed(heard', held'[e], e)
    BY <1>1, <1>3, <1>5, ReplaceCopy DEF DInv
  <1>7. /\ ses' \in Session /\ ses'.cur = d /\ ses'.report = ses.report /\ ses'.todo = ses.todo
        /\ ses'.pc = (IF ses.after = "ack" THEN "ack" ELSE "acknowledge")
        /\ ses'.after = (IF ses.after = "ack" THEN "loop" ELSE ses.after)
    BY <1>1, <1>3 DEF Session, Receiving, Afters
  <1>8. ses'.after = "apply" => TodoPending'
    BY <1>1, <1>3, <1>6, <1>7 DEF TodoPending, Session
  <1>9. ses'.pc = "acknowledge" => d \in heard'.settled
    <2>1. ses.after # "ack" => d \in heard.settled
      BY <1>1 DEF DInv, WorkerOK, WorkerEvidence
    <2> QED BY <1>7, <2>1 DEF HeardGrows
  <1>10. WorkerOK'
    <2>1. ses'.pc \in {"ack", "acknowledge"} /\ ReportOK'
      BY <1>7, KeepReport DEF DInv
    <2> QED BY <1>2, <1>3, <1>6, <1>7, <1>8, <1>9, <2>1, AtDelivery
  <1> QED
    BY <1>1, <1>4, <1>10, NoCommit DEF DInv, RestOK, SessionEffect

\* The third: the acknowledgement.
LEMMA AcknowledgeSound ==
  ASSUME DInv, HeardGrows, Acknowledge
  PROVE  SessionEffect
  <1>1. ses.pc = "acknowledge" /\ "acknowledge" \in AtWork /\ "rewrite" \in AtWork
        /\ "Acknowledged" \in DeliveryStates
    BY DEF Acknowledge, AtWork, DeliveryStates
  <1>2. ses.cur \in Deployments /\ ses.after \in Afters /\ (ses.after = "apply" => TodoPending)
    BY <1>1, AtWorkFacts DEF DInv
  <1>3. ses.cur \in heard'.settled
    BY <1>1 DEF DInv, WorkerOK, WorkerEvidence, HeardGrows
  <1>4. WorkerOK' /\ RecordStep(StaleHeld)
    <2>1. CASE held[ses.cur].state = "Acknowledged"
      BY <1>2, <2>1, ReturnSound, NoCommit DEF Acknowledge, DInv
    <2>2. CASE held[ses.cur].state # "Acknowledged"
      <3>1. Transition("Acknowledged", "rewrite", ses.after)
        BY <2>2 DEF Acknowledge
      <3> QED BY <1>1, <1>2, <1>3, <3>1, TransitionSound DEF DInv
    <2> QED BY <2>1, <2>2
  <1> QED
    BY <1>4 DEF Acknowledge, DInv, RestOK, SessionEffect

\* The second commit of the same copy.
LEMMA RewriteSound ==
  ASSUME DInv, HeardGrows, Rewrite
  PROVE  SessionEffect
  <1>1. ses.pc = "rewrite" /\ "rewrite" \in AtWork /\ "rewrite" \in HoldsCopy
    BY DEF Rewrite, AtWork, HoldsCopy
  <1>2. ses.cur \in Deployments /\ (ses.after = "apply" => TodoPending)
        /\ held[ses.cur].state # "None"
    BY <1>1, AtWorkFacts DEF DInv
  <1>3. WorkerOK' /\ RecordStep(StaleHeld)
    BY <1>2, CommitOwn, ReturnSound DEF Rewrite, DInv
  <1> QED
    BY <1>3 DEF Rewrite, DInv, RestOK, SessionEffect

-----------------------------------------------------------------------------
(* The session worker: driving one delivery.                               *)

LEMMA DecisionAction ==
  ASSUME NEW d, NEW r, NEW elapsed, NEW fresh
  PROVE  Decision(d, r, elapsed, fresh) \in PolicyActions
  <1>1. \A in : Decide(in) \in PolicyActions
    BY DEF Decide, Pipeline, PolicyActions
  <1> QED
    BY <1>1 DEF Decision

\* Activation begins at a place where the worker has its copy.
LEMMA ActivationPlace ==
  ASSUME NEW s
  PROVE  ActivationStep(s) \in HoldsCopy
  BY DEF ActivationStep, HoldsCopy, AtWork, Receiving

\* The worker reads the next record and decides.
LEMMA DriveReadSound ==
  ASSUME DInv, HeardGrows, NEW elapsed, NEW fresh, DriveRead(elapsed, fresh)
  PROVE  SessionEffect
  <1> DEFINE d == First(ses.todo)
             action == Decision(d, rec[d], elapsed, fresh)
             r == rec[d]
             pc == IF action = "Activate" THEN ActivationStep(rec[d].state) ELSE action
             skip == \/ rec[d].state = "None"
                     \/ action \in {"None", "Wait", "Reconcile"}
                     \/ action = "GiveUp" /\ rec[d].state = "Failed"
  <1>1. /\ ses.pc = "drive" /\ ses.todo # {} /\ ses \in Session
        /\ IF skip THEN ses' = [ses EXCEPT !.todo = @ \ {d}, !.again = FALSE] /\ UNCHANGED held
           ELSE /\ ses' = [ses EXCEPT !.cur = d, !.after = "loop", !.pc = pc]
                /\ held' = [held EXCEPT ![d] = r]
        /\ UNCHANGED <<rec, tgt, verify, aside>>
    BY DEF DriveRead, DInv, WorkerOK
  <1>2. d \in ses.todo /\ d \in Deployments /\ ses.todo \subseteq Deployments
    BY <1>1, FirstIn DEF Session
  <1>3. "drive" \notin AtWork
    BY DEF AtWork, Receiving, Sending, LocalActions
  <1>4. ses.cur = NoDeployment /\ ses.after = "done"
    BY <1>1, <1>3, OffWorkFacts DEF DInv
  <1>5. r \in Copy /\ Backed(heard', r, d)
    BY <1>2, BackedGrows DEF DInv, RecordsOK
  <1>6. ~skip => r.state # "None" /\ pc \in HoldsCopy
    <2>1. action \in PolicyActions
      BY DecisionAction
    <2>2. ASSUME action \in PolicyActions \ {"None", "Wait", "Reconcile", "Activate"}
          PROVE  action \in HoldsCopy
      BY <2>2 DEF PolicyActions, HoldsCopy, AtWork, Sending, LocalActions
    <2>3. CASE action = "Activate"
      BY <2>3, ActivationPlace
    <2> HIDE DEF action
    <2>4. CASE action # "Activate"
      BY <2>1, <2>2, <2>4
    <2> QED BY <2>3, <2>4
  <1> HIDE DEF d, r, pc, skip
  <1>7. CASE skip
    <2>1. /\ ses' \in Session /\ ses'.pc = "drive" /\ ses'.cur = NoDeployment
          /\ ses'.after = "done" /\ ses'.report = ses.report
      BY <1>1, <1>4, <1>7 DEF Session
    <2>2. UNCHANGED held
      BY <1>1, <1>7
    <2>3. WorkerOK'
      BY <2>1, <2>2, KeepCopies, KeepReport, BetweenDeliveries DEF DInv
    <2> QED BY <1>1, <2>3, NoCommit DEF DInv, RestOK, SessionEffect
  <1>8. CASE ~skip
    <2>1. r.state # "None" /\ pc \in HoldsCopy /\ pc \in AtWork /\ pc \in Places
          /\ pc \notin {"abortAck", "adopt", "acknowledge"}
      BY <1>6, <1>8, PlaceFacts DEF HoldsCopy
    <2>2. /\ ses' \in Session /\ ses'.pc = pc /\ ses'.cur = d
          /\ ses'.after = "loop" /\ ses'.report = ses.report
      <3>1. ses' = [ses EXCEPT !.cur = d, !.after = "loop", !.pc = pc] /\ ses \in Session
        BY <1>1, <1>8
      <3> QED BY <1>2, <2>1, <3>1 DEF Session, Places, MaybeDeployment
    <2>3. /\ held' \in [Deployments -> Copy] /\ held'[d] = r
          /\ \A e \in Deployments : Backed(heard', held'[e], e)
      BY <1>1, <1>2, <1>5, <1>8, ReplaceCopy DEF DInv
    <2>4. WorkerOK'
      BY <1>2, <2>1, <2>2, <2>3, KeepReport, AtDelivery DEF DInv
    <2> QED BY <1>1, <2>4, NoCommit DEF DInv, RestOK, SessionEffect
  <1> QED
    BY <1>7, <1>8

\* No delivery is left: the session ends.
LEMMA DriveDoneSound ==
  ASSUME DInv, HeardGrows, DriveDone
  PROVE  SessionEffect
  BY EndSessionSound, NoCommit DEF DriveDone, DInv, RestOK, SessionEffect

\* The names that the steps at a delivery use.
LEMMA DriveNames ==
  /\ {"Failed", "Prepared", "Offered", "Transferred", "Verified", "Staged"} \subseteq DeliveryStates
  /\ {"Offer", "chunk", "rewrite", "prepareAck", "chunkAck", "result", "stageAck", "windowAck",
      "commitAck", "Reject", "Retire", "RecordFailureAndRetry", "GiveUp"} \subseteq HoldsCopy
  /\ "ack" \in AtWork
  /\ {"done", "loop"} \subseteq Afters
  BY DEF DeliveryStates, HoldsCopy, AtWork, Receiving, Sending, LocalActions, Afters

\* A decision that needs no exchange with the target.
LEMMA DriveLocalSound ==
  ASSUME DInv, HeardGrows, DriveLocal
  PROVE  SessionEffect
  <1>1. ses.pc \in {"Reject", "Retire", "RecordFailureAndRetry", "GiveUp"}
        /\ UNCHANGED <<tgt, verify, aside>>
    BY DEF DriveLocal
  <1>2. ses.cur \in Deployments
    BY <1>1, DriveNames, PlaceFacts, AtWorkFacts DEF DInv
  <1>3. "Failed" \in DeliveryStates /\ "rewrite" \in AtWork /\ "done" \in Afters
    BY DriveNames, PlaceFacts
  <1>4. WorkerOK' /\ RecordStep(StaleHeld)
    <2>1. CASE RecordRejected("done")
      BY <1>2, <1>3, <2>1, RecordRejectedSound DEF DInv
    <2>2. CASE RecordRetired("done")
      BY <1>2, <1>3, <2>2, RecordRetiredSound DEF DInv
    <2>3. CASE RecordFailure("done")
      BY <1>2, <1>3, <2>3, RecordFailureSound DEF DInv
    <2>4. CASE Transition("Failed", "rewrite", "done")
      BY <1>2, <1>3, <2>4, TransitionSound DEF DInv
    <2> QED BY <2>1, <2>2, <2>3, <2>4 DEF DriveLocal
  <1> QED
    BY <1>1, <1>4 DEF DInv, RestOK, SessionEffect

\* A move to a later place of the same delivery, through the table.
LEMMA MoveOn ==
  ASSUME RecordsOK, WorkerOK, HeardGrows, ses.pc \in HoldsCopy,
         NEW to \in {"Failed", "Prepared", "Offered", "Transferred", "Verified", "Staged"},
         NEW pc \in HoldsCopy, Transition(to, pc, "loop")
  PROVE  WorkerOK' /\ RecordStep(StaleHeld)
  <1>1. ses.cur \in Deployments
    BY PlaceFacts, AtWorkFacts
  <1>2. to \in DeliveryStates /\ pc \in AtWork /\ pc \notin {"abortAck", "acknowledge", "adopt"}
        /\ "loop" \in Afters
    BY DriveNames, PlaceFacts DEF HoldsCopy
  <1> QED
    BY <1>1, <1>2, TransitionSound

\* A move to a later place of the same delivery that commits nothing.
LEMMA PassOn ==
  ASSUME RecordsOK, WorkerOK, HeardGrows, ses.pc \in HoldsCopy, NEW pc \in HoldsCopy,
         \/ ses' = [ses EXCEPT !.pc = pc]
         \/ ses' = [ses EXCEPT !.pc = pc, !.after = "loop"]
         \/ \E n \in Nat : ses' = [ses EXCEPT !.pc = pc, !.offset = n]
         \/ \E x \in Reader : ses' = [ses EXCEPT !.pc = pc, !.reader = x],
         UNCHANGED held
  PROVE  WorkerOK'
  <1>1. ses \in Session /\ pc \in Places
    BY PlaceFacts DEF WorkerOK
  <1>2. /\ ses' \in Session /\ ses'.pc = pc /\ ses'.cur = ses.cur /\ ses'.report = ses.report
        /\ ses'.todo = ses.todo /\ ses'.after \in {ses.after, "loop"}
    BY <1>1 DEF Session, Places
  <1> QED
    BY <1>2, StayAtDelivery

\* A request is sent; the delivery moves along the table.
LEMMA SendSound ==
  ASSUME DInv, HeardGrows, Retry \/ SendPrepare \/ SendChunk \/ SendComplete
  PROVE  SessionEffect
  <1>1. ses.pc \in {"Offer", "chunk"} /\ ses.pc \in HoldsCopy /\ UNCHANGED <<tgt, verify, aside>>
        /\ RecordsOK /\ WorkerOK
    BY DriveNames DEF Retry, SendPrepare, SendChunk, SendComplete, DInv
  <1>0. /\ "Offer" \in HoldsCopy /\ "prepareAck" \in HoldsCopy /\ "chunkAck" \in HoldsCopy
        /\ "result" \in HoldsCopy
    BY DriveNames
  <1> SUFFICES WorkerOK' /\ RecordStep(StaleHeld)
    BY <1>1 DEF DInv, RestOK, SessionEffect
  <1>2. CASE Retry
    BY <1>0, <1>1, <1>2, MoveOn DEF Retry
  <1>3. CASE SendPrepare
    <2>1. CASE held[ses.cur].state = "Prepared"
      BY <1>0, <1>1, <1>3, <2>1, MoveOn DEF SendPrepare
    <2>2. CASE held[ses.cur].state # "Prepared"
      BY <1>0, <1>1, <1>3, <2>2, PassOn, NoCommit DEF SendPrepare
    <2> QED BY <2>1, <2>2
  <1>4. CASE SendChunk
    <2>1. AfterRead(ses.reader, ses.offset, 1) \in Reader
      <3>1. ses.reader \in Reader /\ ses.offset \in Nat
        BY <1>1 DEF WorkerOK, Session
      <3> QED BY <3>1 DEF AfterRead, Reader
    <2>2. ses' = [ses EXCEPT !.pc = "chunkAck", !.reader = AfterRead(ses.reader, ses.offset, 1)]
          /\ UNCHANGED <<rec, held>>
      BY <1>4 DEF SendChunk
    <2> QED BY <1>0, <1>1, <2>1, <2>2, PassOn, NoCommit
  <1>5. CASE SendComplete
    <2>1. CASE held[ses.cur].state \in {"Offered", "Prepared"}
      BY <1>0, <1>1, <1>5, <2>1, MoveOn DEF SendComplete
    <2>2. CASE held[ses.cur].state \notin {"Offered", "Prepared"}
      BY <1>0, <1>1, <1>5, <2>2, PassOn, NoCommit DEF SendComplete
    <2> QED BY <2>1, <2>2
  <1> QED
    BY <1>2, <1>3, <1>4, <1>5

\* A chunk of the artifact is read and sent.
LEMMA ReadSound ==
  ASSUME DInv, HeardGrows, DigestMismatch \/ ReadFails
  PROVE  SessionEffect
  <1>1. ses.pc = "chunk" /\ RecordFailure("loop") /\ UNCHANGED <<tgt, verify, aside>>
    BY DEF DigestMismatch, ReadFails
  <1>2. ses.cur \in Deployments /\ "loop" \in Afters
    BY <1>1, DriveNames, PlaceFacts, AtWorkFacts DEF DInv
  <1> QED
    BY <1>1, <1>2, RecordFailureSound DEF DInv, RestOK, SessionEffect

\* The connection may be lost wherever the worker uses it.
LEMMA ConnectionLostSound ==
  ASSUME DInv, HeardGrows, ConnectionLost \/ Unreachable
  PROVE  SessionEffect
  <1>1. UNCHANGED <<rec, tgt, verify, aside>>
    BY DEF ConnectionLost, Unreachable
  <1>2. ASSUME ses.pc = "ack", Return("loop")
        PROVE  WorkerOK'
    <2>1. ses.cur \in Deployments
      BY <1>2, DriveNames, AtWorkFacts DEF DInv
    <2> QED BY <1>2, <2>1, ReturnSound DEF DInv
  <1>3. WorkerOK'
    BY <1>2, FailSessionSound, EndSessionSound DEF ConnectionLost, Unreachable, DInv
  <1> QED
    BY <1>1, <1>3, NoCommit DEF DInv, RestOK, SessionEffect

-----------------------------------------------------------------------------
(* The session worker: the answers of the target.                          *)

\* What a frame says is active has been heard.
HeardOf(m) == Settles(m) \subseteq heard'.settled /\ Activates(m) \subseteq heard'.active

\* A frame that is received is heard, and what it proves is backed from then
\* on.
LEMMA ReceiveHears ==
  ASSUME DInv, NEW m, Receive(m)
  PROVE  HeardGrows /\ HeardOf(m) /\ ReportHeard(m)
  <1>1. Settles(m) \subseteq Deployments /\ Activates(m) \subseteq Deployments
        /\ Settles(m) \subseteq Activates(m)
    BY DEF Settles, Activates
  <1>2. heard' = [active |-> heard.active \cup Activates(m),
                  settled |-> heard.settled \cup Settles(m)]
    BY DEF Receive
  <1>3. HeardOK
    BY DEF DInv, RestOK
  <1>4. HeardGrows /\ HeardOf(m)
    BY <1>1, <1>2, <1>3 DEF HeardOK, HeardGrows, HeardOf
  <1>5. ReportHeard(m)
    BY <1>4 DEF ReportHeard, HeardOf, Settles, ReportProvesActivation
  <1> QED
    BY <1>4, <1>5

\* A failure, a refusal or an error of the delivery at hand.
LEMMA TroubleSound ==
  ASSUME DInv, HeardGrows, ses.pc \in HoldsCopy \cup {"ack"},
         \/ RecordFailure("loop") \/ RecordRejected("loop") \/ RecordRetired("loop")
         \/ DriveError /\ UNCHANGED rec
         \/ \E m \in Frames : OnNack(m)
  PROVE  WorkerOK' /\ RecordStep(StaleHeld)
  <1>1. ses.cur \in Deployments /\ "loop" \in Afters /\ RecordsOK /\ WorkerOK
    BY DriveNames, PlaceFacts, AtWorkFacts DEF DInv
  <1>2. CASE RecordFailure("loop")
    BY <1>1, <1>2, RecordFailureSound
  <1>3. CASE RecordRejected("loop")
    BY <1>1, <1>3, RecordRejectedSound
  <1>4. CASE RecordRetired("loop")
    BY <1>1, <1>4, RecordRetiredSound
  <1>5. CASE DriveError /\ UNCHANGED rec
    BY <1>1, <1>5, DriveErrorSound, NoCommit
  <1> QED
    BY <1>2, <1>3, <1>4, <1>5 DEF OnNack

\* Adopting what the frame just received proves.
LEMMA AdoptHeard ==
  ASSUME DInv, HeardGrows, ses.pc \in HoldsCopy \cup {"ack"}, NEW after \in {"loop", "ack"},
         Adopt(after), ses.cur \in heard'.active, after = "loop" => ses.cur \in heard'.settled
  PROVE  WorkerOK' /\ RecordStep(StaleHeld)
  <1>1. ses.cur \in Deployments /\ RecordsOK /\ WorkerOK
    BY DriveNames, PlaceFacts, AtWorkFacts DEF DInv
  <1> QED
    BY <1>1, AdoptSound DEF Afters

\* The answer to an offer.
LEMMA OnPrepareReplySound ==
  ASSUME DInv, HeardGrows, NEW m \in Frames, HeardOf(m), OnPrepareReply(m)
  PROVE  SessionEffect
  <1>1. ses.pc = "prepareAck" /\ ses.pc \in HoldsCopy /\ UNCHANGED <<tgt, verify, aside>>
        /\ RecordsOK /\ WorkerOK
    BY DriveNames DEF OnPrepareReply, DInv
  <1>2. ses.cur \in Deployments /\ held[ses.cur].state # "None" /\ "chunk" \in HoldsCopy
    BY <1>1, DriveNames, PlaceFacts, AtWorkFacts
  <1> SUFFICES WorkerOK' /\ RecordStep(StaleHeld)
    BY <1>1 DEF DInv, RestOK, SessionEffect
  <1>3. CASE m.kind = "PrepareAck" /\ OnPrepareAck(m)
    <2>1. CASE m.dep # ses.cur /\ DriveError /\ UNCHANGED rec
      BY <1>1, <2>1, TroubleSound
    <2>2. CASE m.dep = ses.cur /\ m.duplicate /\ Adopt("loop")
      <3>1. ses.cur \in heard'.settled /\ ses.cur \in heard'.active
        BY <1>2, <1>3, <2>2 DEF HeardOf, Settles, Activates
      <3> QED BY <1>1, <2>2, <3>1, AdoptHeard
    <2>3. CASE /\ ses' = [ses EXCEPT !.pc = "chunk", !.offset = m.bytes]
               /\ rec' = (IF m.bytes = 0 THEN rec ELSE [rec EXCEPT ![ses.cur] = held[ses.cur]])
               /\ UNCHANGED held
      <3>1. m.bytes \in Nat
        BY <1>3 DEF Frames, HelloAcks, Reports, PrepareAnswers, TransferAnswers, ApplyAnswers,
                    Acknowledgements
      <3>2. WorkerOK'
        BY <1>1, <1>2, <2>3, <3>1, PassOn
      <3>3. RecordStep(StaleHeld)
        BY <1>1, <1>2, <2>3, CommitOwn, NoCommit DEF Commit
      <3> QED BY <3>2, <3>3
    <2>4. CASE RecordFailure("loop")
      BY <1>1, <2>4, TroubleSound
    <2> QED BY <1>3, <2>1, <2>2, <2>3, <2>4 DEF OnPrepareAck
  <1>4. CASE m.kind = "PrepareReject" /\ OnPrepareReject(m)
    BY <1>1, <1>4, TroubleSound DEF OnPrepareReject
  <1>5. CASE OnNack(m) \/ (DriveError /\ UNCHANGED rec)
    BY <1>1, <1>5, TroubleSound
  <1> QED
    BY <1>3, <1>4, <1>5 DEF OnPrepareReply

\* The answer to a chunk.
LEMMA OnChunkReplySound ==
  ASSUME DInv, HeardGrows, NEW m \in Frames, OnChunkReply(m)
  PROVE  SessionEffect
  <1>1. ses.pc = "chunkAck" /\ ses.pc \in HoldsCopy /\ UNCHANGED <<tgt, verify, aside>>
        /\ RecordsOK /\ WorkerOK /\ "chunk" \in HoldsCopy
    BY DriveNames DEF OnChunkReply, DInv
  <1> SUFFICES WorkerOK' /\ RecordStep(StaleHeld)
    BY <1>1 DEF DInv, RestOK, SessionEffect
  <1>2. CASE /\ m.kind = "ChunkAck"
             /\ ses' = [ses EXCEPT !.pc = "chunk", !.offset = m.bytes]
             /\ UNCHANGED <<rec, held>>
    <2>1. m.bytes \in Nat
      BY <1>2 DEF Frames, HelloAcks, Reports, PrepareAnswers, TransferAnswers, ApplyAnswers,
                  Acknowledgements
    <2> QED BY <1>1, <1>2, <2>1, PassOn, NoCommit
  <1>3. CASE RecordFailure("loop") \/ OnNack(m) \/ (DriveError /\ UNCHANGED rec)
    BY <1>1, <1>3, TroubleSound
  <1> QED
    BY <1>2, <1>3 DEF OnChunkReply

\* The verdict on the transfer, and on the stage.
LEMMA OnVerdictSound ==
  ASSUME DInv, HeardGrows, NEW m \in Frames, NEW pc \in HoldsCopy, NEW kind, NEW to,
         NEW next \in HoldsCopy, OnVerdict(m, pc, kind, to, next),
         to \in {"Verified", "Staged"} \/ to = held[ses.cur].state
  PROVE  SessionEffect
  <1>1. ses.pc = pc /\ UNCHANGED <<tgt, verify, aside>> /\ RecordsOK /\ WorkerOK
    BY DEF OnVerdict, DInv
  <1>2. ses.cur \in Deployments /\ held[ses.cur].state # "None"
    BY <1>1, PlaceFacts, AtWorkFacts
  <1> SUFFICES WorkerOK' /\ RecordStep(StaleHeld)
    BY <1>1 DEF DInv, RestOK, SessionEffect
  <1>3. CASE Commit(held[ses.cur]) /\ ses' = [ses EXCEPT !.pc = next] /\ UNCHANGED held
    BY <1>1, <1>2, <1>3, CommitOwn, PassOn
  <1>4. CASE to # held[ses.cur].state /\ Transition(to, next, "loop")
    BY <1>1, <1>4, MoveOn
  <1>5. CASE RecordFailure("loop") \/ OnNack(m) \/ (DriveError /\ UNCHANGED rec)
    BY <1>1, <1>5, TroubleSound
  <1> QED
    BY <1>3, <1>4, <1>5 DEF OnVerdict

\* The answer to a commit.
LEMMA OnCommitAckSound ==
  ASSUME DInv, HeardGrows, NEW m \in Frames, HeardOf(m), OnCommitAck(m)
  PROVE  SessionEffect
  <1>1. ses.pc = "commitAck" /\ ses.pc \in HoldsCopy /\ UNCHANGED <<tgt, verify, aside>>
    BY DriveNames DEF OnCommitAck
  <1>2. ses.cur \in Deployments
    BY <1>1, PlaceFacts, AtWorkFacts DEF DInv
  <1> SUFFICES WorkerOK' /\ RecordStep(StaleHeld)
    BY <1>1 DEF DInv, RestOK, SessionEffect
  <1>3. CASE m.kind = "ApplyCommitAck" /\ m.ok /\ m.pair = PairOf(ses.cur) /\ Adopt("ack")
    <2>1. ses.cur \in heard'.active
      BY <1>2, <1>3 DEF HeardOf, Activates
    <2> QED BY <1>1, <1>3, <2>1, AdoptHeard
  <1>4. CASE \/ RecordFailure("loop") \/ RecordRetired("loop") \/ OnNack(m)
             \/ (DriveError /\ UNCHANGED rec)
    BY <1>1, <1>4, TroubleSound
  <1> QED
    BY <1>3, <1>4 DEF OnCommitAck

\* The delivery acknowledgement, or what comes in its place.
LEMMA OnAckSound ==
  ASSUME DInv, HeardGrows, NEW m \in Frames, HeardOf(m), OnAck(m)
  PROVE  SessionEffect
  <1>1. ses.pc = "ack" /\ UNCHANGED <<tgt, verify, aside>>
    BY DEF OnAck
  <1>2. ses.cur \in Deployments
    BY <1>1, DriveNames, AtWorkFacts DEF DInv
  <1> SUFFICES WorkerOK' /\ RecordStep(StaleHeld)
    BY <1>1 DEF DInv, RestOK, SessionEffect
  <1>3. CASE m.kind = "DeliveryAck" /\ OwnAck(m) /\ Adopt("loop")
    <2>1. ses.cur \in heard'.settled /\ ses.cur \in heard'.active
      BY <1>2, <1>3 DEF HeardOf, Settles, Activates, OwnAck
    <2> QED BY <1>1, <1>3, <2>1, AdoptHeard
  <1>4. CASE OnNack(m) \/ (DriveError /\ UNCHANGED rec)
    BY <1>1, <1>4, TroubleSound
  <1> QED
    BY <1>3, <1>4 DEF OnAck

\* Whatever frame is received, the worker stays sound.
LEMMA ReceiveSound ==
  ASSUME DInv, NEW m \in Frames, Receive(m)
  PROVE  SessionEffect
  <1>1. HeardGrows /\ HeardOf(m) /\ ReportHeard(m)
    BY ReceiveHears
  <1>2. ASSUME NEW pc \in {"result", "stageAck", "windowAck"}
        PROVE  pc \in HoldsCopy
    BY DriveNames
  <1>3. CASE OnTransferResult(m)
    BY <1>1, <1>2, <1>3, ActivationPlace, OnVerdictSound DEF OnTransferResult
  <1>4. CASE OnStageAck(m)
    BY <1>1, <1>2, <1>4, ActivationPlace, OnVerdictSound DEF OnStageAck
  <1>5. CASE OnApplyPrepareAck(m)
    <2>1. "commitAck" \in HoldsCopy
      BY DriveNames
    <2> QED BY <1>1, <1>2, <1>5, <2>1, OnVerdictSound DEF OnApplyPrepareAck
  <1>6. CASE \/ OnHello(m) \/ OnReport(m) \/ OnAbortAck(m) \/ OnPrepareReply(m)
             \/ OnChunkReply(m) \/ OnCommitAck(m) \/ OnAck(m)
    BY <1>1, <1>6, OnHelloSound, OnReportSound, OnAbortAckSound, OnPrepareReplySound,
       OnChunkReplySound, OnCommitAckSound, OnAckSound
  <1> QED
    BY <1>3, <1>4, <1>5, <1>6 DEF Receive

-----------------------------------------------------------------------------
(* What the threads leave to each other.                                   *)

\* The whole of a step: the invariant, the desired generation, the table.
Tabled == \A d \in Deployments : Overtaken(d) \/ Allowed(rec[d].state, rec'[d].state)
StepSound == DInv' /\ Desired /\ Tabled

\* A step that removes no record loses no desired deployment.
LEMMA NothingRemoved ==
  ASSUME NEW S, RecordStep(S)
  PROVE  Desired /\ Table(S)
  <1>1. ASSUME NEW d \in Known(rec)
        PROVE  d \in SameLineage(d) /\ rec'[d].state # "None" /\ d.gen >= d.gen
    <2>1. d \in Deployments /\ d \in Known(rec')
      BY DEF RecordStep, Known
    <2>2. d.gen \in Nat
      BY <2>1, DeploymentFacts
    <2> QED BY <2>1, <2>2 DEF Known, SameLineage
  <1> QED
    BY <1>1 DEF Desired, RecordStep

\* What the worker holds stays sound while another thread steps.
LEMMA KeepWorker ==
  ASSUME WorkerOK, HeardGrows, UNCHANGED <<ses, held>>
  PROVE  WorkerOK'
  <1>1. WorkerControl'
    BY DEF WorkerOK, WorkerControl
  <1>2. WorkerEvidence'
    BY KeepCopies DEF WorkerOK, WorkerEvidence, HeardGrows
  <1> QED
    BY <1>1, <1>2 DEF WorkerOK

\* So does what the second worker holds,
LEMMA KeepLocal ==
  ASSUME LocalOK, HeardGrows, UNCHANGED loc
  PROVE  LocalOK'
  BY BackedGrows DEF LocalOK

\* what the control thread holds, as long as no record disappears,
LEMMA KeepControl ==
  ASSUME ControlOK, HeardGrows, UNCHANGED ctl, Known(rec) \subseteq Known(rec')
  PROVE  ControlOK'
  <1>1. \A d \in Deployments : Backed(heard', ctl'.copies[d], d)
    BY BackedGrows DEF ControlOK
  <1>2. ControlControl'
    BY DEF ControlOK, ControlControl
  <1>3. ASSUME NEW top \in Deployments, Survivor(top)
        PROVE  Survivor(top)'
    BY <1>3 DEF Survivor, Known
  <1> QED
    BY <1>1, <1>2, <1>3 DEF ControlOK

\* and what was heard.
LEMMA KeepHeard ==
  ASSUME DInv, UNCHANGED heard
  PROVE  HeardGrows
  BY DEF DInv, RestOK, HeardGrows, HeardOK

\* A step of the session worker is a sound step of the whole.
LEMMA WorkerStepSound ==
  ASSUME DInv, HeardGrows, SessionEffect, faults' \in Nat
  PROVE  StepSound
  <1>1. RecordStep(StaleHeld) /\ WorkerOK' /\ UNCHANGED <<stored, listed, epoch, loc, ctl, ops>>
    BY DEF SessionEffect, aside
  <1>2. LocalOK' /\ ControlOK'
    BY <1>1, KeepLocal, KeepControl DEF DInv, RecordStep
  <1>3. RestOK'
    BY <1>1 DEF DInv, RestOK, SessionEffect, HeardGrows
  <1> QED
    <2>1. Desired /\ Table(StaleHeld)
      BY <1>1, NothingRemoved
    <2>2. Tabled
      BY <1>1, <2>1 DEF Tabled, Table, Overtaken
    <2> QED BY <1>1, <1>2, <1>3, <2>1, <2>2 DEF StepSound, DInv, RecordStep

-----------------------------------------------------------------------------
(* The other worker.                                                       *)

\* The copy that is written back is the record, or was overtaken.
LEMMA LocalCopy ==
  ASSUME loc.dep \in Deployments, NEW s, Allowed(loc.copy.state, s)
  PROVE  loc.dep \in StaleLocal \/ Allowed(rec[loc.dep].state, s)
  BY DEF StaleLocal

\* A worker that applies a decision without a session: read, write, write
\* again.
LEMMA LocalSound ==
  ASSUME DInv, LocalStep
  PROVE  StepSound
  <1>1. UNCHANGED <<tgt, stored, listed, epoch, ses, held, ctl, verify, heard, counters>>
    BY DEF LocalStep, LocalRead, LocalWrite, LocalRewrite, store
  <1>2. HeardGrows
    BY <1>1, KeepHeard
  <1>3. RestOK'
    BY <1>1 DEF DInv, RestOK, HeardOK, counters
  <1>4. SUFFICES LocalOK' /\ RecordStep(StaleLocal)
    <2>1. WorkerOK' /\ ControlOK'
      BY <1>1, <1>2, <1>4, KeepWorker, KeepControl DEF DInv, RecordStep
    <2>2. Desired /\ Table(StaleLocal)
      BY <1>4, NothingRemoved
    <2>3. Tabled
      BY <1>1, <2>2 DEF Tabled, Table, Overtaken
    <2> QED BY <1>3, <1>4, <2>1, <2>2, <2>3 DEF StepSound, DInv, RecordStep
  <1>5. NoLocal \in Local /\ NoLocal.step = "idle"
    BY CopyType DEF NoLocal, Local, MaybeDeployment
  <1>6. ASSUME loc' = NoLocal
        PROVE  LocalOK'
    BY <1>5, <1>6 DEF LocalOK
  <1>7. ASSUME NEW d \in Deployments, LocalRead(d)
        PROVE  LocalOK' /\ RecordStep(StaleLocal)
    <2> DEFINE r == rec[d]
    <2>1. r \in Copy /\ Backed(heard', r, d) /\ IsPendingState(r.state)
      BY <1>2, <1>7, BackedGrows DEF DInv, RecordsOK, LocalRead
    <2>2. loc' = [step |-> "write", dep |-> d, copy |-> r] /\ UNCHANGED rec
      BY <1>7 DEF LocalRead, store
    <2> HIDE DEF r
    <2>3. LocalOK'
      BY <2>1, <2>2 DEF LocalOK, Local, MaybeDeployment
    <2> QED BY <1>2, <2>2, <2>3, NoCommit DEF DInv
  <1>8. CASE LocalWrite
    <2> DEFINE action == Decision(loc.dep, loc.copy, FALSE, TRUE)
               to == IF action = "Reject" THEN "Rejected" ELSE "Retired"
               moved == IF action = "RecordFailureAndRetry" THEN Charged(loc.copy)
                        ELSE [loc.copy EXCEPT !.state = to]
               legal == action = "RecordFailureAndRetry" \/ IsLegalTransition(loc.copy.state, to)
    <2>1. /\ loc.step = "write"
          /\ IF action \in LocalActions /\ legal
             THEN /\ rec' = [rec EXCEPT ![loc.dep] = moved]
                  /\ loc' = IF action = "RecordFailureAndRetry" THEN NoLocal
                            ELSE [loc EXCEPT !.step = "rewrite", !.copy = moved]
             ELSE loc' = NoLocal /\ UNCHANGED rec
      BY <1>8 DEF LocalWrite
    <2>2. loc \in Local /\ loc.dep \in Deployments /\ IsPendingState(loc.copy.state)
          /\ loc.copy \in Copy
      BY <2>1 DEF DInv, LocalOK, Local
    <2>3. moved \in Copy /\ moved.state \in {"Failed", "Rejected", "Retired"}
          /\ (action # "RecordFailureAndRetry" => moved.state \in {"Rejected", "Retired"})
          /\ (legal => Allowed(loc.copy.state, moved.state))
      <3>1. CASE action = "RecordFailureAndRetry"
        <4>1. moved = Charged(loc.copy)
          BY <3>1
        <4>2. moved \in Copy /\ moved.state = "Failed"
          BY <2>2, <4>1, CopyType DEF Charged
        <4> QED BY <2>2, <3>1, <4>2, PendingMoves
      <3>2. CASE action # "RecordFailureAndRetry"
        <4>1. moved = [loc.copy EXCEPT !.state = to] /\ to \in {"Rejected", "Retired"}
          BY <3>2
        <4> HIDE DEF moved, to
        <4>2. moved \in Copy /\ moved.state = to
          BY <2>2, <4>1 DEF Copy, DeliveryStates
        <4> QED BY <3>2, <4>1, <4>2, LegalMoves DEF legal
      <3> QED BY <3>1, <3>2
    <2> HIDE DEF action, moved, legal
    <2>4. CASE action \in LocalActions /\ legal
      <3>1. Backed(heard', moved, loc.dep)
        BY <2>3 DEF Backed
      <3>2. RecordStep(StaleLocal)
        BY <1>2, <2>1, <2>2, <2>3, <2>4, <3>1, LocalCopy, CommitSound DEF DInv
      <3>3. CASE action = "RecordFailureAndRetry"
        BY <1>6, <2>1, <2>4, <3>2, <3>3
      <3>4. CASE action # "RecordFailureAndRetry"
        <4>1. loc' = [loc EXCEPT !.step = "rewrite", !.copy = moved]
          BY <2>1, <2>4, <3>4
        <4>2. /\ loc' \in Local /\ loc'.step = "rewrite" /\ loc'.dep = loc.dep
              /\ loc'.copy = moved
          BY <2>2, <2>3, <4>1 DEF Local
        <4> QED BY <2>2, <2>3, <3>1, <3>2, <3>4, <4>2 DEF LocalOK
      <3> QED BY <3>3, <3>4
    <2>5. CASE ~(action \in LocalActions /\ legal)
      BY <1>2, <1>6, <2>1, <2>5, NoCommit DEF DInv
    <2> QED BY <2>4, <2>5
  <1>9. CASE LocalRewrite
    <2> DEFINE r == loc.copy
    <2>1. /\ loc.step = "rewrite" /\ rec' = [rec EXCEPT ![loc.dep] = r] /\ loc' = NoLocal
      BY <1>9 DEF LocalRewrite
    <2>2. loc.dep \in Deployments /\ r \in Copy /\ r.state \in {"Rejected", "Retired"}
          /\ Backed(heard', r, loc.dep)
      BY <1>2, <2>1, BackedGrows DEF DInv, LocalOK, Local
    <2>3. loc.dep \in StaleLocal \/ Allowed(rec[loc.dep].state, r.state)
      BY <2>2, LocalCopy DEF Allowed
    <2> HIDE DEF r
    <2> QED BY <1>2, <1>6, <2>1, <2>2, <2>3, CommitSound DEF DInv
  <1> QED
    BY <1>7, <1>8, <1>9 DEF LocalStep

-----------------------------------------------------------------------------
(* The control thread.                                                     *)

LEMMA NoControlType ==
  /\ NoTarget \in Target
  /\ NoControl \in Control /\ NoControl.step = "idle" /\ NoControl.todo = {}
  /\ NoControl.copies = NoCopies
  <1>1. NoTarget \in Target
    BY UnsetType, DistributorAssumption DEF NoTarget, Target
  <1> QED
    BY <1>1, CopyType DEF NoControl, Control, MaybeDeployment

\* What a step of the control thread does besides counting.
ControlEffect ==
  /\ ControlOK' /\ RecordsOK' /\ Desired /\ Table(StaleControl)
  /\ tgt' \in Target /\ verify' \in BOOLEAN
  /\ stored' \subseteq Digests /\ listed' \subseteq Digests
  /\ UNCHANGED away

\* A step of the control thread is a sound step of the whole.
LEMMA ControlEffectSound ==
  ASSUME DInv, ControlEffect, ops' \in Nat
  PROVE  StepSound
  <1>1. UNCHANGED <<epoch, ses, held, loc, heard, faults>>
    BY DEF ControlEffect, away
  <1>2. HeardGrows
    BY <1>1, KeepHeard
  <1>3. WorkerOK' /\ LocalOK'
    BY <1>1, <1>2, KeepWorker, KeepLocal DEF DInv
  <1>4. RestOK'
    BY <1>1, <1>2 DEF ControlEffect, DInv, RestOK, HeardGrows
  <1>5. Tabled
    BY <1>1 DEF ControlEffect, Tabled, Table, Overtaken
  <1> QED
    BY <1>3, <1>4, <1>5 DEF StepSound, DInv, ControlEffect

\* A record may be retired whatever has become of it.
LEMMA RetireAllowed ==
  ASSUME RecordsOK, NEW d \in Deployments
  PROVE  Allowed(rec[d].state, "Retired")
  <1>1. rec[d].state \in DeliveryStates \cup {"None"}
    BY DEF RecordsOK, Copy
  <1> QED
    BY <1>1 DEF Allowed, DeliveryStates, IsLegalTransition, Successors

\* What a submission writes is made of the record, or was overtaken.
LEMMA ControlCopy ==
  ASSUME RecordsOK, NEW d \in Deployments, ctl.copies[d].state # "None"
  PROVE  d \in StaleControl \/ Allowed(rec[d].state, ctl.copies[d].state)
  <1>1. rec[d].state \in DeliveryStates \cup {"None"}
    BY DEF RecordsOK, Copy
  <1>2. CASE rec[d].state # "Acknowledged" /\ ctl.copies[d] = Submitted(rec[d])
    BY <1>1, <1>2 DEF Submitted, IsPendingState, IsTerminalState, Allowed
  <1>3. CASE ctl.copies[d] = rec[d]
    BY <1>3 DEF Allowed
  <1> QED
    BY <1>2, <1>3 DEF StaleControl, Absent

\* A control thread that has finished holds nothing.
LEMMA ControlIdle ==
  ASSUME HeardGrows, ctl' = NoControl
  PROVE  ControlOK'
  <1>1. \A d \in Deployments : ctl'.copies[d] = Absent
    BY NoControlType DEF NoCopies
  <1>2. ControlControl'
    BY NoControlType DEF ControlControl
  <1> QED
    BY <1>1, <1>2, NoControlType, AbsentBacked DEF ControlOK

\* The copies the control thread keeps stay backed.
LEMMA KeepControlCopies ==
  ASSUME ControlOK, HeardGrows
  PROVE  /\ ctl \in Control /\ ctl.copies \in [Deployments -> Copy]
         /\ \A d \in Deployments : Backed(heard', ctl.copies[d], d)
  BY BackedGrows DEF ControlOK, Control

\* One copy is replaced by a sound one.
LEMMA ReplaceControlCopy ==
  ASSUME ControlOK, HeardGrows, NEW d \in Deployments, NEW r \in Copy, Backed(heard', r, d),
         NEW f, f = [ctl.copies EXCEPT ![d] = r]
  PROVE  /\ f \in [Deployments -> Copy]
         /\ f[d] = r /\ \A e \in Deployments \ {d} : f[e] = ctl.copies[e]
         /\ \A e \in Deployments : Backed(heard', f[e], e)
  <1>1. ctl.copies \in [Deployments -> Copy] /\ \A e \in Deployments : Backed(heard', ctl.copies[e], e)
    BY KeepControlCopies
  <1>2. /\ f \in [Deployments -> Copy]
        /\ f[d] = r /\ \A e \in Deployments \ {d} : f[e] = ctl.copies[e]
    BY <1>1
  <1> QED
    BY <1>1, <1>2

\* submitPlan() begins, with the artifact stored or not.
LEMMA SubmitSound ==
  ASSUME DInv, NEW d \in Deployments, NEW good \in BOOLEAN, Submit(d, good)
  PROVE  ControlEffect
  <1>1. HeardGrows
    BY KeepHeard DEF Submit, away
  <1>2. UNCHANGED <<rec, tgt, listed, verify, away>>
        /\ ctl' = [NoControl EXCEPT !.dep = d,
                     !.step = IF good /\ d.digest \notin stored THEN "list" ELSE "read"]
    BY DEF Submit
  <1>3. stored' \subseteq Digests
    BY DeploymentFacts DEF Submit, DInv, RestOK
  <1>4. /\ ctl' \in Control /\ ctl'.step \in {"list", "read"} /\ ctl'.dep = d
        /\ ctl'.copies = NoCopies
    BY <1>2, NoControlType DEF Control, MaybeDeployment
  <1>5. \A e \in Deployments : ctl'.copies[e] = Absent
    BY <1>4 DEF NoCopies
  <1>6. ControlControl'
    BY <1>4 DEF ControlControl
  <1>7. ControlOK'
    BY <1>4, <1>5, <1>6, AbsentBacked DEF ControlOK
  <1> QED
    BY <1>1, <1>2, <1>3, <1>7, NoCommit, NothingRemoved DEF ControlEffect, DInv, RestOK, RecordStep

\* retireDeployment() begins.
LEMMA RetireSound ==
  ASSUME DInv, NEW d \in Deployments, Retire(d)
  PROVE  ControlEffect
  <1> DEFINE r == rec[d]
  <1>1. HeardGrows
    BY KeepHeard DEF Retire, away
  <1>2. UNCHANGED <<rec, tgt, stored, listed, verify, away>>
        /\ ctl' = [NoControl EXCEPT !.step = "retire", !.dep = d, !.copies[d] = r]
        /\ r.state # "None"
    BY DEF Retire
  <1>3. r \in Copy /\ Backed(heard', r, d)
    BY <1>1, BackedGrows DEF DInv, RecordsOK
  <1> HIDE DEF r
  <1>4. NoControl \in Control /\ NoControl.copies = NoCopies /\ NoCopies \in [Deployments -> Copy]
    BY NoControlType, CopyType
  <1>5. /\ ctl'.step = "retire" /\ ctl'.dep = d
        /\ ctl'.copies = [NoCopies EXCEPT ![d] = r]
    BY <1>2, <1>4 DEF Control
  <1>6. ctl' \in Control
    <2>1. [NoCopies EXCEPT ![d] = r] \in [Deployments -> Copy]
      BY <1>3, <1>4
    <2> QED BY <1>2, <1>4, <2>1 DEF Control, MaybeDeployment
  <1>7. ctl'.copies[d] = r /\ \A e \in Deployments : Backed(heard', ctl'.copies[e], e)
    <2>1. ctl'.copies[d] = r
      BY <1>4, <1>5
    <2>2. \A e \in Deployments \ {d} : ctl'.copies[e] = Absent
      BY <1>5 DEF NoCopies
    <2> QED BY <1>3, <2>1, <2>2, AbsentBacked
  <1>8. ControlControl'
    BY <1>2, <1>5, <1>7 DEF ControlControl
  <1>9. ControlOK'
    BY <1>5, <1>6, <1>7, <1>8 DEF ControlOK
  <1> QED
    BY <1>1, <1>2, <1>9, NoCommit, NothingRemoved DEF ControlEffect, DInv, RestOK, RecordStep

\* A verification is asked for.
LEMMA VerificationSound ==
  ASSUME DInv, RequestVerification
  PROVE  ControlEffect
  <1>1. HeardGrows
    BY KeepHeard DEF RequestVerification, away
  <1>2. UNCHANGED <<rec, tgt, stored, listed, ctl, away>> /\ verify' = TRUE
    BY DEF RequestVerification
  <1>3. RecordStep(StaleControl)
    BY <1>1, <1>2, NoCommit DEF DInv
  <1>4. ControlOK'
    BY <1>1, <1>2, <1>3, KeepControl DEF DInv, RecordStep
  <1> QED
    BY <1>2, <1>3, <1>4, NothingRemoved DEF ControlEffect, DInv, RestOK, RecordStep

\* The steps of submitPlan up to the older generations change no record.
LEMMA SubmitReadsSound ==
  ASSUME DInv, SubmitList \/ SubmitRead \/ SubmitOlder
  PROVE  ControlEffect
  <1>1. UNCHANGED <<rec, tgt, stored, verify, away>> /\ HeardGrows
    <2>1. UNCHANGED <<rec, tgt, stored, verify, away>>
      BY DEF SubmitList, SubmitRead, SubmitOlder
    <2> QED BY <2>1, KeepHeard DEF away
  <1>2. RecordStep(StaleControl)
    BY <1>1, NoCommit DEF DInv
  <1>3. ctl \in Control /\ ControlOK /\ ctl.copies \in [Deployments -> Copy]
        /\ \A e \in Deployments : Backed(heard', ctl.copies[e], e)
    BY <1>1, KeepControlCopies DEF DInv
  <1>4. ctl.step \in {"list", "read", "older"} /\ ctl.dep \in Deployments
    BY DEF SubmitList, SubmitRead, SubmitOlder, DInv, ControlOK, ControlControl
  <1>5. listed' \subseteq Digests
    BY <1>4, DeploymentFacts DEF SubmitList, SubmitRead, SubmitOlder, DInv, RestOK
  <1>6. SUFFICES ControlOK'
    BY <1>1, <1>2, <1>5, <1>6, NothingRemoved DEF ControlEffect, DInv, RestOK, RecordStep
  <1>7. CASE SubmitList
    <2>1. /\ ctl' \in Control /\ ctl'.step = "read" /\ ctl'.dep = ctl.dep
          /\ ctl'.copies = ctl.copies
      BY <1>3, <1>7 DEF SubmitList, Control
    <2>2. ControlControl'
      BY <1>4, <2>1 DEF ControlControl
    <2> QED BY <1>3, <2>1, <2>2 DEF ControlOK
  <1>8. CASE SubmitRead
    <2> DEFINE d == ctl.dep
               new == IF IsPendingState(rec[d].state) THEN rec[d]
                      ELSE [state |-> "Prepared", failures |-> rec[d].failures]
    <2>1. ctl' = IF rec[d].state = "Acknowledged" THEN NoControl
                 ELSE [ctl EXCEPT !.step = "older", !.copies[d] = new]
      BY <1>8 DEF SubmitRead, Submitted
    <2>2. new \in Copy /\ new.state # "None" /\ Backed(heard', new, d)
      <3>1. rec[d] \in Copy /\ Backed(heard', rec[d], d)
        BY <1>1, <1>4, BackedGrows DEF DInv, RecordsOK
      <3>2. CASE IsPendingState(rec[d].state)
        BY <3>1, <3>2, PendingMoves
      <3>3. CASE ~IsPendingState(rec[d].state)
        <4>1. new = [state |-> "Prepared", failures |-> rec[d].failures]
          BY <3>3
        <4>2. new \in Copy /\ new.state = "Prepared"
          BY <3>1, <4>1 DEF Copy, DeliveryStates
        <4> QED BY <4>2 DEF Backed
      <3> QED BY <3>2, <3>3
    <2> HIDE DEF new
    <2>3. CASE rec[d].state # "Acknowledged"
      <3>1. ctl' = [ctl EXCEPT !.step = "older", !.copies[d] = new]
        BY <2>1, <2>3
      <3> DEFINE f == [ctl.copies EXCEPT ![d] = new]
      <3>2. /\ f \in [Deployments -> Copy] /\ f[d] = new
            /\ \A e \in Deployments : Backed(heard', f[e], e)
        BY <1>1, <1>3, <1>4, <2>2, ReplaceControlCopy
      <3>3. ctl'.copies = f /\ ctl'.step = "older" /\ ctl'.dep = d
        BY <1>3, <3>1 DEF Control
      <3>4. ctl' \in Control
        BY <1>3, <3>1, <3>2 DEF Control
      <3> HIDE DEF f
      <3>5. ControlControl'
        BY <1>4, <2>2, <3>2, <3>3 DEF ControlControl
      <3> QED BY <3>2, <3>3, <3>4, <3>5 DEF ControlOK
    <2> QED BY <1>1, <2>1, <2>3, ControlIdle
  <1>9. CASE SubmitOlder
    <2> DEFINE d == ctl.dep
               older == {e \in SameLineage(d) : e.gen < d.gen} \cap Pending(rec)
               r == ctl.copies[d]
               f == [Copies(older) EXCEPT ![d] = r]
    <2>1. ctl.step = "older"
          /\ ctl' = [ctl EXCEPT !.step = "supersede", !.todo = older, !.copies = f]
      BY <1>9 DEF SubmitOlder
    <2>2. older \in SUBSET Deployments /\ d \notin older
          /\ \A e \in older : IsPendingState(rec[e].state)
      BY <1>4, DeploymentFacts DEF SameLineage, Pending
    <2>3. r \in Copy /\ r.state # "None" /\ Backed(heard', r, d)
      BY <1>3, <1>4, <2>1 DEF ControlOK, ControlControl
    <2> HIDE DEF older, r
    <2>4. /\ Copies(older) \in [Deployments -> Copy]
          /\ \A e \in Deployments : Backed(heard', Copies(older)[e], e)
          /\ \A e \in older : Copies(older)[e] = rec[e]
      BY <1>1, <2>2, CopiesSound DEF DInv
    <2>5. /\ f \in [Deployments -> Copy] /\ f[d] = r
          /\ \A e \in Deployments \ {d} : f[e] = Copies(older)[e]
      BY <1>4, <2>3, <2>4
    <2> HIDE DEF f
    <2>6. \A e \in Deployments : Backed(heard', f[e], e)
      BY <2>3, <2>4, <2>5
    <2>7. \A e \in older : IsPendingState(f[e].state)
      BY <2>2, <2>4, <2>5
    <2>8. /\ ctl' \in Control /\ ctl'.step = "supersede" /\ ctl'.dep = d
          /\ ctl'.todo = older /\ ctl'.copies = f
      BY <1>3, <2>1, <2>2, <2>5 DEF Control
    <2>9. ControlControl'
      BY <1>4, <2>2, <2>3, <2>5, <2>7, <2>8 DEF ControlControl
    <2> QED BY <2>6, <2>8, <2>9 DEF ControlOK
  <1> QED
    BY <1>7, <1>8, <1>9

\* An older generation is retired; the copy is written twice.
LEMMA SubmitSupersedeSound ==
  ASSUME DInv, SubmitSupersede
  PROVE  ControlEffect
  <1> DEFINE d == ctl.dep
             e == FirstId(ctl.todo)
             r == [ctl.copies[e] EXCEPT !.state = "Retired"]
             f == [ctl.copies EXCEPT ![e] = r]
             legal == IsLegalTransition(ctl.copies[e].state, "Retired")
  <1>0. /\ ctl.step = "supersede" /\ ctl.todo # {}
        /\ rec' = IF legal THEN [rec EXCEPT ![e] = r] ELSE rec
        /\ ctl' = IF legal THEN [ctl EXCEPT !.step = "supersede2", !.copies[e] = r]
                  ELSE NoControl
        /\ UNCHANGED <<tgt, stored, listed, verify, away>>
    BY DEF SubmitSupersede
  <1>2. HeardGrows
    BY <1>0, KeepHeard DEF away
  <1> HIDE DEF legal
  <1>1. SUFFICES ASSUME /\ ctl.step = "supersede" /\ ctl.todo # {}
                        /\ rec' = [rec EXCEPT ![e] = r]
                        /\ ctl' = [ctl EXCEPT !.step = "supersede2", !.copies[e] = r]
                        /\ UNCHANGED <<tgt, stored, listed, verify, away>>
                 PROVE  ControlEffect
    <2>1. CASE ~legal
      <3>1. UNCHANGED <<rec, tgt, stored, listed, verify, away>> /\ ctl' = NoControl
        BY <1>0, <2>1
      <3> QED BY <1>2, <3>1, ControlIdle, NoCommit, NothingRemoved
                 DEF ControlEffect, DInv, RestOK, RecordStep
    <2> QED BY <1>0, <2>1
  <1>3. ctl \in Control /\ ControlOK /\ ControlControl /\ ctl.copies \in [Deployments -> Copy]
    BY <1>2, KeepControlCopies DEF DInv, ControlOK
  <1>4. ctl.todo \subseteq Deployments /\ e \in ctl.todo /\ d \notin ctl.todo /\ d \in Deployments
    BY <1>1, <1>3, FirstIdIn DEF Control, ControlControl
  <1>5. \A x \in ctl.todo : IsPendingState(ctl.copies[x].state)
    BY <1>1, <1>3 DEF ControlControl
  <1>6. r \in Copy /\ r.state = "Retired" /\ Backed(heard', r, e)
    <2>1. ctl.copies[e] \in Copy
      BY <1>3, <1>4
    <2> HIDE DEF e
    <2>2. r \in Copy /\ r.state = "Retired"
      BY <2>1 DEF Copy, DeliveryStates
    <2> HIDE DEF r
    <2> QED BY <2>2 DEF Backed
  <1>7. ctl'.copies = f /\ ctl'.step = "supersede2" /\ ctl'.dep = d /\ ctl'.todo = ctl.todo
        /\ e = FirstId(ctl'.todo)
    BY <1>1, <1>3 DEF Control
  <1> HIDE DEF e, r
  <1>8. /\ f \in [Deployments -> Copy] /\ f[e] = r
        /\ \A x \in Deployments \ {e} : f[x] = ctl.copies[x]
        /\ \A x \in Deployments : Backed(heard', f[x], x)
    BY <1>2, <1>3, <1>4, <1>6, ReplaceControlCopy
  <1>9. ctl' \in Control
    BY <1>1, <1>3, <1>8 DEF Control
  <1> HIDE DEF f
  <1>10. RecordStep(StaleControl)
    <2>1. Allowed(rec[e].state, r.state)
      BY <1>4, <1>6, RetireAllowed DEF DInv
    <2> QED BY <1>1, <1>2, <1>4, <1>6, <2>1, CommitSound DEF DInv
  <1>11. ControlControl'
    <2>1. ctl'.copies[d].state # "None"
      BY <1>1, <1>3, <1>4, <1>7, <1>8 DEF ControlControl
    <2>2. \A x \in ctl'.todo \ {e} : IsPendingState(ctl'.copies[x].state)
      BY <1>4, <1>5, <1>7, <1>8
    <2>3. ctl'.copies[e].state = "Retired"
      BY <1>6, <1>7, <1>8
    <2> QED BY <1>1, <1>4, <1>7, <2>1, <2>2, <2>3 DEF ControlControl
  <1>12. ControlOK'
    BY <1>7, <1>8, <1>9, <1>11 DEF ControlOK
  <1> QED
    BY <1>1, <1>10, <1>12, NothingRemoved DEF ControlEffect, DInv, RestOK, RecordStep

\* The retired copy of a superseded delivery is committed a second time.
LEMMA SubmitSupersedeRewriteSound ==
  ASSUME DInv, SubmitSupersedeRewrite
  PROVE  ControlEffect
  <1> DEFINE d == ctl.dep
             e == FirstId(ctl.todo)
             r == ctl.copies[e]
             f == [ctl.copies EXCEPT ![e] = Absent]
  <1>1. /\ ctl.step = "supersede2"
        /\ rec' = [rec EXCEPT ![e] = r]
        /\ ctl' = [ctl EXCEPT !.step = "supersede", !.todo = @ \ {e}, !.copies[e] = Absent]
        /\ UNCHANGED <<tgt, stored, listed, verify, away>>
    BY DEF SubmitSupersedeRewrite
  <1>2. HeardGrows
    BY <1>1, KeepHeard DEF away
  <1>3. ctl \in Control /\ ControlOK /\ ControlControl /\ ctl.copies \in [Deployments -> Copy]
        /\ \A x \in Deployments : Backed(heard', ctl.copies[x], x)
    BY <1>2, KeepControlCopies DEF DInv, ControlOK
  <1>4. ctl.todo \subseteq Deployments /\ e \in ctl.todo /\ d \notin ctl.todo /\ d \in Deployments
        /\ \A x \in ctl.todo \ {e} : IsPendingState(ctl.copies[x].state)
    BY <1>1, <1>3, FirstIdIn DEF Control, ControlControl
  <1>5. r \in Copy /\ r.state = "Retired" /\ Backed(heard', r, e)
    BY <1>1, <1>3, <1>4 DEF ControlControl
  <1>6. ctl'.copies = f /\ ctl'.step = "supersede" /\ ctl'.dep = d /\ ctl'.todo = ctl.todo \ {e}
    BY <1>1, <1>3 DEF Control
  <1> HIDE DEF e
  <1>7. /\ f \in [Deployments -> Copy]
        /\ \A x \in Deployments \ {e} : f[x] = ctl.copies[x]
        /\ \A x \in Deployments : Backed(heard', f[x], x)
    BY <1>2, <1>3, <1>4, CopyType, AbsentBacked, ReplaceControlCopy
  <1>8. ctl' \in Control
    BY <1>1, <1>3, <1>7 DEF Control
  <1> HIDE DEF f
  <1>9. RecordStep(StaleControl)
    <2>2. Allowed(rec[e].state, r.state)
      BY <1>4, <1>5, RetireAllowed DEF DInv
    <2>3. r.state # "None"
      BY <1>5
    <2> HIDE DEF r
    <2> QED BY <1>1, <1>2, <1>4, <1>5, <2>2, <2>3, CommitSound DEF DInv
  <1>10. ControlControl'
    <2>1. ctl'.copies[d].state # "None"
      BY <1>1, <1>3, <1>4, <1>6, <1>7 DEF ControlControl
    <2>2. \A x \in ctl'.todo : IsPendingState(ctl'.copies[x].state)
      BY <1>4, <1>6, <1>7
    <2> QED BY <1>4, <1>6, <2>1, <2>2 DEF ControlControl
  <1>11. ControlOK'
    BY <1>6, <1>7, <1>8, <1>10 DEF ControlOK
  <1> QED
    BY <1>1, <1>9, <1>11, NothingRemoved DEF ControlEffect, DInv, RestOK, RecordStep

\* The newest record of the lineage survives the removal that is decided.
LEMMA SurvivorExists ==
  ASSUME DInv, ctl.dep \in Deployments, Doomed(ctl.dep) # {}
  PROVE  \E top \in Deployments :
           /\ top \in SameLineage(ctl.dep) \ Doomed(ctl.dep)
           /\ rec[top].state # "None"
           /\ \A e \in Doomed(ctl.dep) : e \in SameLineage(ctl.dep) /\ e.gen <= top.gen
  <1> DEFINE history == Known(rec) \cap SameLineage(ctl.dep)
             Newer(e) == {f \in history : Before(e, f)}
  <1>1. Doomed(ctl.dep) = {e \in history : Cardinality(Newer(e)) >= MaxHistory}
    BY DEF Doomed
  <1>2. history \in SUBSET Deployments /\ history # {}
    BY <1>1 DEF Known
  <1>3. IsFiniteSet(history)
    <2>1. IsFiniteSet(Known(rec)) /\ history \in SUBSET Known(rec)
      BY DEF DInv, RecordsOK
    <2> HIDE DEF history
    <2> QED BY <2>1, FS_Subset
  <1>4. PICK top \in history : Newer(top) = {}
    <2>1. \E t \in history : {f \in history : Before(t, f)} = {}
      <3> HIDE DEF history
      <3> QED BY <1>2, <1>3, NewestIn
    <2> QED BY <2>1
  <1>5. top \notin Doomed(ctl.dep)
    <2>1. Cardinality(Newer(top)) = 0
      BY <1>4, FS_EmptySet
    <2>2. MaxHistory \in Nat /\ MaxHistory # 0
      BY DistributorAssumption
    <2>3. ~(Cardinality(Newer(top)) >= MaxHistory)
      <3> HIDE DEF Newer
      <3> QED BY <2>1, <2>2
    <2> HIDE DEF history, Newer
    <2> QED BY <1>1, <2>3
  <1>6. ASSUME NEW e \in Doomed(ctl.dep)
        PROVE  e \in SameLineage(ctl.dep) /\ e.gen <= top.gen
    <2>1. e \in history
      BY <1>1
    <2>2. ~Before(top, e)
      BY <1>4, <2>1
    <2>3. e.gen \in Nat /\ top.gen \in Nat
      BY <1>2, <1>4, <2>1, DeploymentFacts
    <2> QED BY <2>1, <2>2, <2>3 DEF Before
  <1>7. top \in Deployments /\ top \in SameLineage(ctl.dep) /\ rec[top].state # "None"
    BY <1>4 DEF Known
  <1> QED
    BY <1>5, <1>6, <1>7

\* Old records are removed one by one, and never the newest of the lineage.
LEMMA SubmitHistorySound ==
  ASSUME DInv, SubmitHistory
  PROVE  ControlEffect
  <1>1. /\ ctl.step = "supersede"
        /\ ctl' = [ctl EXCEPT !.step = "remove", !.todo = Doomed(ctl.dep)]
        /\ UNCHANGED <<rec, tgt, stored, listed, verify, away>>
    BY DEF SubmitHistory
  <1>2. HeardGrows
    BY <1>1, KeepHeard DEF away
  <1>3. ctl \in Control /\ ControlOK /\ ControlControl
        /\ \A x \in Deployments : Backed(heard', ctl.copies[x], x)
    BY <1>2, KeepControlCopies DEF DInv, ControlOK
  <1>4. ctl.dep \in Deployments /\ ctl.copies[ctl.dep].state # "None"
    BY <1>1, <1>3 DEF ControlControl
  <1>5. Doomed(ctl.dep) \subseteq Deployments
    BY DEF Doomed, Known
  <1>6. /\ ctl' \in Control /\ ctl'.step = "remove" /\ ctl'.dep = ctl.dep
        /\ ctl'.copies = ctl.copies /\ ctl'.todo = Doomed(ctl.dep)
    BY <1>1, <1>3, <1>5 DEF Control
  <1>7. ControlControl'
    BY <1>4, <1>6 DEF ControlControl
  <1>8. ASSUME ctl'.todo # {}
        PROVE  \E top \in Deployments : Survivor(top)'
    BY <1>1, <1>4, <1>6, <1>8, SurvivorExists DEF Survivor
  <1>9. ControlOK'
    BY <1>3, <1>6, <1>7, <1>8 DEF ControlOK
  <1> QED
    BY <1>1, <1>2, <1>9, NoCommit, NothingRemoved DEF ControlEffect, DInv, RestOK, RecordStep

\* A record is removed: the survivor takes its place as the desired one.
LEMMA SubmitRemoveSound ==
  ASSUME DInv, SubmitRemove
  PROVE  ControlEffect
  <1> DEFINE e == FirstId(ctl.todo)
  <1>1. /\ ctl.step = "remove" /\ ctl.todo # {}
        /\ rec' = [rec EXCEPT ![e] = Absent]
        /\ ctl' = [ctl EXCEPT !.todo = @ \ {e}]
        /\ UNCHANGED <<tgt, stored, listed, verify, away>>
    BY DEF SubmitRemove
  <1>2. HeardGrows
    BY <1>1, KeepHeard DEF away
  <1>3. ctl \in Control /\ ControlOK /\ ControlControl
        /\ \A x \in Deployments : Backed(heard', ctl.copies[x], x)
    BY <1>2, KeepControlCopies DEF DInv, ControlOK
  <1>4. ctl.dep \in Deployments /\ ctl.copies[ctl.dep].state # "None"
        /\ e \in ctl.todo /\ ctl.todo \subseteq Deployments
    BY <1>1, <1>3, FirstIdIn DEF ControlControl, Control
  <1> HIDE DEF e
  <1>5. /\ ctl' \in Control /\ ctl'.step = "remove" /\ ctl'.dep = ctl.dep
        /\ ctl'.copies = ctl.copies /\ ctl'.todo = ctl.todo \ {e}
    BY <1>1, <1>3 DEF Control
  <1>6. rec \in [Deployments -> Copy] /\ \A x \in Deployments : Backed(heard', rec[x], x)
    BY <1>2, BackedGrows DEF DInv, RecordsOK
  <1>7. /\ rec' \in [Deployments -> Copy] /\ rec'[e] = Absent
        /\ \A x \in Deployments \ {e} : rec'[x] = rec[x]
    BY <1>1, <1>4, <1>6, CopyType
  <1>8. PICK top \in Deployments : Survivor(top)
    BY <1>1, <1>3 DEF ControlOK
  <1>9. top # e /\ rec'[top].state # "None" /\ top \in SameLineage(ctl.dep)
        /\ e \in SameLineage(ctl.dep) /\ e.gen <= top.gen
    BY <1>4, <1>7, <1>8 DEF Survivor
  <1>10. RecordsOK'
    <2>1. \A x \in Deployments : Backed(heard', rec'[x], x)
      BY <1>6, <1>7, AbsentBacked
    <2>2. Known(rec') \in SUBSET Known(rec)
      BY <1>4, <1>7 DEF Known, Absent
    <2>3. IsFiniteSet(Known(rec'))
      <3>1. IsFiniteSet(Known(rec))
        BY DEF DInv, RecordsOK
      <3> QED BY <2>2, <3>1, FS_Subset
    <2> QED BY <1>7, <2>1, <2>3 DEF RecordsOK
  <1>11. Desired
    <2> SUFFICES ASSUME NEW d \in Known(rec)
                 PROVE  \E x \in SameLineage(d) : rec'[x].state # "None" /\ x.gen >= d.gen
      BY DEF Desired
    <2>1. d \in Deployments /\ d.gen \in Nat /\ rec[d].state # "None" /\ top.gen \in Nat
          /\ e.gen \in Nat
      BY <1>4, DeploymentFacts DEF Known
    <2>2. CASE d = e
      <3>1. top \in SameLineage(d) /\ top.gen >= d.gen
        BY <1>9, <2>1, <2>2 DEF SameLineage
      <3> QED BY <1>9, <3>1
    <2>3. CASE d # e
      <3>1. d \in SameLineage(d) /\ d.gen >= d.gen /\ rec'[d].state # "None"
        BY <1>7, <2>1, <2>3 DEF SameLineage
      <3> QED BY <3>1
    <2> QED BY <2>2, <2>3
  <1>12. Table(StaleControl)
    <2>1. rec'[e].state = "None"
      BY <1>7 DEF Absent
    <2> QED BY <1>7, <2>1 DEF Table, Allowed
  <1>13. ControlControl'
    BY <1>4, <1>5 DEF ControlControl
  <1>14. Survivor(top)'
    BY <1>5, <1>8, <1>9 DEF Survivor
  <1>15. ControlOK'
    BY <1>3, <1>5, <1>13, <1>14 DEF ControlOK
  <1> QED
    BY <1>1, <1>10, <1>11, <1>12, <1>15 DEF ControlEffect, DInv, RestOK

\* The copy of the target record is written back.
LEMMA SubmitTargetSound ==
  ASSUME DInv, SubmitTargetRead \/ SubmitTargetWrite
  PROVE  ControlEffect
  <1>1. /\ ctl.step \in {"remove", "target"}
        /\ UNCHANGED <<rec, stored, listed, verify, away>>
    BY DEF SubmitTargetRead, SubmitTargetWrite
  <1>2. HeardGrows
    BY <1>1, KeepHeard DEF away
  <1>3. ctl \in Control /\ ControlOK /\ ControlControl
        /\ \A x \in Deployments : Backed(heard', ctl.copies[x], x)
    BY <1>2, KeepControlCopies DEF DInv, ControlOK
  <1>4. ctl.dep \in Deployments /\ ctl.copies[ctl.dep].state # "None"
    BY <1>1, <1>3 DEF ControlControl
  <1>5. /\ ctl' \in Control /\ ctl'.step \in {"target", "delivery"} /\ ctl'.dep = ctl.dep
        /\ ctl'.copies = ctl.copies
    <2>1. tgt \in Target /\ NoTarget \in Target
      BY NoControlType DEF DInv, RestOK
    <2>2. \E t \in Target, s \in {"target", "delivery"} :
            ctl' = [ctl EXCEPT !.step = s, !.target = t]
      BY <2>1 DEF SubmitTargetRead, SubmitTargetWrite
    <2> QED BY <1>3, <2>2 DEF Control
  <1>6. ControlControl'
    BY <1>4, <1>5 DEF ControlControl
  <1>7. ControlOK'
    BY <1>3, <1>5, <1>6 DEF ControlOK
  <1>8. tgt' \in Target
    <2>1. CASE SubmitTargetRead
      BY <2>1 DEF SubmitTargetRead, DInv, RestOK
    <2>2. CASE SubmitTargetWrite
      <3> DEFINE c == ctl.target
      <3>1. c \in Target /\ tgt.contact \in BOOLEAN /\ Declared \in BOOLEAN
        BY <1>3, DistributorAssumption DEF Control, DInv, RestOK, Target
      <3>2. tgt' = [c EXCEPT !.known = TRUE, !.contact = tgt.contact,
                             !.atomic = IF c.term = 0 THEN Declared ELSE @]
        BY <2>2 DEF SubmitTargetWrite
      <3> HIDE DEF c
      <3> QED BY <3>1, <3>2 DEF Target
    <2> QED BY <2>1, <2>2
  <1> QED
    BY <1>1, <1>2, <1>7, <1>8, NoCommit, NothingRemoved
       DEF ControlEffect, DInv, RestOK, RecordStep

\* The new delivery gets its record.
LEMMA SubmitDeliverySound ==
  ASSUME DInv, SubmitDelivery
  PROVE  ControlEffect
  <1> DEFINE d == ctl.dep
             r == ctl.copies[d]
  <1>1. /\ ctl.step = "delivery" /\ rec' = [rec EXCEPT ![d] = r] /\ ctl' = NoControl
        /\ UNCHANGED <<tgt, stored, listed, verify, away>>
    BY DEF SubmitDelivery
  <1>2. HeardGrows
    BY <1>1, KeepHeard DEF away
  <1>3. d \in Deployments /\ r.state # "None" /\ r \in Copy /\ Backed(heard', r, d)
    BY <1>1, <1>2, KeepControlCopies DEF DInv, ControlOK, ControlControl
  <1>4. d \in StaleControl \/ Allowed(rec[d].state, r.state)
    BY <1>3, ControlCopy DEF DInv
  <1> HIDE DEF d, r
  <1>5. RecordStep(StaleControl)
    BY <1>1, <1>2, <1>3, <1>4, CommitSound DEF DInv
  <1> QED
    BY <1>1, <1>2, <1>5, ControlIdle, NothingRemoved DEF ControlEffect, DInv, RestOK, RecordStep

\* retireDeployment() writes the copies it took.
LEMMA RetireWriteSound ==
  ASSUME DInv, RetireWrite
  PROVE  ControlEffect
  <1> DEFINE d == ctl.dep
             r == [ctl.copies[d] EXCEPT !.state = "Retired"]
             f == [ctl.copies EXCEPT ![d] = r]
  <1>1. /\ ctl.step \in {"retire", "retire2"}
        /\ IF ctl.step = "retire" /\ ~IsLegalTransition(ctl.copies[d].state, "Retired")
           THEN ctl' = NoControl /\ UNCHANGED rec
           ELSE /\ rec' = [rec EXCEPT ![d] = r]
                /\ ctl' = IF ctl.step = "retire"
                          THEN [ctl EXCEPT !.step = "retire2", !.copies[d] = r]
                          ELSE NoControl
        /\ UNCHANGED <<tgt, stored, listed, verify, away>>
    BY DEF RetireWrite
  <1>2. HeardGrows
    BY <1>1, KeepHeard DEF away
  <1>3. ctl \in Control /\ ControlOK /\ d \in Deployments /\ ctl.copies[d].state # "None"
        /\ ctl.copies[d] \in Copy
    BY <1>1, <1>2, KeepControlCopies DEF DInv, ControlOK, ControlControl
  <1>4. r \in Copy /\ r.state = "Retired" /\ Backed(heard', r, d)
    <2> HIDE DEF d
    <2>1. r \in Copy /\ r.state = "Retired"
      BY <1>3 DEF Copy, DeliveryStates
    <2> HIDE DEF r
    <2> QED BY <2>1 DEF Backed
  <1> HIDE DEF r
  <1>6. RecordStep(StaleControl)
    <2>1. CASE rec' = [rec EXCEPT ![d] = r]
      <3>1. d \in StaleControl \/ Allowed(rec[d].state, r.state)
        BY <1>3, <1>4, RetireAllowed DEF DInv
      <3>2. r.state # "None"
        BY <1>4
      <3> QED BY <1>2, <1>3, <1>4, <2>1, <3>1, <3>2, CommitSound DEF DInv
    <2>2. CASE UNCHANGED rec
      BY <1>2, <2>2, NoCommit DEF DInv
    <2> QED BY <1>1, <2>1, <2>2
  <1>7. ControlOK'
    <2>1. CASE ctl' = NoControl
      BY <1>2, <2>1, ControlIdle
    <2>2. CASE ctl' = [ctl EXCEPT !.step = "retire2", !.copies[d] = r]
      <3>1. /\ f \in [Deployments -> Copy] /\ f[d] = r
            /\ \A x \in Deployments : Backed(heard', f[x], x)
        <4>1. ControlOK /\ d \in Deployments /\ r \in Copy /\ Backed(heard', r, d)
          BY <1>3, <1>4
        <4>2. f = [ctl.copies EXCEPT ![d] = r]
          OBVIOUS
        <4> HIDE DEF d, f
        <4> QED BY <1>2, <4>1, <4>2, ReplaceControlCopy
      <3>2. ctl'.copies = f /\ ctl'.step = "retire2" /\ ctl'.dep = d
        BY <1>3, <2>2 DEF Control
      <3>3. ctl' \in Control
        BY <1>3, <2>2, <3>1 DEF Control
      <3> HIDE DEF f
      <3>4. ControlControl'
        BY <1>3, <1>4, <3>1, <3>2 DEF ControlControl
      <3> QED BY <3>1, <3>2, <3>3, <3>4 DEF ControlOK
    <2> QED BY <1>1, <2>1, <2>2
  <1> QED
    BY <1>1, <1>6, <1>7, NothingRemoved DEF ControlEffect, DInv, RestOK, RecordStep

-----------------------------------------------------------------------------
(* The process and its steps.                                              *)

LEMMA RestartSound ==
  ASSUME DInv, Restart
  PROVE  StepSound
  <1>1. UNCHANGED <<stored, listed, heard, counters>> /\ HeardGrows
    <2>1. UNCHANGED <<stored, listed, heard, counters>>
      BY DEF Restart
    <2> QED BY <2>1, KeepHeard
  <1>2. WorkerOK'
    BY <1>1, EndSessionSound DEF Restart, EndSession
  <1>3. LocalOK'
    <2>1. NoLocal \in Local /\ NoLocal.step = "idle"
      BY CopyType DEF NoLocal, Local, MaybeDeployment
    <2> QED BY <2>1 DEF Restart, LocalOK
  <1>4. ControlOK'
    BY <1>1, ControlIdle DEF Restart
  <1>5. RestOK'
    <2>1. tgt' \in Target
      BY DEF Restart, DInv, RestOK, Target
    <2>2. epoch' = epoch + 1 /\ verify' = FALSE
          /\ UNCHANGED <<stored, listed, heard, faults, ops>>
      BY DEF Restart, counters
    <2>3. HeardOK' /\ epoch' \in Nat
      BY <1>1, <2>2 DEF HeardGrows, DInv, RestOK
    <2> QED BY <2>1, <2>2, <2>3 DEF DInv, RestOK
  <1>6. ASSUME NEW d \in Deployments
        PROVE  /\ rec'[d] \in Copy /\ Backed(heard', rec'[d], d)
               /\ rec'[d].state = "None" <=> rec[d].state = "None"
               /\ Allowed(rec[d].state, rec'[d].state)
    <2> DEFINE r == rec[d]
    <2>1. rec'[d] = IF r.state = "Transferred" THEN [r EXCEPT !.state = "Offered"] ELSE r
      BY DEF Restart
    <2>2. r \in Copy /\ Backed(heard', r, d)
      BY <1>1, BackedGrows DEF DInv, RecordsOK
    <2> HIDE DEF r
    <2>3. CASE r.state = "Transferred"
      <3>1. rec'[d] \in Copy /\ rec'[d].state = "Offered"
        BY <2>1, <2>2, <2>3 DEF Copy, DeliveryStates
      <3> QED BY <2>3, <3>1 DEF Backed, Allowed, r
    <2>4. CASE r.state # "Transferred"
      BY <2>1, <2>2, <2>4 DEF Allowed, r
    <2> QED BY <2>3, <2>4
  <1>7. rec' \in [Deployments -> Copy]
    <2>1. rec' = [d \in Deployments |-> rec'[d]]
      BY DEF Restart
    <2> QED BY <1>6, <2>1
  <1>8. Known(rec') = Known(rec)
    BY <1>6 DEF Known
  <1>9. RecordStep({})
    <2>1. IsFiniteSet(Known(rec'))
      BY <1>8 DEF DInv, RecordsOK
    <2> QED BY <1>6, <1>7, <1>8, <2>1 DEF RecordStep, RecordsOK, Table
  <1>10. Desired /\ Tabled
    BY <1>9, NothingRemoved DEF Tabled, Table
  <1> QED
    BY <1>2, <1>3, <1>4, <1>5, <1>9, <1>10 DEF StepSound, DInv, RecordStep

\* Every step of a session that receives nothing is sound.
LEMMA SessionStepSound ==
  ASSUME DInv, SessionStep
  PROVE  StepSound
  <1>1. UNCHANGED <<heard, faults>>
    BY DEF SessionStep, PickWork, PickVerification, SessionFailureOne, SessionFailureDone, RearmOne,
           ApplyReport, ApplyDone, AdoptTarget, Acknowledge, Rewrite, DriveRead, DriveDone,
           DriveLocal, Retry, SendPrepare, SendChunk, DigestMismatch, SendComplete
  <1>2. HeardGrows
    BY <1>1, KeepHeard
  <1>3. SessionEffect
    BY <1>2, PickSound, SessionFailureOneSound, SessionFailureDoneSound, RearmOneSound,
       ApplyReportSound, ApplyDoneSound, AdoptTargetSound, AcknowledgeSound, RewriteSound,
       DriveReadSound, DriveDoneSound, DriveLocalSound, SendSound, ReadSound
       DEF SessionStep
  <1> QED
    BY <1>1, <1>2, <1>3, WorkerStepSound DEF DInv, RestOK

\* So is a fault,
LEMMA FaultSound ==
  ASSUME DInv, Fault
  PROVE  StepSound
  <1>1. UNCHANGED heard /\ faults' = faults + 1
    BY DEF Fault, Unreachable, ReadFails, ConnectionLost, DriveRead
  <1>2. HeardGrows
    BY <1>1, KeepHeard
  <1>3. SessionEffect
    BY <1>2, ReadSound, ConnectionLostSound, DriveReadSound DEF Fault
  <1> QED
    BY <1>1, <1>2, <1>3, WorkerStepSound DEF DInv, RestOK

\* a frame from the target,
LEMMA AnswerSound ==
  ASSUME DInv, NEW m \in Replies, Receive(m)
  PROVE  StepSound
  <1>1. m \in Frames
    BY DistributorAssumption
  <1>2. UNCHANGED faults
    BY DEF Receive, OnHello, OnReport, OnAbortAck, OnPrepareReply, OnChunkReply,
           OnTransferResult, OnStageAck, OnApplyPrepareAck, OnVerdict, OnCommitAck, OnAck
  <1> QED
    BY <1>1, <1>2, ReceiveHears, ReceiveSound, WorkerStepSound DEF DInv, RestOK

\* and an operation of the control thread.
LEMMA ControlSound ==
  ASSUME DInv, Operation \/ ControlStep
  PROVE  StepSound
  <1>1. ControlEffect
    BY SubmitSound, RetireSound, VerificationSound, SubmitReadsSound, SubmitSupersedeSound,
       SubmitSupersedeRewriteSound, SubmitHistorySound, SubmitRemoveSound, SubmitTargetSound,
       SubmitDeliverySound, RetireWriteSound
       DEF Operation, ControlStep
  <1>2. ops' \in {ops, ops + 1}
    BY DEF Operation, ControlStep, Submit, Retire, RequestVerification, SubmitList, SubmitRead,
           SubmitOlder, SubmitSupersede, SubmitSupersedeRewrite, SubmitHistory, SubmitRemove,
           SubmitTargetRead, SubmitTargetWrite, SubmitDelivery, RetireWrite
  <1> QED
    BY <1>1, <1>2, ControlEffectSound DEF DInv, RestOK

\* Every step of the distributor is sound.
LEMMA NextSound ==
  ASSUME DInv, Next
  PROVE  StepSound
  <1>1. CASE Connect
    <2>1. HeardGrows /\ UNCHANGED faults
      BY <1>1, KeepHeard DEF Connect
    <2> QED BY <1>1, <2>1, ConnectSound, WorkerStepSound DEF DInv, RestOK
  <1>2. CASE \E m \in Replies : Receive(m)
    BY <1>2, AnswerSound
  <1> QED
    BY <1>1, <1>2, SessionStepSound, FaultSound, LocalSound, ControlSound, RestartSound
       DEF Next, Aside

\* A step that changes nothing is sound.
LEMMA StutterSound ==
  ASSUME DInv, UNCHANGED vars
  PROVE  StepSound
  <1>1. /\ UNCHANGED <<rec, tgt, stored, listed, epoch, ses, held, loc, ctl, verify, heard,
                       faults, ops>>
    BY DEF vars, store, others, counters
  <1>2. HeardGrows
    BY <1>1, KeepHeard
  <1>3. RecordStep({})
    BY <1>1, <1>2, NoCommit DEF DInv
  <1>4. WorkerOK' /\ LocalOK' /\ ControlOK'
    BY <1>1, <1>2, <1>3, KeepWorker, KeepLocal, KeepControl DEF DInv, RecordStep
  <1>5. RestOK'
    BY <1>1 DEF DInv, RestOK, HeardOK
  <1>6. Desired /\ Tabled
    BY <1>3, NothingRemoved DEF Tabled, Table
  <1> QED
    BY <1>3, <1>4, <1>5, <1>6 DEF StepSound, DInv, RecordStep

\* A distributor without records satisfies the invariant.
LEMMA InitSound == Init => DInv
  <1> DEFINE before == {Installed} \ {NoDeployment}
  <1> SUFFICES ASSUME Init PROVE DInv
    OBVIOUS
  <1>1. before \in SUBSET Deployments
    BY DistributorAssumption
  <1>2. /\ rec = [d \in Deployments |-> IF d \in before THEN [state |-> "Acknowledged", failures |-> 0]
                                        ELSE Absent]
        /\ tgt = IF before = {} THEN NoTarget
                 ELSE [NoTarget EXCEPT !.known = TRUE, !.atomic = Atomic, !.term = 1,
                                       !.pair = PairOf(Installed)]
        /\ stored = {d.digest : d \in before} /\ listed = {d.digest : d \in before}
        /\ epoch = 1 /\ ses = Idle /\ held = NoCopies /\ loc = NoLocal /\ ctl = NoControl
        /\ verify = FALSE /\ heard = [active |-> before, settled |-> before]
        /\ faults = 0 /\ ops = 0
    BY DEF Init
  <1>3. IsFiniteSet(before)
    <2>1. IsFiniteSet({Installed}) /\ before \in SUBSET {Installed}
      BY FS_Singleton
    <2> HIDE DEF before
    <2> QED BY <2>1, FS_Subset
  <1>4. tgt \in Target
    <2>1. CASE before = {}
      BY <1>2, <2>1, NoControlType
    <2>2. CASE before # {}
      <3>1. Installed \in Deployments
        BY <2>2, DistributorAssumption
      <3>2. PairOf(Installed) \in PairOfAny
        BY <3>1, DeploymentFacts DEF PairOf, PairOfAny
      <3> HIDE DEF before
      <3> QED BY <1>2, <2>2, <3>2, NoControlType, DistributorAssumption DEF Target
    <2> QED BY <2>1, <2>2
  <1>5. \A d \in before : d.digest \in Digests
    BY <1>1, DeploymentFacts
  <1> HIDE DEF before
  <1>6. RestOK
    BY <1>1, <1>2, <1>4, <1>5 DEF RestOK, HeardOK
  <1>7. RecordsOK
    <2>1. [state |-> "Acknowledged", failures |-> 0] \in Copy
      BY DistributorAssumption DEF Copy, DeliveryStates
    <2>2. rec \in [Deployments -> Copy]
      BY <1>2, <2>1, CopyType
    <2>3. \A d \in Deployments : Backed(heard, rec[d], d)
      BY <1>2 DEF Backed, Absent
    <2>4. Known(rec) = before
      BY <1>1, <1>2 DEF Known, Absent
    <2> QED BY <1>3, <2>2, <2>3, <2>4 DEF RecordsOK
  <1>8. WorkerOK
    <2>1. /\ ses \in Session /\ ses.pc = "idle" /\ ses.cur = NoDeployment
          /\ ses.report = NoReport /\ ses.after = "done"
      BY <1>2, UnsetType DEF Idle
    <2>2. "idle" \notin AtWork /\ "idle" \notin HoldsCopy
      BY DEF AtWork, HoldsCopy, Receiving, Sending, LocalActions
    <2>3. held \in [Deployments -> Copy] /\ \A d \in Deployments : held[d] = Absent
      BY <1>2, CopyType DEF NoCopies
    <2>4. WorkerControl
      BY <2>1, <2>2 DEF WorkerControl
    <2>5. WorkerEvidence
      BY <2>1, <2>3, AbsentBacked, NoReportProvesNothing DEF WorkerEvidence
    <2> QED BY <2>1, <2>3, <2>4, <2>5 DEF WorkerOK
  <1>9. LocalOK
    BY <1>2, CopyType DEF LocalOK, NoLocal, Local, MaybeDeployment
  <1>10. ControlOK
    <2>1. \A d \in Deployments : ctl.copies[d] = Absent
      BY <1>2, NoControlType DEF NoCopies
    <2>2. ControlControl
      BY <1>2, NoControlType DEF ControlControl
    <2> QED BY <1>2, <2>1, <2>2, NoControlType, AbsentBacked DEF ControlOK
  <1> QED
    BY <1>6, <1>7, <1>8, <1>9, <1>10 DEF DInv

-----------------------------------------------------------------------------
(* Theorems.                                                               *)

\* The inductive invariant: every record, and every copy that one of the three
\* threads may still write back, is backed by what the target has said; a
\* removal under way spares the newest record of its lineage.
THEOREM DistributorInvariant == Spec => []DInv
  <1>1. DInv /\ [Next]_vars => DInv'
    BY NextSound, StutterSound DEF StepSound
  <1> QED
    BY <1>1, InitSound, PTL DEF Spec

\* The state of the distributor keeps its types, whatever the peer answers.
THEOREM DistributorTypes == Spec => []TypeOK
  <1>1. DInv => TypeOK
    BY DEF DInv, TypeOK, RecordsOK, WorkerOK, LocalOK, ControlOK, RestOK, HeardOK
  <1> QED
    BY <1>1, DistributorInvariant, PTL

\* No record claims an activation or an acknowledgement that no frame of the
\* target supports, whatever copies the threads write back and however often
\* the process is stopped.
THEOREM EvidenceHolds == Spec => []EvidenceBacked
  <1>1. DInv => EvidenceBacked
    BY DEF DInv, RecordsOK, Backed, EvidenceBacked
  <1> QED
    BY <1>1, DistributorInvariant, PTL

\* The newest record of a lineage never becomes an older one: neither by the
\* removal of old records in submitPlan nor by a copy that is written back.
THEOREM DesiredNeverGoesBack == Spec => DesiredStays
  <1>1. DInv /\ [Next]_vars =>
          [\A d \in Known(rec) :
             \E e \in SameLineage(d) : rec'[e].state # "None" /\ e.gen >= d.gen]_vars
    BY NextSound, StutterSound DEF StepSound, Desired
  <1> QED
    BY <1>1, DistributorInvariant, PTL DEF Spec, DesiredStays

\* Every commit of a copy that was not overtaken changes the record as the
\* transition table, or one of its documented exceptions, allows: of a session
\* worker, of another worker, of a submission or retirement, and of a restart.
THEOREM TableKept == Spec => TableUnlessOvertaken
  <1>1. DInv /\ [Next]_vars =>
          [\A d \in Deployments : Overtaken(d) \/ Allowed(rec[d].state, rec'[d].state)]_vars
    BY NextSound, StutterSound DEF StepSound, Tabled
  <1> QED
    BY <1>1, DistributorInvariant, PTL DEF Spec, TableUnlessOvertaken
=============================================================================
