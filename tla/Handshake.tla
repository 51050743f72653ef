----------------------------- MODULE Handshake -----------------------------
(***************************************************************************)
(* The session handshake (TargetAgent::handshake in src/src/agent.cpp,     *)
(* Distributor::handshake in src/src/distributor.cpp) between controller   *)
(* processes and agent processes that claim to be the same target.  A      *)
(* store directory that was copied or restored brings up a second process  *)
(* with the same epoch or boot term; only its incarnation, which is drawn  *)
(* at random at every start, tells it from the first one.                  *)
(*                                                                         *)
(* An identity is a number (epoch or term) and the process that claims it; *)
(* since the number grows with every start of a process, the two stand for *)
(* the incarnation.  Number 0 is unset.                                    *)
(***************************************************************************)
EXTENDS Integers

CONSTANTS
  Controllers, Agents, Nobody,
  MaxStarts           \* bound: starts of processes, all together

ASSUME HandshakeAssumption ==
  /\ Nobody \notin Controllers \cup Agents
  /\ MaxStarts \in Nat

VARIABLES
  ctrl,     \* each controller: its own identity and the target's it has on record
  agent,    \* each agent: its own identity and the controller's it has on record
  dial,     \* the connection of each controller, as the controller sees it
  serve,    \* the connection each agent serves
  copy,     \* the copy of the target record that submitPlan is about to write back
  raced,    \* history: a submitted plan has taken the target record back
  obeyed,   \* history: the controllers each agent has accepted
  trusted,  \* history: the agents each controller has accepted
  starts

vars == <<ctrl, agent, dial, serve, copy, raced, obeyed, trusted, starts>>

Unset == [n |-> 0, by |-> Nobody]
Free == [pc |-> "none", peer |-> Nobody, id |-> Unset]

\* Mutant: a second incarnation of the same number is let in.
FencedByNumber(id, seen) == seen.n # 0 /\ id.n < seen.n

\* The test of both sides: an older number, or the same number from another
\* incarnation, is refused.
Fenced(id, seen) ==
  seen.n # 0 /\ (id.n < seen.n \/ (id.n = seen.n /\ id.by # seen.by))

\* Do the two ends still see the same connection?
Joined(c, a) == dial[c].peer = a /\ serve[a].peer = c

-----------------------------------------------------------------------------
\* Distributor::open: the next epoch is durable before anything is sent.
StartController(c) ==
  /\ starts < MaxStarts
  /\ starts' = starts + 1
  /\ ctrl' = [ctrl EXCEPT ![c].own = [n |-> ctrl[c].own.n + 1, by |-> c]]
  /\ dial' = [dial EXCEPT ![c] = Free]
  /\ copy' = [copy EXCEPT ![c] = Unset]
  /\ UNCHANGED <<agent, serve, raced, obeyed, trusted>>

\* TargetAgent::open: likewise the next boot term.
StartAgent(a) ==
  /\ starts < MaxStarts
  /\ starts' = starts + 1
  /\ agent' = [agent EXCEPT ![a].own = [n |-> agent[a].own.n + 1, by |-> a]]
  /\ serve' = [serve EXCEPT ![a] = Free]
  /\ UNCHANGED <<ctrl, dial, copy, raced, obeyed, trusted>>

\* runSession and handshake: connect, and send Hello with the identity of this
\* process.  An agent serves one connection at a time.
SendHello(c, a) ==
  /\ ctrl[c].own.n # 0 /\ agent[a].own.n # 0
  /\ dial[c] = Free /\ serve[a] = Free
  /\ dial' = [dial EXCEPT ![c] = [pc |-> "hello", peer |-> a, id |-> Unset]]
  /\ serve' = [serve EXCEPT ![a] = [pc |-> "hello", peer |-> c, id |-> ctrl[c].own]]
  /\ UNCHANGED <<ctrl, agent, copy, raced, obeyed, trusted, starts>>

\* Mutant: the answer carries the controller's own identity.
OnHelloEchoed(a) ==
  LET id == serve[a].id  c == serve[a].peer IN
  /\ serve[a].pc = "hello"
  /\ agent' = [agent EXCEPT ![a].seen = id]
  /\ obeyed' = [obeyed EXCEPT ![a] = @ \cup {id}]
  /\ serve' = [serve EXCEPT ![a].pc = "confirm"]
  /\ dial' = IF Joined(c, a)
             THEN [dial EXCEPT ![c] = [pc |-> "ack", peer |-> a, id |-> id]]
             ELSE dial
  /\ UNCHANGED <<ctrl, copy, raced, trusted, starts>>

\* The agent reads Hello, perhaps after its sender is gone: it refuses, or it
\* makes the authority durable before it answers.
OnHello(a) ==
  LET id == serve[a].id  c == serve[a].peer IN
  /\ serve[a].pc = "hello"
  /\ IF Fenced(id, agent[a].seen)
     THEN /\ serve' = [serve EXCEPT ![a] = Free]
          /\ dial' = IF Joined(c, a) THEN [dial EXCEPT ![c] = Free] ELSE dial
          /\ UNCHANGED <<agent, obeyed>>
     ELSE /\ agent' = [agent EXCEPT ![a].seen = id]
          /\ obeyed' = [obeyed EXCEPT ![a] = @ \cup {id}]
          /\ serve' = [serve EXCEPT ![a].pc = "confirm"]
          /\ dial' = IF Joined(c, a)
                     THEN [dial EXCEPT ![c] = [pc |-> "ack", peer |-> a, id |-> agent[a].own]]
                     ELSE dial
  /\ UNCHANGED <<ctrl, copy, raced, trusted, starts>>

\* Mutant: the controller takes whoever answers.
OnHelloAckUnfenced(c) ==
  LET a == dial[c].peer IN
  /\ dial[c].pc = "ack"
  /\ dial' = [dial EXCEPT ![c].pc = "record"]
  /\ serve' = IF Joined(c, a) THEN [serve EXCEPT ![a].pc = "confirmed"] ELSE serve
  /\ UNCHANGED <<ctrl, agent, copy, raced, obeyed, trusted, starts>>

\* The controller reads HelloAck: it hangs up, or it sends HelloConfirm ...
OnHelloAck(c) ==
  LET a == dial[c].peer IN
  /\ dial[c].pc = "ack"
  /\ IF Fenced(dial[c].id, ctrl[c].seen)
     THEN dial' = [dial EXCEPT ![c] = Free] /\ UNCHANGED serve
     ELSE /\ dial' = [dial EXCEPT ![c].pc = "record"]
          /\ serve' = IF Joined(c, a) THEN [serve EXCEPT ![a].pc = "confirmed"] ELSE serve
  /\ UNCHANGED <<ctrl, agent, copy, raced, obeyed, trusted, starts>>

\* The agent reads HelloConfirm, perhaps after its sender is gone, and serves.
OnConfirm(a) ==
  /\ serve[a].pc = "confirmed"
  /\ serve' = [serve EXCEPT ![a].pc = "serve"]
  /\ UNCHANGED <<ctrl, agent, dial, copy, raced, obeyed, trusted, starts>>

\* Mutant: a target on record is not written again.
RecordTargetOnce(c) ==
  /\ dial[c].pc = "record"
  /\ ctrl' = IF ctrl[c].seen.n = 0 THEN [ctrl EXCEPT ![c].seen = dial[c].id] ELSE ctrl
  /\ trusted' = [trusted EXCEPT ![c] = @ \cup {dial[c].id}]
  /\ dial' = [dial EXCEPT ![c].pc = "established"]
  /\ UNCHANGED <<agent, serve, copy, raced, obeyed, starts>>

\* ... and then records the target.
RecordTarget(c) ==
  /\ dial[c].pc = "record"
  /\ ctrl' = [ctrl EXCEPT ![c].seen = dial[c].id]
  /\ trusted' = [trusted EXCEPT ![c] = @ \cup {dial[c].id}]
  /\ dial' = [dial EXCEPT ![c].pc = "established"]
  /\ UNCHANGED <<agent, serve, copy, raced, obeyed, starts>>

\* The controller ends the session or loses the connection.
HangUp(c) ==
  /\ dial[c] # Free
  /\ dial' = [dial EXCEPT ![c] = Free]
  /\ UNCHANGED <<ctrl, agent, serve, copy, raced, obeyed, trusted, starts>>

\* The agent does.
EndOfSession(a) ==
  /\ serve[a] # Free
  /\ serve' = [serve EXCEPT ![a] = Free]
  /\ UNCHANGED <<ctrl, agent, dial, copy, raced, obeyed, trusted, starts>>

\* submitPlan, on the control thread: the target record is copied ...
SubmitTargetRead(c) ==
  /\ ctrl[c].seen.n # 0
  /\ copy' = [copy EXCEPT ![c] = ctrl[c].seen]
  /\ UNCHANGED <<ctrl, agent, dial, serve, raced, obeyed, trusted, starts>>

\* ... and written back as it was.
SubmitTargetWrite(c) ==
  /\ copy[c].n # 0
  /\ ctrl' = [ctrl EXCEPT ![c].seen = copy[c]]
  /\ copy' = [copy EXCEPT ![c] = Unset]
  /\ raced' = [raced EXCEPT ![c] = @ \/ copy[c] # ctrl[c].seen]
  /\ UNCHANGED <<agent, dial, serve, obeyed, trusted, starts>>

Init ==
  /\ ctrl = [c \in Controllers |-> [own |-> Unset, seen |-> Unset]]
  /\ agent = [a \in Agents |-> [own |-> Unset, seen |-> Unset]]
  /\ dial = [c \in Controllers |-> Free]
  /\ serve = [a \in Agents |-> Free]
  /\ copy = [c \in Controllers |-> Unset]
  /\ raced = [c \in Controllers |-> FALSE]
  /\ obeyed = [a \in Agents |-> {}]
  /\ trusted = [c \in Controllers |-> {}]
  /\ starts = 0

Next ==
  \/ \E c \in Controllers :
       \/ StartController(c)
       \/ \E a \in Agents : SendHello(c, a)
       \/ OnHelloAck(c) \/ RecordTarget(c) \/ HangUp(c)
       \/ SubmitTargetRead(c) \/ SubmitTargetWrite(c)
  \/ \E a \in Agents : StartAgent(a) \/ OnHello(a) \/ OnConfirm(a) \/ EndOfSession(a)

Spec == Init /\ [][Next]_vars

-----------------------------------------------------------------------------
(* Properties.                                                             *)

Identity(P) == [n : Nat, by : P \cup {Nobody}]
Party(P, Q) == [own : Identity(P), seen : Identity(Q)]
Connection(pcs, P) == [pc : pcs, peer : P \cup {Nobody}, id : Identity(P)]

DialStates == {"none", "hello", "ack", "record", "established"}
ServeStates == {"none", "hello", "confirm", "confirmed", "serve"}

\* The types of the state.
TypeOK ==
  /\ ctrl \in [Controllers -> Party(Controllers, Agents)]
  /\ agent \in [Agents -> Party(Agents, Controllers)]
  /\ dial \in [Controllers -> Connection(DialStates, Agents)]
  /\ serve \in [Agents -> Connection(ServeStates, Controllers)]
  /\ copy \in [Controllers -> Identity(Agents)]
  /\ raced \in [Controllers -> BOOLEAN]
  /\ obeyed \in [Agents -> SUBSET Identity(Controllers)]
  /\ trusted \in [Controllers -> SUBSET Identity(Agents)]
  /\ starts \in Nat

Unambiguous(S) == \A x, y \in S : x.n = y.n => x = y

\* An agent never obeys two controllers in one epoch, whatever restarts, lost
\* connections and late Hellos come between them.
OneControllerPerEpoch == \A a \in Agents : Unambiguous(obeyed[a])

\* A controller never takes two processes for the same start of its target,
\* unless a submitted plan has written back an older copy of the target
\* record (distributor.cpp, submitPlan), which takes the fence back.
OneTargetPerTerm ==
  \A c \in Controllers : ~raced[c] => Unambiguous(trusted[c])

\* Older boot terms are refused at the handshake: a controller never takes two
\* processes for the same start of its target, whatever plans are submitted.
TermFenceHolds == \A c \in Controllers : Unambiguous(trusted[c])

\* As soon as one end has confirmed or serves the session, the two ends agree on
\* who is at the other end, and the agent has the controller on record; so has
\* the controller the agent, from the moment it goes on to deliver.  No start,
\* late Hello or lost connection leaves a session under an authority its own end
\* has moved on from.  Only a plan that writes back an older copy of the target
\* record takes the controller's record away from under its session.
SessionAgrees ==
  \A c \in Controllers, a \in Agents :
    Joined(c, a) /\ (dial[c].pc \in {"record", "established"} \/ serve[a].pc = "serve") =>
      /\ serve[a].id = ctrl[c].own /\ agent[a].seen = ctrl[c].own
      /\ dial[c].id = agent[a].own
      /\ dial[c].pc = "established" /\ ~raced[c] => ctrl[c].seen = agent[a].own
=============================================================================
