-------------------------- MODULE HandshakeProofs --------------------------
(***************************************************************************)
(* Proofs about the session handshake, for any number of controllers,      *)
(* agents and starts.                                                      *)
(***************************************************************************)
EXTENDS Handshake, TLAPS

-----------------------------------------------------------------------------
(* The inductive invariant.                                                *)

\* Everything accepted so far is behind the identity on record, or is it.
BehindRecord(accepted, seen) ==
  \A x \in accepted : /\ x.n # 0
                      /\ x.n <= seen.n
                      /\ x.n = seen.n => x = seen

\* An end of a connection knows its peer, whose identity is set.
EndsOK ==
  /\ \A c \in Controllers :
       /\ dial[c].pc = "none" \/ dial[c].peer \in Agents
       /\ dial[c].pc \in {"ack", "record", "established"} => dial[c].id.n # 0
  /\ \A a \in Agents : serve[a].pc = "none" \/ (serve[a].peer \in Controllers /\ serve[a].id.n # 0)
  /\ \A c \in Controllers : dial[c].pc = "none" => dial[c].peer = Nobody
  /\ \A a \in Agents : serve[a].pc = "none" => serve[a].peer = Nobody
  /\ \A a \in Agents : serve[a].pc # "none" => agent[a].own.n # 0

AgentsOK == \A a \in Agents : BehindRecord(obeyed[a], agent[a].seen)

\* What a controller checked still holds when it records, unless a plan got
\* in between.
ControllersOK ==
  \A c \in Controllers : ~raced[c] =>
    /\ BehindRecord(trusted[c], ctrl[c].seen)
    /\ dial[c].pc = "record" => ~Fenced(dial[c].id, ctrl[c].seen)
    /\ dial[c].pc = "established" => ctrl[c].seen = dial[c].id

\* How far the two ends of one connection can be.
LinksOK ==
  \A c \in Controllers, a \in Agents : Joined(c, a) =>
    /\ serve[a].id = ctrl[c].own
    /\ dial[c].pc = "hello" => serve[a].pc = "hello"
    /\ dial[c].pc = "ack" => serve[a].pc = "confirm"
    /\ dial[c].pc \in {"record", "established"} => serve[a].pc \in {"confirmed", "serve"}
    /\ dial[c].pc # "hello" => agent[a].seen = ctrl[c].own /\ dial[c].id = agent[a].own

Inv ==
  /\ TypeOK /\ EndsOK /\ AgentsOK /\ ControllersOK /\ LinksOK
  /\ OneControllerPerEpoch /\ OneTargetPerTerm

-----------------------------------------------------------------------------
(* Identities.                                                             *)

\* An identity that is not fenced may join those accepted before.
LEMMA AcceptUnfenced ==
  ASSUME NEW P, NEW S \in SUBSET Identity(P), NEW seen \in Identity(P), NEW id \in Identity(P),
         id.n # 0, BehindRecord(S, seen), Unambiguous(S), ~Fenced(id, seen)
  PROVE  BehindRecord(S \cup {id}, id) /\ Unambiguous(S \cup {id})
<1>1. CASE seen.n = 0
  <2>1. \A x \in S : FALSE
    BY <1>1 DEF BehindRecord, Identity
  <2> QED BY <2>1 DEF BehindRecord, Unambiguous, Identity
<1>2. CASE seen.n # 0 /\ id.n = seen.n
  <2>1. id = seen
    BY <1>2 DEF Fenced, Identity
  <2> QED BY <2>1 DEF BehindRecord, Unambiguous, Identity
<1>3. CASE seen.n # 0 /\ id.n > seen.n
  BY <1>3 DEF BehindRecord, Unambiguous, Identity
<1> QED BY <1>1, <1>2, <1>3 DEF Fenced, Identity

\* Updates of one field of one process.
LEMMA SetOwn ==
  ASSUME NEW S, NEW P, NEW Q, NEW f \in [S -> Party(P, Q)], NEW x \in S, NEW i \in Identity(P)
  PROVE  LET g == [f EXCEPT ![x].own = i] IN
         /\ g \in [S -> Party(P, Q)]
         /\ g[x].own = i /\ g[x].seen = f[x].seen
         /\ \A y \in S \ {x} : g[y] = f[y]
BY DEF Party

\* Recording whom a party has accepted changes that and nothing else.
LEMMA SetSeen ==
  ASSUME NEW S, NEW P, NEW Q, NEW f \in [S -> Party(P, Q)], NEW x \in S, NEW i \in Identity(Q)
  PROVE  LET g == [f EXCEPT ![x].seen = i] IN
         /\ g \in [S -> Party(P, Q)]
         /\ g[x].seen = i /\ g[x].own = f[x].own
         /\ \A y \in S \ {x} : g[y] = f[y]
BY DEF Party

\* Moving one end of a connection leaves its peer and the other ends alone.
LEMMA SetPc ==
  ASSUME NEW S, NEW P, NEW pcs, NEW f \in [S -> Connection(pcs, P)], NEW x \in S, NEW i \in pcs
  PROVE  LET g == [f EXCEPT ![x].pc = i] IN
         /\ g \in [S -> Connection(pcs, P)]
         /\ g[x].pc = i /\ g[x].peer = f[x].peer /\ g[x].id = f[x].id
         /\ \A y \in S \ {x} : g[y] = f[y]
BY DEF Connection

\* No connection is a connection.
LEMMA FreeType ==
  /\ Free.pc = "none" /\ Free.peer = Nobody
  /\ Free \in Connection(DialStates, Agents) /\ Free \in Connection(ServeStates, Controllers)
  /\ \A P : Unset \in Identity(P)
BY DEF Free, Unset, Identity, Connection, DialStates, ServeStates

\* The names of the places, as members of their sets.
LEMMA States ==
  /\ "hello" \in DialStates /\ "ack" \in DialStates /\ "record" \in DialStates
  /\ "established" \in DialStates
  /\ "hello" \in ServeStates /\ "confirm" \in ServeStates
  /\ "confirmed" \in ServeStates /\ "serve" \in ServeStates
BY DEF DialStates, ServeStates

\* What the types say of the parts of one process.
LEMMA Parts ==
  ASSUME TypeOK
  PROVE  /\ \A c \in Controllers : /\ ctrl[c].own \in Identity(Controllers)
                                  /\ ctrl[c].seen \in Identity(Agents)
                                  /\ dial[c].id \in Identity(Agents)
         /\ \A a \in Agents : /\ agent[a].own \in Identity(Agents)
                             /\ agent[a].seen \in Identity(Controllers)
                             /\ serve[a].id \in Identity(Controllers)
BY DEF TypeOK, Party, Connection

\* The identity of the next start is an identity with a number.
LEMMA NextOwn ==
  ASSUME NEW P, NEW x \in P, NEW i \in Identity(P)
  PROVE  [n |-> i.n + 1, by |-> x] \in Identity(P) /\ [n |-> i.n + 1, by |-> x].n # 0
BY DEF Identity

-----------------------------------------------------------------------------
(* The steps.                                                              *)

LEMMA InvInit == Init => Inv
<1> SUFFICES ASSUME Init PROVE Inv
  OBVIOUS
<1>1. TypeOK
  BY FreeType DEF Init, TypeOK, Party
<1>2. EndsOK /\ LinksOK
  BY FreeType, HandshakeAssumption DEF Init, EndsOK, LinksOK, Joined
<1>3. AgentsOK /\ ControllersOK /\ OneControllerPerEpoch /\ OneTargetPerTerm
  BY FreeType
     DEF Init, AgentsOK, ControllersOK, OneControllerPerEpoch, OneTargetPerTerm, Unambiguous,
         BehindRecord
<1> QED BY <1>1, <1>2, <1>3 DEF Inv

\* The histories and what they are compared with.
Accepted ==
  AgentsOK /\ ControllersOK /\ OneControllerPerEpoch /\ OneTargetPerTerm

\* A controller that starts takes a new epoch; no connection of its predecessor
\* is left.
LEMMA StartControllerStep ==
  ASSUME Inv, NEW c \in Controllers, StartController(c) PROVE Inv'
<1>1. /\ ctrl' \in [Controllers -> Party(Controllers, Agents)]
      /\ ctrl'[c].seen = ctrl[c].seen
      /\ \A y \in Controllers \ {c} : ctrl'[y] = ctrl[y]
  BY Parts, NextOwn, SetOwn DEF Inv, TypeOK, StartController
<1>2. TypeOK'
  BY <1>1, FreeType DEF Inv, TypeOK, StartController
<1>3. dial'[c] = Free /\ \A y \in Controllers \ {c} : dial'[y] = dial[y]
  BY DEF Inv, TypeOK, StartController
<1>4. EndsOK'
  BY <1>3, FreeType DEF Inv, EndsOK, StartController
<1>5. Accepted'
  BY <1>1, <1>3, FreeType DEF Inv, Accepted, AgentsOK, ControllersOK, OneControllerPerEpoch,
     OneTargetPerTerm, StartController
<1>6. LinksOK'
  BY <1>1, <1>3, FreeType, HandshakeAssumption DEF Inv, LinksOK, Joined, StartController
<1> QED BY <1>2, <1>4, <1>5, <1>6 DEF Inv, Accepted

\* The same for an agent and its boot term.
LEMMA StartAgentStep ==
  ASSUME Inv, NEW a \in Agents, StartAgent(a) PROVE Inv'
<1>1. /\ agent' \in [Agents -> Party(Agents, Controllers)]
      /\ agent'[a].seen = agent[a].seen
      /\ \A y \in Agents \ {a} : agent'[y] = agent[y]
  BY Parts, NextOwn, SetOwn DEF Inv, TypeOK, StartAgent
<1>2. TypeOK'
  BY <1>1, FreeType DEF Inv, TypeOK, StartAgent
<1>3. serve'[a] = Free /\ \A y \in Agents \ {a} : serve'[y] = serve[y]
  BY DEF Inv, TypeOK, StartAgent
<1>4. EndsOK'
  BY <1>1, <1>3, FreeType DEF Inv, EndsOK, StartAgent
<1>5. Accepted'
  BY <1>1, <1>3 DEF Inv, Accepted, AgentsOK, ControllersOK, OneControllerPerEpoch,
     OneTargetPerTerm, StartAgent
<1>6. LinksOK'
  BY <1>1, <1>3, FreeType, HandshakeAssumption DEF Inv, LinksOK, Joined, StartAgent
<1> QED BY <1>2, <1>4, <1>5, <1>6 DEF Inv, Accepted

\* A hello carries the epoch of the controller that sends it.
LEMMA SendHelloStep ==
  ASSUME Inv, NEW c \in Controllers, NEW a \in Agents, SendHello(c, a) PROVE Inv'
<1> DEFINE d == [pc |-> "hello", peer |-> a, id |-> Unset]
           s == [pc |-> "hello", peer |-> c, id |-> ctrl[c].own]
<1>1. /\ d \in Connection(DialStates, Agents)
      /\ s \in Connection(ServeStates, Controllers)
  BY Parts, FreeType, States DEF Inv, Connection
<1>2. TypeOK'
  BY <1>1 DEF Inv, TypeOK, SendHello
<1>3. /\ dial'[c] = d /\ \A y \in Controllers \ {c} : dial'[y] = dial[y]
      /\ serve'[a] = s /\ \A y \in Agents \ {a} : serve'[y] = serve[y]
  BY DEF Inv, TypeOK, SendHello
<1>4. EndsOK'
  BY <1>3 DEF Inv, EndsOK, SendHello
<1>5. Accepted'
  BY <1>3 DEF Inv, Accepted, AgentsOK, ControllersOK, OneControllerPerEpoch,
     OneTargetPerTerm, SendHello
<1>6. LinksOK'
  BY <1>3 DEF Inv, LinksOK, Joined, SendHello
<1> QED BY <1>2, <1>4, <1>5, <1>6 DEF Inv, Accepted

\* An agent accepts a controller only when its fence lets it through, and
\* records it.
LEMMA OnHelloStep ==
  ASSUME Inv, NEW a \in Agents, OnHello(a) PROVE Inv'
<1> DEFINE c == serve[a].peer
           id == serve[a].id
<1>1. /\ c \in Controllers /\ id \in Identity(Controllers) /\ id.n # 0
      /\ agent[a].own \in Identity(Agents) /\ agent[a].own.n # 0
  BY Parts DEF OnHello, Inv, EndsOK
<1> HIDE DEF c, id
<1>2. CASE Fenced(id, agent[a].seen)
  <2>1. /\ serve'[a] = Free /\ \A y \in Agents \ {a} : serve'[y] = serve[y]
        /\ \A y \in Controllers : dial'[y] = dial[y] \/ (y = c /\ dial'[y] = Free)
        /\ UNCHANGED <<ctrl, agent, copy, raced, obeyed, trusted, starts>>
    BY <1>1, <1>2 DEF Inv, TypeOK, OnHello, c, id
  <2>2. TypeOK'
    BY <1>1, <1>2, FreeType DEF Inv, TypeOK, OnHello, c, id
  <2>3. EndsOK'
    BY <2>1, FreeType DEF Inv, EndsOK
  <2>4. Accepted'
    BY <2>1, FreeType DEF Inv, Accepted, AgentsOK, ControllersOK, OneControllerPerEpoch,
       OneTargetPerTerm
  <2>5. LinksOK'
    BY <2>1, FreeType, HandshakeAssumption DEF Inv, LinksOK, Joined
  <2> QED BY <2>2, <2>3, <2>4, <2>5 DEF Inv, Accepted
<1>3. CASE ~Fenced(id, agent[a].seen)
  <2> DEFINE answer == [pc |-> "ack", peer |-> a, id |-> agent[a].own]
  <2>1. /\ agent' = [agent EXCEPT ![a].seen = id]
        /\ obeyed' = [obeyed EXCEPT ![a] = @ \cup {id}]
        /\ serve' = [serve EXCEPT ![a].pc = "confirm"]
        /\ dial' = IF Joined(c, a) THEN [dial EXCEPT ![c] = answer] ELSE dial
        /\ UNCHANGED <<ctrl, copy, raced, trusted, starts>>
    BY <1>3 DEF OnHello, c, id
  <2>2. /\ agent' \in [Agents -> Party(Agents, Controllers)]
        /\ agent'[a].seen = id /\ agent'[a].own = agent[a].own
        /\ \A y \in Agents \ {a} : agent'[y] = agent[y]
    BY <1>1, <2>1, SetSeen, SMTT(30) DEF Inv, TypeOK
  <2>3. /\ serve' \in [Agents -> Connection(ServeStates, Controllers)]
        /\ serve'[a].pc = "confirm" /\ serve'[a].peer = c /\ serve'[a].id = id
        /\ \A y \in Agents \ {a} : serve'[y] = serve[y]
    BY <2>1, SetPc, States DEF Inv, TypeOK, c, id
  <2>4. /\ answer \in Connection(DialStates, Agents)
        /\ answer.pc = "ack" /\ answer.peer = a /\ answer.id = agent[a].own
    BY <1>1, States DEF Connection
  <2> HIDE DEF answer
  <2>5. TypeOK'
    BY <1>1, <2>1, <2>2, <2>3, <2>4 DEF Inv, TypeOK
  <2>6. \A y \in Controllers : \/ ~(y = c /\ Joined(c, a)) /\ dial'[y] = dial[y]
                               \/ y = c /\ Joined(c, a) /\ dial'[y] = answer
    BY <1>1, <2>1 DEF Inv, TypeOK
  <2>7. EndsOK'
    BY <1>1, <2>1, <2>2, <2>3, <2>4, <2>6 DEF Inv, EndsOK
  <2>8. /\ BehindRecord(obeyed[a] \cup {id}, id)
        /\ Unambiguous(obeyed[a] \cup {id})
    <3>1. /\ obeyed[a] \in SUBSET Identity(Controllers) /\ agent[a].seen \in Identity(Controllers)
          /\ BehindRecord(obeyed[a], agent[a].seen) /\ Unambiguous(obeyed[a])
      BY Parts DEF Inv, TypeOK, AgentsOK, OneControllerPerEpoch
    <3> QED BY <3>1, <1>1, <1>3, AcceptUnfenced
  <2>9. AgentsOK' /\ OneControllerPerEpoch'
    BY <2>1, <2>2, <2>8 DEF Inv, TypeOK, AgentsOK, OneControllerPerEpoch
  <2>10. ControllersOK' /\ OneTargetPerTerm'
    BY <2>1, <2>4, <2>6 DEF Inv, ControllersOK, OneTargetPerTerm
  <2>11. LinksOK'
    <3> SUFFICES ASSUME NEW x \in Controllers, NEW y \in Agents, Joined(x, y)'
                 PROVE  /\ serve'[y].id = ctrl'[x].own
                        /\ dial'[x].pc = "hello" => serve'[y].pc = "hello"
                        /\ dial'[x].pc = "ack" => serve'[y].pc = "confirm"
                        /\ dial'[x].pc \in {"record", "established"} => serve'[y].pc \in {"confirmed", "serve"}
                        /\ dial'[x].pc # "hello" =>
                             agent'[y].seen = ctrl'[x].own /\ dial'[x].id = agent'[y].own
      BY DEF LinksOK
    <3>1. CASE y = a
      <4>1. x = c /\ Joined(c, a)
        BY <2>3, <2>6, <3>1 DEF Joined, c
      <4> QED BY <1>1, <2>1, <2>2, <2>3, <2>4, <2>6, <3>1, <4>1 DEF Inv, LinksOK, id
    <3>2. CASE y # a
      <4>1. dial'[x] = dial[x] /\ Joined(x, y)
        BY <2>3, <2>4, <2>6, <3>2 DEF Joined
      <4> QED BY <2>1, <2>2, <2>3, <3>2, <4>1 DEF Inv, LinksOK
    <3> QED BY <3>1, <3>2
  <2> QED BY <2>5, <2>7, <2>9, <2>10, <2>11 DEF Inv
<1> QED BY <1>2, <1>3

\* A controller that confirms has checked the term; it has not recorded it yet.
LEMMA OnHelloAckStep ==
  ASSUME Inv, NEW c \in Controllers, OnHelloAck(c) PROVE Inv'
<1> DEFINE a == dial[c].peer
<1>1. a \in Agents
  BY DEF OnHelloAck, Inv, EndsOK
<1> HIDE DEF a
<1>2. CASE Fenced(dial[c].id, ctrl[c].seen)
  <2>1. /\ dial'[c] = Free /\ \A y \in Controllers \ {c} : dial'[y] = dial[y]
        /\ UNCHANGED <<ctrl, agent, serve, copy, raced, obeyed, trusted, starts>>
    BY <1>2 DEF Inv, TypeOK, OnHelloAck
  <2>2. TypeOK'
    BY <1>2, <2>1, FreeType DEF Inv, TypeOK, OnHelloAck
  <2>3. EndsOK' /\ Accepted'
    BY <2>1, FreeType DEF Inv, EndsOK, Accepted, AgentsOK, ControllersOK, OneControllerPerEpoch,
       OneTargetPerTerm
  <2>4. LinksOK'
    BY <2>1, FreeType, HandshakeAssumption DEF Inv, LinksOK, Joined
  <2> QED BY <2>2, <2>3, <2>4 DEF Inv, Accepted
<1>3. CASE ~Fenced(dial[c].id, ctrl[c].seen)
  <2>1. /\ dial' = [dial EXCEPT ![c].pc = "record"]
        /\ serve' = IF Joined(c, a) THEN [serve EXCEPT ![a].pc = "confirmed"] ELSE serve
        /\ UNCHANGED <<ctrl, agent, copy, raced, obeyed, trusted, starts>>
    BY <1>3 DEF OnHelloAck, a
  <2>2. /\ dial' \in [Controllers -> Connection(DialStates, Agents)]
        /\ dial'[c].pc = "record" /\ dial'[c].peer = a /\ dial'[c].id = dial[c].id
        /\ \A y \in Controllers \ {c} : dial'[y] = dial[y]
    BY <2>1, SetPc, States DEF Inv, TypeOK, a
  <2>3. /\ serve' \in [Agents -> Connection(ServeStates, Controllers)]
        /\ serve'[a].pc = (IF Joined(c, a) THEN "confirmed" ELSE serve[a].pc)
        /\ serve'[a].peer = serve[a].peer /\ serve'[a].id = serve[a].id
        /\ \A y \in Agents \ {a} : serve'[y] = serve[y]
    BY <1>1, <2>1, SetPc, States DEF Inv, TypeOK
  <2>4. TypeOK'
    BY <2>1, <2>2, <2>3 DEF Inv, TypeOK
  <2>5. LinksOK /\ dial[c].pc = "ack" /\ (Joined(c, a) => serve[a].pc = "confirm")
    BY <1>1 DEF Inv, LinksOK, OnHelloAck
  <2>6. EndsOK'
    BY <1>1, <2>1, <2>2, <2>3, <2>5 DEF Inv, EndsOK
  <2>7. Accepted'
    BY <1>3, <2>1, <2>2 DEF Inv, Accepted, AgentsOK, ControllersOK, OneControllerPerEpoch,
       OneTargetPerTerm
  <2>8. LinksOK'
    <3> SUFFICES ASSUME NEW x \in Controllers, NEW y \in Agents, Joined(x, y)'
                 PROVE  /\ serve'[y].id = ctrl'[x].own
                        /\ dial'[x].pc = "hello" => serve'[y].pc = "hello"
                        /\ dial'[x].pc = "ack" => serve'[y].pc = "confirm"
                        /\ dial'[x].pc \in {"record", "established"} => serve'[y].pc \in {"confirmed", "serve"}
                        /\ dial'[x].pc # "hello" =>
                             agent'[y].seen = ctrl'[x].own /\ dial'[x].id = agent'[y].own
      BY DEF LinksOK
    <3>1. Joined(x, y)
      BY <1>1, <2>2, <2>3 DEF Joined, a
    <3>2. CASE x = c
      BY <1>1, <2>1, <2>2, <2>3, <2>5, <3>1, <3>2 DEF LinksOK, Joined, a
    <3>3. CASE x # c
      <4>1. serve'[y] = serve[y] /\ dial'[x] = dial[x]
        BY <1>1, <2>1, <2>2, <2>3, <3>1, <3>3 DEF Joined
      <4>2. ctrl' = ctrl /\ agent' = agent
        BY <2>1
      <4>3. /\ serve[y].id = ctrl[x].own
            /\ dial[x].pc = "hello" => serve[y].pc = "hello"
            /\ dial[x].pc = "ack" => serve[y].pc = "confirm"
            /\ dial[x].pc \in {"record", "established"} => serve[y].pc \in {"confirmed", "serve"}
            /\ dial[x].pc # "hello" =>
                 agent[y].seen = ctrl[x].own /\ dial[x].id = agent[y].own
        BY <2>5, <3>1 DEF LinksOK
      <4> QED BY <4>1, <4>2, <4>3
    <3> QED BY <3>2, <3>3
  <2> QED BY <2>4, <2>6, <2>7, <2>8 DEF Inv, Accepted
<1> QED BY <1>2, <1>3

\* An agent that reads the confirmation serves the session it belongs to.
LEMMA OnConfirmStep ==
  ASSUME Inv, NEW a \in Agents, OnConfirm(a) PROVE Inv'
<1>1. /\ serve' \in [Agents -> Connection(ServeStates, Controllers)]
      /\ serve'[a].pc = "serve" /\ serve'[a].peer = serve[a].peer /\ serve'[a].id = serve[a].id
      /\ \A y \in Agents \ {a} : serve'[y] = serve[y]
  BY SetPc, States DEF Inv, TypeOK, OnConfirm
<1>2. TypeOK'
  BY <1>1 DEF Inv, TypeOK, OnConfirm
<1>3. EndsOK' /\ Accepted'
  BY <1>1 DEF Inv, OnConfirm, EndsOK, Accepted, AgentsOK, ControllersOK,
     OneControllerPerEpoch, OneTargetPerTerm
<1>4. LinksOK'
  BY <1>1 DEF Inv, OnConfirm, LinksOK, Joined
<1> QED BY <1>2, <1>3, <1>4 DEF Inv, Accepted

\* What is recorded passed the fence and still does, unless a plan got in
\* between.
LEMMA RecordTargetStep ==
  ASSUME Inv, NEW c \in Controllers, RecordTarget(c) PROVE Inv'
<1> DEFINE id == dial[c].id
<1>1. id \in Identity(Agents) /\ id.n # 0
  BY Parts DEF Inv, EndsOK, RecordTarget
<1>2. /\ ctrl' \in [Controllers -> Party(Controllers, Agents)]
      /\ ctrl'[c].seen = id /\ ctrl'[c].own = ctrl[c].own
      /\ \A y \in Controllers \ {c} : ctrl'[y] = ctrl[y]
  BY <1>1, SetSeen DEF Inv, TypeOK, RecordTarget
<1>3. /\ dial' \in [Controllers -> Connection(DialStates, Agents)]
      /\ dial'[c].pc = "established" /\ dial'[c].peer = dial[c].peer /\ dial'[c].id = id
      /\ \A y \in Controllers \ {c} : dial'[y] = dial[y]
  BY SetPc, States DEF Inv, TypeOK, RecordTarget
<1>4. TypeOK'
  BY <1>1, <1>2, <1>3 DEF Inv, TypeOK, RecordTarget
<1>5. ASSUME ~raced[c]
      PROVE  BehindRecord(trusted[c] \cup {id}, id) /\ Unambiguous(trusted[c] \cup {id})
  <2>1. /\ trusted[c] \in SUBSET Identity(Agents) /\ ctrl[c].seen \in Identity(Agents)
        /\ BehindRecord(trusted[c], ctrl[c].seen) /\ Unambiguous(trusted[c])
        /\ ~Fenced(id, ctrl[c].seen)
    BY <1>5, Parts DEF Inv, TypeOK, RecordTarget, ControllersOK, OneTargetPerTerm
  <2> QED BY <1>1, <2>1, AcceptUnfenced
<1>6. ControllersOK' /\ OneTargetPerTerm'
  BY <1>2, <1>3, <1>5 DEF Inv, TypeOK, RecordTarget, ControllersOK, OneTargetPerTerm
<1>7. EndsOK' /\ AgentsOK' /\ OneControllerPerEpoch'
  BY <1>1, <1>3 DEF Inv, RecordTarget, EndsOK, AgentsOK, OneControllerPerEpoch
<1>8. LinksOK'
  BY <1>2, <1>3 DEF Inv, RecordTarget, LinksOK, Joined
<1> QED BY <1>4, <1>6, <1>7, <1>8 DEF Inv

\* A connection may end at any time.
LEMMA HangUpStep ==
  ASSUME Inv, NEW c \in Controllers, HangUp(c) PROVE Inv'
<1>1. dial'[c] = Free /\ \A y \in Controllers \ {c} : dial'[y] = dial[y]
  BY DEF Inv, TypeOK, HangUp
<1>2. TypeOK'
  BY FreeType DEF Inv, TypeOK, HangUp
<1>3. EndsOK' /\ Accepted'
  BY <1>1, FreeType DEF Inv, HangUp, EndsOK, Accepted, AgentsOK, ControllersOK,
     OneControllerPerEpoch, OneTargetPerTerm
<1>4. LinksOK'
  BY <1>1, FreeType, HandshakeAssumption DEF Inv, HangUp, LinksOK, Joined
<1> QED BY <1>2, <1>3, <1>4 DEF Inv, Accepted

\* Either side may notice it later.
LEMMA EndOfSessionStep ==
  ASSUME Inv, NEW a \in Agents, EndOfSession(a) PROVE Inv'
<1>1. serve'[a] = Free /\ \A y \in Agents \ {a} : serve'[y] = serve[y]
  BY DEF Inv, TypeOK, EndOfSession
<1>2. TypeOK'
  BY FreeType DEF Inv, TypeOK, EndOfSession
<1>3. EndsOK' /\ Accepted'
  BY <1>1, FreeType DEF Inv, EndOfSession, EndsOK, Accepted, AgentsOK, ControllersOK,
     OneControllerPerEpoch, OneTargetPerTerm
<1>4. LinksOK'
  BY <1>1, FreeType, HandshakeAssumption DEF Inv, EndOfSession, LinksOK, Joined
<1> QED BY <1>2, <1>3, <1>4 DEF Inv, Accepted

\* A plan copies the target record ...
LEMMA SubmitTargetReadStep ==
  ASSUME Inv, NEW c \in Controllers, SubmitTargetRead(c) PROVE Inv'
<1>1. TypeOK'
  BY Parts DEF Inv, TypeOK, SubmitTargetRead
<1>2. EndsOK' /\ Accepted' /\ LinksOK'
  BY DEF Inv, SubmitTargetRead, EndsOK, Accepted, AgentsOK, ControllersOK, LinksOK,
     OneControllerPerEpoch, OneTargetPerTerm, Joined
<1> QED BY <1>1, <1>2 DEF Inv, Accepted

\* ... and writes the copy back, which is remembered when it takes the fence
\* back.
LEMMA SubmitTargetWriteStep ==
  ASSUME Inv, NEW c \in Controllers, SubmitTargetWrite(c) PROVE Inv'
<1>1. /\ ctrl' \in [Controllers -> Party(Controllers, Agents)]
      /\ ctrl'[c].seen = copy[c] /\ ctrl'[c].own = ctrl[c].own
      /\ \A y \in Controllers \ {c} : ctrl'[y] = ctrl[y]
  BY SetSeen DEF Inv, TypeOK, SubmitTargetWrite
<1>2. /\ raced' \in [Controllers -> BOOLEAN]
      /\ raced'[c] = (raced[c] \/ copy[c] # ctrl[c].seen)
      /\ \A y \in Controllers \ {c} : raced'[y] = raced[y]
  BY DEF Inv, TypeOK, SubmitTargetWrite
<1>3. TypeOK'
  BY <1>1, <1>2, FreeType DEF Inv, TypeOK, SubmitTargetWrite
<1>4. ControllersOK' /\ OneTargetPerTerm'
  BY <1>1, <1>2, ZenonT(30) DEF Inv, SubmitTargetWrite, ControllersOK, OneTargetPerTerm
<1>5. EndsOK' /\ AgentsOK' /\ OneControllerPerEpoch'
  BY DEF Inv, SubmitTargetWrite, EndsOK, AgentsOK, OneControllerPerEpoch
<1>6. LinksOK'
  BY <1>1 DEF Inv, SubmitTargetWrite, LinksOK, Joined
<1> QED BY <1>3, <1>4, <1>5, <1>6 DEF Inv

\* Every step keeps the invariant.
LEMMA InvStep == Inv /\ [Next]_vars => Inv'
<1> SUFFICES ASSUME Inv, [Next]_vars PROVE Inv'
  OBVIOUS
<1>1. CASE UNCHANGED vars
  BY <1>1 DEF vars, Inv, TypeOK, EndsOK, AgentsOK, ControllersOK, LinksOK,
     OneControllerPerEpoch, OneTargetPerTerm, Joined
<1> QED
  BY <1>1, StartControllerStep, StartAgentStep, SendHelloStep, OnHelloStep, OnHelloAckStep, OnConfirmStep,
     RecordTargetStep, HangUpStep, EndOfSessionStep, SubmitTargetReadStep, SubmitTargetWriteStep
     DEF Next

\* So it holds throughout.
LEMMA InvAlways == Spec => []Inv
<1>1. Inv /\ [Next]_vars => Inv'
  BY InvStep
<1> QED BY InvInit, <1>1, PTL DEF Spec

-----------------------------------------------------------------------------
(* The theorems.                                                           *)

\* The handshake variables keep their types.
THEOREM HandshakeTypes == Spec => []TypeOK
<1>1. Inv => TypeOK
  BY DEF Inv
<1> QED BY InvAlways, <1>1, PTL

\* TargetAgent::handshake: no two controllers are obeyed in one epoch.
THEOREM EpochIsUnambiguous == Spec => []OneControllerPerEpoch
<1>1. Inv => OneControllerPerEpoch
  BY DEF Inv
<1> QED BY InvAlways, <1>1, PTL

\* Distributor::handshake: no two processes are taken for one boot term, as
\* long as no plan has taken the record of the target back.
THEOREM TermIsUnambiguous == Spec => []OneTargetPerTerm
<1>1. Inv => OneTargetPerTerm
  BY DEF Inv
<1> QED BY InvAlways, <1>1, PTL

\* Both ends of a confirmed session agree on the authority it runs under, and
\* each has the other on record unless a plan has written back an older target.
THEOREM SessionsAgree == Spec => []SessionAgrees
<1>1. Inv => SessionAgrees
  <2> SUFFICES ASSUME Inv, NEW c \in Controllers, NEW a \in Agents, Joined(c, a),
                      dial[c].pc \in {"record", "established"} \/ serve[a].pc = "serve"
               PROVE  /\ serve[a].id = ctrl[c].own /\ agent[a].seen = ctrl[c].own
                      /\ dial[c].id = agent[a].own
                      /\ dial[c].pc = "established" /\ ~raced[c] => ctrl[c].seen = agent[a].own
    BY DEF SessionAgrees
  <2>1. dial[c].pc # "hello"
    BY DEF Inv, LinksOK
  <2> QED BY <2>1 DEF Inv, LinksOK, ControllersOK
<1> QED BY InvAlways, <1>1, PTL
=============================================================================
