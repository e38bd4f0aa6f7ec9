--------------------- MODULE ThreatIntelConsumerProofs ---------------------
(***************************************************************************)
(* Proofs about the consumer group for any processes, partitions, messages *)
(* and disturbances.  The committed offset alone says nothing inductive:   *)
(* what matters is that everything behind the position of an owner is      *)
(* settled, but for the message in its hand, and that a commit by the      *)
(* owner moves the committed offset up to that position.                   *)
(***************************************************************************)
EXTENDS ThreatIntelConsumer, TLAPS

InHand == {"handle", "commit", "commitBad"}

Types ==
  /\ end \in [Partitions -> 0..Length]
  /\ owner \in [Partitions -> Consumers \cup {NoOne}]
  /\ position \in [Partitions -> 0..Length]
  /\ committed \in [Partitions -> 0..Length]
  /\ cpc \in [Consumers -> {"down", "poll"} \cup InHand]
  /\ running \in [Consumers -> BOOLEAN]
  /\ msg \in [Consumers -> Messages \cup {NoMessage}]
  /\ \A c \in Consumers :
       msg[c] \in IF cpc[c] \in {"down", "poll"} THEN {NoMessage} ELSE Messages
  /\ handled \subseteq Messages /\ raised \subseteq Messages /\ again \subseteq handled
  /\ disturbed \in 0..MaxDisturbances

\* Only a live process owns partitions.
OwnersLive == \A p \in Partitions : owner[p] # NoOne => cpc[owner[p]] # "down"

\* An owner polls from the committed offset on, inside the partition.
PositionsAhead ==
  \A p \in Partitions :
    /\ committed[p] <= end[p]
    /\ owner[p] # NoOne => committed[p] <= position[p] /\ position[p] <= end[p]

\* A message in the hand of an owner is the last one it polled, and not yet
\* committed.
LastPolled ==
  \A c \in Consumers :
    cpc[c] \in InHand /\ Owns(c, msg[c]) =>
      position[msg[c][1]] = msg[c][2] + 1 /\ committed[msg[c][1]] <= msg[c][2]

\* A process commits what it handled, or what is no JSON.
CommitsSettled ==
  \A c \in Consumers :
    /\ cpc[c] = "commit" => msg[c] \in handled
    /\ cpc[c] = "commitBad" => msg[c] \in NotJson

Settled(m) == m \in handled \cup raised \cup NotJson

\* Behind the position of an owner, and behind the committed offset, all is
\* settled but the message in hand.
BehindSettled ==
  \A m \in Messages :
    /\ m[2] < committed[m[1]] => Settled(m)
    /\ owner[m[1]] # NoOne /\ m[2] < position[m[1]] => Settled(m) \/ msg[owner[m[1]]] = m

Inv == Types /\ OwnersLive /\ PositionsAhead /\ LastPolled /\ CommitsSettled /\ BehindSettled

LEMMA MessagePair ==
  ASSUME NEW m \in Messages
  PROVE  m[1] \in Partitions /\ m[2] \in 0..Length - 1 /\ m = <<m[1], m[2]>>
BY DEF Messages

LEMMA Initially == Init => Inv
<1> SUFFICES ASSUME Init PROVE Inv
  OBVIOUS
<1>1. Types
  BY LengthAssumption, DisturbancesAssumption DEF Init, Types
<1>2. PositionsAhead
  BY DEF Init, PositionsAhead
<1>3. LastPolled /\ CommitsSettled /\ OwnersLive
  BY DEF Init, LastPolled, CommitsSettled, OwnersLive, InHand
<1>4. BehindSettled
  BY MessagePair DEF Init, BehindSettled
<1> QED BY <1>1, <1>2, <1>3, <1>4 DEF Inv

LEMMA ProducedKeepsInv == ASSUME Inv, NEW p \in Partitions, Produced(p) PROVE Inv'
<1> USE DEF Produced, history
<1>1. Types'
  BY LengthAssumption DEF Inv, Types
<1>2. PositionsAhead'
  BY DEF Inv, PositionsAhead, Types
<1>3. OwnersLive' /\ LastPolled' /\ CommitsSettled' /\ BehindSettled'
  BY DEF Inv, OwnersLive, LastPolled, CommitsSettled, BehindSettled, Settled, Owns
<1> QED BY <1>1, <1>2, <1>3 DEF Inv

LEMMA AssignKeepsInv ==
  ASSUME Inv, NEW p \in Partitions, NEW c \in Consumers, Assign(p, c) PROVE Inv'
<1> USE DEF Assign, history
<1>1. Types'
  BY DEF Inv, Types
<1>2. PositionsAhead'
  BY DEF Inv, PositionsAhead, Types
<1>3. OwnersLive'
  BY DEF Inv, OwnersLive, Types
<1>4. LastPolled'
  <2> SUFFICES ASSUME NEW d \in Consumers, cpc[d] \in InHand, owner'[msg[d][1]] = d
               PROVE  position'[msg[d][1]] = msg[d][2] + 1 /\ committed[msg[d][1]] <= msg[d][2]
    BY DEF LastPolled, Owns
  <2>1. msg[d] \in Messages /\ d # c
    BY DEF Inv, Types, InHand
  <2>2. msg[d][1] \in Partitions /\ msg[d][1] # p
    BY <2>1, MessagePair DEF Inv, Types
  <2> QED BY <2>2 DEF Inv, LastPolled, Owns, Types
<1>5. CommitsSettled'
  BY DEF Inv, CommitsSettled
<1>6. BehindSettled'
  <2> SUFFICES ASSUME NEW m \in Messages, owner'[m[1]] # NoOne, m[2] < position'[m[1]]
               PROVE  Settled(m) \/ msg[owner'[m[1]]] = m
    BY DEF Inv, BehindSettled, Settled
  <2>1. m[1] \in Partitions
    BY MessagePair
  <2>2. CASE m[1] = p
    BY <2>2 DEF Inv, BehindSettled, Types
  <2>3. CASE m[1] # p
    BY <2>1, <2>3 DEF Inv, BehindSettled, Types
  <2> QED BY <2>2, <2>3
<1> QED BY <1>1, <1>2, <1>3, <1>4, <1>5, <1>6 DEF Inv

\* Giving partitions up, by Revoke or because the process ends.
LEMMA ReleaseKeepsInv ==
  ASSUME Inv, UNCHANGED <<end, position, committed, history>>,
         owner' \in [Partitions -> Consumers \cup {NoOne}],
         \A p \in Partitions : owner'[p] \in {NoOne, owner[p]},
         disturbed' \in 0..MaxDisturbances,
         cpc' \in [Consumers -> {"down", "poll"} \cup InHand],
         running' \in [Consumers -> BOOLEAN],
         msg' \in [Consumers -> Messages \cup {NoMessage}],
         \A d \in Consumers :
           \/ cpc'[d] = cpc[d] /\ msg'[d] = msg[d]
           \/ /\ cpc'[d] = "down" /\ msg'[d] = NoMessage
              /\ \A p \in Partitions : owner'[p] # d
  PROVE  Inv'
<1> USE DEF history
<1>1. Types'
  BY DEF Inv, Types
<1>2. OwnersLive'
  BY NothingAssumption DEF Inv, OwnersLive, Types
<1>3. PositionsAhead'
  BY DEF Inv, PositionsAhead
<1>4. LastPolled'
  <2> SUFFICES ASSUME NEW d \in Consumers, cpc'[d] \in InHand, owner'[msg'[d][1]] = d
               PROVE  position[msg'[d][1]] = msg'[d][2] + 1 /\ committed[msg'[d][1]] <= msg'[d][2]
    BY DEF LastPolled, Owns
  <2>1. cpc'[d] = cpc[d] /\ msg'[d] = msg[d] /\ msg[d] \in Messages
    BY DEF Inv, Types, InHand
  <2>2. owner[msg[d][1]] = d
    BY <2>1, MessagePair, NothingAssumption
  <2> QED BY <2>1, <2>2 DEF Inv, LastPolled, Owns
<1>5. CommitsSettled'
  BY DEF Inv, CommitsSettled
<1>6. BehindSettled'
  <2> SUFFICES ASSUME NEW m \in Messages, owner'[m[1]] # NoOne, m[2] < position[m[1]]
               PROVE  Settled(m) \/ msg'[owner'[m[1]]] = m
    BY DEF Inv, BehindSettled, Settled
  <2>1. m[1] \in Partitions /\ owner'[m[1]] = owner[m[1]] /\ owner[m[1]] \in Consumers
    BY MessagePair DEF Inv, Types
  <2> QED BY <2>1 DEF Inv, BehindSettled
<1> QED BY <1>1, <1>2, <1>3, <1>4, <1>5, <1>6 DEF Inv

LEMMA DisturbType == ASSUME Inv, Disturb PROVE disturbed' \in 0..MaxDisturbances
BY DisturbancesAssumption DEF Inv, Types, Disturb

LEMMA RevokeKeepsInv == ASSUME Inv, NEW p \in Partitions, Revoke(p) PROVE Inv'
<1>1. /\ owner' \in [Partitions -> Consumers \cup {NoOne}]
      /\ \A q \in Partitions : owner'[q] \in {NoOne, owner[q]}
      /\ UNCHANGED <<end, position, committed, cpc, running, msg, history>>
  BY DEF Revoke, Inv, Types
<1>2. disturbed' \in 0..MaxDisturbances
  BY DisturbType DEF Revoke
<1>3. /\ cpc' \in [Consumers -> {"down", "poll"} \cup InHand]
      /\ running' \in [Consumers -> BOOLEAN]
      /\ msg' \in [Consumers -> Messages \cup {NoMessage}]
  BY <1>1 DEF Inv, Types
<1> QED BY <1>1, <1>2, <1>3, ReleaseKeepsInv

LEMMA LeaveKeepsInv ==
  ASSUME Inv, NEW c \in Consumers, Leave(c), disturbed' \in 0..MaxDisturbances
  PROVE  Inv'
<1>1. /\ owner' \in [Partitions -> Consumers \cup {NoOne}]
      /\ \A q \in Partitions : owner'[q] \in {NoOne, owner[q]} /\ owner'[q] # c
      /\ UNCHANGED <<end, position, committed, history>>
  BY NothingAssumption DEF Leave, Inv, Types
<1>2. /\ cpc' \in [Consumers -> {"down", "poll"} \cup InHand]
      /\ running' \in [Consumers -> BOOLEAN]
      /\ msg' \in [Consumers -> Messages \cup {NoMessage}]
  BY DEF Leave, Inv, Types
<1>3. ASSUME NEW d \in Consumers
      PROVE  \/ cpc'[d] = cpc[d] /\ msg'[d] = msg[d]
             \/ /\ cpc'[d] = "down" /\ msg'[d] = NoMessage
                /\ \A p \in Partitions : owner'[p] # d
  <2>1. CASE d = c
    BY <1>1, <2>1 DEF Leave, Inv, Types
  <2>2. CASE d # c
    BY <2>2 DEF Leave, Inv, Types
  <2> QED BY <2>1, <2>2
<1> QED BY <1>1, <1>2, <1>3, ReleaseKeepsInv

LEMMA StartStopKeepsInv ==
  ASSUME Inv, NEW c \in Consumers, Start(c) \/ Stop(c) PROVE Inv'
<1>1. /\ running' \in [Consumers -> BOOLEAN]
      /\ UNCHANGED <<kafkaVars, msg, history, disturbed>>
      /\ \/ UNCHANGED cpc
         \/ cpc[c] = "down" /\ cpc' = [cpc EXCEPT ![c] = "poll"]
  BY DEF Start, Stop, Inv, Types
<1> USE DEF kafkaVars, history
<1>2. CASE UNCHANGED cpc
  BY <1>1, <1>2 DEF Inv, Types, OwnersLive, PositionsAhead, LastPolled, CommitsSettled, BehindSettled,
                    Settled, Owns
<1>3. CASE cpc[c] = "down" /\ cpc' = [cpc EXCEPT ![c] = "poll"]
  <2>1. Types'
    BY <1>1, <1>3 DEF Inv, Types
  <2>2. OwnersLive'
    BY <1>1, <1>3 DEF Inv, OwnersLive, Types
  <2>3. LastPolled' /\ CommitsSettled'
    BY <1>1, <1>3 DEF Inv, LastPolled, CommitsSettled, Owns, Types, InHand
  <2>4. PositionsAhead' /\ BehindSettled'
    BY <1>1 DEF Inv, PositionsAhead, BehindSettled, Settled
  <2> QED BY <2>1, <2>2, <2>3, <2>4 DEF Inv
<1> QED BY <1>1, <1>2, <1>3

LEMMA PollKeepsInv == ASSUME Inv, NEW c \in Consumers, Poll(c) PROVE Inv'
<1>1. PICK p \in Partitions :
        /\ owner[p] = c /\ position[p] < end[p]
        /\ msg' = [msg EXCEPT ![c] = <<p, position[p]>>]
        /\ position' = [position EXCEPT ![p] = position[p] + 1]
  BY DEF Poll
<1>2. /\ cpc[c] = "poll" /\ cpc' = [cpc EXCEPT ![c] = "handle"]
      /\ UNCHANGED <<end, owner, committed, running, handled, again, raised, disturbed>>
  BY DEF Poll, history
<1>3. /\ end[p] \in 0..Length /\ position[p] \in 0..Length /\ c # NoOne
      /\ position[p] + 1 \in 0..Length /\ <<p, position[p]>> \in Messages
  BY <1>1, LengthAssumption, NothingAssumption DEF Inv, Types, Messages
<1>4. Types'
  <2>1. position' \in [Partitions -> 0..Length]
    BY <1>1, <1>3 DEF Inv, Types
  <2>2. msg' \in [Consumers -> Messages \cup {NoMessage}] /\ cpc' \in [Consumers -> {"down", "poll"} \cup InHand]
    BY <1>1, <1>2, <1>3 DEF Inv, Types, InHand
  <2>3. \A d \in Consumers :
          msg'[d] \in IF cpc'[d] \in {"down", "poll"} THEN {NoMessage} ELSE Messages
    BY <1>1, <1>2, <1>3 DEF Inv, Types
  <2> QED BY <1>2, <2>1, <2>2, <2>3 DEF Inv, Types
<1>5. OwnersLive'
  BY <1>2 DEF Inv, OwnersLive, Types
<1>6. PositionsAhead'
  BY <1>1, <1>2, <1>3 DEF Inv, PositionsAhead, Types
<1>7. LastPolled'
  <2> SUFFICES ASSUME NEW d \in Consumers, cpc'[d] \in InHand, owner[msg'[d][1]] = d
               PROVE  position'[msg'[d][1]] = msg'[d][2] + 1 /\ committed[msg'[d][1]] <= msg'[d][2]
    BY <1>2 DEF LastPolled, Owns
  <2>1. CASE d = c
    <3>1. msg'[d] = <<p, position[p]>> /\ position'[p] = position[p] + 1
      BY <1>1, <2>1 DEF Inv, Types
    <3>2. committed[p] <= position[p]
      BY <1>1, <1>3 DEF Inv, PositionsAhead
    <3> QED BY <3>1, <3>2
  <2>2. CASE d # c
    <3>1. msg'[d] = msg[d] /\ cpc[d] \in InHand /\ msg[d] \in Messages
      BY <1>1, <1>2, <2>2 DEF Inv, Types, InHand
    <3>2. msg[d][1] \in Partitions /\ msg[d][1] # p
      BY <1>1, <2>2, <3>1, MessagePair
    <3> QED BY <1>1, <3>1, <3>2 DEF Inv, LastPolled, Owns, Types
  <2> QED BY <2>1, <2>2
<1>8. CommitsSettled'
  BY <1>1, <1>2 DEF Inv, CommitsSettled, Types
<1>9. BehindSettled'
  <2> SUFFICES ASSUME NEW m \in Messages, owner[m[1]] # NoOne, m[2] < position'[m[1]]
               PROVE  Settled(m) \/ msg'[owner[m[1]]] = m
    BY <1>2 DEF Inv, BehindSettled, Settled
  <2>1. m[1] \in Partitions /\ m[2] \in Int /\ m = <<m[1], m[2]>>
    BY MessagePair, LengthAssumption
  <2>2. CASE m[1] = p /\ m[2] = position[p]
    BY <1>1, <2>1, <2>2 DEF Inv, Types
  <2>3. CASE ~(m[1] = p /\ m[2] = position[p])
    <3>1. m[2] < position[m[1]]
      BY <1>1, <1>3, <2>1, <2>3 DEF Inv, Types
    <3>2. Settled(m) \/ msg[owner[m[1]]] = m
      BY <3>1 DEF Inv, BehindSettled
    <3>3. owner[m[1]] = c => msg[owner[m[1]]] = NoMessage
      BY <1>2 DEF Inv, Types
    <3>4. owner[m[1]] # c => msg'[owner[m[1]]] = msg[owner[m[1]]]
      BY <1>1, <2>1 DEF Inv, Types
    <3> QED BY <3>2, <3>3, <3>4, NothingAssumption
  <2> QED BY <2>2, <2>3
<1> QED BY <1>4, <1>5, <1>6, <1>7, <1>8, <1>9 DEF Inv

LEMMA HandlerReturnsKeepsInv == ASSUME Inv, NEW c \in Consumers, HandlerReturns(c) PROVE Inv'
<1>1. /\ cpc[c] = "handle" /\ cpc' = [cpc EXCEPT ![c] = "commit"] /\ msg[c] \in Messages
      /\ handled' = handled \cup {msg[c]} /\ again' = again \cup ({msg[c]} \cap handled)
      /\ UNCHANGED <<end, owner, position, committed, running, msg, raised, disturbed>>
  BY DEF HandlerReturns, Handled, kafkaVars, Inv, Types
<1>2. Types'
  BY <1>1 DEF Inv, Types, InHand
<1>3. OwnersLive'
  BY <1>1 DEF Inv, OwnersLive, Types
<1>4. LastPolled' /\ CommitsSettled'
  BY <1>1 DEF Inv, LastPolled, CommitsSettled, Owns, Types, InHand
<1>5. PositionsAhead' /\ BehindSettled'
  BY <1>1 DEF Inv, PositionsAhead, BehindSettled, Settled
<1> QED BY <1>2, <1>3, <1>4, <1>5 DEF Inv

LEMMA RejectedKeepsInv == ASSUME Inv, NEW c \in Consumers, Rejected(c) PROVE Inv'
<1>1. /\ cpc[c] = "handle" /\ cpc' = [cpc EXCEPT ![c] = "commitBad"] /\ msg[c] \in NotJson
      /\ UNCHANGED <<end, owner, position, committed, running, msg, handled, again, raised, disturbed>>
  BY DEF Rejected, kafkaVars, history
<1>2. Types'
  BY <1>1, NotJsonAssumption DEF Inv, Types, InHand
<1>3. OwnersLive'
  BY <1>1 DEF Inv, OwnersLive, Types
<1>4. LastPolled' /\ CommitsSettled'
  BY <1>1 DEF Inv, LastPolled, CommitsSettled, Owns, Types, InHand
<1>5. PositionsAhead' /\ BehindSettled'
  BY <1>1 DEF Inv, PositionsAhead, BehindSettled, Settled
<1> QED BY <1>2, <1>3, <1>4, <1>5 DEF Inv

\* A process goes on to the next message without a commit, having logged an
\* error for the one in its hand.
LEMMA RaisedKeepsInv ==
  ASSUME Inv, NEW c \in Consumers, HandlerRaises(c) \/ CommitFails(c) PROVE Inv'
<1>1. /\ cpc[c] \in InHand /\ cpc' = [cpc EXCEPT ![c] = "poll"] /\ msg[c] \in Messages
      /\ msg' = [msg EXCEPT ![c] = NoMessage]
      /\ raised' = raised \cup {msg[c]}
      /\ UNCHANGED <<end, owner, position, committed, running, handled, again>>
  BY DEF HandlerRaises, CommitFails, NextMessage, kafkaVars, Inv, Types, InHand
<1>2. disturbed' \in 0..MaxDisturbances
  BY DisturbType DEF HandlerRaises, CommitFails, CommitRaises, Inv, Types
<1>3. Types'
  BY <1>1, <1>2 DEF Inv, Types
<1>4. OwnersLive'
  BY <1>1 DEF Inv, OwnersLive, Types
<1>5. LastPolled' /\ CommitsSettled'
  BY <1>1 DEF Inv, LastPolled, CommitsSettled, Owns, Types, InHand
<1>6. PositionsAhead'
  BY <1>1 DEF Inv, PositionsAhead
<1>7. BehindSettled'
  <2> SUFFICES ASSUME NEW m \in Messages, owner[m[1]] # NoOne, m[2] < position[m[1]]
               PROVE  Settled(m)' \/ msg'[owner[m[1]]] = m
    BY <1>1 DEF Inv, BehindSettled, Settled
  <2>1. owner[m[1]] \in Consumers
    BY MessagePair DEF Inv, Types
  <2>2. CASE m = msg[c]
    BY <1>1, <2>2 DEF Settled
  <2>3. CASE m # msg[c]
    BY <1>1, <2>1, <2>3 DEF Inv, BehindSettled, Types, Settled
  <2> QED BY <2>2, <2>3
<1> QED BY <1>3, <1>4, <1>5, <1>6, <1>7 DEF Inv

\* The commit of an owner moves the committed offset up to its position.
LEMMA CommitFacts ==
  ASSUME Inv, NEW c \in Consumers, Commit(c)
  PROVE  /\ msg[c] \in Messages /\ Settled(msg[c]) /\ owner[msg[c][1]] = c
         /\ position[msg[c][1]] = msg[c][2] + 1 /\ committed[msg[c][1]] <= msg[c][2]
         /\ committed' = [committed EXCEPT ![msg[c][1]] = position[msg[c][1]]]
         /\ cpc[c] \in InHand /\ cpc' = [cpc EXCEPT ![c] = "poll"]
         /\ msg' = [msg EXCEPT ![c] = NoMessage]
         /\ UNCHANGED <<end, owner, position, running, handled, again, raised, disturbed>>
<1>1. cpc[c] \in {"commit", "commitBad"} /\ owner[msg[c][1]] = c
  BY DEF Commit, Owns
<1>2. msg[c] \in Messages /\ cpc[c] \in InHand
  BY <1>1 DEF Inv, Types, InHand
<1>3. Settled(msg[c])
  BY <1>1 DEF Inv, CommitsSettled, Settled
<1>4. position[msg[c][1]] = msg[c][2] + 1 /\ committed[msg[c][1]] <= msg[c][2]
  BY <1>1, <1>2 DEF Inv, LastPolled, Owns
<1> QED BY <1>1, <1>2, <1>3, <1>4 DEF Commit, NextMessage, history

LEMMA CommitKeepsInv == ASSUME Inv, NEW c \in Consumers, Commit(c) PROVE Inv'
<1> DEFINE q == msg[c][1]
<1>1. q \in Partitions /\ position[q] \in 0..Length /\ c # NoOne
  BY CommitFacts, MessagePair, NothingAssumption DEF Inv, Types
<1>2. Types'
  BY <1>1, CommitFacts DEF Inv, Types
<1>3. OwnersLive'
  BY CommitFacts DEF Inv, OwnersLive, Types
<1>4. PositionsAhead'
  <2> SUFFICES ASSUME NEW p \in Partitions
               PROVE  /\ committed'[p] <= end[p]
                      /\ owner[p] # NoOne => committed'[p] <= position[p] /\ position[p] <= end[p]
    BY CommitFacts DEF PositionsAhead
  <2>1. CASE p = q
    <3>1. committed'[p] = position[p] /\ owner[p] # NoOne
      BY <1>1, <2>1, CommitFacts DEF Inv, Types
    <3> QED BY <1>1, <2>1, <3>1 DEF Inv, PositionsAhead
  <2>2. CASE p # q
    BY <2>2, CommitFacts DEF Inv, PositionsAhead, Types
  <2> QED BY <2>1, <2>2
<1>5. LastPolled'
  <2> SUFFICES ASSUME NEW d \in Consumers, cpc'[d] \in InHand, owner[msg'[d][1]] = d
               PROVE  position[msg'[d][1]] = msg'[d][2] + 1 /\ committed'[msg'[d][1]] <= msg'[d][2]
    BY CommitFacts DEF LastPolled, Owns
  <2>1. d # c
    BY CommitFacts DEF Inv, Types, InHand
  <2>2. msg'[d] = msg[d] /\ cpc[d] \in InHand /\ owner[msg[d][1]] = d
    BY <2>1, CommitFacts DEF Inv, Types
  <2>3. committed'[msg[d][1]] = committed[msg[d][1]]
    <3>1. msg[d] \in Messages
      BY <2>2 DEF Inv, Types, InHand
    <3>2. msg[d][1] \in Partitions /\ msg[d][1] # msg[c][1]
      BY <2>1, <2>2, <3>1, CommitFacts, MessagePair
    <3> QED BY <3>2, CommitFacts DEF Inv, Types
  <2> QED BY <2>2, <2>3 DEF Inv, LastPolled, Owns
<1>6. CommitsSettled'
  BY CommitFacts DEF Inv, CommitsSettled, Types
<1>7. BehindSettled'
  <2> SUFFICES ASSUME NEW m \in Messages
               PROVE  /\ m[2] < committed'[m[1]] => Settled(m)
                      /\ owner[m[1]] # NoOne /\ m[2] < position[m[1]] => Settled(m) \/ msg'[owner[m[1]]] = m
    BY CommitFacts DEF BehindSettled, Settled
  <2>1. m[1] \in Partitions
    BY MessagePair
  <2>2. owner[m[1]] # NoOne /\ m[2] < position[m[1]] => Settled(m) \/ msg'[owner[m[1]]] = m
    <3>1. CASE m = msg[c]
      BY <3>1, CommitFacts
    <3>2. CASE m # msg[c]
      BY <2>1, <3>2, CommitFacts DEF Inv, BehindSettled, Types
    <3> QED BY <3>1, <3>2
  <2>3. ASSUME m[2] < committed'[m[1]]
        PROVE  Settled(m)
    <3>1. CASE m[1] = q
      <4>1. m[2] < position[q] /\ owner[q] = c
        BY <1>1, <2>3, <3>1, CommitFacts DEF Inv, Types
      <4>2. Settled(m) \/ msg[c] = m
        BY <1>1, <3>1, <4>1 DEF Inv, BehindSettled
      <4> QED BY <4>2, CommitFacts
    <3>2. CASE m[1] # q
      BY <2>1, <2>3, <3>2, CommitFacts DEF Inv, BehindSettled, Types
    <3> QED BY <3>1, <3>2
  <2> QED BY <2>2, <2>3
<1> QED BY <1>2, <1>3, <1>4, <1>5, <1>6, <1>7 DEF Inv

LEMMA InvInductive == Inv /\ [Next]_vars => Inv'
<1> SUFFICES ASSUME Inv, [Next]_vars PROVE Inv'
  OBVIOUS
<1>1. ASSUME NEW p \in Partitions, Produced(p) \/ Revoke(p)
      PROVE  Inv'
  BY <1>1, ProducedKeepsInv, RevokeKeepsInv
<1>2. ASSUME NEW p \in Partitions, NEW c \in Consumers, Assign(p, c)
      PROVE  Inv'
  BY <1>2, AssignKeepsInv
<1>3. ASSUME NEW c \in Consumers, PollRaises(c) \/ Close(c) \/ Crash(c) \/ CommitBadFails(c)
      PROVE  Inv'
  <2>1. Leave(c)
    BY <1>3 DEF PollRaises, Close, Crash, CommitBadFails
  <2>2. disturbed' \in 0..MaxDisturbances
    BY <1>3, DisturbType DEF PollRaises, Close, Crash, CommitBadFails, CommitRaises, Inv, Types
  <2> QED BY <2>1, <2>2, LeaveKeepsInv
<1>4. ASSUME NEW c \in Consumers, Start(c) \/ Stop(c) \/ Step(c)
      PROVE  Inv'
  BY <1>3, <1>4, StartStopKeepsInv, PollKeepsInv, HandlerReturnsKeepsInv, RejectedKeepsInv,
     RaisedKeepsInv, CommitKeepsInv DEF Step
<1>5. CASE UNCHANGED vars
  BY <1>5 DEF vars, kafkaVars, history, Inv, Types, OwnersLive, PositionsAhead, LastPolled,
              CommitsSettled, BehindSettled, Settled, Owns
<1> QED BY <1>1, <1>2, <1>3, <1>4, <1>5 DEF Next

LEMMA InvAlways == Spec => []Inv
<1>1. Init => Inv
  BY Initially
<1>2. Inv /\ [Next]_vars => Inv'
  BY InvInductive
<1> QED BY <1>1, <1>2, PTL DEF Spec

----------------------------------------------------------------------------
\* Every variable keeps its type, and only live processes own partitions.
THEOREM TypeCorrect == Spec => []TypeOK
<1>1. Inv => TypeOK
  BY DEF Inv, Types, OwnersLive, TypeOK, InHand
<1> QED BY <1>1, InvAlways, PTL

\* Whatever crashes, is rebalanced or refused, a message that will not be read
\* again was handled or has an error in the log, or is no JSON.
THEOREM NoSilentLossAlways == Spec => []NoSilentLoss
<1>1. Inv => NoSilentLoss
  BY DEF Inv, BehindSettled, Settled, NoSilentLoss
<1> QED BY <1>1, InvAlways, PTL

\* No commit takes the group back.
THEOREM CommittedNeverFallsAlways == Spec => CommittedNeverFalls
<1>1. Inv /\ [Next]_vars => [\A p \in Partitions : committed'[p] >= committed[p]]_vars
  <2> SUFFICES ASSUME Inv, [Next]_vars, NEW p \in Partitions
               PROVE  committed'[p] >= committed[p]
    OBVIOUS
  <2>1. committed[p] \in Nat /\ committed'[p] \in Nat
    BY InvInductive, LengthAssumption DEF Inv, Types
  <2>2. CASE \E c \in Consumers : Commit(c)
    <3>1. PICK c \in Consumers : Commit(c)
      BY <2>2
    <3>2. committed[msg[c][1]] <= position[msg[c][1]]
      BY <3>1, CommitFacts, MessagePair DEF Inv, Types, Messages
    <3>3. committed' = [committed EXCEPT ![msg[c][1]] = position[msg[c][1]]]
      BY <3>1, CommitFacts
    <3> QED BY <2>1, <3>2, <3>3 DEF Inv, Types
  <2>3. CASE ~ \E c \in Consumers : Commit(c)
    <3>1. committed' = committed
      BY <2>3 DEF Next, Step, Produced, Revoke, Assign, Poll, HandlerReturns, HandlerRaises, Rejected,
                  CommitFails, CommitBadFails, Close, Start, PollRaises, Stop, Crash, Leave, vars,
                  kafkaVars
    <3> QED BY <2>1, <3>1
  <2> QED BY <2>2, <2>3
<1> QED BY <1>1, InvAlways, PTL DEF Spec, CommittedNeverFalls
----------------------------------------------------------------------------
(* Repetitions *)

\* Until something disturbs the group, a message in hand belongs to the owner
\* of its partition, and a message that was handled is behind the committed
\* offset or about to be: none is polled again.
HandledOnce ==
  disturbed = 0 =>
    /\ again = {}
    /\ \A c \in Consumers : cpc[c] \in InHand => Owns(c, msg[c])
    /\ \A m \in handled :
         \/ m[2] < committed[m[1]]
         \/ \E c \in Consumers : cpc[c] = "commit" /\ msg[c] = m

\* A process that leaves with empty hands takes no message with it.
LEMMA LeaveKeepsOnce ==
  ASSUME Inv, HandledOnce, NEW c \in Consumers, cpc[c] = "poll", Leave(c), UNCHANGED disturbed
  PROVE  HandledOnce'
<1> SUFFICES ASSUME disturbed = 0 PROVE HandledOnce'
  BY DEF HandledOnce
<1>1. ASSUME NEW d \in Consumers, cpc'[d] \in InHand PROVE Owns(d, msg[d])' /\ msg'[d] = msg[d]
  <2>1. d # c /\ cpc[d] \in InHand /\ msg'[d] = msg[d]
    BY <1>1 DEF Leave, Inv, Types, InHand
  <2>2. msg[d][1] \in Partitions /\ owner[msg[d][1]] = d
    BY <2>1, MessagePair DEF HandledOnce, Owns, Inv, Types, InHand
  <2> QED BY <2>1, <2>2 DEF Leave, Owns
<1>2. ASSUME NEW d \in Consumers, cpc[d] = "commit" PROVE cpc'[d] = "commit" /\ msg'[d] = msg[d]
  BY <1>2 DEF Leave, Inv, Types
<1>3. UNCHANGED <<committed, handled, again>>
  BY DEF Leave, history
<1> QED BY <1>1, <1>2, <1>3 DEF HandledOnce

\* A step of a process that holds a message, or takes one, leaves the
\* others' hands alone.
LEMMA OthersKeepOnce ==
  ASSUME Inv, HandledOnce, disturbed = 0, NEW c \in Consumers, UNCHANGED owner,
         \A d \in Consumers \ {c} : cpc'[d] = cpc[d] /\ msg'[d] = msg[d]
  PROVE  /\ \A d \in Consumers \ {c} : cpc'[d] \in InHand => Owns(d, msg[d])'
         /\ \A m \in handled :
              \/ m[2] < committed[m[1]]
              \/ \E d \in Consumers : cpc[d] = "commit" /\ msg[d] = m /\ (d # c => cpc'[d] = "commit" /\ msg'[d] = m)
BY DEF HandledOnce, Owns

LEMMA StepKeepsOnce ==
  ASSUME Inv, HandledOnce, NEW c \in Consumers, Step(c)
  PROVE  HandledOnce'
<1>1. CASE Poll(c)
  <2> SUFFICES ASSUME disturbed = 0 PROVE HandledOnce'
    BY <1>1 DEF HandledOnce, Poll
  <2>1. PICK p \in Partitions :
          owner[p] = c /\ msg' = [msg EXCEPT ![c] = <<p, position[p]>>]
    BY <1>1 DEF Poll
  <2>2. /\ cpc[c] = "poll" /\ cpc' = [cpc EXCEPT ![c] = "handle"]
        /\ UNCHANGED <<owner, committed, handled, again, disturbed>>
    BY <1>1 DEF Poll, history
  <2>3. \A d \in Consumers \ {c} : cpc'[d] = cpc[d] /\ msg'[d] = msg[d]
    BY <2>1, <2>2 DEF Inv, Types
  <2>4. Owns(c, msg[c])'
    BY <2>1, <2>2 DEF Owns, Inv, Types
  <2> QED BY <2>2, <2>3, <2>4, OthersKeepOnce DEF HandledOnce
<1>2. CASE HandlerReturns(c)
  <2> SUFFICES ASSUME disturbed = 0 PROVE HandledOnce'
    BY <1>2 DEF HandledOnce, HandlerReturns
  <2>1. /\ cpc[c] = "handle" /\ cpc' = [cpc EXCEPT ![c] = "commit"]
        /\ handled' = handled \cup {msg[c]} /\ again' = again \cup ({msg[c]} \cap handled)
        /\ UNCHANGED <<owner, committed, msg, disturbed>>
    BY <1>2 DEF HandlerReturns, Handled, kafkaVars
  <2>2. /\ msg[c] \in Messages /\ Owns(c, msg[c])
        /\ msg[c][2] \in Nat /\ committed[msg[c][1]] \in Nat /\ committed[msg[c][1]] <= msg[c][2]
    <3>1. msg[c] \in Messages /\ cpc[c] \in InHand
      BY <2>1 DEF Inv, Types, InHand
    <3>2. Owns(c, msg[c])
      BY <3>1 DEF HandledOnce
    <3>3. committed[msg[c][1]] <= msg[c][2]
      BY <3>1, <3>2 DEF Inv, LastPolled
    <3>4. msg[c][2] \in Nat /\ committed[msg[c][1]] \in Nat
      BY <3>1, MessagePair, LengthAssumption DEF Inv, Types
    <3> QED BY <3>1, <3>2, <3>3, <3>4
  <2>3. msg[c] \notin handled
    <3> SUFFICES ASSUME msg[c] \in handled PROVE FALSE
      OBVIOUS
    <3>1. ~(msg[c][2] < committed[msg[c][1]])
      BY <2>2
    <3>2. PICK d \in Consumers : cpc[d] = "commit" /\ msg[d] = msg[c]
      BY <3>1 DEF HandledOnce
    <3>3. Owns(d, msg[c])
      BY <3>2 DEF HandledOnce, InHand
    <3> QED BY <2>1, <2>2, <3>2, <3>3 DEF Owns
  <2>4. again' = {}
    BY <2>1, <2>3 DEF HandledOnce
  <2>5. cpc'[c] = "commit" /\ \A d \in Consumers \ {c} : cpc'[d] = cpc[d] /\ msg'[d] = msg[d]
    BY <2>1 DEF Inv, Types
  <2>6. \A d \in Consumers : cpc'[d] \in InHand => Owns(d, msg[d])'
    BY <2>1, <2>2, <2>5, OthersKeepOnce DEF Owns
  <2>7. ASSUME NEW m \in handled'
        PROVE  m[2] < committed'[m[1]] \/ \E d \in Consumers : cpc'[d] = "commit" /\ msg'[d] = m
    <3>1. CASE m = msg[c]
      BY <2>1, <2>5, <3>1
    <3>2. CASE m \in handled
      BY <2>1, <2>5, <3>2, OthersKeepOnce
    <3> QED BY <2>1, <2>7, <3>1, <3>2
  <2> QED BY <2>4, <2>6, <2>7 DEF HandledOnce
<1>3. CASE HandlerRaises(c) \/ Rejected(c)
  <2> SUFFICES ASSUME disturbed = 0 PROVE HandledOnce'
    BY <1>3 DEF HandledOnce, HandlerRaises, Rejected
  <2>1. /\ cpc[c] = "handle" /\ msg'[c] \in {msg[c], NoMessage}
        /\ cpc'[c] \in {"poll", "commitBad"}
        /\ \A d \in Consumers \ {c} : cpc'[d] = cpc[d] /\ msg'[d] = msg[d]
    BY <1>3 DEF HandlerRaises, Rejected, NextMessage, Inv, Types
  <2>2. UNCHANGED <<owner, committed, handled, again, disturbed>>
    BY <1>3 DEF HandlerRaises, Rejected, kafkaVars, history
  <2>3. cpc'[c] \in InHand => Owns(c, msg[c])'
    <3>1. cpc[c] \in InHand => Owns(c, msg[c])
      BY DEF HandledOnce
    <3>2. CASE HandlerRaises(c)
      BY <3>2 DEF HandlerRaises, NextMessage, InHand, Inv, Types
    <3>3. CASE Rejected(c)
      BY <2>1, <2>2, <3>1, <3>3 DEF Rejected, InHand, Owns
    <3> QED BY <1>3, <3>2, <3>3
  <2> QED BY <2>1, <2>2, <2>3, OthersKeepOnce DEF HandledOnce
<1>4. CASE Commit(c)
  <2> SUFFICES ASSUME disturbed = 0 PROVE HandledOnce'
    BY <1>4, CommitFacts DEF HandledOnce
  <2> DEFINE q == msg[c][1]
  <2>1. /\ q \in Partitions /\ committed[q] <= msg[c][2] /\ msg[c][2] \in Nat /\ committed[q] \in Nat
        /\ msg[c] = <<q, msg[c][2]>>
        /\ committed' = [committed EXCEPT ![q] = msg[c][2] + 1]
    <3>1. msg[c] \in Messages /\ committed[q] <= msg[c][2] /\ position[q] = msg[c][2] + 1
          /\ committed' = [committed EXCEPT ![q] = position[q]]
      BY <1>4, CommitFacts
    <3>2. q \in Partitions /\ msg[c][2] \in 0..Length - 1 /\ msg[c] = <<q, msg[c][2]>>
      BY <3>1, MessagePair
    <3>3. committed[q] \in 0..Length
      BY <3>2 DEF Inv, Types
    <3> QED BY <3>1, <3>2, <3>3, LengthAssumption
  <2>2. /\ cpc'[c] = "poll" /\ UNCHANGED <<owner, handled, again, disturbed>>
        /\ \A d \in Consumers \ {c} : cpc'[d] = cpc[d] /\ msg'[d] = msg[d]
    BY <1>4, CommitFacts DEF Inv, Types
  <2>3. ASSUME NEW m \in handled
        PROVE  m[2] < committed'[m[1]] \/ \E d \in Consumers : cpc'[d] = "commit" /\ msg'[d] = m
    <3>1. m \in Messages /\ m[1] \in Partitions /\ m[2] \in Nat /\ committed[m[1]] \in Nat
      <4>1. m \in Messages
        BY DEF Inv, Types
      <4> QED BY <4>1, MessagePair, LengthAssumption DEF Inv, Types
    <3>2. CASE m[2] < committed[m[1]]
      BY <2>1, <3>1, <3>2 DEF Inv, Types
    <3>3. CASE \E d \in Consumers : cpc[d] = "commit" /\ msg[d] = m
      <4>1. PICK d \in Consumers : cpc[d] = "commit" /\ msg[d] = m
        BY <3>3
      <4>2. CASE d = c
        <5>1. m[1] = q /\ committed'[q] = m[2] + 1
          BY <2>1, <4>1, <4>2 DEF Inv, Types
        <5> QED BY <3>1, <5>1
      <4>3. CASE d # c
        BY <2>2, <4>1, <4>3
      <4> QED BY <4>2, <4>3
    <3> QED BY <3>2, <3>3 DEF HandledOnce
  <2> QED BY <2>2, <2>3, OthersKeepOnce DEF HandledOnce, InHand
<1>5. CASE CommitFails(c) \/ CommitBadFails(c)
  <2> SUFFICES ASSUME disturbed' = 0 PROVE FALSE
    BY DEF HandledOnce
  <2>1. cpc[c] \in InHand /\ CommitRaises(c)
    BY <1>5 DEF CommitFails, CommitBadFails, InHand
  <2>2. disturbed \in Nat
    BY DisturbancesAssumption DEF Inv, Types
  <2>3. disturbed = 0
    BY <2>1, <2>2 DEF CommitRaises, Disturb
  <2> QED BY <2>1, <2>3 DEF HandledOnce, CommitRaises, Disturb
<1>6. CASE Close(c)
  BY <1>6, LeaveKeepsOnce DEF Close
<1> QED BY <1>1, <1>2, <1>3, <1>4, <1>5, <1>6 DEF Step

LEMMA OnceInductive == Inv /\ HandledOnce /\ [Next]_vars => HandledOnce'
<1> SUFFICES ASSUME Inv, HandledOnce, [Next]_vars PROVE HandledOnce'
  OBVIOUS
<1>0. disturbed \in Nat
  BY DisturbancesAssumption DEF Inv, Types
<1>1. ASSUME NEW p \in Partitions, Produced(p) PROVE HandledOnce'
  BY <1>1 DEF Produced, history, HandledOnce, Owns
<1>2. CASE \/ \E p \in Partitions : Revoke(p)
           \/ \E c \in Consumers : Crash(c)
  BY <1>0, <1>2 DEF Revoke, Crash, Disturb, HandledOnce
<1>3. ASSUME NEW p \in Partitions, NEW c \in Consumers, Assign(p, c) PROVE HandledOnce'
  <2> SUFFICES ASSUME disturbed = 0 PROVE HandledOnce'
    BY <1>3 DEF HandledOnce, Assign
  <2>1. owner[p] = NoOne /\ owner' = [owner EXCEPT ![p] = c]
        /\ UNCHANGED <<committed, cpc, msg, handled, again>>
    BY <1>3 DEF Assign, history
  <2>2. ASSUME NEW d \in Consumers, cpc[d] \in InHand PROVE Owns(d, msg[d])'
    <3>1. msg[d][1] \in Partitions /\ owner[msg[d][1]] = d
      BY <2>2, MessagePair DEF HandledOnce, Owns, Inv, Types, InHand
    <3> QED BY <2>1, <3>1, NothingAssumption DEF Owns, Inv, Types
  <2> QED BY <2>1, <2>2 DEF HandledOnce
<1>4. ASSUME NEW c \in Consumers, Start(c) \/ Stop(c) PROVE HandledOnce'
  <2>1. UNCHANGED <<owner, committed, msg, handled, again, disturbed>>
    BY <1>4 DEF Start, Stop, kafkaVars, history
  <2>2. \A d \in Consumers : cpc'[d] = cpc[d] \/ (cpc[d] = "down" /\ cpc'[d] = "poll")
    BY <1>4 DEF Start, Stop, Inv, Types
  <2> QED BY <2>1, <2>2 DEF HandledOnce, Owns, InHand
<1>5. ASSUME NEW c \in Consumers, PollRaises(c) PROVE HandledOnce'
  BY <1>5, LeaveKeepsOnce DEF PollRaises
<1>6. CASE UNCHANGED vars
  BY <1>6 DEF vars, kafkaVars, history, HandledOnce, Owns
<1> QED BY <1>1, <1>2, <1>3, <1>4, <1>5, <1>6, StepKeepsOnce DEF Next

\* However often handlers raise, processes stop and partitions change hands in
\* peace, no message is handled twice.
THEOREM RepeatedOnlyAfterDisturbanceAlways == Spec => []RepeatedOnlyAfterDisturbance
<1>1. Init => HandledOnce
  BY DEF Init, HandledOnce, InHand
<1>2. Inv /\ HandledOnce /\ [Next]_vars => HandledOnce'
  BY OnceInductive
<1>3. Inv /\ HandledOnce => RepeatedOnlyAfterDisturbance
  BY DisturbancesAssumption DEF Inv, Types, HandledOnce, RepeatedOnlyAfterDisturbance
<1> QED BY <1>1, <1>2, <1>3, InvAlways, PTL DEF Spec
============================================================================
