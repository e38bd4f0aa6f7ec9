------------------------ MODULE ThreatIntelConsumer ------------------------
(***************************************************************************)
(* ThreatIntelConsumer of src/streaming/consumer.py: the processes of one  *)
(* consumer group, each a poll - handle - commit loop, and what Kafka does *)
(* around them: it hands partitions out, takes them away from a member it  *)
(* believes dead or slow, and keeps the committed offsets.                 *)
(*                                                                         *)
(* Auto-commit is off.  Within one assignment poll() only moves forward;   *)
(* what was not committed is read again only after the next assignment.    *)
(***************************************************************************)
EXTENDS Integers

CONSTANTS
  Consumers,       \* processes of the group
  Partitions,      \* partitions of the topic
  Length,          \* messages a partition will hold: offsets 0..Length-1
  NotJson,         \* <<partition, offset>> of messages json.loads rejects
  NoOne,           \* the owner of an unassigned partition
  NoMessage,
  MaxDisturbances  \* bound: crashes, rebalances, failed commits

Messages == Partitions \X (0..Length - 1)

ASSUME LengthAssumption == Length \in Nat
ASSUME NotJsonAssumption == NotJson \subseteq Messages
ASSUME NothingAssumption == NoOne \notin Consumers /\ NoMessage \notin Messages
ASSUME DisturbancesAssumption == MaxDisturbances \in Nat

VARIABLES
  end,         \* end[p]: the next offset a producer writes
  owner,       \* owner[p]: the member p is assigned to
  position,    \* position[p]: the next offset its owner polls
  committed,   \* committed[p]: where the next owner begins
  cpc,         \* where a process is
  running,     \* _running
  msg,         \* the message in hand
  handled,     \* history: messages a handler call returned for
  again,       \* history: those it returned for twice
  raised,      \* history: those for which "kafka_handler_failed" was logged
  disturbed    \* disturbances so far

kafkaVars == <<end, owner, position, committed>>
history == <<handled, again, raised>>
vars == <<kafkaVars, cpc, running, msg, history, disturbed>>

Init ==
  /\ end = [p \in Partitions |-> 0]
  /\ owner = [p \in Partitions |-> NoOne]
  /\ position = [p \in Partitions |-> 0]
  /\ committed = [p \in Partitions |-> 0]
  /\ cpc = [c \in Consumers |-> "down"]
  /\ running = [c \in Consumers |-> FALSE]
  /\ msg = [c \in Consumers |-> NoMessage]
  /\ handled = {} /\ again = {} /\ raised = {}
  /\ disturbed = 0

Disturb == disturbed < MaxDisturbances /\ disturbed' = disturbed + 1

Owns(c, m) == owner[m[1]] = c

(* Kafka *)

Produced(p) ==
  /\ end[p] < Length
  /\ end' = [end EXCEPT ![p] = @ + 1]
  /\ UNCHANGED <<owner, position, committed, cpc, running, msg, history, disturbed>>

\* Mutant: auto.offset.reset = latest.
AssignLatest(p, c) ==
  /\ owner[p] = NoOne /\ cpc[c] = "poll"
  /\ owner' = [owner EXCEPT ![p] = c]
  /\ position' = [position EXCEPT ![p] = IF committed[p] = 0 THEN end[p] ELSE committed[p]]
  /\ UNCHANGED <<end, committed, cpc, running, msg, history, disturbed>>

\* A member learns of an assignment inside poll().
\* auto.offset.reset = earliest: without a committed offset, from the start.
Assign(p, c) ==
  /\ owner[p] = NoOne /\ cpc[c] = "poll"
  /\ owner' = [owner EXCEPT ![p] = c]
  /\ position' = [position EXCEPT ![p] = committed[p]]
  /\ UNCHANGED <<end, committed, cpc, running, msg, history, disturbed>>

\* A member joins, misses its session timeout, or handles for longer than
\* max.poll.interval.ms, with a message in hand or not.
Revoke(p) ==
  /\ owner[p] # NoOne
  /\ Disturb
  /\ owner' = [owner EXCEPT ![p] = NoOne]
  /\ UNCHANGED <<end, position, committed, cpc, running, msg, history>>

(* The loop *)

Start(c) ==
  /\ cpc[c] = "down"
  /\ cpc' = [cpc EXCEPT ![c] = "poll"]
  /\ running' = [running EXCEPT ![c] = TRUE]
  /\ UNCHANGED <<kafkaVars, msg, history, disturbed>>

\* The process is gone, and with it its assignment.
Leave(c) ==
  /\ cpc' = [cpc EXCEPT ![c] = "down"]
  /\ running' = [running EXCEPT ![c] = FALSE]
  /\ msg' = [msg EXCEPT ![c] = NoMessage]
  /\ owner' = [p \in Partitions |-> IF owner[p] = c THEN NoOne ELSE owner[p]]
  /\ UNCHANGED <<end, position, committed, history>>

\* Mutant: the offset is committed when the message arrives.
PollCommits(c) ==
  /\ cpc[c] = "poll" /\ running[c]
  /\ \E p \in Partitions :
       /\ owner[p] = c /\ position[p] < end[p]
       /\ msg' = [msg EXCEPT ![c] = <<p, position[p]>>]
       /\ position' = [position EXCEPT ![p] = @ + 1]
       /\ committed' = [committed EXCEPT ![p] = position[p] + 1]
  /\ cpc' = [cpc EXCEPT ![c] = "handle"]
  /\ UNCHANGED <<end, owner, running, history, disturbed>>

Poll(c) ==
  /\ cpc[c] = "poll" /\ running[c]
  /\ \E p \in Partitions :
       /\ owner[p] = c /\ position[p] < end[p]
       /\ msg' = [msg EXCEPT ![c] = <<p, position[p]>>]
       /\ position' = [position EXCEPT ![p] = @ + 1]
  /\ cpc' = [cpc EXCEPT ![c] = "handle"]
  /\ UNCHANGED <<end, owner, committed, running, history, disturbed>>

\* poll() returns an error that is not the end of the partition: consume()
\* raises, and its finally closes the consumer.
PollRaises(c) ==
  /\ cpc[c] = "poll" /\ running[c]
  /\ Leave(c)
  /\ UNCHANGED disturbed

Handled(c) ==
  /\ handled' = handled \cup {msg[c]}
  /\ again' = again \cup ({msg[c]} \cap handled)

HandlerReturns(c) ==
  /\ cpc[c] = "handle" /\ msg[c] \notin NotJson
  /\ Handled(c)
  /\ cpc' = [cpc EXCEPT ![c] = "commit"]
  /\ UNCHANGED <<kafkaVars, running, msg, raised, disturbed>>

\* Back to the loop with empty hands.
NextMessage(c) ==
  /\ cpc' = [cpc EXCEPT ![c] = "poll"]
  /\ msg' = [msg EXCEPT ![c] = NoMessage]
  /\ UNCHANGED running

\* The handler, or decoding the bytes, raises: logged, not committed, and the
\* loop goes on with the next message.
HandlerRaises(c) ==
  /\ cpc[c] = "handle" /\ msg[c] \notin NotJson
  /\ raised' = raised \cup {msg[c]}
  /\ NextMessage(c)
  /\ UNCHANGED <<kafkaVars, handled, again, disturbed>>

\* json.loads raises JSONDecodeError.
Rejected(c) ==
  /\ cpc[c] = "handle" /\ msg[c] \in NotJson
  /\ cpc' = [cpc EXCEPT ![c] = "commitBad"]
  /\ UNCHANGED <<kafkaVars, running, msg, history, disturbed>>

\* Mutant: the offset of the message itself is committed.
CommitSameOffset(c) ==
  /\ cpc[c] \in {"commit", "commitBad"}
  /\ Owns(c, msg[c])
  /\ committed' = [committed EXCEPT ![msg[c][1]] = msg[c][2]]
  /\ NextMessage(c)
  /\ UNCHANGED <<end, owner, position, history, disturbed>>

\* A synchronous commit of the message's offset + 1.
Commit(c) ==
  /\ cpc[c] \in {"commit", "commitBad"}
  /\ Owns(c, msg[c])
  /\ committed' = [committed EXCEPT ![msg[c][1]] = msg[c][2] + 1]
  /\ NextMessage(c)
  /\ UNCHANGED <<end, owner, position, history, disturbed>>

\* Kafka refuses the commit of a member that lost the partition; it may fail
\* for an owner too.
CommitRaises(c) ==
  IF Owns(c, msg[c]) THEN Disturb ELSE UNCHANGED disturbed

\* ... inside the try: logged as a failed handler, and the loop goes on.
CommitFails(c) ==
  /\ cpc[c] = "commit"
  /\ CommitRaises(c)
  /\ raised' = raised \cup {msg[c]}
  /\ NextMessage(c)
  /\ UNCHANGED <<kafkaVars, handled, again>>

\* ... inside the except clause of a bad message: nothing catches it.
CommitBadFails(c) ==
  /\ cpc[c] = "commitBad"
  /\ CommitRaises(c)
  /\ Leave(c)

\* stop(), or the SIGTERM handler; the loop reads the flag at its head.
Stop(c) ==
  /\ cpc[c] # "down" /\ running[c]
  /\ running' = [running EXCEPT ![c] = FALSE]
  /\ UNCHANGED <<kafkaVars, cpc, msg, history, disturbed>>

Close(c) ==
  /\ cpc[c] = "poll" /\ ~running[c]
  /\ Leave(c)
  /\ UNCHANGED disturbed

Crash(c) ==
  /\ cpc[c] # "down"
  /\ Disturb
  /\ Leave(c)

Step(c) ==
  \/ Poll(c) \/ HandlerReturns(c) \/ HandlerRaises(c) \/ Rejected(c)
  \/ Commit(c) \/ CommitFails(c) \/ CommitBadFails(c) \/ Close(c)

Next ==
  \/ \E p \in Partitions : Produced(p) \/ Revoke(p)
  \/ \E p \in Partitions, c \in Consumers : Assign(p, c)
  \/ \E c \in Consumers :
       Step(c) \/ Start(c) \/ PollRaises(c) \/ Stop(c) \/ Crash(c)

\* A process runs, and Kafka assigns every partition while there is a member.
Fairness ==
  /\ \A c \in Consumers : WF_vars(Step(c))
  /\ \A p \in Partitions : WF_vars(\E c \in Consumers : Assign(p, c))

Spec == Init /\ [][Next]_vars /\ Fairness

----------------------------------------------------------------------------
\* Every variable keeps its type, and only a live process has an assignment.
TypeOK ==
  /\ end \in [Partitions -> 0..Length]
  /\ owner \in [Partitions -> Consumers \cup {NoOne}]
  /\ position \in [Partitions -> 0..Length]
  /\ committed \in [Partitions -> 0..Length]
  /\ cpc \in [Consumers -> {"down", "poll", "handle", "commit", "commitBad"}]
  /\ running \in [Consumers -> BOOLEAN]
  /\ \A c \in Consumers :
       msg[c] \in IF cpc[c] \in {"down", "poll"} THEN {NoMessage} ELSE Messages
  /\ handled \subseteq Messages /\ raised \subseteq Messages
  /\ again \subseteq handled
  /\ disturbed \in 0..MaxDisturbances
  /\ \A p \in Partitions : owner[p] # NoOne => cpc[owner[p]] # "down"

\* "no silent data loss": a message that no later process will read again was
\* handled, or an error was logged for it, whoever crashed or lost a partition.
NoSilentLoss ==
  \A m \in Messages \ NotJson : m[2] < committed[m[1]] => m \in handled \cup raised

\* The committed offset never falls, though a member that lost a partition may
\* still be on its way to commit.
CommittedNeverFalls ==
  [][\A p \in Partitions : committed'[p] >= committed[p]]_vars

\* A message is handled a second time only after a crash, a rebalance or a
\* failed commit: a handler that raised repeats nothing that succeeded.
RepeatedOnlyAfterDisturbance == again # {} => disturbed > 0

\* "Commits offsets only after successful processing (at-least-once delivery)":
\* a message behind the committed offset was processed, unless it is no JSON.
AtLeastOnce ==
  \A m \in Messages \ NotJson : m[2] < committed[m[1]] => m \in handled

\* Once the processes keep running, every message of the topic is handled, or
\* fails with an error logged, or is no JSON and skipped: neither a failure nor
\* a lost partition holds the others up.
EveryMessageSettled ==
  <>[](\A c \in Consumers : running[c]) =>
    \A m \in Messages :
      m[2] < end[m[1]] ~> m \in handled \cup raised \/ m[2] < committed[m[1]]
============================================================================
