------------------------ MODULE ThreatIntelProducer ------------------------
(***************************************************************************)
(* The Kafka producer of src/streaming/producer.py: produce_transaction    *)
(* with its dead-letter buffer, and produce_alert.                         *)
(*                                                                         *)
(* Messages are numbered by the call that produced them.  Two programs own *)
(* a producer: async_pipeline only calls produce_transaction,              *)
(* scoring_pipeline only produce_alert.  A call is one synchronous         *)
(* function, but librdkafka delivers from a thread of its own, so its      *)
(* steps and the broker's interleave with the iterations of the drain loop.*)
(***************************************************************************)
EXTENDS Integers, SequencesExt

CONSTANTS
  BufferMaxLen,   \* _BUFFER_MAXLEN, the maxlen of the deque
  QueueMax,       \* capacity of librdkafka's own queue
  MaxCalls,       \* bound: number of produce calls explored
  PollMayRaise    \* whether poll(0) may raise after produce() succeeded

ASSUME BufferAssumption == BufferMaxLen \in Nat \ {0}
ASSUME QueueAssumption == QueueMax \in Nat \ {0}
ASSUME CallsAssumption == MaxCalls \in Nat
ASSUME PollAssumption == PollMayRaise \in BOOLEAN

VARIABLES
  program,    \* the program that owns the producer
  calls,      \* number of the last call
  pc,         \* where the running call is
  buffer,     \* self._buffer
  inflight,   \* accepted by produce(), not yet reported on
  topic,      \* delivered, in order
  failed,     \* reported by _delivery_callback with an error
  broker,     \* "up" or "down"
  evicted,    \* history: pushed out of the full deque
  pollRaised, \* history: poll(0) raised after produce() took them
  drained,    \* history: last message _drain_buffer handed over
  clean       \* history: nothing raised during the running (or last) call

library == <<topic, failed, broker>>
history == <<evicted, pollRaised, drained, clean>>
vars == <<program, calls, pc, buffer, inflight, library, history>>

Messages == 1..MaxCalls
Programs == {"async_pipeline", "scoring_pipeline"}
Accepted == ToSet(inflight) \cup ToSet(topic) \cup failed

Init ==
  /\ program \in Programs
  /\ calls = 0 /\ pc = "ready"
  /\ buffer = <<>> /\ inflight = <<>> /\ topic = <<>>
  /\ failed = {} /\ evicted = {} /\ pollRaised = {}
  /\ drained = 0 /\ clean = TRUE /\ broker = "up"

----------------------------------------------------------------------------
(* librdkafka, as the module uses it *)

CanAccept == Len(inflight) < QueueMax

\* produce(): the message enters the local queue.
Send(m) == CanAccept /\ inflight' = Append(inflight, m)

\* produce() raises BufferError on a full queue, KafkaException in an outage.
CanRaise == ~CanAccept \/ broker = "down"

\* The background thread hands the oldest message to a live broker, or gives
\* it up in an outage: _delivery_callback then only logs the error.
Deliver ==
  /\ inflight # <<>>
  /\ inflight' = Tail(inflight)
  /\ \/ broker = "up" /\ topic' = Append(topic, Head(inflight)) /\ UNCHANGED failed
     \/ broker = "down" /\ failed' = failed \cup {Head(inflight)} /\ UNCHANGED topic
  /\ UNCHANGED <<program, calls, pc, buffer, broker, history>>

BrokerChanges ==
  /\ broker' \in {"up", "down"} \ {broker}
  /\ UNCHANGED <<program, calls, pc, buffer, inflight, topic, failed, history>>

----------------------------------------------------------------------------
(* produce_transaction *)

\* Mutant: a full buffer turns the new message away.
PushKeepOldest(m) ==
  /\ buffer' = IF Len(buffer) = BufferMaxLen THEN buffer ELSE Append(buffer, m)
  /\ evicted' = evicted \cup (IF Len(buffer) = BufferMaxLen THEN {m} ELSE {})

\* Mutant: appendleft.
PushLeft(m) == buffer' = <<m>> \o buffer /\ UNCHANGED evicted

\* deque.append: a full deque pushes its oldest element out.
Push(m) ==
  IF Len(buffer) = BufferMaxLen
  THEN buffer' = Append(Tail(buffer), m) /\ evicted' = evicted \cup {Head(buffer)}
  ELSE buffer' = Append(buffer, m) /\ UNCHANGED evicted

BeginTransaction ==
  /\ pc = "ready" /\ program = "async_pipeline"
  /\ calls < MaxCalls
  /\ calls' = calls + 1
  /\ pc' = "drain"
  /\ clean' = TRUE
  /\ UNCHANGED <<program, buffer, inflight, library, evicted, pollRaised, drained>>

\* Mutant: popleft is forgotten.
DrainOneKeepsHead ==
  /\ pc = "drain" /\ buffer # <<>>
  /\ Send(Head(buffer)) /\ drained' = Head(buffer)
  /\ UNCHANGED <<program, calls, pc, buffer, library, evicted, pollRaised, clean>>

\* Mutant: one buffered message per call (if instead of while).
DrainOneOnly ==
  /\ pc = "drain" /\ buffer # <<>>
  /\ Send(Head(buffer)) /\ drained' = Head(buffer)
  /\ buffer' = Tail(buffer) /\ pc' = "produce"
  /\ UNCHANGED <<program, calls, library, evicted, pollRaised, clean>>

\* One iteration of the drain loop: produce, poll, popleft.
DrainOne ==
  /\ pc = "drain" /\ buffer # <<>>
  /\ Send(Head(buffer)) /\ drained' = Head(buffer)
  /\ buffer' = Tail(buffer)
  /\ UNCHANGED <<program, calls, pc, library, evicted, pollRaised, clean>>

\* produce() took the head but poll(0) raised: the head is not popped.
DrainPollRaises ==
  /\ pc = "drain" /\ buffer # <<>> /\ PollMayRaise
  /\ Send(Head(buffer)) /\ drained' = Head(buffer)
  /\ pollRaised' = pollRaised \cup {Head(buffer)}
  /\ clean' = FALSE /\ pc' = "produce"
  /\ UNCHANGED <<program, calls, buffer, library, evicted>>

\* Mutant: popleft before produce().
DrainStopsAfterPop ==
  /\ pc = "drain" /\ buffer # <<>> /\ CanRaise
  /\ clean' = FALSE /\ pc' = "produce" /\ buffer' = Tail(buffer)
  /\ UNCHANGED <<program, calls, inflight, library, evicted, pollRaised, drained>>

\* Mutant: continue instead of break.
DrainStopsNever ==
  /\ pc = "drain" /\ buffer # <<>> /\ CanRaise
  /\ clean' = FALSE
  /\ UNCHANGED <<program, calls, pc, buffer, inflight, library, evicted, pollRaised, drained>>

\* produce() raised: the loop breaks with the rest still buffered.
DrainStops ==
  /\ pc = "drain" /\ buffer # <<>> /\ CanRaise
  /\ clean' = FALSE /\ pc' = "produce"
  /\ UNCHANGED <<program, calls, buffer, inflight, library, evicted, pollRaised, drained>>

DrainEnds ==
  /\ pc = "drain" /\ buffer = <<>>
  /\ pc' = "produce"
  /\ UNCHANGED <<program, calls, buffer, inflight, library, history>>

\* The call's own message, whether or not the drain got through.
ProduceNew ==
  /\ pc = "produce" /\ pc' = "ready"
  /\ Send(calls)
  /\ UNCHANGED <<program, calls, buffer, library, history>>

\* Anything raised, by produce() or by the poll(0) after it, buffers the message.
ProduceNewRaises ==
  /\ pc = "produce" /\ pc' = "ready"
  /\ \/ CanRaise /\ UNCHANGED <<inflight, pollRaised>>
     \/ PollMayRaise /\ Send(calls) /\ pollRaised' = pollRaised \cup {calls}
  /\ Push(calls) /\ clean' = FALSE
  /\ UNCHANGED <<program, calls, library, drained>>

----------------------------------------------------------------------------
(* produce_alert: no drain before it and no buffer behind it *)

BeginAlert ==
  /\ pc = "ready" /\ program = "scoring_pipeline"
  /\ calls < MaxCalls
  /\ calls' = calls + 1

ProduceAlert ==
  /\ BeginAlert /\ Send(calls + 1)
  /\ UNCHANGED <<program, pc, buffer, library, history>>

\* KafkaException is logged, anything else is left to the caller; an alert
\* that produce() did not take is in no queue.
ProduceAlertRaises ==
  /\ BeginAlert
  /\ \/ CanRaise /\ UNCHANGED <<inflight, pollRaised>>
     \/ PollMayRaise /\ Send(calls + 1) /\ pollRaised' = pollRaised \cup {calls + 1}
  /\ UNCHANGED <<program, pc, buffer, library, evicted, drained, clean>>

Drain == DrainOne \/ DrainPollRaises \/ DrainStops \/ DrainEnds
Produce == ProduceNew \/ ProduceNewRaises

Next ==
  \/ BeginTransaction \/ Drain \/ Produce
  \/ ProduceAlert \/ ProduceAlertRaises
  \/ Deliver \/ BrokerChanges

\* A call runs to its end once begun: nothing awaits inside it.
Fairness == WF_vars(Drain) /\ WF_vars(Produce)

Spec == Init /\ [][Next]_vars /\ Fairness

----------------------------------------------------------------------------
\* Number of calls that have returned.
Returned == IF pc = "ready" THEN calls ELSE calls - 1

Occurrences(m, s) == Cardinality({i \in DOMAIN s : s[i] = m})

\* Every variable keeps its type, and the deque its maxlen.
TypeOK ==
  /\ program \in Programs
  /\ calls \in 0..MaxCalls
  /\ pc \in {"ready", "drain", "produce"}
  /\ buffer \in Seq(Messages) /\ Len(buffer) <= BufferMaxLen
  /\ inflight \in Seq(Messages)
  /\ topic \in Seq(Messages)
  /\ failed \in SUBSET Messages
  /\ evicted \in SUBSET Messages
  /\ pollRaised \in SUBSET Messages
  /\ drained \in 0..MaxCalls
  /\ clean \in BOOLEAN
  /\ broker \in {"up", "down"}

\* The last BufferMaxLen transaction calls that returned are each still in
\* the buffer or were handed to librdkafka: an outage that lasts fewer calls
\* than the deque is long evicts nothing ("we keep the most recent N").
RecentTransactionsKept ==
  program = "async_pipeline" =>
    \A m \in 1..Returned :
      m > Returned - BufferMaxLen => m \in ToSet(buffer) \cup Accepted

\* No transaction is forgotten without a trace: once its call returned it was
\* accepted, is buffered, or was evicted by the full deque.
TransactionsAccounted ==
  program = "async_pipeline" =>
    \A m \in 1..Returned : m \in ToSet(buffer) \cup Accepted \cup evicted

\* Buffered messages leave in the order of their calls: the buffer is sorted
\* and nothing in it is older than what was drained before.
DrainsInCallOrder ==
  /\ \A i, j \in DOMAIN buffer : i < j => buffer[i] < buffer[j]
  /\ \A i \in DOMAIN buffer : drained <= buffer[i]

\* Only a poll(0) that raised after produce() had succeeded makes
\* the producer send a transaction twice; an alert is never sent twice.
DuplicatesOnlyAfterPollError ==
  \A m \in Messages :
    program = "scoring_pipeline" \/ m \notin pollRaised =>
      Occurrences(m, buffer \o inflight \o topic) <= 1

\* A call during which nothing raised leaves the buffer empty, however long
\* the backlog was: the drain is not limited to one message per call.
HealthyCallEmptiesBuffer ==
  pc = "ready" /\ clean => buffer = <<>>

\* The drain loop ends: every call returns, also when produce() keeps raising.
EveryCallReturns == pc = "drain" ~> pc = "ready"

\* "a Kafka outage delays alerts rather than losing them": an alert whose call
\* returned is either accepted or kept for a later attempt.
AlertsDelayedNotLost ==
  program = "scoring_pipeline" =>
    \A m \in 1..Returned : m \in Accepted \cup ToSet(buffer)
============================================================================
