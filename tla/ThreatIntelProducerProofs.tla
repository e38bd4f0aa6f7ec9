--------------------- MODULE ThreatIntelProducerProofs ---------------------
(***************************************************************************)
(* Safety of ThreatIntelProducer for every deque length, queue capacity    *)
(* and number of calls.                                                    *)
(***************************************************************************)
EXTENDS ThreatIntelProducer, DataLemmas, FiniteSetTheorems, TLAPS

----------------------------------------------------------------------------
(* Type correctness.  A call that is under way belongs to async_pipeline    *)
(* and has a number: without it the message that ProduceNew sends would    *)
(* have no type.                                                           *)

CallUnderWay == pc # "ready" => program = "async_pipeline" /\ calls > 0

LEMMA HeadTailType ==
  ASSUME NEW S, NEW s \in Seq(S), s # <<>>
  PROVE  Head(s) \in S /\ Tail(s) \in Seq(S) /\ Len(Tail(s)) = Len(s) - 1
OBVIOUS

LEMMA AddElement ==
  ASSUME NEW S, NEW A \in SUBSET S, NEW x \in S
  PROVE  A \cup {x} \in SUBSET S
OBVIOUS

LEMMA TypeInit == Init => TypeOK /\ CallUnderWay
BY BufferAssumption, CallsAssumption
   DEF Init, TypeOK, CallUnderWay, Messages, Programs

LEMMA TypeStep == TypeOK /\ CallUnderWay /\ [Next]_vars => (TypeOK /\ CallUnderWay)'
<1> SUFFICES ASSUME TypeOK, CallUnderWay, [Next]_vars PROVE (TypeOK /\ CallUnderWay)'
  OBVIOUS
<1> USE BufferAssumption, CallsAssumption DEF TypeOK, CallUnderWay
<1>1. CASE BeginTransaction
  BY <1>1 DEF BeginTransaction, library
<1>2. CASE DrainOne
  BY <1>2, HeadTailType DEF DrainOne, Send, library, Messages
<1>3. CASE DrainPollRaises
  <2>1. Head(buffer) \in Messages
    BY <1>3, HeadTailType DEF DrainPollRaises
  <2>2. pollRaised' \in SUBSET Messages
    BY <1>3, <2>1, AddElement DEF DrainPollRaises
  <2>3. inflight' \in Seq(Messages) /\ drained' \in 0..MaxCalls
    BY <1>3, <2>1 DEF DrainPollRaises, Send, Messages
  <2> QED BY <1>3, <2>2, <2>3 DEF DrainPollRaises, library
<1>4. CASE DrainStops
  BY <1>4 DEF DrainStops, library
<1>5. CASE DrainEnds
  BY <1>5 DEF DrainEnds, library, history
<1>6. CASE ProduceNew
  BY <1>6 DEF ProduceNew, Send, library, history, Messages
<1>7. CASE ProduceNewRaises
  <2>1. calls \in Messages
    BY <1>7 DEF ProduceNewRaises, Messages
  <2>2. inflight' \in Seq(Messages) /\ pollRaised' \in SUBSET Messages
    <3>1. CASE UNCHANGED <<inflight, pollRaised>>
      BY <3>1
    <3>2. CASE Send(calls) /\ pollRaised' = pollRaised \cup {calls}
      BY <2>1, <3>2, AddElement DEF Send
    <3> QED BY <1>7, <3>1, <3>2 DEF ProduceNewRaises
  <2>3. /\ buffer' \in Seq(Messages) /\ Len(buffer') <= BufferMaxLen
        /\ evicted' \in SUBSET Messages
    <3>1. CASE Len(buffer) = BufferMaxLen
      <4>1. buffer # <<>>
        BY <3>1
      <4>2. /\ Head(buffer) \in Messages /\ Tail(buffer) \in Seq(Messages)
            /\ Len(Tail(buffer)) = Len(buffer) - 1
        BY <4>1, HeadTailType
      <4>3. buffer' = Append(Tail(buffer), calls) /\ evicted' = evicted \cup {Head(buffer)}
        BY <1>7, <3>1 DEF ProduceNewRaises, Push
      <4>4. evicted' \in SUBSET Messages
        BY <4>2, <4>3, AddElement
      <4> QED BY <2>1, <3>1, <4>2, <4>3, <4>4
    <3>2. CASE Len(buffer) # BufferMaxLen
      <4>1. buffer' = Append(buffer, calls) /\ evicted' = evicted
        BY <1>7, <3>2 DEF ProduceNewRaises, Push
      <4> QED BY <2>1, <3>2, <4>1
    <3> QED BY <3>1, <3>2
  <2> QED BY <1>7, <2>2, <2>3 DEF ProduceNewRaises, library
<1>8. CASE ProduceAlert
  BY <1>8 DEF ProduceAlert, BeginAlert, Send, library, history, Messages
<1>9. CASE ProduceAlertRaises
  <2>1. calls' \in Messages /\ calls' = calls + 1
    BY <1>9 DEF ProduceAlertRaises, BeginAlert, Messages
  <2>2. inflight' \in Seq(Messages) /\ pollRaised' \in SUBSET Messages
    <3>1. CASE UNCHANGED <<inflight, pollRaised>>
      BY <3>1
    <3>2. CASE Send(calls + 1) /\ pollRaised' = pollRaised \cup {calls + 1}
      BY <2>1, <3>2, AddElement DEF Send
    <3> QED BY <1>9, <3>1, <3>2 DEF ProduceAlertRaises
  <2> QED BY <1>9, <2>1, <2>2 DEF ProduceAlertRaises, BeginAlert, library
<1>10. CASE Deliver
  <2>1. Head(inflight) \in Messages /\ Tail(inflight) \in Seq(Messages)
    BY <1>10, HeadTailType DEF Deliver
  <2>2. topic' \in Seq(Messages) /\ failed' \in SUBSET Messages
    <3>1. CASE topic' = Append(topic, Head(inflight)) /\ UNCHANGED failed
      BY <2>1, <3>1
    <3>2. CASE failed' = failed \cup {Head(inflight)} /\ UNCHANGED topic
      BY <2>1, <3>2, AddElement
    <3> QED BY <1>10, <3>1, <3>2 DEF Deliver
  <2> QED BY <1>10, <2>1, <2>2 DEF Deliver, history
<1>11. CASE BrokerChanges
  BY <1>11 DEF BrokerChanges, history
<1>12. CASE UNCHANGED vars
  BY <1>12 DEF vars, library, history
<1> QED
  BY <1>1, <1>2, <1>3, <1>4, <1>5, <1>6, <1>7, <1>8, <1>9, <1>10, <1>11, <1>12
     DEF Next, Drain, Produce

\* Every variable keeps its type and the deque its maxlen.
THEOREM TypeCorrect == Spec => []TypeOK
BY TypeInit, TypeStep, PTL DEF Spec

----------------------------------------------------------------------------
(* The order and the age of what is buffered.  The buffer holds distinct    *)
(* calls in increasing order, so its i-th message lies at least             *)
(* Len(buffer) - i calls in the past: a message pushed out of a full deque  *)
(* is BufferMaxLen calls old.                                               *)

BufferGaps ==
  \A i, j \in 1..Len(buffer) : i < j => buffer[j] - buffer[i] >= j - i

BufferReturned == \A i \in 1..Len(buffer) : buffer[i] <= Returned

DrainedFirst ==
  /\ drained <= Returned
  /\ \A i \in 1..Len(buffer) : drained <= buffer[i]

EvictedOld == \A m \in evicted : m <= Returned - BufferMaxLen

CleanEmpty == pc # "drain" /\ clean => buffer = <<>>

NoAlertBuffered == program = "scoring_pipeline" => buffer = <<>>

BufferInv ==
  /\ TypeOK /\ CallUnderWay
  /\ BufferGaps /\ BufferReturned /\ DrainedFirst /\ EvictedOld
  /\ CleanEmpty /\ NoAlertBuffered

LEMMA BufferInit == Init => BufferInv
<1> SUFFICES ASSUME Init PROVE BufferInv
  OBVIOUS
<1>1. TypeOK /\ CallUnderWay
  BY TypeInit
<1>2. Len(buffer) = 0 /\ buffer = <<>> /\ evicted = {} /\ drained = 0 /\ Returned = 0
  BY DEF Init, Returned
<1> QED BY <1>1, <1>2 DEF BufferInv, BufferGaps, BufferReturned, DrainedFirst,
                          EvictedOld, CleanEmpty, NoAlertBuffered

LEMMA ElementsAreCalls ==
  ASSUME buffer \in Seq(Messages)
  PROVE  \A i \in 1..Len(buffer) : buffer[i] \in Int /\ buffer[i] \in Messages
<1>1. \A i \in 1..Len(buffer) : buffer[i] \in Messages
  OBVIOUS
<1> QED BY <1>1 DEF Messages

\* What a step that leaves the deque alone keeps.
LEMMA BufferFrame ==
  ASSUME BufferInv, UNCHANGED <<buffer, evicted>>,
         Returned' \in Int, Returned' >= Returned, drained' = drained
  PROVE  (BufferGaps /\ BufferReturned /\ DrainedFirst /\ EvictedOld)'
<1> USE BufferAssumption DEF BufferInv, TypeOK
<1>1. drained \in Int /\ Returned \in Int /\ \A m \in evicted : m \in Int
  <2>1. calls \in Int /\ drained \in Int
    BY DEF Messages
  <2>2. Returned \in Int
    BY <2>1 DEF Returned
  <2>3. \A m \in evicted : m \in Messages
    OBVIOUS
  <2> QED BY <2>1, <2>2, <2>3 DEF Messages
<1>2. \A i \in 1..Len(buffer) : buffer[i] \in Int
  BY ElementsAreCalls
<1>3. BufferGaps'
  BY DEF BufferGaps
<1>4. BufferReturned' /\ DrainedFirst'
  BY <1>1, <1>2 DEF BufferReturned, DrainedFirst
<1>5. EvictedOld'
  <2>1. ASSUME NEW m \in evicted' PROVE m <= Returned' - BufferMaxLen
    BY <1>1, <2>1 DEF EvictedOld
  <2> QED BY <2>1 DEF EvictedOld
<1> QED BY <1>3, <1>4, <1>5

\* popleft: what remains was behind the message handed over.
LEMMA BufferPop ==
  ASSUME BufferInv, buffer # <<>>, buffer' = Tail(buffer), Returned' = Returned,
         drained' = Head(buffer), UNCHANGED evicted
  PROVE  (BufferGaps /\ BufferReturned /\ DrainedFirst /\ EvictedOld)'
<1> USE BufferAssumption DEF BufferInv, TypeOK
<1>1. /\ Len(buffer) \in Nat /\ Len(buffer) >= 1
      /\ \A i \in 1..Len(buffer) : buffer[i] \in Int
  BY ElementsAreCalls
<1>2. Len(buffer') = Len(buffer) - 1 /\ drained' = buffer[1]
  BY <1>1
<1>3. \A i \in 1..Len(buffer') : buffer'[i] = buffer[i + 1] /\ buffer[i + 1] \in Int
  BY <1>1, <1>2
<1>4. \A i \in 1..Len(buffer') : i + 1 \in 1..Len(buffer)
  BY <1>1, <1>2
<1>5. BufferGaps'
  BY <1>1, <1>3, <1>4 DEF BufferGaps
<1>6. BufferReturned'
  BY <1>1, <1>3, <1>4 DEF BufferReturned
<1>7. DrainedFirst'
  <2>1. drained' <= Returned'
    BY <1>1, <1>2 DEF BufferReturned
  <2>2. ASSUME NEW i \in 1..Len(buffer') PROVE drained' <= buffer'[i]
    <3>1. buffer[i + 1] - buffer[1] >= (i + 1) - 1
      BY <1>1, <1>4 DEF BufferGaps
    <3>2. buffer[1] \in Int /\ i \in Int
      BY <1>1
    <3> QED BY <1>2, <1>3, <3>1, <3>2
  <2> QED BY <2>1, <2>2 DEF DrainedFirst
<1>8. EvictedOld'
  BY DEF EvictedOld
<1> QED BY <1>5, <1>6, <1>7, <1>8

\* The i-th buffered message is at least Len(buffer) - i calls old.
LEMMA BufferAge ==
  ASSUME BufferInv
  PROVE  \A i \in 1..Len(buffer) : buffer[i] <= Returned - (Len(buffer) - i)
<1> SUFFICES ASSUME NEW i \in 1..Len(buffer)
             PROVE  buffer[i] <= Returned - (Len(buffer) - i)
  OBVIOUS
<1>1. /\ Len(buffer) \in 1..Len(buffer) /\ Returned \in Int
      /\ buffer[i] \in Int /\ buffer[Len(buffer)] \in Int
  BY ElementsAreCalls DEF BufferInv, TypeOK, Returned
<1>2. buffer[Len(buffer)] <= Returned
  BY <1>1 DEF BufferInv, BufferReturned
<1>3. i < Len(buffer) => buffer[Len(buffer)] - buffer[i] >= Len(buffer) - i
  BY <1>1 DEF BufferInv, BufferGaps
<1> QED BY <1>1, <1>2, <1>3

\* The new message goes behind the others; a full deque gives up its oldest.
LEMMA BufferPush ==
  ASSUME BufferInv, pc = "produce", Push(calls), Returned' = calls, drained' = drained
  PROVE  (BufferGaps /\ BufferReturned /\ DrainedFirst /\ EvictedOld)'
<1> DEFINE L == Len(buffer)
<1>1. /\ calls \in Int /\ Returned = calls - 1 /\ L \in Nat /\ buffer \in Seq(Messages)
      /\ drained \in Int /\ drained < calls /\ calls \in Messages
      /\ \A i \in 1..L : buffer[i] \in Int /\ drained <= buffer[i]
  BY ElementsAreCalls
     DEF BufferInv, TypeOK, Returned, DrainedFirst, CallUnderWay, Messages
<1>2. \A i \in 1..L : buffer[i] <= calls - 1 - (L - i)
  BY <1>1, BufferAge
<1>3. \A i, j \in 1..L : i < j => buffer[j] - buffer[i] >= j - i
  BY DEF BufferInv, BufferGaps
<1>4. \A m \in evicted : m \in Int /\ m <= calls - 1 - BufferMaxLen
  BY <1>1 DEF BufferInv, EvictedOld, TypeOK, Messages
<1>5. CASE L = BufferMaxLen
  <2>1. buffer # <<>> /\ L >= 1
    BY <1>1, <1>5, BufferAssumption
  <2>2. buffer' = Append(Tail(buffer), calls) /\ evicted' = evicted \cup {buffer[1]}
    BY <1>5, <2>1 DEF Push
  <2>3. /\ Len(buffer') = L
        /\ \A i \in 1..L : buffer'[i] = IF i = L THEN calls ELSE buffer[i + 1]
    BY <1>1, <2>1, <2>2
  <2>4. \A i \in 1..L : i # L => i + 1 \in 1..L
    BY <1>1
  <2>5. BufferGaps'
    <3>1. SUFFICES ASSUME NEW i \in 1..L, NEW j \in 1..L, i < j
                   PROVE  buffer'[j] - buffer'[i] >= j - i
      BY <2>3 DEF BufferGaps
    <3>2. buffer'[i] = buffer[i + 1] /\ i + 1 \in 1..L /\ buffer[i + 1] \in Int
      BY <1>1, <2>3, <3>1
    <3>3. CASE j = L
      <4>1. buffer'[j] = calls /\ buffer[i + 1] <= calls - 1 - (L - (i + 1))
        BY <1>2, <2>3, <3>2, <3>3
      <4> QED BY <1>1, <3>2, <3>3, <4>1
    <3>4. CASE j # L
      <4>1. buffer'[j] = buffer[j + 1] /\ j + 1 \in 1..L /\ buffer[j + 1] \in Int
        BY <1>1, <2>3, <3>4
      <4>2. buffer[j + 1] - buffer[i + 1] >= (j + 1) - (i + 1)
        BY <1>3, <3>1, <3>2, <4>1
      <4> QED BY <3>2, <4>1, <4>2
    <3> QED BY <3>3, <3>4
  <2>6. BufferReturned' /\ DrainedFirst'
    BY <1>1, <1>2, <2>3, <2>4 DEF BufferReturned, DrainedFirst
  <2>7. ASSUME NEW m \in evicted' PROVE m <= Returned' - BufferMaxLen
    <3>1. CASE m \in evicted
      BY <1>1, <1>4, <3>1, BufferAssumption
    <3>2. CASE m = buffer[1]
      <4>1. buffer[1] <= calls - 1 - (L - 1) /\ buffer[1] \in Int
        BY <1>1, <1>2, <2>1
      <4> QED BY <1>1, <1>5, <3>2, <4>1, BufferAssumption
    <3> QED BY <2>2, <3>1, <3>2
  <2> QED BY <2>5, <2>6, <2>7 DEF EvictedOld
<1>6. CASE L # BufferMaxLen
  <2>1. buffer' = Append(buffer, calls) /\ evicted' = evicted
    BY <1>6 DEF Push
  <2>2. /\ Len(buffer') = L + 1
        /\ \A i \in 1..L + 1 : buffer'[i] = IF i = L + 1 THEN calls ELSE buffer[i]
    BY <1>1, <2>1
  <2>3. \A i \in 1..L + 1 : i # L + 1 => i \in 1..L
    BY <1>1
  <2>4. BufferGaps'
    <3>1. SUFFICES ASSUME NEW i \in 1..L + 1, NEW j \in 1..L + 1, i < j
                   PROVE  buffer'[j] - buffer'[i] >= j - i
      BY <2>2 DEF BufferGaps
    <3>2. buffer'[i] = buffer[i] /\ i \in 1..L /\ buffer[i] \in Int
      BY <1>1, <2>2, <3>1
    <3>3. CASE j = L + 1
      <4>1. buffer'[j] = calls /\ buffer[i] <= calls - 1 - (L - i)
        BY <1>2, <2>2, <3>2, <3>3
      <4> QED BY <1>1, <3>2, <3>3, <4>1
    <3>4. CASE j # L + 1
      <4>1. buffer'[j] = buffer[j] /\ j \in 1..L
        BY <1>1, <2>2, <3>4
      <4> QED BY <1>3, <3>1, <3>2, <4>1
    <3> QED BY <3>3, <3>4
  <2>5. BufferReturned' /\ DrainedFirst'
    <3>1. \A i \in 1..L : buffer[i] <= calls - 1 /\ buffer[i] \in Int
      BY <1>1, <1>2
    <3>2. ASSUME NEW i \in 1..L + 1 PROVE buffer'[i] <= Returned' /\ drained' <= buffer'[i]
      <4>1. CASE i = L + 1
        <5>1. buffer'[i] = calls
          BY <2>2, <4>1
        <5> QED BY <1>1, <5>1
      <4>2. CASE i # L + 1
        <5>1. i \in 1..L /\ buffer'[i] = buffer[i]
          BY <2>2, <2>3, <4>2
        <5> QED BY <1>1, <3>1, <5>1
      <4> QED BY <4>1, <4>2
    <3>3. drained' <= Returned'
      BY <1>1
    <3> QED BY <2>2, <3>2, <3>3 DEF BufferReturned, DrainedFirst
  <2>6. EvictedOld'
    BY <1>1, <1>4, <2>1, BufferAssumption DEF EvictedOld
  <2> QED BY <2>4, <2>5, <2>6
<1> QED BY <1>5, <1>6

LEMMA BufferStep == BufferInv /\ [Next]_vars => BufferInv'
<1> SUFFICES ASSUME BufferInv, [Next]_vars PROVE BufferInv'
  OBVIOUS
<1> DEFINE Order == BufferGaps /\ BufferReturned /\ DrainedFirst /\ EvictedOld
<1> DEFINE Shape == CleanEmpty /\ NoAlertBuffered
<1>0. /\ TypeOK' /\ CallUnderWay'
      /\ TypeOK /\ CallUnderWay /\ Shape /\ Order
      /\ calls \in Int /\ Returned \in Int
  BY TypeStep DEF BufferInv, TypeOK, Returned
<1>1. CASE BeginTransaction
  <2>1. Order'
    BY <1>0, <1>1, BufferFrame DEF BeginTransaction, Returned
  <2>2. Shape'
    BY <1>0, <1>1 DEF BeginTransaction, CleanEmpty, NoAlertBuffered
  <2> QED BY <1>0, <2>1, <2>2 DEF BufferInv
<1>2. CASE DrainOne
  <2>1. Order'
    BY <1>0, <1>2, BufferPop DEF DrainOne, Returned
  <2>2. Shape'
    BY <1>0, <1>2 DEF DrainOne, CleanEmpty, NoAlertBuffered
  <2> QED BY <1>0, <2>1, <2>2 DEF BufferInv
<1>3. CASE DrainPollRaises
  <2>1. Order'
    <3>1. Head(buffer) = buffer[1] /\ Len(buffer) \in Nat /\ Len(buffer) >= 1
      BY <1>0, <1>3 DEF DrainPollRaises, TypeOK
    <3>2. \A i \in 1..Len(buffer) : buffer[i] \in Int
      BY <1>0, ElementsAreCalls DEF TypeOK
    <3>3. drained' = buffer[1] /\ UNCHANGED <<buffer, evicted>> /\ Returned' = Returned
      BY <1>3, <3>1 DEF DrainPollRaises, Returned
    <3>4. ASSUME NEW i \in 1..Len(buffer) PROVE buffer[1] <= buffer[i]
      BY <1>0, <3>1, <3>2 DEF BufferGaps
    <3>5. DrainedFirst'
      BY <1>0, <3>1, <3>3, <3>4 DEF DrainedFirst, BufferReturned
    <3> QED BY <1>0, <3>3, <3>5 DEF BufferGaps, BufferReturned, EvictedOld
  <2>2. Shape'
    BY <1>0, <1>3 DEF DrainPollRaises, CleanEmpty, NoAlertBuffered
  <2> QED BY <1>0, <2>1, <2>2 DEF BufferInv
<1>4. CASE DrainStops
  <2>1. Order'
    BY <1>0, <1>4, BufferFrame DEF DrainStops, Returned
  <2>2. Shape'
    BY <1>0, <1>4 DEF DrainStops, CleanEmpty, NoAlertBuffered
  <2> QED BY <1>0, <2>1, <2>2 DEF BufferInv
<1>5. CASE DrainEnds
  <2>1. Order'
    BY <1>0, <1>5, BufferFrame DEF DrainEnds, Returned, history
  <2>2. Shape'
    BY <1>0, <1>5 DEF DrainEnds, CleanEmpty, NoAlertBuffered
  <2> QED BY <1>0, <2>1, <2>2 DEF BufferInv
<1>6. CASE ProduceNew
  <2>1. Order'
    BY <1>0, <1>6, BufferFrame DEF ProduceNew, Returned, history
  <2>2. Shape'
    BY <1>0, <1>6 DEF ProduceNew, CleanEmpty, NoAlertBuffered, history
  <2> QED BY <1>0, <2>1, <2>2 DEF BufferInv
<1>7. CASE ProduceNewRaises
  <2>1. Order'
    BY <1>0, <1>7, BufferPush DEF ProduceNewRaises, Returned
  <2>2. Shape'
    BY <1>0, <1>7 DEF ProduceNewRaises, CleanEmpty, NoAlertBuffered, CallUnderWay
  <2> QED BY <1>0, <2>1, <2>2 DEF BufferInv
<1>8. CASE ProduceAlert
  <2>1. Order'
    BY <1>0, <1>8, BufferFrame DEF ProduceAlert, BeginAlert, Returned, history
  <2>2. Shape'
    BY <1>0, <1>8 DEF ProduceAlert, CleanEmpty, NoAlertBuffered, history
  <2> QED BY <1>0, <2>1, <2>2 DEF BufferInv
<1>9. CASE ProduceAlertRaises
  <2>1. Order'
    BY <1>0, <1>9, BufferFrame DEF ProduceAlertRaises, BeginAlert, Returned
  <2>2. Shape'
    BY <1>0, <1>9 DEF ProduceAlertRaises, CleanEmpty, NoAlertBuffered
  <2> QED BY <1>0, <2>1, <2>2 DEF BufferInv
<1>10. CASE UNCHANGED <<program, calls, pc, buffer, history>>
  <2>1. Order'
    BY <1>0, <1>10, BufferFrame DEF Returned, history
  <2>2. Shape'
    BY <1>0, <1>10 DEF CleanEmpty, NoAlertBuffered, history
  <2> QED BY <1>0, <2>1, <2>2 DEF BufferInv
<1> QED
  BY <1>1, <1>2, <1>3, <1>4, <1>5, <1>6, <1>7, <1>8, <1>9, <1>10
     DEF Next, Drain, Produce, Deliver, BrokerChanges, vars

LEMMA BufferInvariant == Spec => []BufferInv
BY BufferInit, BufferStep, PTL DEF Spec

\* Buffered messages leave in the order of their calls.
THEOREM DrainsInCallOrderAlways == Spec => []DrainsInCallOrder
<1>1. BufferInv => DrainsInCallOrder
  <2> SUFFICES ASSUME BufferInv PROVE DrainsInCallOrder
    OBVIOUS
  <2>1. DOMAIN buffer = 1..Len(buffer) /\ \A i \in 1..Len(buffer) : buffer[i] \in Int
    BY ElementsAreCalls DEF BufferInv, TypeOK
  <2>2. ASSUME NEW i \in 1..Len(buffer), NEW j \in 1..Len(buffer), i < j
        PROVE  buffer[i] < buffer[j]
    BY <2>1, <2>2 DEF BufferInv, BufferGaps
  <2> QED BY <2>1, <2>2 DEF DrainsInCallOrder, BufferInv, DrainedFirst
<1> QED BY <1>1, BufferInvariant, PTL

\* A call during which nothing raised leaves nothing buffered.
THEOREM HealthyCallEmptiesBufferAlways == Spec => []HealthyCallEmptiesBuffer
<1>1. BufferInv => HealthyCallEmptiesBuffer
  BY DEF BufferInv, CleanEmpty, HealthyCallEmptiesBuffer
<1> QED BY <1>1, BufferInvariant, PTL

----------------------------------------------------------------------------
(* Nothing is forgotten: no step takes a message out of the buffer, of      *)
(* librdkafka's hands and of the evicted all at once.                       *)

Traced == ToSet(buffer) \cup Accepted \cup evicted

LEMMA TracedInit == Init => TransactionsAccounted
BY DEF Init, Returned, TransactionsAccounted

\* produce() makes the message accepted and leaves the others where they were.
LEMMA SendTraced ==
  ASSUME TypeOK, NEW m \in Messages, Send(m), UNCHANGED <<topic, failed>>
  PROVE  m \in Accepted' /\ Accepted \subseteq Accepted'
<1>1. ToSet(inflight)' = ToSet(inflight) \cup {m}
  BY AppendToSet DEF TypeOK, Send
<1> QED BY <1>1 DEF Accepted

\* A delivered or failed message stays accepted.
LEMMA DeliverTraced == TypeOK /\ Deliver => Accepted \subseteq Accepted'
<1> SUFFICES ASSUME TypeOK, Deliver PROVE Accepted \subseteq Accepted'
  OBVIOUS
<1>1. ToSet(inflight) = ToSet(inflight)' \cup {Head(inflight)}
  BY TailToSet DEF TypeOK, Deliver
<1>2. CASE topic' = Append(topic, Head(inflight)) /\ UNCHANGED failed
  <2>1. Head(inflight) \in Messages
    BY HeadTailType DEF TypeOK, Deliver
  <2>2. ToSet(topic)' = ToSet(topic) \cup {Head(inflight)}
    BY <1>2, <2>1, AppendToSet DEF TypeOK
  <2> QED BY <1>1, <1>2, <2>2 DEF Accepted
<1>3. CASE failed' = failed \cup {Head(inflight)} /\ UNCHANGED topic
  BY <1>1, <1>3 DEF Accepted
<1> QED BY <1>2, <1>3 DEF Deliver

\* append keeps the others in the deque or in evicted.
LEMMA PushTraced ==
  ASSUME TypeOK, NEW m \in Messages, Push(m)
  PROVE  /\ m \in ToSet(buffer)'
         /\ ToSet(buffer) \cup evicted \subseteq (ToSet(buffer) \cup evicted)'
<1>1. CASE Len(buffer) = BufferMaxLen
  <2>1. buffer # <<>> /\ buffer' = Append(Tail(buffer), m)
        /\ evicted' = evicted \cup {Head(buffer)}
    BY <1>1, BufferAssumption DEF TypeOK, Push
  <2>2. Tail(buffer) \in Seq(Messages)
    BY <2>1, HeadTailType DEF TypeOK
  <2>3. ToSet(buffer)' = ToSet(Tail(buffer)) \cup {m}
    <3> DEFINE t == Tail(buffer)
    <3>1. t \in Seq(Messages) /\ buffer' = Append(t, m)
      BY <2>1, <2>2
    <3> HIDE DEF t
    <3>2. ToSet(buffer)' = ToSet(t) \cup {m}
      BY <3>1, AppendToSet
    <3> QED BY <3>2 DEF t
  <2>4. ToSet(buffer) = ToSet(Tail(buffer)) \cup {Head(buffer)}
    BY <2>1, TailToSet DEF TypeOK
  <2> QED BY <2>1, <2>3, <2>4
<1>2. CASE Len(buffer) # BufferMaxLen
  <2>1. buffer' = Append(buffer, m) /\ evicted' = evicted
    BY <1>2 DEF Push
  <2>2. ToSet(buffer)' = ToSet(buffer) \cup {m}
    BY <2>1, AppendToSet DEF TypeOK
  <2> QED BY <2>1, <2>2
<1> QED BY <1>1, <1>2

LEMMA TracedFrame ==
  ASSUME UNCHANGED <<buffer, evicted, inflight, topic, failed>>
  PROVE  Traced \subseteq Traced'
BY DEF Traced, Accepted

LEMMA TracedStep ==
  BufferInv /\ TransactionsAccounted /\ [Next]_vars => TransactionsAccounted'
<1> SUFFICES ASSUME BufferInv, TransactionsAccounted, [Next]_vars,
                    program' = "async_pipeline"
             PROVE  \A m \in 1..Returned' : m \in Traced'
  BY DEF TransactionsAccounted, Traced
<1>0. /\ TypeOK /\ CallUnderWay /\ calls \in Int /\ Returned \in Int
      /\ buffer \in Seq(Messages)
  BY DEF BufferInv, TypeOK, Returned
<1>1. SUFFICES /\ program = "async_pipeline"
               /\ Traced \subseteq Traced'
               /\ \/ Returned' = Returned
                  \/ Returned' = Returned + 1 /\ Returned' \in Traced'
  BY <1>0 DEF TransactionsAccounted, Traced
<1>2. CASE BeginTransaction
  <2>1. Traced \subseteq Traced'
    BY <1>2, TracedFrame DEF BeginTransaction, library
  <2>2. Returned' = Returned
    BY <1>0, <1>2 DEF BeginTransaction, Returned
  <2> QED BY <1>2, <2>1, <2>2 DEF BeginTransaction
<1>3. CASE DrainOne
  <2>1. Head(buffer) \in Messages /\ ToSet(buffer) = ToSet(buffer)' \cup {Head(buffer)}
    BY <1>0, <1>3, TailToSet, HeadTailType DEF DrainOne
  <2>2. Head(buffer) \in Accepted' /\ Accepted \subseteq Accepted'
    BY <1>0, <1>3, <2>1, SendTraced DEF DrainOne, library
  <2>3. UNCHANGED <<program, evicted, calls, pc>>
    BY <1>3 DEF DrainOne
  <2>4. Traced \subseteq Traced'
    BY <2>1, <2>2, <2>3 DEF Traced
  <2>5. Returned' = Returned
    BY <2>3 DEF Returned
  <2> QED BY <2>3, <2>4, <2>5
<1>4. CASE DrainPollRaises
  <2>1. Accepted \subseteq Accepted'
    <3>1. Head(buffer) \in Messages
      BY <1>0, <1>4, HeadTailType DEF DrainPollRaises
    <3> QED BY <1>0, <1>4, <3>1, SendTraced DEF DrainPollRaises, library
  <2>2. UNCHANGED <<program, evicted, calls, buffer>> /\ pc = "drain" /\ pc' = "produce"
    BY <1>4 DEF DrainPollRaises
  <2>3. Traced \subseteq Traced'
    BY <2>1, <2>2 DEF Traced
  <2>4. Returned' = Returned
    BY <2>2 DEF Returned
  <2> QED BY <2>2, <2>3, <2>4
<1>5. CASE DrainStops \/ DrainEnds
  <2>1. Traced \subseteq Traced'
    BY <1>5, TracedFrame DEF DrainStops, DrainEnds, library, history
  <2>2. UNCHANGED program /\ Returned' = Returned
    BY <1>5 DEF DrainStops, DrainEnds, Returned
  <2> QED BY <2>1, <2>2
<1>7. CASE ProduceNew
  <2>1. calls \in Messages
    BY <1>0, <1>7 DEF ProduceNew, CallUnderWay, TypeOK, Messages
  <2>2. calls \in Accepted' /\ Accepted \subseteq Accepted'
    BY <1>0, <1>7, <2>1, SendTraced DEF ProduceNew, library
  <2>3. /\ UNCHANGED <<program, evicted, calls, buffer>>
        /\ Returned' = calls /\ Returned = calls - 1
    BY <1>7 DEF ProduceNew, Returned, history
  <2>4. Traced \subseteq Traced' /\ calls \in Traced'
    BY <2>2, <2>3 DEF Traced
  <2> QED BY <1>0, <2>3, <2>4
<1>8. CASE ProduceNewRaises
  <2>1. calls \in Messages
    BY <1>0, <1>8 DEF ProduceNewRaises, CallUnderWay, TypeOK, Messages
  <2>2. Accepted \subseteq Accepted'
    <3>1. CASE UNCHANGED inflight
      BY <1>8, <3>1 DEF ProduceNewRaises, library, Accepted
    <3>2. CASE Send(calls)
      BY <1>0, <1>8, <2>1, <3>2, SendTraced DEF ProduceNewRaises, library
    <3> QED BY <1>8, <3>1, <3>2 DEF ProduceNewRaises
  <2>3. /\ calls \in ToSet(buffer)'
        /\ ToSet(buffer) \cup evicted \subseteq (ToSet(buffer) \cup evicted)'
    BY <1>0, <1>8, <2>1, PushTraced DEF ProduceNewRaises
  <2> QED BY <1>0, <1>8, <2>2, <2>3 DEF ProduceNewRaises, Returned, Traced
<1>9. CASE Deliver
  <2>1. UNCHANGED <<program, evicted, calls, pc, buffer>>
    BY <1>9 DEF Deliver, history
  <2>2. Traced \subseteq Traced'
    BY <1>0, <1>9, <2>1, DeliverTraced DEF Traced
  <2>3. Returned' = Returned
    BY <2>1 DEF Returned
  <2> QED BY <2>1, <2>2, <2>3
<1>10. CASE BrokerChanges \/ UNCHANGED vars
  <2>1. Traced \subseteq Traced'
    BY <1>10, TracedFrame DEF BrokerChanges, history, library, vars
  <2>2. UNCHANGED program /\ Returned' = Returned
    BY <1>10 DEF BrokerChanges, vars, Returned
  <2> QED BY <2>1, <2>2
<1>12. CASE ProduceAlert \/ ProduceAlertRaises
  BY <1>12 DEF ProduceAlert, ProduceAlertRaises, BeginAlert
<1> QED
  BY <1>2, <1>3, <1>4, <1>5, <1>7, <1>8, <1>9, <1>10, <1>12
     DEF Next, Drain, Produce

\* No transaction is forgotten without a trace.
THEOREM TransactionsAccountedAlways == Spec => []TransactionsAccounted
BY TracedInit, TracedStep, BufferInvariant, PTL DEF Spec

\* An outage of fewer calls than the deque is long loses nothing: whatever was
\* evicted is BufferMaxLen calls old.
THEOREM RecentTransactionsKeptAlways == Spec => []RecentTransactionsKept
<1>1. BufferInv /\ TransactionsAccounted => RecentTransactionsKept
  <2> SUFFICES ASSUME BufferInv, TransactionsAccounted, program = "async_pipeline",
                      NEW m \in 1..Returned, m > Returned - BufferMaxLen
               PROVE  m \in ToSet(buffer) \cup Accepted
    BY DEF RecentTransactionsKept
  <2>1. m \notin evicted
    <3>1. m \in Int /\ Returned \in Int
      BY DEF BufferInv, TypeOK, Returned
    <3> QED BY <3>1, BufferAssumption DEF BufferInv, EvictedOld
  <2> QED BY <2>1 DEF TransactionsAccounted
<1> QED BY <1>1, BufferInvariant, TransactionsAccountedAlways, PTL
----------------------------------------------------------------------------
(* Duplicates.  A message is in one place at a time, unless poll(0) raised  *)
(* after produce() had taken it.                                            *)

AtMostOnce(m, s) == \A i, j \in DOMAIN s : s[i] = m /\ s[j] = m => i = j

Watched(m) == program = "scoring_pipeline" \/ m \notin pollRaised

\* The same after the step, of a message that is named before it.
WatchedNext(m) == program' = "scoring_pipeline" \/ m \notin pollRaised'

InOnePlace(m) ==
  /\ AtMostOnce(m, buffer) /\ AtMostOnce(m, inflight) /\ AtMostOnce(m, topic)
  /\ m \in ToSet(buffer) => m \notin ToSet(inflight) \cup ToSet(topic)
  /\ m \in ToSet(inflight) => m \notin ToSet(topic)

\* What is buffered or sent is the message of a call that returned.
OfReturnedCalls == ToSet(buffer) \cup ToSet(inflight) \cup ToSet(topic) \subseteq 1..Returned

OnceInv == OfReturnedCalls /\ \A m \in Messages : Watched(m) => InOnePlace(m)

LEMMA AppendOnce ==
  ASSUME NEW S, NEW s \in Seq(S), NEW e \in S, NEW m, AtMostOnce(m, s), m = e => m \notin ToSet(s)
  PROVE  AtMostOnce(m, Append(s, e))
<1> SUFFICES ASSUME NEW i \in 1..Len(s) + 1, NEW j \in 1..Len(s) + 1,
                    Append(s, e)[i] = m, Append(s, e)[j] = m
             PROVE  i = j
  BY DEF AtMostOnce
<1>1. ASSUME NEW k \in 1..Len(s) + 1, Append(s, e)[k] = m
      PROVE  \/ k \in DOMAIN s /\ s[k] = m /\ m \in ToSet(s)
             \/ k = Len(s) + 1 /\ m = e
  <2>1. CASE k = Len(s) + 1
    BY <1>1, <2>1
  <2>2. CASE k # Len(s) + 1
    <3>1. k \in DOMAIN s /\ s[k] = m
      BY <1>1, <2>2
    <3>2. m \in ToSet(s)
      BY <3>1 DEF ToSet
    <3> QED BY <3>1, <3>2
  <2> QED BY <2>1, <2>2
<1> QED BY <1>1 DEF AtMostOnce

LEMMA TailOnce ==
  ASSUME NEW S, NEW s \in Seq(S), s # <<>>, NEW m, AtMostOnce(m, s)
  PROVE  AtMostOnce(m, Tail(s)) /\ (m = Head(s) => m \notin ToSet(Tail(s)))
<1>1. Len(Tail(s)) = Len(s) - 1 /\ \A i \in DOMAIN Tail(s) : i + 1 \in DOMAIN s /\ Tail(s)[i] = s[i + 1]
  OBVIOUS
<1>2. 1 \in DOMAIN s /\ Head(s) = s[1]
  OBVIOUS
<1>3. AtMostOnce(m, Tail(s))
  BY <1>1 DEF AtMostOnce
<1>4. ASSUME m = Head(s), m \in ToSet(Tail(s)) PROVE FALSE
  <2>1. PICK i \in DOMAIN Tail(s) : m = Tail(s)[i]
    BY <1>4 DEF ToSet
  <2>2. i + 1 = 1 /\ i \in Nat /\ i > 0
    BY <1>1, <1>2, <1>4, <2>1 DEF AtMostOnce
  <2> QED BY <2>2
<1> QED BY <1>3, <1>4

\* A message that is in one place at most once occurs at most once in all.
LEMMA OnePlaceOneOccurrence ==
  ASSUME TypeOK, NEW m \in Messages, InOnePlace(m)
  PROVE  Occurrences(m, buffer \o inflight \o topic) <= 1
<1> DEFINE all == buffer \o inflight \o topic
           B == Len(buffer)
           I == Len(inflight)
           T == Len(topic)
           at == {i \in DOMAIN all : all[i] = m}
<1>1. buffer \in Seq(Messages) /\ inflight \in Seq(Messages) /\ topic \in Seq(Messages)
  BY DEF TypeOK
<1>2. B \in Nat /\ I \in Nat /\ T \in Nat /\ DOMAIN all = 1..B + I + T
  BY <1>1
<1>3. ASSUME NEW i \in 1..B + I + T, all[i] = m
      PROVE  \/ i \in DOMAIN buffer /\ buffer[i] = m /\ m \in ToSet(buffer)
             \/ i - B \in DOMAIN inflight /\ inflight[i - B] = m /\ m \in ToSet(inflight)
             \/ i - B - I \in DOMAIN topic /\ topic[i - B - I] = m /\ m \in ToSet(topic)
  <2>1. CASE i <= B
    <3>1. i \in DOMAIN buffer /\ buffer[i] = m
      BY <1>1, <1>2, <1>3, <2>1
    <3> QED BY <3>1 DEF ToSet
  <2>2. CASE B < i /\ i <= B + I
    <3>1. i - B \in DOMAIN inflight /\ inflight[i - B] = m
      BY <1>1, <1>2, <1>3, <2>2
    <3> QED BY <3>1 DEF ToSet
  <2>3. CASE B + I < i
    <3>1. i - B - I \in DOMAIN topic /\ topic[i - B - I] = m
      BY <1>1, <1>2, <1>3, <2>3
    <3> QED BY <3>1 DEF ToSet
  <2> QED BY <1>2, <2>1, <2>2, <2>3
<1>4. ASSUME NEW i \in at, NEW j \in at PROVE i = j
  <2>1. i \in 1..B + I + T /\ j \in 1..B + I + T /\ all[i] = m /\ all[j] = m
    BY <1>2
  <2>2. i \in Int /\ j \in Int
    BY <1>2, <2>1
  <2> HIDE DEF all, at, B, I
  <2> QED BY <1>2, <1>3, <2>1, <2>2 DEF InOnePlace, AtMostOnce
<1>5. CASE at = {}
  <2>1. Cardinality(at) = 0
    <3> HIDE DEF at
    <3> QED BY <1>5, FS_EmptySet
  <2> HIDE DEF at
  <2>2. Occurrences(m, all) = Cardinality(at)
    BY DEF Occurrences, at
  <2> HIDE DEF all
  <2> QED BY <2>1, <2>2 DEF all
<1>6. CASE at # {}
  <2>1. PICK i : i \in at
    BY <1>6
  <2>2. at = {i}
    BY <1>4, <2>1
  <2>3. Cardinality(at) = 1
    BY <2>2, FS_Singleton
  <2>4. Occurrences(m, all) = Cardinality(at)
    BY DEF Occurrences
  <2> HIDE DEF at, all
  <2>5. Occurrences(m, all) <= 1
    BY <2>3, <2>4
  <2> QED BY <2>5 DEF all
<1> QED BY <1>5, <1>6

\* Nothing is sent or buffered, and no call's outcome is taken back.
LEMMA OnceFrame ==
  ASSUME TypeOK, OnceInv, UNCHANGED <<program, buffer, inflight, topic>>, pollRaised \subseteq pollRaised',
         Returned <= Returned', Returned' \in Int
  PROVE  OnceInv'
<1>1. Returned \in Int
  BY DEF TypeOK, Returned
<1> QED BY <1>1 DEF OnceInv, OfReturnedCalls, Watched, InOnePlace

\* A message leaves the buffer for librdkafka, or for good; or it is new.
LEMMA SendKeepsOnce ==
  ASSUME TypeOK, OnceInv, NEW e \in Messages, NEW kept \in Seq(Messages),
         inflight' = Append(inflight, e), buffer' = kept, UNCHANGED <<program, topic>>,
         pollRaised \subseteq pollRaised', Returned <= Returned', Returned' \in Int, e <= Returned',
         ToSet(kept) \subseteq ToSet(buffer) \cup {e},
         \A m \in Messages : WatchedNext(m) /\ AtMostOnce(m, buffer) => AtMostOnce(m, kept),
         WatchedNext(e) => e \notin ToSet(inflight) \cup ToSet(topic) \cup ToSet(kept)
  PROVE  OnceInv'
<1>1. inflight \in Seq(Messages) /\ Returned \in Int /\ e \in Nat /\ e > 0
  BY DEF TypeOK, Returned, Messages
<1>2. ToSet(inflight') = ToSet(inflight) \cup {e}
  BY <1>1, AppendToSet
<1>3. OfReturnedCalls'
  BY <1>1, <1>2 DEF OnceInv, OfReturnedCalls
<1>4. ASSUME NEW m \in Messages, Watched(m)' PROVE InOnePlace(m)'
  <2>1. Watched(m) /\ InOnePlace(m)
    BY <1>4 DEF OnceInv, Watched
  <2>0. WatchedNext(m)
    BY <1>4 DEF Watched, WatchedNext
  <2>2. m = e => m \notin ToSet(inflight)
    BY <2>0
  <2>3. AtMostOnce(m, inflight')
    BY <1>1, <2>1, <2>2, AppendOnce DEF InOnePlace
  <2> QED BY <1>2, <2>0, <2>1, <2>3 DEF InOnePlace
<1> QED BY <1>3, <1>4 DEF OnceInv

\* The call's own message goes behind what is buffered.
LEMMA PushKeepsOnce ==
  ASSUME TypeOK, OnceInv, calls \in Messages, calls > Returned, Push(calls)
  PROVE  /\ buffer' \in Seq(Messages) /\ ToSet(buffer') \subseteq ToSet(buffer) \cup {calls}
         /\ \A m \in Messages : AtMostOnce(m, buffer) => AtMostOnce(m, buffer')
<1>0. buffer \in Seq(Messages) /\ calls \notin ToSet(buffer)
  BY DEF TypeOK, OnceInv, OfReturnedCalls, Returned
<1>1. CASE Len(buffer) = BufferMaxLen
  <2>1. buffer # <<>> /\ buffer' = Append(Tail(buffer), calls) /\ Tail(buffer) \in Seq(Messages)
    BY <1>0, <1>1, BufferAssumption DEF Push
  <2>2. ToSet(Tail(buffer)) \subseteq ToSet(buffer)
    BY <1>0, <2>1, TailToSet
  <2>3. ToSet(buffer') = ToSet(Tail(buffer)) \cup {calls} /\ buffer' \in Seq(Messages)
    <3> DEFINE rest == Tail(buffer)
    <3>1. rest \in Seq(Messages) /\ buffer' = Append(rest, calls)
      BY <2>1
    <3> HIDE DEF rest
    <3>2. ToSet(Append(rest, calls)) = ToSet(rest) \cup {calls} /\ Append(rest, calls) \in Seq(Messages)
      BY <3>1, AppendToSet
    <3> QED BY <3>1, <3>2 DEF rest
  <2>4. ASSUME NEW m \in Messages, AtMostOnce(m, buffer) PROVE AtMostOnce(m, buffer')
    <3>1. AtMostOnce(m, Tail(buffer))
      BY <1>0, <2>1, <2>4, TailOnce
    <3> QED BY <1>0, <2>1, <2>2, <3>1, AppendOnce
  <2> QED BY <2>1, <2>2, <2>3, <2>4
<1>2. CASE Len(buffer) # BufferMaxLen
  <2>1. buffer' = Append(buffer, calls)
    BY <1>2 DEF Push
  <2>2. ToSet(buffer') = ToSet(buffer) \cup {calls}
    BY <1>0, <2>1, AppendToSet
  <2> QED BY <1>0, <2>1, <2>2, AppendOnce
<1> QED BY <1>1, <1>2

LEMMA OnceStep == BufferInv /\ OnceInv /\ [Next]_vars => OnceInv'
<1> SUFFICES ASSUME BufferInv, OnceInv, [Next]_vars PROVE OnceInv'
  OBVIOUS
<1>0. /\ TypeOK /\ CallUnderWay /\ calls \in Nat /\ Returned \in Int /\ Returned <= calls
      /\ buffer \in Seq(Messages) /\ inflight \in Seq(Messages) /\ topic \in Seq(Messages)
      /\ TypeOK'
  BY BufferStep DEF BufferInv, TypeOK, Returned
<1>1. CASE BeginTransaction \/ DrainStops \/ DrainEnds
  <2>1. UNCHANGED <<program, buffer, inflight, topic, pollRaised>> /\ Returned' = Returned
    BY <1>0, <1>1 DEF BeginTransaction, DrainStops, DrainEnds, library, history, Returned
  <2> QED BY <1>0, <2>1, OnceFrame
<1>2. CASE DrainOne \/ DrainPollRaises
  <2> DEFINE h == Head(buffer)
  <2>1. /\ buffer # <<>> /\ inflight' = Append(inflight, h) /\ UNCHANGED <<program, topic>>
        /\ Returned' = Returned /\ pollRaised \subseteq pollRaised'
    BY <1>0, <1>2 DEF DrainOne, DrainPollRaises, Send, library, Returned
  <2>2. h \in Messages /\ h <= Returned
    <3>1. Len(buffer) \in Nat /\ 1 \in 1..Len(buffer) /\ h = buffer[1] /\ h \in Messages
      BY <1>0, <2>1
    <3> QED BY <3>1 DEF BufferInv, BufferReturned
  <2>3. ToSet(buffer) = ToSet(Tail(buffer)) \cup {h}
    BY <1>0, <2>1, TailToSet
  <2>4. CASE DrainOne
    <3>1. buffer' = Tail(buffer) /\ Tail(buffer) \in Seq(Messages) /\ pollRaised' = pollRaised
      BY <1>0, <2>1, <2>4 DEF DrainOne
    <3>2. \A m \in Messages : AtMostOnce(m, buffer) => AtMostOnce(m, Tail(buffer))
      BY <1>0, <2>1, TailOnce
    <3>3. WatchedNext(h) => h \notin ToSet(inflight) \cup ToSet(topic) \cup ToSet(Tail(buffer))
      <4>1. WatchedNext(h) => InOnePlace(h)
        BY <2>1, <2>2, <3>1 DEF OnceInv, Watched, WatchedNext
      <4> QED BY <1>0, <2>1, <2>3, <4>1, TailOnce DEF InOnePlace
    <3> DEFINE kept == Tail(buffer)
    <3>4. /\ buffer' = kept /\ kept \in Seq(Messages) /\ ToSet(kept) \subseteq ToSet(buffer) \cup {h}
          /\ \A m \in Messages : WatchedNext(m) /\ AtMostOnce(m, buffer) => AtMostOnce(m, kept)
          /\ WatchedNext(h) => h \notin ToSet(inflight) \cup ToSet(topic) \cup ToSet(kept)
      BY <2>3, <3>1, <3>2, <3>3
    <3>5. Returned <= Returned' /\ Returned' \in Int /\ h <= Returned'
      BY <1>0, <2>1, <2>2
    <3> HIDE DEF h, kept
    <3> QED BY ONLY <1>0, OnceInv, <2>1, <2>2, <3>4, <3>5, SendKeepsOnce
  <2>5. CASE DrainPollRaises
    <3>1. buffer' = buffer /\ h \in pollRaised' /\ program = "async_pipeline"
      BY <1>0, <2>5 DEF DrainPollRaises, CallUnderWay
    <3>2. ~WatchedNext(h)
      BY <2>1, <3>1 DEF WatchedNext
    <3> HIDE DEF h
    <3> QED BY <1>0, <2>1, <2>2, <3>1, <3>2, SendKeepsOnce
  <2> QED BY <1>2, <2>4, <2>5
<1>3. CASE ProduceNew \/ ProduceNewRaises
  <2>1. /\ pc = "produce" /\ pc' = "ready" /\ UNCHANGED <<program, calls, topic>>
        /\ program = "async_pipeline" /\ Returned = calls - 1 /\ Returned' = calls
        /\ calls \in Messages
    <3>1. pc = "produce" /\ pc' = "ready" /\ UNCHANGED <<program, calls, topic>>
      BY <1>3 DEF ProduceNew, ProduceNewRaises, library
    <3>2. program = "async_pipeline" /\ calls \in Messages
      BY <1>0, <3>1 DEF CallUnderWay, Messages, TypeOK
    <3> QED BY <3>1, <3>2 DEF Returned
  <2>2. calls \notin ToSet(buffer) \cup ToSet(inflight) \cup ToSet(topic)
    BY <1>0, <2>1 DEF OnceInv, OfReturnedCalls
  <2>3. CASE ProduceNew
    <3>1. inflight' = Append(inflight, calls) /\ UNCHANGED <<buffer, pollRaised>>
      BY <2>3 DEF ProduceNew, Send, history
    <3> QED BY <1>0, <2>1, <2>2, <3>1, SendKeepsOnce
  <2>4. CASE ProduceNewRaises
    <3>1. /\ buffer' \in Seq(Messages) /\ ToSet(buffer') \subseteq ToSet(buffer) \cup {calls}
          /\ \A m \in Messages : AtMostOnce(m, buffer) => AtMostOnce(m, buffer')
      BY <1>0, <2>1, <2>4, PushKeepsOnce DEF ProduceNewRaises
    <3>2. CASE UNCHANGED <<inflight, pollRaised>>
      <4>1. OfReturnedCalls'
        <5>1. ToSet(buffer) \cup ToSet(inflight) \cup ToSet(topic) \subseteq 1..calls - 1
          BY <2>1 DEF OnceInv, OfReturnedCalls
        <5>2. 1..calls - 1 \subseteq 1..calls /\ calls \in 1..calls
          BY <2>1 DEF Messages
        <5>3. ToSet(inflight)' = ToSet(inflight) /\ ToSet(topic)' = ToSet(topic)
          BY <2>1, <3>2
        <5>4. ToSet(buffer)' \subseteq ToSet(buffer) \cup {calls}
          BY <3>1
        <5>5. (ToSet(buffer) \cup ToSet(inflight) \cup ToSet(topic))' \subseteq 1..calls
          BY <5>1, <5>2, <5>3, <5>4
        <5> QED BY <2>1, <5>5 DEF OfReturnedCalls
      <4>2. ASSUME NEW m \in Messages, Watched(m)' PROVE InOnePlace(m)'
        <5>1. InOnePlace(m)
          BY <2>1, <3>2, <4>2 DEF OnceInv, Watched
        <5> QED BY <2>1, <2>2, <3>1, <3>2, <5>1 DEF InOnePlace
      <4> QED BY <4>1, <4>2 DEF OnceInv
    <3>3. CASE inflight' = Append(inflight, calls) /\ pollRaised' = pollRaised \cup {calls}
      <4>1. ~WatchedNext(calls)
        BY <2>1, <3>3 DEF WatchedNext
      <4> DEFINE kept == buffer'
      <4>2. \A m \in Messages : WatchedNext(m) /\ AtMostOnce(m, buffer) => AtMostOnce(m, kept)
        BY <3>1
      <4> HIDE DEF kept
      <4>3. kept \in Seq(Messages) /\ ToSet(kept) \subseteq ToSet(buffer) \cup {calls} /\ buffer' = kept
        BY <3>1 DEF kept
      <4>4. /\ UNCHANGED <<program, topic>> /\ inflight' = Append(inflight, calls)
            /\ Returned <= Returned' /\ Returned' \in Int /\ calls <= Returned' /\ calls \in Messages
            /\ pollRaised \subseteq pollRaised' /\ TypeOK
        BY <1>0, <2>1, <3>3
      <4> QED BY ONLY OnceInv, <4>1, <4>2, <4>3, <4>4, SendKeepsOnce
    <3> QED BY <2>4, <3>2, <3>3 DEF ProduceNewRaises, Send
  <2> QED BY <1>3, <2>3, <2>4
<1>4. CASE ProduceAlert \/ ProduceAlertRaises
  <2>1. /\ pc = "ready" /\ program = "scoring_pipeline" /\ calls' = calls + 1
        /\ UNCHANGED <<program, pc, topic, buffer>> /\ pollRaised \subseteq pollRaised'
        /\ inflight' \in {inflight, Append(inflight, calls + 1)}
    BY <1>4 DEF ProduceAlert, ProduceAlertRaises, BeginAlert, Send, library, history
  <2>2. Returned = calls /\ Returned' = calls + 1 /\ calls + 1 \in Messages
    BY <1>0, <1>4, <2>1, CallsAssumption
       DEF Returned, Messages, ProduceAlert, ProduceAlertRaises, BeginAlert
  <2>3. calls + 1 \notin ToSet(buffer) \cup ToSet(inflight) \cup ToSet(topic)
    BY <1>0, <2>2 DEF OnceInv, OfReturnedCalls
  <2>4. CASE inflight' = inflight
    BY <1>0, <2>1, <2>2, <2>4, OnceFrame
  <2>5. CASE inflight' = Append(inflight, calls + 1)
    <3> DEFINE e == calls + 1
    <3>1. e \in Messages /\ e <= Returned' /\ inflight' = Append(inflight, e)
          /\ e \notin ToSet(inflight) \cup ToSet(topic) \cup ToSet(buffer)
      BY <1>0, <2>2, <2>3, <2>5
    <3>2. Returned <= Returned' /\ Returned' \in Int
      BY <1>0, <2>2
    <3> HIDE DEF e
    <3> QED BY <1>0, <2>1, <3>1, <3>2, SendKeepsOnce
  <2> QED BY <2>1, <2>4, <2>5
<1>5. CASE Deliver
  <2> DEFINE h == Head(inflight)
  <2>1. /\ inflight # <<>> /\ inflight' = Tail(inflight) /\ topic' \in {topic, Append(topic, h)}
        /\ UNCHANGED <<program, buffer, pollRaised>> /\ Returned' = Returned
    BY <1>5 DEF Deliver, history, Returned
  <2>2. h \in Messages /\ ToSet(inflight) = ToSet(Tail(inflight)) \cup {h}
    BY <1>0, <2>1, TailToSet
  <2>3. ToSet(topic') \subseteq ToSet(topic) \cup {h}
    <3>1. ToSet(Append(topic, h)) = ToSet(topic) \cup {h}
      BY <1>0, <2>2, AppendToSet
    <3> HIDE DEF h
    <3> QED BY <2>1, <3>1
  <2>4. OfReturnedCalls'
    BY <2>1, <2>2, <2>3 DEF OnceInv, OfReturnedCalls
  <2>5. ASSUME NEW m \in Messages, Watched(m)' PROVE InOnePlace(m)'
    <3>1. InOnePlace(m)
      BY <2>1, <2>5 DEF OnceInv, Watched
    <3>2. AtMostOnce(m, Tail(inflight)) /\ (m = h => m \notin ToSet(Tail(inflight)))
      BY <1>0, <2>1, <3>1, TailOnce DEF InOnePlace
    <3>3. m = h => m \notin ToSet(topic)
      BY <2>2, <3>1 DEF InOnePlace
    <3>4. AtMostOnce(m, topic')
      <4>1. AtMostOnce(m, topic)
        BY <3>1 DEF InOnePlace
      <4>2. AtMostOnce(m, Append(topic, h))
        BY <1>0, <2>2, <3>3, <4>1, AppendOnce
      <4> QED BY <2>1, <4>1, <4>2
    <3> QED BY <2>1, <2>2, <2>3, <3>1, <3>2, <3>3, <3>4 DEF InOnePlace
  <2> QED BY <2>4, <2>5 DEF OnceInv
<1>6. CASE BrokerChanges \/ UNCHANGED vars
  <2>1. UNCHANGED <<program, buffer, inflight, topic, pollRaised>> /\ Returned' = Returned
    BY <1>6 DEF BrokerChanges, vars, library, history, Returned
  <2> QED BY <1>0, <2>1, OnceFrame
<1> QED BY <1>1, <1>2, <1>3, <1>4, <1>5, <1>6 DEF Next, Drain, Produce

\* However the thread of librdkafka, the broker and the drain loop interleave,
\* a message is sent twice only after a poll(0) that raised.
THEOREM DuplicatesOnlyAfterPollErrorAlways == Spec => []DuplicatesOnlyAfterPollError
<1>1. Init => OnceInv
  BY DEF Init, OnceInv, OfReturnedCalls, InOnePlace, AtMostOnce, ToSet
<1>2. BufferInv /\ OnceInv /\ [Next]_vars => OnceInv'
  BY OnceStep
<1>3. BufferInv /\ OnceInv => DuplicatesOnlyAfterPollError
  BY OnePlaceOneOccurrence DEF BufferInv, OnceInv, Watched, DuplicatesOnlyAfterPollError
<1> QED BY <1>1, <1>2, <1>3, BufferInvariant, PTL DEF Spec
============================================================================
