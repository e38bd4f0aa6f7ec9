----------------------- MODULE ScoringPipelineProofs -----------------------
(***************************************************************************)
(* Proofs about the scoring pipeline for any chains, blocks, workers and   *)
(* queue size: no transaction of a polled block is missing from the queue, *)
(* none is lost between the queue and the workers, and the ingester of a   *)
(* chain that is not sampled implements OrderedFeed.                       *)
(***************************************************************************)
EXTENDS ScoringPipeline, DataLemmas, FiniteSetTheorems, TLAPS

\* Where a loop is inside the range it read: the block is one of the range,
\* and the next transaction one of the block, or the one after it.
LoopInRange ==
  \A c \in Chains :
    /\ ipc[c] \in {"fetch", "put"} => last[c] < block[c] /\ block[c] <= target[c]
    /\ ipc[c] = "put" => /\ End[c][block[c] - 1] + 1 <= next[c]
                         /\ next[c] <= End[c][block[c]] + 1

\* How far a chain that is not sampled has been read: nothing outside the
\* blocks after the first head, and everything up to the place of the loop.
Upto(c) ==
  CASE ipc[c] = "fetch" -> End[c][block[c] - 1]
    [] ipc[c] = "put" -> next[c] - 1
    [] OTHER -> End[c][last[c]]

ReadInOrder ==
  \A c \in Chains \ Sampled :
    /\ ipc[c] = "start" => enqueued[c] = {} /\ first[c] = 0 /\ last[c] = 0
    /\ enqueued[c] \subseteq End[c][first[c]] + 1 .. End[c][head[c]]
    /\ End[c][first[c]] + 1 .. End[c][last[c]] \subseteq enqueued[c]
    /\ End[c][first[c]] + 1 .. Upto(c) \subseteq enqueued[c]

IngesterInv == IngesterTypeOK /\ LoopInRange /\ ReadInOrder

\* The transactions of a prefix of the blocks are numbers.
LEMMA EndFacts ==
  \A c \in Chains :
    /\ MaxHeight[c] \in Nat
    /\ End[c][0] = 0
    /\ \A b \in 0..MaxHeight[c] : End[c][b] \in Nat
    /\ \A a, b \in 0..MaxHeight[c] : a <= b => End[c][a] <= End[c][b]
BY HeightAssumption, EndAssumption

LEMMA EndIsNat ==
  ASSUME NEW c \in Chains, NEW b \in 0..MaxHeight[c]
  PROVE  End[c][b] \in Nat
BY EndFacts

LEMMA EndGrows ==
  ASSUME NEW c \in Chains, NEW a \in 0..MaxHeight[c], NEW b \in 0..MaxHeight[c], a <= b
  PROVE  End[c][a] <= End[c][b]
BY EndFacts

\* The heights a loop works with are heights of its chain.
LEMMA HeightsInChain ==
  ASSUME NEW c \in Chains, IngesterTypeOK
  PROVE  /\ head[c] \in 0..MaxHeight[c] /\ last[c] \in 0..head[c] /\ first[c] \in 0..last[c]
         /\ target[c] \in 0..head[c] /\ block[c] \in Nat /\ next[c] \in Nat
BY EndFacts DEF IngesterTypeOK

LEMMA TransactionPair ==
  ASSUME NEW c \in Chains, NEW n \in Numbers(c)
  PROVE  <<c, n>> \in Transactions
BY DEF Transactions

LEMMA IngesterInitial == IngesterInit => IngesterInv
<1> SUFFICES ASSUME IngesterInit PROVE IngesterInv
  OBVIOUS
<1> USE EndFacts DEF IngesterInit
<1>1. IngesterTypeOK
  <2>1. queue \in Seq(Transactions) /\ Len(queue) <= QueueMax
    BY QueueAssumption
  <2>2. errors \in 0..MaxErrors
    BY ErrorsAssumption
  <2> QED BY <2>1, <2>2 DEF IngesterTypeOK
<1>2. LoopInRange
  BY DEF LoopInRange
<1>3. ReadInOrder
  BY DEF ReadInOrder, Upto
<1> QED BY <1>1, <1>2, <1>3 DEF IngesterInv

\* Every step of a loop, and everything that happens to it, keeps the
\* invariant.
LEMMA IngesterStep ==
  ASSUME NEW c \in Chains, IngesterInv, Loop(c) \/ Outside(c)
  PROVE  IngesterInv'
<1> USE EndFacts DEF IngesterInv
<1>1. CASE Mine(c)
  <2> USE <1>1 DEF Mine, chainVars
  <2>0. /\ head' = [head EXCEPT ![c] = head[c] + 1] /\ head[c] < MaxHeight[c]
        /\ UNCHANGED <<ipc, running, first, last, target, block, next, queue, enqueued, errors, alive>>
    BY ONLY <1>1 DEF Mine, chainVars
  <2>1. IngesterTypeOK'
    <3>1. head \in [Chains -> Nat] /\ MaxHeight[c] \in Nat
          /\ \A d \in Chains : /\ first[d] \in Nat /\ last[d] \in Nat /\ target[d] \in Nat
                             /\ first[d] <= last[d] /\ last[d] <= head[d]
                             /\ head[d] <= MaxHeight[d] /\ target[d] <= head[d]
      BY ONLY IngesterTypeOK, HeightAssumption DEF IngesterTypeOK
    <3>2. head' \in [Chains -> Nat]
      BY ONLY <2>0, <3>1
    <3>3. ASSUME NEW d \in Chains
          PROVE  last[d] <= head'[d] /\ head'[d] <= MaxHeight[d] /\ target[d] <= head'[d]
      <4>1. CASE d = c
        BY ONLY <2>0, <3>1, <4>1
      <4>2. CASE d # c
        BY ONLY <2>0, <3>1, <4>2
      <4> QED BY ONLY <4>1, <4>2
    <3> QED BY ONLY IngesterTypeOK, <2>0, <3>2, <3>3 DEF IngesterTypeOK
  <2>2. LoopInRange'
    BY DEF LoopInRange
  <2>3. ReadInOrder'
    <3> SUFFICES ASSUME NEW d \in Chains \ Sampled
                 PROVE  /\ ipc[d] = "start" => enqueued[d] = {} /\ first[d] = 0 /\ last[d] = 0
                        /\ enqueued[d] \subseteq End[d][first[d]] + 1 .. End[d][head'[d]]
                        /\ End[d][first[d]] + 1 .. End[d][last[d]] \subseteq enqueued[d]
                        /\ End[d][first[d]] + 1 .. Upto(d) \subseteq enqueued[d]
      BY DEF ReadInOrder, Upto
    <3>1. End[d][head[d]] <= End[d][head'[d]] /\ End[d][head[d]] \in Nat /\ End[d][head'[d]] \in Nat
      <4>1. head[d] \in 0..MaxHeight[d] /\ head'[d] \in 0..MaxHeight[d] /\ head[d] <= head'[d]
        <5>1. head[d] \in Nat /\ head[d] <= MaxHeight[d] /\ head'[d] \in Nat /\ head'[d] <= MaxHeight[d]
          BY ONLY IngesterTypeOK, <2>1 DEF IngesterTypeOK
        <5>2. head[d] <= head'[d]
          BY ONLY IngesterTypeOK, <2>0, <5>1 DEF IngesterTypeOK
        <5>3. MaxHeight[d] \in Nat
          BY ONLY HeightAssumption, ChainsAssumption
        <5> QED BY ONLY <5>1, <5>2, <5>3
      <4> QED BY <4>1, EndIsNat, EndGrows
    <3> QED BY <3>1 DEF ReadInOrder
  <2> QED BY <2>1, <2>2, <2>3
<1>2. CASE Start(c)
  <2> USE <1>2 DEF Start
  <2>1. IngesterTypeOK'
    <3>1. /\ first' = [first EXCEPT ![c] = head[c]] /\ last' = [last EXCEPT ![c] = head[c]]
          /\ ipc' = [ipc EXCEPT ![c] = "poll"]
          /\ UNCHANGED <<head, running, target, block, next, queue, enqueued, errors, alive>>
      BY ONLY <1>2 DEF Start
    <3>2. /\ first' \in [Chains -> Nat] /\ last' \in [Chains -> Nat]
          /\ ipc' \in [Chains -> {"start", "poll", "fetch", "put", "stopped"}]
      BY ONLY IngesterTypeOK, <3>1 DEF IngesterTypeOK
    <3>3. \A d \in Chains : first'[d] <= last'[d] /\ last'[d] <= head[d]
      BY ONLY IngesterTypeOK, <3>1 DEF IngesterTypeOK
    <3> QED BY ONLY IngesterTypeOK, <3>1, <3>2, <3>3 DEF IngesterTypeOK
  <2>2. LoopInRange'
    BY DEF LoopInRange, IngesterTypeOK
  <2>3. ReadInOrder'
    <3> SUFFICES ASSUME NEW d \in Chains \ Sampled
                 PROVE  /\ ipc'[d] = "start" => enqueued[d] = {} /\ first'[d] = 0 /\ last'[d] = 0
                        /\ enqueued[d] \subseteq End[d][first'[d]] + 1 .. End[d][head[d]]
                        /\ End[d][first'[d]] + 1 .. End[d][last'[d]] \subseteq enqueued[d]
                        /\ End[d][first'[d]] + 1 .. Upto(d)' \subseteq enqueued[d]
      BY DEF ReadInOrder
    <3>1. CASE d = c
      <4>1. ipc'[d] = "poll" /\ first'[d] = head[d] /\ last'[d] = head[d] /\ enqueued[d] = {}
        BY <3>1 DEF ReadInOrder, IngesterTypeOK
      <4>2. Upto(d)' = End[d][head[d]]
        BY <4>1 DEF Upto
      <4>3. End[d][head[d]] \in Nat
        BY HeightsInChain, EndIsNat
      <4> QED BY <4>1, <4>2, <4>3
    <3>2. CASE d # c
      <4>1. ipc'[d] = ipc[d] /\ first'[d] = first[d] /\ last'[d] = last[d]
        BY <3>2 DEF IngesterTypeOK
      <4>2. Upto(d)' = Upto(d)
        BY <4>1 DEF Upto
      <4> QED BY <4>1, <4>2 DEF ReadInOrder
    <3> QED BY <3>1, <3>2
  <2> QED BY <2>1, <2>2, <2>3
<1>3. CASE Poll(c)
  <2> USE <1>3 DEF Poll
  <2>1. IngesterTypeOK'
    BY DEF IngesterTypeOK
  <2>2. LoopInRange'
    BY DEF LoopInRange, IngesterTypeOK
  <2>3. ReadInOrder'
    <3> SUFFICES ASSUME NEW d \in Chains \ Sampled
                 PROVE  /\ ipc'[d] = "start" => enqueued[d] = {} /\ first[d] = 0 /\ last[d] = 0
                        /\ End[d][first[d]] + 1 .. Upto(d)' \subseteq enqueued[d]
      BY DEF ReadInOrder
    <3>1. CASE d = c
      <4>1. ipc'[d] = "fetch" /\ block'[d] = last[d] + 1
        BY <3>1 DEF IngesterTypeOK
      <4>2. Upto(d)' = End[d][last[d]]
        BY <4>1 DEF Upto, IngesterTypeOK
      <4> QED BY <4>1, <4>2 DEF ReadInOrder
    <3>2. CASE d # c
      <4>1. ipc'[d] = ipc[d] /\ block'[d] = block[d]
        BY <3>2 DEF IngesterTypeOK
      <4>2. Upto(d)' = Upto(d)
        BY <4>1 DEF Upto
      <4> QED BY <4>1, <4>2 DEF ReadInOrder
    <3> QED BY <3>1, <3>2
  <2> QED BY <2>1, <2>2, <2>3
<1>4. CASE Fetch(c)
  <2> USE <1>4 DEF Fetch
  <2>0. block[c] - 1 \in 0..MaxHeight[c] /\ block[c] \in 0..MaxHeight[c]
    BY HeightsInChain DEF LoopInRange
  <2>1. IngesterTypeOK'
    <3>1. End[c][block[c] - 1] + 1 \in Nat \ {0}
      BY <2>0, EndIsNat
    <3> QED BY <3>1 DEF IngesterTypeOK
  <2>2. LoopInRange'
    <3> SUFFICES ASSUME NEW d \in Chains
                 PROVE  /\ ipc'[d] \in {"fetch", "put"} => last[d] < block[d] /\ block[d] <= target[d]
                        /\ ipc'[d] = "put" => /\ End[d][block[d] - 1] + 1 <= next'[d]
                                              /\ next'[d] <= End[d][block[d]] + 1
      BY DEF LoopInRange
    <3>1. CASE d = c
      <4>1. next'[d] = End[d][block[d] - 1] + 1
        BY <3>1 DEF IngesterTypeOK
      <4>2. End[d][block[d] - 1] <= End[d][block[d]]
        BY <2>0, <3>1, EndGrows
      <4>3. End[d][block[d] - 1] \in Nat /\ End[d][block[d]] \in Nat
        BY <2>0, <3>1, EndIsNat
      <4> QED BY <3>1, <4>1, <4>2, <4>3 DEF LoopInRange
    <3>2. CASE d # c
      BY <3>2 DEF LoopInRange, IngesterTypeOK
    <3> QED BY <3>1, <3>2
  <2>3. ReadInOrder'
    <3> SUFFICES ASSUME NEW d \in Chains \ Sampled
                 PROVE  /\ ipc'[d] = "start" => enqueued[d] = {} /\ first[d] = 0 /\ last[d] = 0
                        /\ End[d][first[d]] + 1 .. Upto(d)' \subseteq enqueued[d]
      BY DEF ReadInOrder
    <3>1. CASE d = c
      <4>1. ipc'[d] = "put" /\ next'[d] = End[d][block[d] - 1] + 1
        BY <3>1 DEF IngesterTypeOK
      <4>2. Upto(d)' = End[d][block[d] - 1]
        BY <2>0, <3>1, <4>1 DEF Upto
      <4>3. Upto(d) = End[d][block[d] - 1]
        BY <3>1 DEF Upto
      <4> QED BY <4>1, <4>2, <4>3 DEF ReadInOrder
    <3>2. CASE d # c
      <4>1. ipc'[d] = ipc[d] /\ next'[d] = next[d]
        BY <3>2 DEF IngesterTypeOK
      <4>2. Upto(d)' = Upto(d)
        BY <4>1 DEF Upto
      <4> QED BY <4>1, <4>2 DEF ReadInOrder
    <3> QED BY <3>1, <3>2
  <2> QED BY <2>1, <2>2, <2>3
<1>5. CASE Put(c)
  <2> USE <1>5 DEF Put
  <2>0. /\ last[c] < block[c] /\ block[c] - 1 \in 0..MaxHeight[c] /\ block[c] \in 0..MaxHeight[c]
        /\ block[c] <= head[c] /\ head[c] \in 0..MaxHeight[c]
        /\ first[c] <= block[c] - 1 /\ first[c] \in 0..MaxHeight[c]
    <3>1. /\ head[c] \in 0..MaxHeight[c] /\ last[c] \in 0..head[c] /\ first[c] \in 0..last[c]
          /\ target[c] \in 0..head[c] /\ block[c] \in Nat /\ MaxHeight[c] \in Nat
      BY HeightsInChain
    <3>2. last[c] < block[c] /\ block[c] <= target[c]
      BY ONLY <1>5, IngesterInv DEF IngesterInv, LoopInRange, Put
    <3> QED BY ONLY <3>1, <3>2
  <2>00. /\ next[c] \in Nat
         /\ End[c][first[c]] + 1 <= next[c] /\ End[c][first[c]] \in Nat
         /\ next[c] <= End[c][head[c]] /\ End[c][head[c]] \in Nat
         /\ next[c] <= End[c][MaxHeight[c]] /\ End[c][MaxHeight[c]] \in Nat
    <3>1. End[c][first[c]] <= End[c][block[c] - 1] /\ End[c][block[c]] <= End[c][head[c]]
          /\ End[c][head[c]] <= End[c][MaxHeight[c]]
      <4>1. MaxHeight[c] \in 0..MaxHeight[c] /\ head[c] <= MaxHeight[c]
        BY <2>0
      <4>2. End[c][first[c]] <= End[c][block[c] - 1]
        BY <2>0, EndGrows
      <4>3. End[c][block[c]] <= End[c][head[c]]
        BY <2>0, EndGrows
      <4>4. End[c][head[c]] <= End[c][MaxHeight[c]]
        BY <2>0, <4>1, EndGrows
      <4> QED BY <4>2, <4>3, <4>4
    <3>2. /\ End[c][first[c]] \in Nat /\ End[c][block[c] - 1] \in Nat /\ End[c][block[c]] \in Nat
          /\ End[c][head[c]] \in Nat /\ End[c][MaxHeight[c]] \in Nat
      <4>1. MaxHeight[c] \in 0..MaxHeight[c]
        OBVIOUS
      <4> QED BY <2>0, <4>1, EndIsNat
    <3>3. next[c] \in Nat /\ End[c][block[c] - 1] + 1 <= next[c] /\ next[c] <= End[c][block[c]]
      BY DEF LoopInRange, IngesterTypeOK
    <3> QED BY ONLY <3>1, <3>2, <3>3
  <2>1. IngesterTypeOK'
    <3>1. next[c] \in Numbers(c)
      BY <2>00 DEF Numbers
    <3>2. queue' \in Seq(Transactions) /\ Len(queue') <= QueueMax
      <4>1. <<c, next[c]>> \in Transactions
        BY <3>1, TransactionPair
      <4> QED BY <4>1, QueueAssumption DEF IngesterTypeOK
    <3>3. next' \in [Chains -> Nat \ {0}]
      BY DEF IngesterTypeOK
    <3>4. /\ enqueued' \in [Chains -> SUBSET Nat]
          /\ \A d \in Chains : enqueued'[d] \subseteq Numbers(d)
      BY <3>1, <2>00 DEF IngesterTypeOK
    <3> QED BY <3>2, <3>3, <3>4 DEF IngesterTypeOK
  <2>2. LoopInRange'
    <3> SUFFICES ASSUME NEW d \in Chains, ipc[d] = "put"
                 PROVE  /\ End[d][block[d] - 1] + 1 <= next'[d]
                        /\ next'[d] <= End[d][block[d]] + 1
      BY DEF LoopInRange
    <3>1. CASE d = c
      <4>1. next'[d] = next[d] + 1 /\ next[d] \in Nat
        BY <3>1 DEF IngesterTypeOK
      <4>2. End[d][block[d] - 1] \in Nat /\ End[d][block[d]] \in Nat
        BY <2>0, <3>1
      <4> QED BY <3>1, <4>1, <4>2 DEF LoopInRange
    <3>2. CASE d # c
      BY <3>2 DEF LoopInRange, IngesterTypeOK
    <3> QED BY <3>1, <3>2
  <2>3. ReadInOrder'
    <3> SUFFICES ASSUME NEW d \in Chains \ Sampled
                 PROVE  /\ ipc[d] = "start" => enqueued'[d] = {} /\ first[d] = 0 /\ last[d] = 0
                        /\ enqueued'[d] \subseteq End[d][first[d]] + 1 .. End[d][head[d]]
                        /\ End[d][first[d]] + 1 .. End[d][last[d]] \subseteq enqueued'[d]
                        /\ End[d][first[d]] + 1 .. Upto(d)' \subseteq enqueued'[d]
      BY DEF ReadInOrder
    <3>1. CASE d = c
      <4>1. enqueued'[d] = enqueued[d] \cup {next[d]} /\ ipc[d] = "put"
        BY <3>1 DEF IngesterTypeOK
      <4>2. Upto(d)' = next[d] /\ Upto(d) = next[d] - 1
        <5>1. next'[d] = next[d] + 1
          BY <3>1 DEF IngesterTypeOK
        <5> QED BY <2>00, <3>1, <4>1, <5>1 DEF Upto
      <4>3. next[d] \in End[d][first[d]] + 1 .. End[d][head[d]]
        BY <2>00, <3>1
      <4>4. End[d][first[d]] + 1 .. Upto(d)' \subseteq enqueued'[d]
        BY <2>00, <3>1, <4>1, <4>2 DEF ReadInOrder
      <4> QED BY <4>1, <4>3, <4>4 DEF ReadInOrder
    <3>2. CASE d # c
      <4>1. enqueued'[d] = enqueued[d] /\ next'[d] = next[d]
        BY <3>2 DEF IngesterTypeOK
      <4>2. Upto(d)' = Upto(d)
        BY <4>1 DEF Upto
      <4> QED BY <4>1, <4>2 DEF ReadInOrder
    <3> QED BY <3>1, <3>2
  <2> QED BY <2>1, <2>2, <2>3
<1>6. CASE SampleOut(c)
  <2> USE <1>6 DEF SampleOut
  <2>1. IngesterTypeOK'
    BY DEF IngesterTypeOK
  <2>2. LoopInRange'
    <3> SUFFICES ASSUME NEW d \in Chains, ipc[d] = "put"
                 PROVE  /\ End[d][block[d] - 1] + 1 <= next'[d]
                        /\ next'[d] <= End[d][block[d]] + 1
      BY DEF LoopInRange
    <3>1. CASE d = c
      <4>1. next'[d] = next[d] + 1 /\ next[d] \in Nat
        BY <3>1 DEF IngesterTypeOK
      <4>2. block[d] - 1 \in 0..MaxHeight[d] /\ block[d] \in 0..MaxHeight[d]
        BY HeightsInChain DEF LoopInRange
      <4>3. End[d][block[d] - 1] \in Nat /\ End[d][block[d]] \in Nat
        BY <4>2, EndIsNat
      <4> QED BY <3>1, <4>1, <4>3 DEF LoopInRange
    <3>2. CASE d # c
      BY <3>2 DEF LoopInRange, IngesterTypeOK
    <3> QED BY <3>1, <3>2
  <2>3. ReadInOrder'
    <3> SUFFICES ASSUME NEW d \in Chains \ Sampled
                 PROVE  Upto(d)' = Upto(d)
      BY DEF ReadInOrder
    <3> QED BY DEF Upto, IngesterTypeOK
  <2> QED BY <2>1, <2>2, <2>3
<1>7. CASE BlockDone(c)
  <2> USE <1>7 DEF BlockDone
  <2>0. /\ last[c] < block[c] /\ block[c] \in 0..MaxHeight[c] /\ block[c] <= target[c]
        /\ block[c] - 1 \in 0..MaxHeight[c] /\ target[c] \in 0..head[c]
    BY HeightsInChain DEF LoopInRange
  <2>1. IngesterTypeOK'
    <3>1. /\ ipc' \in [Chains -> {"start", "poll", "fetch", "put", "stopped"}]
          /\ last' \in [Chains -> Nat] /\ block' \in [Chains -> Nat]
      <4>1. CASE block[c] < target[c]
        <5>1. ipc' \in [Chains -> {"start", "poll", "fetch", "put", "stopped"}]
          BY <4>1 DEF IngesterTypeOK
        <5>2. last' \in [Chains -> Nat]
          BY <4>1 DEF IngesterTypeOK
        <5>3. block' = [block EXCEPT ![c] = block[c] + 1] /\ block \in [Chains -> Nat]
          BY <4>1 DEF IngesterTypeOK
        <5>4. block' \in [Chains -> Nat]
          BY ONLY <5>3
        <5> QED BY <5>1, <5>2, <5>4
      <4>2. CASE ~(block[c] < target[c])
        BY <4>2 DEF IngesterTypeOK
      <4> QED BY <4>1, <4>2
    <3>2. ASSUME NEW d \in Chains
          PROVE  first[d] <= last'[d] /\ last'[d] <= head[d]
      <4>1. CASE last'[d] = last[d]
        BY <4>1 DEF IngesterTypeOK
      <4>2. CASE last'[d] # last[d]
        <5>1. d = c /\ last'[d] = target[d]
          BY <4>2 DEF IngesterTypeOK
        <5> QED BY <2>0, <5>1, HeightsInChain
      <4> QED BY <4>1, <4>2
    <3> QED BY <3>1, <3>2 DEF IngesterTypeOK
  <2>2. LoopInRange'
    <3> SUFFICES ASSUME NEW d \in Chains
                 PROVE  /\ ipc'[d] \in {"fetch", "put"} => last'[d] < block'[d] /\ block'[d] <= target[d]
                        /\ ipc'[d] = "put" => /\ End[d][block'[d] - 1] + 1 <= next[d]
                                              /\ next[d] <= End[d][block'[d]] + 1
      BY DEF LoopInRange
    <3>1. CASE d # c
      BY <3>1 DEF LoopInRange, IngesterTypeOK
    <3>2. CASE d = c /\ block[c] < target[c]
      BY <2>0, <3>2, HeightsInChain DEF IngesterTypeOK
    <3>3. CASE d = c /\ ~(block[c] < target[c])
      BY <3>3 DEF IngesterTypeOK
    <3> QED BY <3>1, <3>2, <3>3
  <2>3. ReadInOrder'
    <3> SUFFICES ASSUME NEW d \in Chains \ Sampled
                 PROVE  /\ ipc'[d] = "start" => enqueued[d] = {} /\ first[d] = 0 /\ last'[d] = 0
                        /\ End[d][first[d]] + 1 .. End[d][last'[d]] \subseteq enqueued[d]
                        /\ End[d][first[d]] + 1 .. Upto(d)' \subseteq enqueued[d]
      BY DEF ReadInOrder
    <3>1. CASE d # c
      <4>1. ipc'[d] = ipc[d] /\ block'[d] = block[d] /\ last'[d] = last[d]
        BY <3>1 DEF IngesterTypeOK
      <4>2. Upto(d)' = Upto(d)
        BY <4>1 DEF Upto
      <4> QED BY <4>1, <4>2 DEF ReadInOrder
    <3>2. CASE d = c
      <4>1. End[d][first[d]] + 1 .. End[d][block[d]] \subseteq enqueued[d]
        <5>1. next[d] = End[d][block[d]] + 1 /\ End[d][block[d]] \in Nat
          BY <2>0, <3>2, EndIsNat, HeightsInChain DEF LoopInRange
        <5>2. Upto(d) = End[d][block[d]]
          BY <3>2, <5>1 DEF Upto
        <5> QED BY <5>2 DEF ReadInOrder
      <4>2. CASE block[c] < target[c]
        <5>1. ipc'[d] = "fetch" /\ block'[d] - 1 = block[d] /\ last'[d] = last[d]
          BY <3>2, <4>2, <2>0 DEF IngesterTypeOK
        <5>2. Upto(d)' = End[d][block[d]]
          BY <5>1 DEF Upto
        <5> QED BY <4>1, <5>1, <5>2 DEF ReadInOrder
      <4>3. CASE ~(block[c] < target[c])
        <5>1. ipc'[d] = "poll" /\ last'[d] = block[d]
          BY <3>2, <4>3, <2>0 DEF IngesterTypeOK
        <5>2. Upto(d)' = End[d][block[d]]
          BY <5>1 DEF Upto
        <5> QED BY <4>1, <5>1, <5>2 DEF ReadInOrder
      <4> QED BY <4>2, <4>3
    <3> QED BY <3>1, <3>2
  <2> QED BY <2>1, <2>2, <2>3
<1>8. CASE Leave(c) \/ LoopFails(c)
  <2>1. /\ ipc' = [ipc EXCEPT ![c] = ipc'[c]] /\ ipc'[c] \in {"poll", "stopped"}
        /\ ipc[c] # "start" /\ errors' \in 0..MaxErrors
        /\ UNCHANGED <<head, running, first, last, target, block, next, queue, enqueued, alive>>
    BY <1>8, ErrorsAssumption DEF Leave, LoopFails, IngesterTypeOK, chainVars
  <2>2. IngesterTypeOK'
    BY <2>1 DEF IngesterTypeOK
  <2>3. LoopInRange'
    BY <2>1 DEF LoopInRange, IngesterTypeOK
  <2>4. ReadInOrder'
    <3> SUFFICES ASSUME NEW d \in Chains \ Sampled
                 PROVE  /\ ipc'[d] = "start" => enqueued[d] = {} /\ first[d] = 0 /\ last[d] = 0
                        /\ End[d][first[d]] + 1 .. Upto(d)' \subseteq enqueued[d]
      BY <2>1 DEF ReadInOrder
    <3>1. CASE d = c
      <4>1. Upto(d)' = End[d][last[d]] /\ ipc'[d] # "start"
        BY <2>1, <3>1 DEF Upto
      <4> QED BY <4>1 DEF ReadInOrder
    <3>2. CASE d # c
      <4>1. ipc'[d] = ipc[d]
        BY <2>1, <3>2 DEF IngesterTypeOK
      <4>2. Upto(d)' = Upto(d)
        BY <2>1, <4>1 DEF Upto
      <4> QED BY <4>1, <4>2 DEF ReadInOrder
    <3> QED BY <3>1, <3>2
  <2> QED BY <2>2, <2>3, <2>4
<1>9. CASE StartFails(c) \/ Stop(c)
  <2>1. /\ running' \in [Chains -> BOOLEAN] /\ alive' \in BOOLEAN /\ errors' \in 0..MaxErrors
        /\ UNCHANGED <<head, ipc, first, last, target, block, next, queue, enqueued>>
    <3>1. CASE StartFails(c)
      <4>1. errors' \in 0..MaxErrors
        BY <3>1, ErrorsAssumption DEF StartFails, IngesterTypeOK
      <4>2. running' \in [Chains -> BOOLEAN]
        BY <3>1 DEF StartFails, IngesterTypeOK
      <4>3. alive' \in BOOLEAN
        BY <3>1 DEF StartFails
      <4> QED BY <3>1, <4>1, <4>2, <4>3 DEF StartFails, chainVars
    <3>2. CASE Stop(c)
      BY <3>2 DEF Stop, IngesterTypeOK, chainVars
    <3> QED BY <1>9, <3>1, <3>2
  <2>2. IngesterTypeOK'
    BY <2>1 DEF IngesterTypeOK
  <2>3. LoopInRange' /\ ReadInOrder'
    BY <2>1 DEF LoopInRange, ReadInOrder, Upto
  <2> QED BY <2>2, <2>3
<1> QED BY <1>1, <1>2, <1>3, <1>4, <1>5, <1>6, <1>7, <1>8, <1>9 DEF Loop, Outside

----------------------------------------------------------------------------
(* The workers. *)

\* The types of what the workers keep.
WorkerTypeOK ==
  /\ wpc \in [Workers -> {"idle", "models", "live"}]
  /\ tx \in [Workers -> Transactions \cup {None}]
  /\ \A w \in Workers : tx[w] \in IF wpc[w] = "idle" THEN {None} ELSE Transactions
  /\ seen \in [Workers -> Nat]
  /\ nodes \subseteq Addresses
  /\ edges \subseteq Addresses \X Addresses /\ IsFiniteSet(edges)
  /\ txCount \in [Addresses -> Nat]
  /\ active \subseteq Addresses \X Chains
  /\ alerts \in [Addresses -> Nat \cup {-1}]
  /\ added \subseteq Transactions
  /\ handled \subseteq Transactions
  /\ failed \subseteq handled

\* What was added is recorded, and a worker past the graph has added its
\* transaction.
AddedIsRecorded ==
  /\ \A t \in added : /\ Wallets(t) \subseteq nodes
                      /\ Edge(t) \subseteq edges
                      /\ \A a \in Wallets(t) : <<a, t[1]>> \in active
  /\ \A w \in Workers : wpc[w] = "live" => tx[w] \in added
  /\ handled \ failed \subseteq added

\* A degree that was read is never more than the graph has.
DegreesNotAhead ==
  /\ \A w \in Workers : wpc[w] = "live" => seen[w] <= Degree(edges, From(tx[w]))
  /\ \A a \in Addresses : alerts[a] <= Degree(edges, a)

Inv == IngesterInv /\ WorkerTypeOK /\ NothingLostInQueue /\ AddedIsRecorded /\ DegreesNotAhead

LEMMA TransactionFacts ==
  ASSUME NEW t \in Transactions
  PROVE  /\ t[1] \in Chains
         /\ From(t) \in Addresses
         /\ Wallets(t) \subseteq Addresses
         /\ Edge(t) \subseteq Addresses \X Addresses
         /\ IsFiniteSet(Edge(t))
<1>1. t[1] \in Chains /\ t[2] \in Numbers(t[1])
  BY DEF Transactions
<1>2. From(t) \in Addresses /\ To(t) \in Addresses \cup {Creates}
  BY <1>1, TransactionAssumption DEF From, To
<1>3. Edge(t) = {} \/ Edge(t) = {<<From(t), To(t)>>}
  BY DEF Edge
<1>4. Wallets(t) \subseteq Addresses
  BY <1>2 DEF Wallets
<1>5. Edge(t) \subseteq Addresses \X Addresses
  BY <1>2 DEF Edge
<1>6. IsFiniteSet(Edge(t))
  <2>1. IsFiniteSet({}) /\ IsFiniteSet({<<From(t), To(t)>>})
    BY FS_EmptySet, FS_Singleton
  <2> QED BY ONLY <1>3, <2>1
<1> QED BY <1>1, <1>2, <1>4, <1>5, <1>6

\* A degree is a number, and grows with the graph.
LEMMA DegreeIsNat ==
  ASSUME NEW G, IsFiniteSet(G), NEW a
  PROVE  Degree(G, a) \in Nat
<1>1. IsFiniteSet({e \in G : e[1] = a}) /\ IsFiniteSet({e \in G : e[2] = a})
  BY FS_Subset
<1> QED BY <1>1, FS_CardinalityType DEF Degree

LEMMA DegreeGrows ==
  ASSUME NEW G, NEW H, IsFiniteSet(H), G \subseteq H, NEW a
  PROVE  Degree(G, a) <= Degree(H, a)
<1> DEFINE go == {e \in G : e[1] = a}  gi == {e \in G : e[2] = a}
           ho == {e \in H : e[1] = a}  hi == {e \in H : e[2] = a}
<1>1. IsFiniteSet(ho) /\ IsFiniteSet(hi) /\ go \subseteq ho /\ gi \subseteq hi
  BY FS_Subset
<1>2. /\ Cardinality(go) \in Nat /\ Cardinality(ho) \in Nat
      /\ Cardinality(gi) \in Nat /\ Cardinality(hi) \in Nat
      /\ Cardinality(go) <= Cardinality(ho) /\ Cardinality(gi) <= Cardinality(hi)
  BY <1>1, FS_Subset, FS_CardinalityType
<1>3. Degree(G, a) = Cardinality(go) + Cardinality(gi) /\ Degree(H, a) = Cardinality(ho) + Cardinality(hi)
  BY DEF Degree
<1> HIDE DEF go, gi, ho, hi
<1> QED BY <1>2, <1>3

LEMMA Initially == Init => Inv
<1> SUFFICES ASSUME Init PROVE Inv
  OBVIOUS
<1>1. IngesterInv
  BY IngesterInitial DEF Init
<1>2. WorkerTypeOK
  BY FS_EmptySet DEF Init, WorkerTypeOK
<1>3. NothingLostInQueue
  BY DEF Init, IngesterInit, NothingLostInQueue
<1>4. AddedIsRecorded
  BY DEF Init, AddedIsRecorded
<1>5. DegreesNotAhead
  <2>1. \A a \in Addresses : Degree({}, a) \in Nat
    BY DegreeIsNat, FS_EmptySet
  <2> QED BY <2>1 DEF Init, DegreesNotAhead
<1> QED BY <1>1, <1>2, <1>3, <1>4, <1>5 DEF Inv

\* A step of an ingester: what it puts in the queue is there.
LEMMA IngesterKeepsInv ==
  ASSUME Inv, NEW c \in Chains, Loop(c) \/ Outside(c), UNCHANGED scoringVars
  PROVE  Inv'
<1> USE DEF scoringVars, workerVars, graphVars
<1>1. IngesterInv'
  BY IngesterStep DEF Inv
<1>2. WorkerTypeOK' /\ AddedIsRecorded' /\ DegreesNotAhead'
  BY DEF Inv, WorkerTypeOK, AddedIsRecorded, DegreesNotAhead
<1>3. NothingLostInQueue'
  <2>1. CASE Put(c)
    <3>1. /\ enqueued' = [enqueued EXCEPT ![c] = @ \cup {next[c]}]
          /\ enqueued \in [Chains -> SUBSET Nat]
          /\ queue' = Append(queue, <<c, next[c]>>)
      BY <2>1 DEF Put, Inv, IngesterInv, IngesterTypeOK
    <3>2. ToSet(queue') = ToSet(queue) \cup {<<c, next[c]>>}
      <4> DEFINE S == Transactions \cup {<<c, next[c]>>}
      <4>1. queue \in Seq(S)
        BY DEF Inv, IngesterInv, IngesterTypeOK
      <4> HIDE DEF S
      <4>2. <<c, next[c]>> \in S
        BY DEF S
      <4> QED BY <3>1, <4>1, <4>2, AppendToSet
    <3> QED BY <3>1, <3>2 DEF Inv, NothingLostInQueue
  <2>2. CASE ~Put(c)
    <3>1. UNCHANGED <<queue, enqueued>>
      BY <2>2 DEF Loop, Outside, Mine, Start, StartFails, Poll, Fetch, SampleOut, BlockDone,
                  LoopFails, Stop, Leave, chainVars
    <3> QED BY <3>1 DEF Inv, NothingLostInQueue
  <2> QED BY <2>1, <2>2
<1> QED BY <1>1, <1>2, <1>3 DEF Inv

\* What a worker leaves alone of the ingesters.
LEMMA IngesterUntouched ==
  ASSUME IngesterInv, UNCHANGED ingesterVars
  PROVE  IngesterInv'
BY DEF IngesterInv, IngesterTypeOK, LoopInRange, ReadInOrder, Upto, ingesterVars, chainVars

LEMMA GetKeepsInv ==
  ASSUME Inv, NEW w \in Workers, Get(w)
  PROVE  Inv'
<1> USE DEF Get, Inv
<1>0. queue \in Seq(Transactions) /\ queue # <<>> /\ queue' = Tail(queue) /\ Len(queue) <= QueueMax
  BY DEF IngesterInv, IngesterTypeOK
<1>1. Head(queue) \in Transactions /\ queue' \in Seq(Transactions) /\ Len(queue') <= QueueMax
  BY <1>0, QueueAssumption
<1>2. IngesterInv'
  BY <1>1 DEF IngesterInv, IngesterTypeOK, LoopInRange, ReadInOrder, Upto, chainVars
<1>3. WorkerTypeOK'
  BY <1>1 DEF WorkerTypeOK, graphVars
<1>4. NothingLostInQueue'
  <2>1. ToSet(queue) \subseteq ToSet(queue') \cup {Head(queue)}
    BY <1>0, TailToSet
  <2>2. tx'[w] = Head(queue) /\ \A v \in Workers \ {w} : tx'[v] = tx[v]
    BY DEF WorkerTypeOK
  <2>3. tx[w] = None
    BY DEF WorkerTypeOK
  <2> SUFFICES ASSUME NEW c \in Chains, NEW n \in enqueued[c]
               PROVE  \/ <<c, n>> \in ToSet(queue') \cup handled
                      \/ \E v \in Workers : tx'[v] = <<c, n>>
    BY DEF NothingLostInQueue
  <2>4. <<c, n>> # None
    BY NoneAssumption, TransactionPair DEF IngesterInv, IngesterTypeOK
  <2> QED BY <2>1, <2>2, <2>3, <2>4 DEF NothingLostInQueue
<1>5. AddedIsRecorded'
  BY DEF AddedIsRecorded, WorkerTypeOK, graphVars
<1>6. DegreesNotAhead'
  BY DEF DegreesNotAhead, WorkerTypeOK, graphVars
<1> QED BY <1>2, <1>3, <1>4, <1>5, <1>6

LEMMA AddToGraphKeepsInv ==
  ASSUME Inv, NEW w \in Workers, AddToGraph(w)
  PROVE  Inv'
<1> DEFINE t == tx[w]
<1>0. /\ t \in Transactions
      /\ nodes' = nodes \cup Wallets(t)
      /\ edges' = edges \cup Edge(t)
      /\ txCount' = [txCount EXCEPT ![From(t)] = IF To(t) = Creates THEN @ ELSE @ + 1]
      /\ active' = active \cup {<<a, t[1]>> : a \in Wallets(t)}
      /\ added' = added \cup {t}
      /\ seen' = [seen EXCEPT ![w] = Degree(edges', From(t))]
      /\ wpc' = [wpc EXCEPT ![w] = "live"]
      /\ UNCHANGED <<ingesterVars, tx, alerts, handled, failed>>
  BY DEF AddToGraph, Inv, WorkerTypeOK
<1>1. /\ t[1] \in Chains /\ From(t) \in Addresses /\ Wallets(t) \subseteq Addresses
      /\ Edge(t) \subseteq Addresses \X Addresses /\ IsFiniteSet(Edge(t))
  BY <1>0, TransactionFacts
<1>2. IsFiniteSet(edges) /\ IsFiniteSet(edges')
  BY <1>0, <1>1, FS_Union DEF Inv, WorkerTypeOK
<1>3. Degree(edges', From(t)) \in Nat
  BY <1>2, DegreeIsNat
<1> HIDE DEF t
<1>4. IngesterInv'
  BY <1>0, IngesterUntouched DEF Inv
<1>5. WorkerTypeOK'
  <2>1. /\ wpc' \in [Workers -> {"idle", "models", "live"}]
        /\ \A v \in Workers : tx[v] \in IF wpc'[v] = "idle" THEN {None} ELSE Transactions
    BY <1>0 DEF Inv, WorkerTypeOK, t
  <2>2. seen' \in [Workers -> Nat]
    BY <1>0, <1>3 DEF Inv, WorkerTypeOK
  <2>3. txCount' \in [Addresses -> Nat]
    BY <1>0, <1>1 DEF Inv, WorkerTypeOK
  <2>4. /\ nodes' \subseteq Addresses /\ edges' \subseteq Addresses \X Addresses
        /\ active' \subseteq Addresses \X Chains /\ added' \subseteq Transactions
    BY <1>0, <1>1 DEF Inv, WorkerTypeOK
  <2> QED BY <1>0, <1>2, <2>1, <2>2, <2>3, <2>4 DEF Inv, WorkerTypeOK
<1>6. NothingLostInQueue'
  BY <1>0 DEF Inv, NothingLostInQueue, ingesterVars
<1>7. AddedIsRecorded'
  <2>1. ASSUME NEW u \in added'
        PROVE  /\ Wallets(u) \subseteq nodes' /\ Edge(u) \subseteq edges'
               /\ \A a \in Wallets(u) : <<a, u[1]>> \in active'
    <3>1. CASE u = t
      BY <1>0, <3>1
    <3>2. CASE u # t
      BY <1>0, <3>2 DEF Inv, AddedIsRecorded
    <3> QED BY <3>1, <3>2
  <2>2. ASSUME NEW v \in Workers, wpc'[v] = "live"
        PROVE  tx'[v] \in added'
    BY <1>0, <2>2 DEF Inv, AddedIsRecorded, WorkerTypeOK, t
  <2>3. handled' \ failed' \subseteq added'
    BY <1>0 DEF Inv, AddedIsRecorded
  <2> QED BY <2>1, <2>2, <2>3 DEF AddedIsRecorded
<1>8. DegreesNotAhead'
  <2>0. \A a : /\ Degree(edges, a) <= Degree(edges', a)
               /\ Degree(edges, a) \in Nat /\ Degree(edges', a) \in Nat
    BY <1>0, <1>2, DegreeGrows, DegreeIsNat
  <2>1. ASSUME NEW v \in Workers, wpc'[v] = "live"
        PROVE  seen'[v] <= Degree(edges', From(tx'[v]))
    <3>1. CASE v = w
      <4>1. seen'[v] = Degree(edges', From(t)) /\ tx'[v] = t
        BY <1>0, <3>1 DEF Inv, WorkerTypeOK, t
      <4> QED BY <2>0, <4>1
    <3>2. CASE v # w
      <4>1. seen'[v] = seen[v] /\ tx'[v] = tx[v] /\ wpc[v] = "live" /\ seen[v] \in Nat
        BY <1>0, <2>1, <3>2 DEF Inv, WorkerTypeOK
      <4>2. seen[v] <= Degree(edges, From(tx[v]))
        BY <4>1 DEF Inv, DegreesNotAhead
      <4> QED BY <2>0, <4>1, <4>2
    <3> QED BY <3>1, <3>2
  <2>2. ASSUME NEW a \in Addresses
        PROVE  alerts'[a] <= Degree(edges', a)
    <3>1. alerts'[a] = alerts[a] /\ alerts[a] <= Degree(edges, a) /\ alerts[a] \in Int
      BY <1>0 DEF Inv, DegreesNotAhead, WorkerTypeOK
    <3> QED BY <2>0, <3>1
  <2> QED BY <2>1, <2>2 DEF DegreesNotAhead
<1> QED BY <1>4, <1>5, <1>6, <1>7, <1>8 DEF Inv

\* The ways a worker ends with a transaction differ in the alert and in whether
\* scoring raised.
LEMMA EndOfScoring ==
  ASSUME Inv, NEW w \in Workers, NoThreat(w) \/ Threat(w) \/ ThreatNotProduced(w) \/ ScoringFails(w)
  PROVE  /\ tx[w] \in Transactions /\ Done(w)
         /\ ((failed' = failed /\ wpc[w] = "live") \/ failed' = failed \cup {tx[w]})
         /\ \/ alerts' = alerts
            \/ wpc[w] = "live" /\ alerts' = [alerts EXCEPT ![From(tx[w])] = seen[w]]
BY DEF NoThreat, Threat, ThreatNotProduced, ScoringFails, Inv, WorkerTypeOK

LEMMA DoneKeepsInv ==
  ASSUME Inv, NEW w \in Workers, NoThreat(w) \/ Threat(w) \/ ThreatNotProduced(w) \/ ScoringFails(w)
  PROVE  Inv'
<1> DEFINE t == tx[w]
<1>0. /\ t \in Transactions /\ From(t) \in Addresses
      /\ handled' = handled \cup {t}
      /\ wpc' = [wpc EXCEPT ![w] = "idle"]
      /\ tx' = [tx EXCEPT ![w] = None]
      /\ seen' = [seen EXCEPT ![w] = 0]
      /\ UNCHANGED <<ingesterVars, nodes, edges, txCount, active, added>>
  BY EndOfScoring, TransactionFacts DEF Done, graphVars
<1>1. (failed' = failed /\ wpc[w] = "live") \/ failed' = failed \cup {t}
  BY EndOfScoring
<1>2. \/ alerts' = alerts
      \/ wpc[w] = "live" /\ alerts' = [alerts EXCEPT ![From(t)] = seen[w]]
  BY EndOfScoring
<1>3. wpc[w] = "live" => t \in added /\ seen[w] <= Degree(edges, From(t))
  BY DEF Inv, AddedIsRecorded, DegreesNotAhead
<1> HIDE DEF t
<1>4. IngesterInv'
  BY <1>0, IngesterUntouched DEF Inv
<1>5. WorkerTypeOK'
  <2>1. /\ wpc' \in [Workers -> {"idle", "models", "live"}]
        /\ tx' \in [Workers -> Transactions \cup {None}]
        /\ \A v \in Workers : tx'[v] \in IF wpc'[v] = "idle" THEN {None} ELSE Transactions
    BY <1>0 DEF Inv, WorkerTypeOK
  <2>2. seen' \in [Workers -> Nat]
    BY <1>0 DEF Inv, WorkerTypeOK
  <2>3. alerts' \in [Addresses -> Nat \cup {-1}]
    BY <1>0, <1>2 DEF Inv, WorkerTypeOK
  <2>4. handled' \subseteq Transactions /\ failed' \subseteq handled'
    BY <1>0, <1>1 DEF Inv, WorkerTypeOK
  <2> QED BY <1>0, <2>1, <2>2, <2>3, <2>4 DEF Inv, WorkerTypeOK
<1>6. NothingLostInQueue'
  <2> SUFFICES ASSUME NEW c \in Chains, NEW n \in enqueued[c]
               PROVE  \/ <<c, n>> \in ToSet(queue) \cup handled'
                      \/ \E v \in Workers : tx'[v] = <<c, n>>
    BY <1>0 DEF NothingLostInQueue, ingesterVars
  <2>1. CASE tx[w] = <<c, n>>
    BY <1>0, <2>1 DEF t
  <2>2. CASE tx[w] # <<c, n>>
    <3>1. \A v \in Workers : tx[v] = <<c, n>> => tx'[v] = <<c, n>>
      BY <1>0, <2>2 DEF Inv, WorkerTypeOK
    <3> QED BY <1>0, <3>1 DEF Inv, NothingLostInQueue
  <2> QED BY <2>1, <2>2
<1>7. AddedIsRecorded'
  <2>1. ASSUME NEW v \in Workers, wpc'[v] = "live"
        PROVE  tx'[v] \in added'
    BY <1>0, <2>1 DEF Inv, AddedIsRecorded, WorkerTypeOK
  <2>2. handled' \ failed' \subseteq added'
    BY <1>0, <1>1, <1>3 DEF Inv, AddedIsRecorded
  <2> QED BY <1>0, <2>1, <2>2 DEF Inv, AddedIsRecorded
<1>8. DegreesNotAhead'
  <2>1. ASSUME NEW v \in Workers, wpc'[v] = "live"
        PROVE  seen'[v] <= Degree(edges', From(tx'[v]))
    BY <1>0, <2>1 DEF Inv, DegreesNotAhead, WorkerTypeOK
  <2>2. ASSUME NEW a \in Addresses
        PROVE  alerts'[a] <= Degree(edges', a)
    <3>1. CASE alerts' = alerts
      BY <1>0, <3>1 DEF Inv, DegreesNotAhead
    <3>2. CASE wpc[w] = "live" /\ alerts' = [alerts EXCEPT ![From(t)] = seen[w]]
      BY <1>0, <1>3, <3>2 DEF Inv, DegreesNotAhead, WorkerTypeOK
    <3> QED BY <1>2, <3>1, <3>2
  <2> QED BY <2>1, <2>2 DEF DegreesNotAhead
<1> QED BY <1>4, <1>5, <1>6, <1>7, <1>8 DEF Inv

LEMMA InvInductive == Inv /\ [Next]_vars => Inv'
<1> SUFFICES ASSUME Inv, [Next]_vars PROVE Inv'
  OBVIOUS
<1>1. ASSUME NEW c \in Chains, Ingest(c)
      PROVE  Inv'
  BY <1>1, IngesterKeepsInv DEF Ingest
<1>2. ASSUME NEW c \in Chains, Outside(c), UNCHANGED scoringVars
      PROVE  Inv'
  BY <1>2, IngesterKeepsInv
<1>3. ASSUME NEW w \in Workers, Work(w)
      PROVE  Inv'
  BY <1>3, GetKeepsInv, AddToGraphKeepsInv, DoneKeepsInv DEF Work
<1>4. CASE UNCHANGED vars
  <2>1. IngesterInv'
    BY <1>4, IngesterUntouched DEF Inv, vars
  <2> QED BY <1>4, <2>1 DEF Inv, WorkerTypeOK, NothingLostInQueue, AddedIsRecorded, DegreesNotAhead,
                            vars, ingesterVars, scoringVars, workerVars, graphVars
<1> QED BY <1>1, <1>2, <1>3, <1>4 DEF Next

LEMMA InvAlways == Spec => []Inv
<1>1. Init => Inv
  BY Initially
<1>2. Inv /\ [Next]_vars => Inv'
  BY InvInductive
<1> QED BY <1>1, <1>2, PTL DEF Spec

----------------------------------------------------------------------------
\* Every variable keeps its type and the queue its maxsize, with any number of
\* chains and workers.
THEOREM TypeCorrect == Spec => []TypeOK
<1>1. Inv => TypeOK
  BY DEF Inv, IngesterInv, WorkerTypeOK, TypeOK
<1> QED BY <1>1, InvAlways, PTL

\* Whatever fails in a range, last_block never passes a transaction that was
\* not put in the queue.
THEOREM PolledBlocksEnqueuedAlways == Spec => []PolledBlocksEnqueued
<1>1. Inv => PolledBlocksEnqueued
  BY DEF Inv, IngesterInv, ReadInOrder, PolledBlocksEnqueued
<1> QED BY <1>1, InvAlways, PTL

\* The queue and the workers lose no transaction between them.
THEOREM NothingLostInQueueAlways == Spec => []NothingLostInQueue
<1>1. Inv => NothingLostInQueue
  BY DEF Inv
<1> QED BY <1>1, InvAlways, PTL

\* What was handled without an error stays recorded in the graph and the
\* cross-chain index.
THEOREM HandledIsRecordedAlways == Spec => []HandledIsRecorded
<1>1. Inv => HandledIsRecorded
  BY DEF Inv, AddedIsRecorded, HandledIsRecorded
<1> QED BY <1>1, InvAlways, PTL

\* The degree behind an alert falls only when a worker uses one it read before
\* another worker enlarged the graph.
THEOREM DegreeFallsOnlyWhenStaleAlways == Spec => DegreeFallsOnlyWhenStale
<1>1. Inv /\ Inv' /\ [Next]_vars =>
        [\A a \in Addresses : alerts'[a] < alerts[a] => alerts'[a] < Degree(edges, a)]_vars
  <2> SUFFICES ASSUME Inv, Inv', NEW a \in Addresses, alerts'[a] < alerts[a]
               PROVE  alerts'[a] < Degree(edges, a)
    OBVIOUS
  <2>1. alerts[a] <= Degree(edges, a) /\ Degree(edges, a) \in Nat
    BY DegreeIsNat DEF Inv, DegreesNotAhead, WorkerTypeOK
  <2>2. alerts[a] \in Int /\ alerts'[a] \in Int
    BY DEF Inv, WorkerTypeOK
  <2> QED BY <2>1, <2>2
<1> QED BY <1>1, InvAlways, PTL DEF Spec, DegreeFallsOnlyWhenStale

----------------------------------------------------------------------------
(* The refinement: every step of the pipeline is a step of OrderedFeed, or  *)
(* leaves what it sees alone.                                              *)

LEMMA FeedInitial == Init => Feed!Init
BY EndFacts DEF Init, IngesterInit, Feed!Init

\* A step that changes neither a head, nor a first block, nor what was put in
\* the queue is a stutter of the feed.
LEMMA FeedStutters ==
  ASSUME UNCHANGED <<head, first, enqueued>>
  PROVE  UNCHANGED Feed!feedVars
BY DEF Feed!feedVars

LEMMA FeedMine ==
  ASSUME Inv, NEW c \in Chains, Mine(c)
  PROVE  Feed!Next \/ UNCHANGED Feed!feedVars
<1>0. head' = [head EXCEPT ![c] = head[c] + 1] /\ UNCHANGED <<first, enqueued>>
  BY DEF Mine, chainVars
<1>1. head[c] \in 0..MaxHeight[c] /\ head[c] + 1 \in 0..MaxHeight[c] /\ head \in [Chains -> Nat]
  BY HeightsInChain, EndFacts DEF Inv, IngesterInv, Mine, IngesterTypeOK
<1>2. End[c][head[c]] <= End[c][head'[c]] /\ End[c][head[c]] \in Nat /\ End[c][head'[c]] \in Nat
  BY <1>0, <1>1, EndGrows, EndIsNat
<1>3. CASE c \in Sampled \/ End[c][head[c]] = End[c][head'[c]]
  <2>1. ASSUME NEW d \in Chains \ Sampled
        PROVE  End[d][head'[d]] = End[d][head[d]]
    BY <1>0, <1>1, <1>3
  <2> QED BY <1>0, <2>1 DEF Feed!feedVars
<1>4. CASE c \notin Sampled /\ End[c][head[c]] # End[c][head'[c]]
  <2>1. ASSUME NEW d \in Chains \ Sampled, d # c
        PROVE  End[d][head'[d]] = End[d][head[d]]
    BY <1>0, <1>1, <2>1
  <2>2. Feed!Grow(c)
    <3> DEFINE m == [d \in Chains \ Sampled |-> End[d][head[d]]]
    <3>1. m' = [m EXCEPT ![c] = m'[c]]
      <4>1. m' = [d \in Chains \ Sampled |-> IF d = c THEN m'[c] ELSE End[d][head[d]]]
        BY <1>4, <2>1
      <4> QED BY <4>1
    <3>2. m'[c] > m[c]
      BY <1>2, <1>4
    <3> QED BY <1>0, <3>1, <3>2 DEF Feed!Grow
  <2> QED BY <1>4, <2>2 DEF Feed!Next
<1> QED BY <1>3, <1>4

LEMMA FeedStart ==
  ASSUME Inv, NEW c \in Chains, Start(c)
  PROVE  Feed!Next \/ UNCHANGED Feed!feedVars
<1>0. first' = [first EXCEPT ![c] = head[c]] /\ UNCHANGED <<head, enqueued>>
  BY DEF Start
<1>1. first \in [Chains -> Nat]
  BY DEF Inv, IngesterInv, IngesterTypeOK
<1>2. CASE c \in Sampled
  <2>1. ASSUME NEW d \in Chains \ Sampled
        PROVE  End[d][first'[d]] = End[d][first[d]]
    BY <1>0, <1>1, <1>2
  <2> QED BY <1>0, <2>1 DEF Feed!feedVars
<1>3. CASE c \notin Sampled
  <2>1. enqueued[c] = {}
    BY <1>3 DEF Start, Inv, IngesterInv, ReadInOrder
  <2>2. Feed!Begin(c)
    BY <1>0, <1>1, <1>3, <2>1 DEF Feed!Begin
  <2> QED BY <1>3, <2>2 DEF Feed!Next
<1> QED BY <1>2, <1>3

LEMMA FeedPut ==
  ASSUME Inv, NEW c \in Chains, Put(c)
  PROVE  Feed!Next \/ UNCHANGED Feed!feedVars
<1> DEFINE n == next[c]
<1>0. enqueued' = [enqueued EXCEPT ![c] = enqueued[c] \cup {n}] /\ UNCHANGED <<head, first>>
  BY DEF Put
<1>1. enqueued \in [Chains -> SUBSET Nat] /\ n \in Nat /\ ipc[c] = "put"
  BY DEF Inv, IngesterInv, IngesterTypeOK, Put
<1>2. CASE c \in Sampled
  <2>1. ASSUME NEW d \in Chains \ Sampled
        PROVE  enqueued'[d] = enqueued[d]
    BY <1>0, <1>1, <1>2
  <2> QED BY <1>0, <2>1 DEF Feed!feedVars
<1>3. CASE c \notin Sampled /\ n \in enqueued[c]
  <2>1. enqueued' = enqueued
    BY <1>0, <1>1, <1>3
  <2> QED BY <1>0, <2>1 DEF Feed!feedVars
<1>4. CASE c \notin Sampled /\ n \notin enqueued[c]
  <2>1. n \in End[c][first[c]] + 1 .. End[c][head[c]]
    <3>1. IngesterInv'
      BY IngesterStep DEF Inv, Loop
    <3>2. n \in enqueued'[c]
      BY <1>0, <1>1
    <3>3. enqueued'[c] \subseteq End[c][first'[c]] + 1 .. End[c][head'[c]]
      BY <1>4, <3>1 DEF IngesterInv, ReadInOrder
    <3> QED BY <1>0, <3>2, <3>3
  <2>2. \A m \in End[c][first[c]] + 1 .. n - 1 : m \in enqueued[c]
    <3>1. Upto(c) = n - 1
      BY <1>1 DEF Upto
    <3> QED BY <1>4, <3>1 DEF Inv, IngesterInv, ReadInOrder
  <2> HIDE DEF n
  <2>3. Feed!Feed(c)
    BY <1>0, <1>1, <1>4, <2>1, <2>2 DEF Feed!Feed
  <2> QED BY <1>4, <2>3 DEF Feed!Next
<1> QED BY <1>2, <1>3, <1>4

\* The ingester of every chain that is not sampled implements the ordered
\* feed: no gap and nothing ahead of an older transaction, through errors,
\* repeated ranges, a full queue and any number of workers.
THEOREM FeedImplemented == Spec => ImplementsFeed
<1>1. Inv /\ [Next]_vars => [Feed!Next]_Feed!feedVars
  <2> SUFFICES ASSUME Inv, [Next]_vars
               PROVE  Feed!Next \/ UNCHANGED Feed!feedVars
    OBVIOUS
  <2>1. ASSUME NEW c \in Chains, Loop(c) \/ Outside(c)
        PROVE  Feed!Next \/ UNCHANGED Feed!feedVars
    <3>1. CASE Mine(c) \/ Start(c) \/ Put(c)
      BY <3>1, FeedMine, FeedStart, FeedPut
    <3>2. CASE ~(Mine(c) \/ Start(c) \/ Put(c))
      <4>1. UNCHANGED <<head, first, enqueued>>
        BY <2>1, <3>2 DEF Loop, Outside, StartFails, Poll, Fetch, SampleOut, BlockDone, LoopFails,
                          Stop, Leave, chainVars
      <4> QED BY <4>1, FeedStutters
    <3> QED BY <3>1, <3>2
  <2>2. ASSUME NEW w \in Workers, Work(w)
        PROVE  Feed!Next \/ UNCHANGED Feed!feedVars
    <3>1. UNCHANGED <<head, first, enqueued>>
      BY <2>2 DEF Work, Get, AddToGraph, NoThreat, Threat, ThreatNotProduced, ScoringFails, Done,
                  ingesterVars, chainVars
    <3> QED BY <3>1, FeedStutters
  <2>3. CASE UNCHANGED vars
    <3>1. UNCHANGED <<head, first, enqueued>>
      BY <2>3 DEF vars, ingesterVars, chainVars
    <3> QED BY <3>1, FeedStutters
  <2> QED BY <2>1, <2>2, <2>3 DEF Next, Ingest
<1> QED BY <1>1, InvAlways, FeedInitial, PTL DEF Spec, ImplementsFeed
============================================================================
