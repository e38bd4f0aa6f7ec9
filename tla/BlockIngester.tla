--------------------------- MODULE BlockIngester ---------------------------
(***************************************************************************)
(* The polling loop of src/blockchain/ingester.py, one per chain, feeding  *)
(* one bounded asyncio queue.                                              *)
(*                                                                         *)
(* The transactions of a chain are numbered in the order of its blocks:    *)
(* block b holds the numbers End[c][b-1]+1 .. End[c][b].  Every await is a *)
(* point where another chain, a worker or the network may act, so the loop *)
(* is cut at its awaits: reading the head, fetching a block, queue.put.    *)
(***************************************************************************)
EXTENDS Integers, Sequences, SequencesExt

CONSTANTS
  Chains,      \* chains with an ingester
  Sampled,     \* those with sample_rate < 1.0
  MaxHeight,   \* bound: MaxHeight[c] blocks are mined on chain c
  End,         \* End[c][b]: transactions in blocks 1..b of chain c
  Stoppable,   \* those stop() may be called on
  QueueMax,    \* QUEUE_MAX_SIZE
  MaxErrors    \* bound: exceptions inside the polling loops

ASSUME ChainsAssumption == Sampled \subseteq Chains /\ Stoppable \subseteq Chains
ASSUME HeightAssumption == MaxHeight \in [Chains -> Nat]
ASSUME EndAssumption ==
  \A c \in Chains :
    /\ End[c] \in [0..MaxHeight[c] -> Nat]
    /\ End[c][0] = 0
    /\ \A a, b \in 0..MaxHeight[c] : a <= b => End[c][a] <= End[c][b]
ASSUME QueueAssumption == QueueMax \in Nat \ {0}
ASSUME ErrorsAssumption == MaxErrors \in Nat

VARIABLES
  head,      \* eth.block_number
  ipc,       \* where the loop of a chain is
  running,   \* self._running
  first,     \* history: last_block when the loop started
  last,      \* last_block
  target,    \* current_block
  block,     \* block_num
  next,      \* next transaction of the fetched block
  queue,     \* the asyncio queue: <<chain, number>>
  enqueued,  \* history: numbers ever put in the queue
  errors,    \* exceptions so far
  alive      \* FALSE once gather() has propagated an exception

chainVars == <<first, last, target, block, next>>
ingesterVars == <<head, ipc, running, chainVars, queue, enqueued, errors, alive>>

Numbers(c) == 1..End[c][MaxHeight[c]]

Transactions == {t \in Chains \X UNION {Numbers(c) : c \in Chains} : t[2] \in Numbers(t[1])}

IngesterInit ==
  /\ head = [c \in Chains |-> 0]
  /\ ipc = [c \in Chains |-> "start"]
  /\ running = [c \in Chains |-> TRUE]
  /\ first = [c \in Chains |-> 0] /\ last = first /\ target = first /\ block = first
  /\ next = [c \in Chains |-> 1]
  /\ queue = <<>>
  /\ enqueued = [c \in Chains |-> {}]
  /\ errors = 0
  /\ alive = TRUE

\* The chain grows.
Mine(c) ==
  /\ head[c] < MaxHeight[c]
  /\ head' = [head EXCEPT ![c] = @ + 1]
  /\ UNCHANGED <<ipc, running, chainVars, queue, enqueued, errors, alive>>

\* The loop begins at the head it reads first: older blocks are not fetched.
Start(c) ==
  /\ alive /\ ipc[c] = "start"
  /\ first' = [first EXCEPT ![c] = head[c]]
  /\ last' = [last EXCEPT ![c] = head[c]]
  /\ ipc' = [ipc EXCEPT ![c] = "poll"]
  /\ UNCHANGED <<head, running, target, block, next, queue, enqueued, errors, alive>>

\* That first read is outside the try: stream() re-raises, and gather() ends
\* every ingester and worker.
StartFails(c) ==
  /\ alive /\ ipc[c] = "start"
  /\ errors < MaxErrors
  /\ errors' = errors + 1
  /\ alive' = FALSE
  /\ UNCHANGED <<head, ipc, running, chainVars, queue, enqueued>>

\* The loop reads the head and finds new blocks.  (Without any it sleeps and
\* reads again.)
Poll(c) ==
  /\ alive /\ ipc[c] = "poll" /\ running[c]
  /\ head[c] > last[c]
  /\ target' = [target EXCEPT ![c] = head[c]]
  /\ block' = [block EXCEPT ![c] = last[c] + 1]
  /\ ipc' = [ipc EXCEPT ![c] = "fetch"]
  /\ UNCHANGED <<head, running, first, last, next, queue, enqueued, errors, alive>>

Fetch(c) ==
  /\ alive /\ ipc[c] = "fetch"
  /\ next' = [next EXCEPT ![c] = End[c][block[c] - 1] + 1]
  /\ ipc' = [ipc EXCEPT ![c] = "put"]
  /\ UNCHANGED <<head, running, first, last, target, block, queue, enqueued, errors, alive>>

\* Mutant: put_nowait on a full queue drops the transaction.
PutNoWait(c) ==
  /\ alive /\ ipc[c] = "put"
  /\ next[c] <= End[c][block[c]]
  /\ IF Len(queue) < QueueMax
     THEN /\ queue' = Append(queue, <<c, next[c]>>)
          /\ enqueued' = [enqueued EXCEPT ![c] = @ \cup {next[c]}]
     ELSE UNCHANGED <<queue, enqueued>>
  /\ next' = [next EXCEPT ![c] = @ + 1]
  /\ UNCHANGED <<head, ipc, running, first, last, target, block, errors, alive>>

\* queue.put waits for room: backpressure.
Put(c) ==
  /\ alive /\ ipc[c] = "put"
  /\ next[c] <= End[c][block[c]]
  /\ Len(queue) < QueueMax
  /\ queue' = Append(queue, <<c, next[c]>>)
  /\ enqueued' = [enqueued EXCEPT ![c] = @ \cup {next[c]}]
  /\ next' = [next EXCEPT ![c] = @ + 1]
  /\ UNCHANGED <<head, ipc, running, first, last, target, block, errors, alive>>

\* A sampled chain leaves transactions out at random.
SampleOut(c) ==
  /\ alive /\ ipc[c] = "put"
  /\ c \in Sampled
  /\ next[c] <= End[c][block[c]]
  /\ next' = [next EXCEPT ![c] = @ + 1]
  /\ UNCHANGED <<head, ipc, running, first, last, target, block, queue, enqueued, errors, alive>>

\* The block is through: the next one of the range, or, after the range,
\* last_block moves and the loop reads the head again.
BlockDone(c) ==
  /\ alive /\ ipc[c] = "put"
  /\ next[c] > End[c][block[c]]
  /\ IF block[c] < target[c]
     THEN /\ block' = [block EXCEPT ![c] = @ + 1]
          /\ ipc' = [ipc EXCEPT ![c] = "fetch"]
          /\ UNCHANGED last
     ELSE /\ last' = [last EXCEPT ![c] = target[c]]
          /\ ipc' = [ipc EXCEPT ![c] = "poll"]
          /\ UNCHANGED block
  /\ UNCHANGED <<head, running, first, target, next, queue, enqueued, errors, alive>>

\* Mutant: the exception ends the loop.
LoopFailsForGood(c) ==
  /\ alive /\ ipc[c] \in {"fetch", "put"}
  /\ errors < MaxErrors
  /\ errors' = errors + 1
  /\ ipc' = [ipc EXCEPT ![c] = "stopped"]
  /\ UNCHANGED <<head, running, chainVars, queue, enqueued, alive>>

\* The fetch or the normalisation of a transaction raises: last_block stays, so
\* the whole range is read again.
LoopFails(c) ==
  /\ alive /\ (ipc[c] = "fetch" \/ (ipc[c] = "put" /\ next[c] <= End[c][block[c]]))
  /\ errors < MaxErrors
  /\ errors' = errors + 1
  /\ ipc' = [ipc EXCEPT ![c] = "poll"]
  /\ UNCHANGED <<head, running, chainVars, queue, enqueued, alive>>

\* stop() sets the flag; the loop reads it only at its head.
Stop(c) ==
  /\ c \in Stoppable
  /\ alive /\ running[c] /\ ipc[c] # "stopped"
  /\ running' = [running EXCEPT ![c] = FALSE]
  /\ UNCHANGED <<head, ipc, chainVars, queue, enqueued, errors, alive>>

Leave(c) ==
  /\ alive /\ ipc[c] = "poll" /\ ~running[c]
  /\ ipc' = [ipc EXCEPT ![c] = "stopped"]
  /\ UNCHANGED <<head, running, chainVars, queue, enqueued, errors, alive>>

\* The steps the loop takes by itself.
Loop(c) == Start(c) \/ Poll(c) \/ Fetch(c) \/ Put(c) \/ SampleOut(c) \/ BlockDone(c) \/ Leave(c)

\* What happens to the loop.
Outside(c) == Mine(c) \/ StartFails(c) \/ LoopFails(c) \/ Stop(c)

----------------------------------------------------------------------------
IngesterTypeOK ==
  /\ ipc \in [Chains -> {"start", "poll", "fetch", "put", "stopped"}]
  /\ running \in [Chains -> BOOLEAN]
  /\ head \in [Chains -> Nat] /\ first \in [Chains -> Nat] /\ last \in [Chains -> Nat]
  /\ target \in [Chains -> Nat] /\ block \in [Chains -> Nat]
  /\ \A c \in Chains :
       /\ first[c] <= last[c] /\ last[c] <= head[c]
       /\ head[c] <= MaxHeight[c] /\ target[c] <= head[c]
  /\ next \in [Chains -> Nat \ {0}]
  /\ queue \in Seq(Transactions) /\ Len(queue) <= QueueMax
  /\ enqueued \in [Chains -> SUBSET Nat]
  /\ \A c \in Chains : enqueued[c] \subseteq Numbers(c)
  /\ errors \in 0..MaxErrors
  /\ alive \in BOOLEAN

\* No gap: when last_block says b, every transaction of the blocks after the
\* first head up to b was put in the queue, whatever failed in between.
PolledBlocksEnqueued ==
  \A c \in Chains \ Sampled :
    \A n \in End[c][first[c]] + 1 .. End[c][last[c]] : n \in enqueued[c]
============================================================================
