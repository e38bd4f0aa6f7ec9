# CryptoSentinel: specifications, model checks and proofs

TLA+ specifications of CryptoSentinel AI: the polling ingesters, the scoring
pipeline, the risk scorer, the Kafka producer and consumer, the alert store, the
threat graph, the gateway of the API (tokens, revocation, rate limit), the model
files and the scripts that write them, the contract scanner, the Elliptic data, the
anomaly scores, the backtest and the alert table. TLC checks them on small
instances; TLAPS proves every safety property that TLC checks, for every value of
the constants. Line numbers
below are those of the repository; `PROJECT.json` maps every definition to the
lines it stands for.

To run things, in this directory:

    tlc -config MCScoringPipeline.cfg MCScoringPipeline
    tlapm ScoringPipelineProofs.tla

## The system

Three programs share the code base.

* **The scoring pipeline** (`src/pipeline/scoring_pipeline.py`) is one asyncio
  process. One `BlockIngester` per chain polls an RPC node and puts the
  transactions of new blocks into one bounded queue. Two workers take them out.
  A worker scores a transaction with the offline models in an executor
  (first await), enters it into the threat graph and the cross-chain index and
  reads the sender's degree, asks the live model (second await), and then, if
  the assessment is a threat, updates the alert store, produces to Kafka and
  writes a database row.
* **The ingestion pipeline** (`src/pipeline/async_pipeline.py`) polls in the
  same way and only produces the transactions to Kafka, through a producer with
  a dead-letter buffer.
* **The API** (`src/api`) serves the alert store, the threat graph, the contract
  scanner and the models of its own process, behind a rate limiter, which keeps
  its windows in the memory of the process, and token authentication, whose
  denylist is in a Redis the processes share.

Besides them, scripts run by hand prepare the Elliptic data and train the models;
the programs load the files they leave when they start. Alerts go to a PostgreSQL
table that the pipeline and the API write and read.

`ThreatIntelConsumer` is the base of programs that read the Kafka topics.

### Inventory

| component | state | operations | who calls it | hard parts |
|---|---|---|---|---|
| block ingestion | `last_block`, `_running`, position in a range | poll, fetch, put, sample, stop | the event loop; feeds the queue | full queue, failed ranges read again, two chains on one queue |
| scoring pipeline | queue, per worker a transaction and the degree it read | get, add to graph, assess, task_done | ingesters, graph, alert store, producer | state read before an await and used after it; exceptions halfway |
| Kafka producer | deque `_buffer`, librdkafka's queue | `produce_transaction`, `produce_alert`, `_drain_buffer`, delivery reports | both pipelines | outages, full queues, `poll(0)` raising after `produce()` succeeded |
| Kafka consumer | `_running`, position, committed offset | poll, handle, commit, stop, close | Kafka's group protocol | crashes, rebalances, slow handlers, failed commits, bad messages |
| alert store | `_alerts`, counters, a heap that is only pushed to | `add_or_update`, `acknowledge`, eviction | workers, API | priorities that decay while alerts compete for room |
| threat graph | directed graph, risk and flags, union-find forest | `add_transaction`, `flag_address`, clustering, propagation, three searches | workers, API | order of unions and payments; bounds of the searches |
| cross-chain index | chains on which a wallet was seen, hits of bridges and bridged assets | `observe`, `cross_chain_risk_boost` | workers | two workers, two chains, directions of a bridge |
| risk scorer, watchlist | none | `score`, `compute_action_tier`, `compute_confidence`, `is_known_bad` | workers, API | missing models, the order of the adjustments |
| feature extraction | history of timestamps per address and process | `extract` | workers, API | clocks of several chains |
| tokens and token store | key pair and `_mem` of a process, the denylist in Redis | login, dev token, refresh, logout, `get_current_user`, `revoke`, `is_revoked` | API callers, any process | Redis coming and going, several processes, restarts, entries that expire by whole seconds |
| rate limiter | `_windows` of a process | `_check_rate_limit` before every request | API callers | the edge of the window, requests that are turned down |
| models and training | files of `data/processed` and `data/models`, what a process loaded | ten scripts; `InferenceEngine.load`, `ModelRegistry.load_all`, `Backtester.load` | by hand; at the start of a program | interrupted saves, files of different runs, a stale list of features |
| Elliptic data | none | `merge_labels`, `chronological_split`, `build_edge_index`, `build_pyg_data` | the scripts | two numberings of the same transactions |
| anomaly scores | a threshold | `score_samples`, `predict`, `set_threshold_from_percentile`, `tune_threshold` | engine, registry, scripts | normalisation over the batch |
| backtest | none | `threshold_sweep`, `find_best_threshold` | by hand | the grid |
| contract scanner | none | `scan`, `scan_source`, `scan_bytecode`, `scan_full` | API | windows of lines, many findings, PUSH data |
| alert repository | `_available` of a process, the table | `init_db`, `save_alert`, `acknowledge_alert_db`, `get_recent_alerts` | workers, API | an id known before its commit, answers that are lost |
| everything else | none, or caches | see `PROJECT.json` | | |

`PROJECT.json` lists all 26 components with their status, and under `hazards`
the places, each with its line, where this code is hard to test.

### What makes each component correct

* *Ingestion*: no block after the first head is skipped, whatever fails; the
  unsampled chain is fed in order; a full queue makes the ingester wait and
  loses nothing; an ingester catches up.
* *Pipeline*: what is in the queue is handled; a transaction handled without an
  error is recorded; a stale reading is the only way an assessment regresses.
* *Producer*: no transaction disappears without a trace; an outage shorter than
  the buffer loses none; the order of calls survives the buffer.
* *Assessment*: the score lies between 0 and 1 and no signal lowers it; a boost is
  earned by transactions and never taken back; the velocity window misses none.
* *Consumer*: nothing behind the committed offset is lost silently, the offset
  never falls, every message is settled in the end.
* *Alert store*: a size limit with a known excess, statistics that add up,
  evictions that drop no better alert than they keep.
* *Graph*: clusters are exactly the chains of common inputs, the searches agree
  with the simple paths of the graph and with each other, risk comes from
  flagged wallets and stays near them.
* *Gateway*: a logged-out token is not accepted where the store its logout went to
  is asked; a session ends; no window of time sees a burst, and nobody is turned
  down early.
* *Model files*: what a program loads undisturbed was made together; the live
  model answers; the checkpoint is the best epoch of the last run.
* *Scanner*: the worst finding decides the severity of a contract; more code takes
  no finding away; only instructions are counted.
* *Elliptic data*: edges, labels and masks are of the same transactions.
* *Scores, backtest*: a threshold does on its own data what it was chosen for.
* *Alert table*: an alert whose id was returned is in it and in the history.

## Modules

| module | models | form |
|---|---|---|
| `BlockIngester` | `src/blockchain/ingester.py` | the loop of a chain, cut at its awaits |
| `OrderedFeed` | what an unsampled ingester promises | abstract specification |
| `ScoringPipeline` | `src/pipeline/scoring_pipeline.py`, with what it does to the graph, the index and the alerts | EXTENDS `BlockIngester`; a worker is cut at its awaits |
| `RiskScorer` | `src/response/risk_scorer.py` | operators on exact fractions |
| `RiskAssessment` | when a worker, `/analyze/wallet` and `/analyze/transaction` read what they score: `feature_engineer.py`, `cross_chain.py`, the degree, the models' answers | EXTENDS `RiskScorer`; a worker is cut at its awaits |
| `ThreatIntelProducer` | `src/streaming/producer.py` | the calls of one program and librdkafka's thread |
| `ThreatIntelConsumer` | `src/streaming/consumer.py` | the processes of a group and Kafka's part |
| `AlertManager` | `src/response/alert_manager.py` | one action per method |
| `UnionFind` | the class of that name in `src/graph/threat_graph.py` | operators on its two dictionaries |
| `ThreatGraph` | the rest of that file | one action per method; the searches as operators |
| `TokenStore` | `src/api/token_store.py` | operators on the denylist in Redis and the memory of each process |
| `RateLimiter` | `src/api/middleware/rate_limiter.py` | operators on the window of a key |
| `Gateway` | `src/api/auth.py`, `routes/auth.py`, and the two above as a request meets them | EXTENDS `TokenStore`, `RateLimiter`; one action per route |
| `ModelFiles` | the scripts and the loaders of models | one action per file written, epoch, or file read |
| `ContractScanner` | `src/scanner` | operators on lines and bytes |
| `EllipticGraph` | `elliptic_processor.py` and `build_pyg_data` | operators on rows, classes and edges |
| `AnomalyScores` | scores and thresholds of the autoencoder and the isolation forest | operators on batches |
| `Backtest` | `src/backtesting/backtester.py` | operators on scores and labels |
| `AlertRepository` | `src/db` | actions; `save_alert` is cut at its flush and its commit |
| `Standalone` | the last five side by side: one grows an input by an item a step | EXTENDS them |
| `MC...` | instances for TLC, in `MCThreatGraph` with the scenario of the run | |
| `...Proofs` | theorems | each EXTENDS the module it is about; `StandaloneProofs` is about `Standalone`, `ThreatGraph` and `ModelFiles` |
| `DataLemmas` | facts about the data of several modules | lemmas |

How state and actions correspond to the code:

* **A step ends where another actor may run.** Python code between two awaits is
  atomic on its event loop and is one action; `queue.put` on a full queue, an RPC
  read, `run_in_executor` and the live model are the places where it is cut.
  `produce_transaction` has no await, but librdkafka delivers from its own
  thread, so the drain loop is one action per iteration (`DrainOne`,
  `DrainPollRaises`, `DrainStops`).
* **`BlockIngester`**: `last` is `last_block`, `target` is `current_block`, `block`
  and `next` are the loop variables. `LoopFails` is the `except` that sleeps and
  polls again with `last_block` where it was. `StartFails` is the read of the head
  that no `try` surrounds: `gather()` then ends the process (`alive`).
* **`ScoringPipeline`**: `Get` takes from the queue; `AddToGraph` is everything
  between the two awaits; `Threat`, `NoThreat`, `ThreatNotProduced` and
  `ScoringFails` are the ways a transaction ends, all with `task_done`. A score is
  abstracted to *threat or not*, and an alert to the degree its assessment used,
  which is what a stale reading can spoil.
* **`RiskScorer`**: a model's score is a number of `Unit`-ths, -1 for none. The
  composite keeps its denominator (`Full`), so each weight, factor and threshold of
  the code is exact; where the code's doubles round, a score that should equal a
  threshold may fall on either side of it.
* **`RiskAssessment`**: `Extract` runs when the transaction is taken, so the count
  that decides the velocity flag is older than the boost and the centrality, which
  `Observe` reads between the awaits, and those are older than `ScoreTransaction`,
  which uses all three. The API handlers have no await; they keep a history of
  their own and never set the velocity flag, and the workers never set
  `known_bad_address`. A history is kept as the number of entries per timestamp.
* **`ThreatIntelProducer`**: messages are numbered by call. `program` chooses which
  of the two programs owns the producer, because each calls only one of the two
  produce methods. `Push` is `deque.append` on a full deque.
* **`ThreatIntelConsumer`**: `Revoke` stands for whatever takes a partition from a
  member (a join, a missed session timeout, a handler slower than
  `max.poll.interval.ms`), with or without a message in hand. `CommitFails` and
  `CommitBadFails` differ because the second is inside an `except` clause. A
  handler that raises anything but a JSON error is logged and its message passed over.
* **`AlertManager`**: an assessment is a tier and a raw priority; `CurrentPriority`
  keeps the decay of 10% an hour as exact integers. `Create` includes the eviction
  that follows it.
* **`ThreatGraph`**: successors keep the order of their first edge, which decides
  the order in which paths are found. An edge keeps the timestamp of the last
  call. `cluster_id` is named by the root instead of numbered. Risks are in
  thousandths. `Reached` is the exception `max()` raises for a cluster without a
  wallet in the graph, which leaves out the clusters after it.

* **`Gateway`**: a tick is half a second on the small instance (`Second` is 2), so
  that times between whole seconds occur: `jose` and the denylist round to seconds,
  in different directions. A token carries the process whose key signed it; `keys`
  is 0 where the pair is mounted and otherwise generated by each process at its
  start. `Checked` is the entry that `is_revoked` drops from memory. A write to
  Redis that times out may have arrived (`Revoke`). `Request` is the middleware and
  then the check of the token; only the limiter of one path is followed.
* **`ModelFiles`**: a file holds the number of the run that wrote it. A script runs
  alone (they are started by hand), may be stopped after any file or in the middle of
  one (`Torn`), and a program may load at any time. A loader goes through its
  `Sections`, each of which ends at its first exception and keeps what it had
  assigned by then. `cut` and `mixed` remember which groups of files were cut short
  or written during a load, which is what the properties except.
* **`Standalone`**: the parts keep no state between calls, so the model enumerates
  inputs: every source, bytecode, extract or batch within the bounds is reached item
  by item, and `FindingsOutlive` compares a source with the one it continues. A line is
  the set of what the regular expressions find in it. The features file is sorted by
  time step, as the published one is.
* **`AnomalyScores`**: a normalised score is a fraction over the spread of the batch,
  compared by cross multiplication (`AtLeast`). `ScoreFeatures` is the batch of one row
  that the pipeline and the API make.
* **`AlertRepository`**: `Flush` gives the id, `Commit` happens when the `with` block
  ends; without the server the row is lost, or only the answer is.

Variables marked *history* in the modules are not in the code; no action's guard
reads them.

## Runs

| run | instance | shows |
|---|---|---|
| `producer` | a deque of 2, a library queue of 2, 4 calls, either program, broker up and down at any time, `poll(0)` may raise | accounting, order, duplicates, and that every call returns |
| `alert_manager` | 4 addresses, room for 2, 6 reports, 2 tiers, raw priorities 9 and 10, 3 hours | statistics of merged reports, eviction order |
| `pipeline` | 2 chains (one sampled and stoppable), 3 blocks, queue of 1, 2 workers, 1 exception | queue, graph, the refinement of `OrderedFeed`, and that the queue empties and the ingesters catch up |
| `consumer` | 2 processes, 1 partition of 3 messages of which one is no JSON, 2 disturbances | loss, repetition, and that every message is settled |
| `threat_graph` | 3 wallets with 4 payments at 3 times in any order, or 4 wallets with 2 payments and 3 calls of the clustering and risk methods | searches, clusters, risk |
| `assessment` | 2 workers, 6 different transactions of which 3 are taken or requested, 2 chains, a bridge, a bridged asset, 2 scores or none per model | window, boost, staleness, score |
| `gateway` | 2 processes, 4 tokens, lives of 2 and 3 ticks, seconds of 2, 1 failure or return of Redis, 1 restart, 3 requests, a limit of 2 in 3 ticks, 7 ticks | revocation, session, rate limit |
| `models` | 10 scripts, 3 programs, 3 runs around the graph or 4 around the live model, sizes 1 and 2, 2 epochs | what is loaded, whether it answers, the checkpoint |
| `standalone` | sources of 4 lines of 11 kinds with or without bytecode, 5 bytes of 6 kinds, 3 transactions and 2 edges, 4 scores of 5 values, 3 alerts and 3 starts of 2 processes | scanner, Elliptic data, scores, backtest, alert table |

Three more runs expect a violation; see *Findings*.

Why the bounds are enough for the cases of interest:

* The deque of 2 overflows within 4 calls, and 2 messages can be in the library's
  queue while 2 are buffered, so a drain can break off in the middle.
* A queue of 1 is full as soon as one transaction waits: an ingester of each chain
  can be blocked while both workers are busy. The first chain has two blocks by
  the same sender, so both workers can hold its transactions, and its second
  block can be mined before or after the first poll; one exception is enough to
  read a range again.
* Two disturbances allow a partition to be revoked from a member with a message
  in hand and its new owner to crash before it commits. Three messages with the
  bad one in the middle put each kind of commit before and after the other.
* Three transactions let a clock go forward and back around a window of 2, reach each
  of the five boosts (two chains and a bridge need two), and put a second worker
  between the awaits of the first. A limit of 1 and a degree of 2 for the full
  centrality stand for 20 and 100. Scores 0 and 0.6 with -1 give every combination of
  models that answered, on both sides of the half.
* Raw priorities 9 and 10 swap within two hours of decay. Three EMERGENCY alerts
  exceed the room for two.
* Four wallets make trees of depth two in the union-find forest. Three wallets
  have simple paths of at most two hops, with cycles and self-payments around
  them; the depth bound runs over 1 and 2. Payments and calls of the risk methods do
  not meet in one behaviour beyond two payments: `MCSpec` keeps the two kinds apart,
  because the searches read the payments alone.
* Tokens outlive an entry of whole seconds, an access token is refreshed by another
  process and refreshed again, a request falls on the edge of the window, and the one
  failure of Redis falls before or after a logout and its check. `MCScenario` asks one
  question at a time: many requests, or a revocation, or a long session.
* Four runs around the live model let both data sets be built and either trainer run
  after the other, over the shipped list of features; three around the graph let a
  preprocessing run be repeated under a trained model. Size 1 is a data set that a
  later step refuses.
* A line window of 1 or 2 stands for 5, 10 and 20, a large code of 4 bytes for 20000,
  a percentile of 60 for 95 and a precision of 0.6 for 0.3: four samples lie on both
  sides of each. Three alerts exceed a history of 2.

`CHECK_DEADLOCK FALSE` is set where a bounded instance comes to rest: the pipeline
when all blocks are handled or the process has died; the alert store, the graph, the
assessment and the standalone parts when a bound is reached.

### Fairness

* `ThreatIntelProducer`: weak fairness of the steps of a running call, because the
  call is synchronous and nothing in it waits. None for the broker or for delivery.
* `ScoringPipeline`: weak fairness of each ingester's loop and each worker: the
  event loop runs every task that is ready, and awaits of the network and of the
  executor end (by an answer or by an exception, both are modelled). None for
  mining, errors or `stop()`. An ingester waiting on a full queue is not enabled,
  so that it gets on is a consequence of the workers' fairness, not an assumption:
  on a bounded instance the other ingester comes to rest and leaves room (asyncio wakes
  waiting putters first come, first served, which the model does not need).
* `ThreatIntelConsumer`: weak fairness of each process's loop, and of Kafka's
  assignment of an unowned partition to *some* member that polls.
  `EveryMessageSettled` additionally supposes that the processes stay up from some
  time on; there is no fairness for starting them.

## What is proved

TLAPS checks each theorem below for every value of the constants under the named
ASSUMEs of the modules (sizes are natural numbers, `NoAlert` and `None` are not
values, `End` is monotone, and so on). TLC evaluates the same ASSUMEs. Every invariant
and every action property that a run checks is among them, so that the runs are small
instances of what holds for all, and liveness is all that rests on the runs alone.
The type invariants are proved and take no place in a run, nor do `SizeBound`,
`CreatedAccounted`, `PolledBlocksEnqueued`, `CommittedNeverFalls`, `BoostNeverFalls` and
`RoundTripsTookPlace`.

| module | theorems (of `X`, named `XAlways`) | inductive invariant |
|---|---|---|
| `ThreatIntelProducerProofs` | `TypeCorrect`, `TransactionsAccounted`, `RecentTransactionsKept`, `DrainsInCallOrder`, `HealthyCallEmptiesBuffer` | `BufferInv`: the types; `BufferGaps`, the buffer is sorted, its entries at least their distance in the deque apart; `DrainedFirst`, nothing in it is older than what was drained; `EvictedOld`, what was evicted is at least `BufferMaxLen` calls old, because a full sorted deque spans that many; and that a clean call empties it |
| | `DuplicatesOnlyAfterPollError` | `OnceInv`: a message that no error of `poll()` touched is in one of deque, library queue and topic, and there once |
| `AlertManagerProofs` | `TypeCorrect`, `SizeBound`, `CreatedAccounted` | `StoreInv`: an alert's update count is bounded by the calls made, and `peak` bounds the EMERGENCY alerts held. `SizeBound` alone is not inductive: a new alert finds no candidate to evict only if all alerts are EMERGENCY, and then `peak` must have followed them |
| | `EvictionOrder`, `DedupAccounted` | the first from the decay being monotone in hours and priority (`Power` is a recursive function); the second by what one alert adds to the sum of all updates (`SumChange`, `SumTakeOut`) |
| `ScoringPipelineProofs` | `TypeCorrect`, `PolledBlocksEnqueued`, `NothingLostInQueue`, `HandledIsRecorded`, `DegreeFallsOnlyWhenStale`, and `FeedImplemented` | `Inv`: `LoopInRange` (the loop variables lie between `last` and `target`), `ReadInOrder` (whatever the loop has passed since the first head is enqueued, and nothing from before it or not mined), the workers' types, `AddedIsRecorded` (what was added is in the graph), `DegreesNotAhead` (a degree a worker holds is at most the present one) |
| `RiskAssessmentProofs` | `WindowIsComplete`, `SignalsNeverLower` (from `ScoreIsMonotone` and `ScoreInRange`), `BoostIsEarned`, `BoostNeverFalls`, `JobsNeverOverstate` | `HistoryInv`, of which pruning keeps each part because the time it prunes by has just arrived; `IInv`: a wallet's entries in the index are those its observed transactions imply, the graph is finite, a job's boost and centrality are at most the present ones, and an assessment is the score of what it shows |
| `ThreatIntelConsumerProofs` | `TypeCorrect`, `NoSilentLoss`, `CommittedNeverFalls` | `Inv`: only live members own partitions; positions are not behind commits; a message in hand of the owner is the last one polled; what lies between the committed offset and the position is settled or in the owner's hands |
| | `RepeatedOnlyAfterDisturbance` | `HandledOnce`: until the first disturbance a message in hand belongs to the owner of its partition, and what was handled is behind the committed offset or about to be |
| `GatewayProofs` | `TypeCorrect`, `RevocationHolds`, `SessionEnds` | `IInv`: `EntriesLast`, every revocation left an entry in Redis that ends less than a second before its token (`EntryMissesASecond`), or one in the memory of a process that holds while that process lives; and `Lifetimes`, a refresh token ends a refresh lifetime after the login and an access token at most an access lifetime, and jose's second, later, because it was refreshed while jose still took the refresh token |
| | `NoBurst`, `DeniedOnlyWhenFull` | `LimitInv`: the window of a process is the end of its list of passed requests, and the requests before it are at least `Window` old (`Recorded`); it is ordered, so that pruning takes a beginning off (`SplitAt`) |
| `StandaloneProofs`: graph | `RoundTripsTookPlace` | `GraphInv`: an edge's timestamp is that of some payment between its ends |
| | `PeelBackIsConverse` | `EdgesArePayments`. Level `n` of `peel_back` holds the ends of the ways of at most `n` payments backwards; the shortest of them visits no wallet twice, which makes it one of the paths forward |
| | `PathsAreComplete` | `SuccessorsOnce`, a successor is listed once. Of the loop, `Searched`: the queue's history lists paths without repetition, shorter ones first, none more than a payment longer than the next to leave (`Met`), and has the continuations of each path that left; so that an empty queue has every path (`AllMet`). The paths that exist are at most `MaxTurns`, so that many turns empty it. A search with a limit goes the same way until it stops (`Cut`) |
| | `ClustersAreCommonOwnership` | `ClustersInv`: the forest joins the wallets that common inputs link, and nothing else (`Unites`). A wallet has a lower rank than its parent, so what passes from parent to child holds of all (`UpwardInduction`): each wallet has one root, and path compression keeps it. Sets of linked wallets grow until nothing leads out of them, at most as often as there are wallets |
| | `RiskHasSource` | `RiskInv`: a wallet at risk is flagged, or clustered with one that is flagged or paid one, and an unflagged one has at most 0.7 of the highest score given |
| `StandaloneProofs`: model files | `LoadedTogether`, `LiveModelAnswers`, `CheckpointIsBest` | `FilesInv`: what a running script has written holds its run (`Writing`); the files of a group are of one run unless it was cut short or is being written (`GraphWhole`, `LiveWhole`); what disturbs a load is in `mixed` (`Noted`); what a load has read so far is what the files hold, unless it was disturbed (`GraphRead`, `LiveRead`) |
| `StandaloneProofs`: the rest | `ReturnedIsShown`, `EdgesJoinTheirTransactions`, `BestBeatsProduction`, `TunedFindsMost`, `FlagsAbovePercentile`, `WorstDecides`, `FindingsOutlive`, `CountsInstructions` | `StandaloneInv`: the types of the inputs, rows in the order of their time steps, a class per row, and that the table has every alert whose id was returned. The rest is about the operators: the position a row gets in the extract of its time step, the best of finite sets, findings that a later line does not move, bytes that begin an instruction |

`FeedImplemented` is the refinement of `OrderedFeed`. Its mapping takes the fed set
to be `enqueued`, so that feeding a transaction of a repeated range is a stutter;
each step of the ingester maps to a step of the feed or to a stutter, and
`ReadInOrder` is what makes `Put` map to `Feed`: the loop never puts a number with
an older one missing.

`DataLemmas` has what several proofs need: sums, queues, minima, finite sets, and
induction. The induction theorems of the library take a predicate as a parameter,
which none of the provers can instantiate. `NatSetInduction` and `FiniteSetInduction` take
a set instead, of the numbers or of the subsets for which a fact holds, and
`RecursionOnNat` and `RecursionUpTo` say that a function defined step by step exists. For
their sake the operators proved about are recursive functions or folds: `Power`,
`Recent`, `Onwards`, `UniteInputs`, `Flattened`, `Opcodes` and their like have no
`SelectSeq`, and the percentile is defined by ranks (`Ranked`) instead of a sort.

Two theorems rest on a relation between constants:

* `MaxTurns` bounds the loop of `find_laundering_paths`, a bound the code does not have.
  `TurnAssumption` supposes it no less than the number of ways to go through some of the
  wallets, none twice, which is exactly 16 for 4 wallets.
* `BestBeatsProductionAlways` supposes the production threshold on the grid of the sweep,
  as 0.5 is on a grid of 19 steps. Off the grid nothing compares it.

### Only model-checked

Liveness: `EveryCallReturns`, `QueuedIsHandled`, `BlocksArePolled`,
`EveryMessageSettled`. Fairness and ENABLED are beyond this prover. The three
violations under *Findings* are counterexamples of TLC's on their instances.

## Findings

Three runs find a statement of the repository violated by what the code does.

* `producer_alerts`: "a Kafka outage delays alerts rather than losing them"
  (producer.py:99-100). `produce_alert` never uses the buffer, and the program that
  produces alerts never calls the method that does.
* `consumer_once`: "Commits offsets only after successful processing"
  (consumer.py:6) and "will retry on restart" (143). The commit of the next message
  passes the failed one.
* `single_scores`: "Higher = more anomalous = higher risk" (autoencoder.py:294).
  Scores are normalised over the batch, and the pipeline and the API score batches of
  one: every transaction gets a half from both models.

Noticed while modelling, and not given a run:

* "Idempotent — safe to call twice with same tx_hash" (threat_graph.py:145): every
  call of `add_transaction` counts, and the pipeline repeats a failed range.
* "max_paths limit prevents exponential explosion on hub nodes" (threat_graph.py:249):
  the `continue` for a path of full depth skips the limit; `PathsAreComplete` states
  what the limit does promise.
* "centrality alone tops out below the watchlist threshold" (risk_scorer.py:219-220),
  where a degree of 100 or more gives 0.5, which is the threshold.
* "scores that model as 0.5 (neutral)" (model_registry.py:11), where the code gives -1
  and leaves the model out; the registry's autoencoder always does, because the method
  it calls is not the class's.
* "-1 = first seen" (feature_engineer.py:61), where `time_since_last` is negative for
  any transaction older than the two newest of its sender.
* "SAME components" (collect_live_baseline.py:11): the baseline's scores have the live
  model in the place of the graph model, unlike the pipeline's.

## Not modelled

* Fitting and inference of the models, the feature arithmetic, the explainer, the
  drift statistics: floating-point work, most of it in third-party libraries.
* Metrics and tracing, which nothing reads back; signing, which is calls of a
  cryptographic library; `vault_client.py` and the chain factory, which nothing in the
  repository calls; the dashboard and the deployment files.
* `detect_communities_louvain`: its partition comes from a library, and nothing in
  `src/` calls it.
* The rows of scan results and the statistics over the alert table.
* Two scripts at once, and requests without credentials, which every protected route
  answers with 401.
* A restart of the pipeline: nothing is persisted, and a new process begins at the
  head it finds.

## Plan

Done, in this order: producer, alert store, ingesters with the pipeline, consumer,
threat graph, risk scorer with the assessment; gateway, model files, the standalone
parts; liveness of the pipeline with both workers; proofs of every safety property. What is
left, most important first:

1. The pipeline composed with `AlertManager` and `RiskAssessment` in place of its
   array of degrees, so that eviction and stale assessments meet.
2. The drift window with its 50-transaction schedule per worker, and the second
   pipeline of `async_pipeline.py` over `BlockIngester` and `ThreatIntelProducer`.
3. Proofs: the window and the boost of `RiskAssessment` under the composition of item 1;
   the completeness of `find_laundering_paths` for depths beyond the two of
   `PathsAreComplete`, of which the lemmas already speak.
