-------------------------- MODULE ScoringPipeline --------------------------
(***************************************************************************)
(* The process of src/pipeline/scoring_pipeline.py: the ingesters of all   *)
(* chains, the queue they share, and the scoring workers on the same event *)
(* loop.  A worker awaits its models before it adds the transaction to the *)
(* graph and again before it uses the centrality it read there, so workers *)
(* interleave at those points; what it does after the second await         *)
(* (assessment, alert store, Kafka, database) is one step.                 *)
(***************************************************************************)
EXTENDS BlockIngester, FiniteSets

CONSTANTS
  Workers,    \* scoring workers
  Addresses,  \* wallets
  Creates,    \* the empty to_addr of a contract creation
  Sender,     \* Sender[c][n]: from_addr of transaction n of chain c
  Receiver,   \* Receiver[c][n]: its to_addr, or Creates
  None        \* no transaction

ASSUME AddressAssumption == Creates \notin Addresses
ASSUME NoneAssumption == None \notin Transactions
ASSUME TransactionAssumption ==
  \A c \in Chains :
    /\ Sender[c] \in [Numbers(c) -> Addresses]
    /\ Receiver[c] \in [Numbers(c) -> Addresses \cup {Creates}]

VARIABLES
  wpc,        \* where a worker is
  tx,         \* the transaction it scores
  seen,       \* the degree of the sender it has read
  nodes,      \* _threat_graph: wallets
  edges,      \* ... who sent to whom
  txCount,    \* ... tx_count of a wallet
  active,     \* _cross_chain: which wallet was seen on which chain
  added,      \* history: transactions that were added to the graph
  alerts,     \* _alert_manager: the degree assessed, -1 without an alert
  handled,    \* transactions task_done() was called for
  failed      \* those whose scoring raised

workerVars == <<wpc, tx, seen>>
graphVars == <<nodes, edges, txCount, active, added>>
scoringVars == <<workerVars, graphVars, alerts, handled, failed>>
vars == <<ingesterVars, scoringVars>>

From(t) == Sender[t[1]][t[2]]
To(t) == Receiver[t[1]][t[2]]
Wallets(t) == {From(t), To(t)} \ {Creates}
Edge(t) == {<<From(t), a>> : a \in {To(t)} \ {Creates}}

\* in_degree + out_degree of a wallet.
Degree(G, a) == Cardinality({e \in G : e[1] = a}) + Cardinality({e \in G : e[2] = a})

Init ==
  /\ IngesterInit
  /\ wpc = [w \in Workers |-> "idle"]
  /\ tx = [w \in Workers |-> None]
  /\ seen = [w \in Workers |-> 0]
  /\ nodes = {} /\ edges = {} /\ active = {} /\ added = {}
  /\ txCount = [a \in Addresses |-> 0]
  /\ alerts = [a \in Addresses |-> -1]
  /\ handled = {} /\ failed = {}

\* Mutant: a transaction of which another worker just took the sender's
\* previous one is skipped.
GetSkipsBusySender(w) ==
  /\ alive /\ wpc[w] = "idle" /\ queue # <<>>
  /\ queue' = Tail(queue)
  /\ IF \E v \in Workers : wpc[v] # "idle" /\ From(tx[v]) = From(Head(queue))
     THEN UNCHANGED <<tx, wpc>>
     ELSE tx' = [tx EXCEPT ![w] = Head(queue)] /\ wpc' = [wpc EXCEPT ![w] = "models"]
  /\ UNCHANGED <<head, ipc, running, chainVars, enqueued, errors, alive,
                 seen, graphVars, alerts, handled, failed>>

\* queue.get and the feature extraction that follows it.
Get(w) ==
  /\ alive /\ wpc[w] = "idle" /\ queue # <<>>
  /\ tx' = [tx EXCEPT ![w] = Head(queue)]
  /\ queue' = Tail(queue)
  /\ wpc' = [wpc EXCEPT ![w] = "models"]
  /\ UNCHANGED <<head, ipc, running, chainVars, enqueued, errors, alive,
                 seen, graphVars, alerts, handled, failed>>

\* Mutant: a sender has one edge, to whom it paid last.
AddToGraphLatestOnly(w) ==
  LET t == tx[w] IN
  /\ alive /\ wpc[w] = "models"
  /\ nodes' = nodes \cup Wallets(t)
  /\ edges' = {e \in edges : e[1] # From(t)} \cup Edge(t)
  /\ txCount' = [txCount EXCEPT ![From(t)] = IF To(t) = Creates THEN @ ELSE @ + 1]
  /\ active' = active \cup {<<a, t[1]>> : a \in Wallets(t)}
  /\ added' = added \cup {t}
  /\ seen' = [seen EXCEPT ![w] = Degree(edges', From(t))]
  /\ wpc' = [wpc EXCEPT ![w] = "live"]
  /\ UNCHANGED <<ingesterVars, tx, alerts, handled, failed>>

\* The model scores are there: add_transaction, the degree is read, and the
\* cross-chain index observes both wallets.
AddToGraph(w) ==
  LET t == tx[w] IN
  /\ alive /\ wpc[w] = "models"
  /\ nodes' = nodes \cup Wallets(t)
  /\ edges' = edges \cup Edge(t)
  /\ txCount' = [txCount EXCEPT ![From(t)] = IF To(t) = Creates THEN @ ELSE @ + 1]
  /\ active' = active \cup {<<a, t[1]>> : a \in Wallets(t)}
  /\ added' = added \cup {t}
  /\ seen' = [seen EXCEPT ![w] = Degree(edges', From(t))]
  /\ wpc' = [wpc EXCEPT ![w] = "live"]
  /\ UNCHANGED <<ingesterVars, tx, alerts, handled, failed>>

\* task_done, and back to queue.get.
Done(w) ==
  /\ handled' = handled \cup {tx[w]}
  /\ wpc' = [wpc EXCEPT ![w] = "idle"]
  /\ tx' = [tx EXCEPT ![w] = None]
  /\ seen' = [seen EXCEPT ![w] = 0]
  /\ UNCHANGED <<ingesterVars, graphVars>>

\* The live model answered and the assessment is no threat.
NoThreat(w) ==
  /\ alive /\ wpc[w] = "live"
  /\ Done(w)
  /\ UNCHANGED <<alerts, failed>>

\* A threat: the alert store, then Kafka, then the database.
Threat(w) ==
  /\ alive /\ wpc[w] = "live"
  /\ alerts' = [alerts EXCEPT ![From(tx[w])] = seen[w]]
  /\ Done(w)
  /\ UNCHANGED failed

\* produce_alert raises what it does not catch: the alert is in the store, but
\* the rest of the scoring, the database row with it, is left out.
ThreatNotProduced(w) ==
  /\ alive /\ wpc[w] = "live"
  /\ alerts' = [alerts EXCEPT ![From(tx[w])] = seen[w]]
  /\ failed' = failed \cup {tx[w]}
  /\ Done(w)

\* Mutant: the exception ends the worker.
ScoringFailsForGood(w) ==
  /\ alive /\ wpc[w] \in {"models", "live"}
  /\ wpc' = [wpc EXCEPT ![w] = "ended"]
  /\ UNCHANGED <<ingesterVars, tx, seen, graphVars, alerts, handled, failed>>

\* Scoring raises at either await: logged, not retried, and still task_done.
ScoringFails(w) ==
  /\ alive /\ wpc[w] \in {"models", "live"}
  /\ failed' = failed \cup {tx[w]}
  /\ Done(w)
  /\ UNCHANGED alerts

Work(w) ==
  \/ Get(w) \/ AddToGraph(w)
  \/ NoThreat(w) \/ Threat(w) \/ ThreatNotProduced(w) \/ ScoringFails(w)

Ingest(c) == Loop(c) /\ UNCHANGED scoringVars

Next ==
  \/ \E c \in Chains : Ingest(c)
  \/ \E c \in Chains : Outside(c) /\ UNCHANGED scoringVars
  \/ \E w \in Workers : Work(w)

\* The event loop runs every task that can run, and the network and the
\* executor answer.
Fairness ==
  /\ \A c \in Chains : WF_vars(Ingest(c))
  /\ \A w \in Workers : WF_vars(Work(w))

Spec == Init /\ [][Next]_vars /\ Fairness

----------------------------------------------------------------------------
\* Every variable keeps its type, and the queue its maxsize.
TypeOK ==
  /\ IngesterTypeOK
  /\ wpc \in [Workers -> {"idle", "models", "live"}]
  /\ \A w \in Workers : tx[w] \in IF wpc[w] = "idle" THEN {None} ELSE Transactions
  /\ seen \in [Workers -> Nat]
  /\ nodes \subseteq Addresses
  /\ edges \subseteq Addresses \X Addresses
  /\ txCount \in [Addresses -> Nat]
  /\ active \subseteq Addresses \X Chains
  /\ alerts \in [Addresses -> Nat \cup {-1}]
  /\ added \subseteq Transactions /\ handled \subseteq Transactions
  /\ failed \subseteq handled

\* "no data loss under load": what was put in the queue is in it, is being
\* scored, or was handled; two workers and several ingesters lose nothing
\* between them.
NothingLostInQueue ==
  \A c \in Chains : \A n \in enqueued[c] :
    \/ <<c, n>> \in ToSet(queue) \cup handled
    \/ \E w \in Workers : tx[w] = <<c, n>>

\* A transaction that was handled without an error is in the graph with its
\* edge, and both its wallets are known on its chain, whatever other workers
\* entered since.
HandledIsRecorded ==
  \A t \in handled \ failed :
    /\ Wallets(t) \subseteq nodes
    /\ Edge(t) \subseteq edges
    /\ \A a \in Wallets(t) : <<a, t[1]>> \in active

\* A worker may overwrite a newer assessment with an older one, because the
\* degree it uses was read before an await; that another worker enlarged the
\* graph in between is the only way the degree behind an alert falls.
DegreeFallsOnlyWhenStale ==
  [][\A a \in Addresses : alerts'[a] < alerts[a] => alerts'[a] < Degree(edges, a)]_vars

\* The ingester of a chain that is not sampled implements the ordered feed.
Feed == INSTANCE OrderedFeed WITH
  Feeds <- Chains \ Sampled,
  mined <- [c \in Chains \ Sampled |-> End[c][head[c]]],
  begin <- [c \in Chains \ Sampled |-> End[c][first[c]]],
  fed <- [c \in Chains \ Sampled |-> enqueued[c]]

\* No gap and no transaction ahead of an older one, through errors, repeated
\* ranges and a full queue.
ImplementsFeed == Feed!Init /\ [][Feed!Next]_Feed!feedVars

\* The workers empty the queue: what is in it is handled, unless the process
\* dies first.
QueuedIsHandled ==
  \A t \in Transactions : t \in ToSet(queue) ~> t \in handled \/ ~alive

\* A running ingester catches up with every block, though it waits for a full
\* queue and starts ranges again after errors.
BlocksArePolled ==
  \A c \in Chains : \A b \in 1..MaxHeight[c] :
    head[c] = b ~> last[c] >= b \/ ~running[c] \/ ~alive
============================================================================
