-------------------------------- MODULE Standalone ------------------------------
(***************************************************************************)
(* The parts that share no state with the others, side by side.  The       *)
(* contract scanner, the preparation of the Elliptic graph, the anomaly    *)
(* scores and the backtest compute an answer from one input and keep       *)
(* nothing: the input of one of them grows by one item a step, so that     *)
(* every input within the bounds is met, and with it the one it continues. *)
(* The database runs alone too.                                            *)
(***************************************************************************)
EXTENDS ContractScanner, EllipticGraph, AnomalyScores, Backtest, AlertRepository

CONSTANTS
  Parts,                       \* the parts a run looks at
  Lines, MaxLines,             \* kinds of lines of a source
  Bytes, MaxBytes,             \* kinds of bytes of a bytecode
  Ids, MaxRows, MaxEdges,      \* transactions of the raw files
  RawScores, MaxSamples        \* scores of a batch, of the GNN or raw

ASSUME RawInputAssumption == RawScores \subseteq Int /\ {MaxLines, MaxBytes, MaxRows, MaxEdges, MaxSamples} \subseteq Nat

VARIABLES part, contract, code, rows, classes, edges, samples

inputs == <<contract, code, rows, classes, edges, samples>>
vars == <<part, inputs, dbvars>>

\* A source is scanned alone or with a bytecode, here a lone SELFDESTRUCT.
Init ==
  /\ part \in Parts
  /\ contract = <<>>
  /\ code \in IF part = "source" THEN {<<>>, <<"selfdestruct">>} ELSE {<<>>}
  /\ rows = <<>> /\ classes = {} /\ edges = {}
  /\ samples = <<>>
  /\ InitDatabase

AddLine(line) ==
  /\ part = "source" /\ Len(contract) < MaxLines
  /\ contract' = Append(contract, line)
  /\ UNCHANGED <<part, dbvars, code, rows, classes, edges, samples>>

AddByte(byte) ==
  /\ part = "bytecode" /\ Len(code) < MaxBytes
  /\ code' = Append(code, byte)
  /\ UNCHANGED <<part, dbvars, contract, rows, classes, edges, samples>>

\* The features file is in the order of the time steps.
AddRow(id, step, class) ==
  /\ part = "elliptic" /\ Len(rows) < MaxRows
  /\ \A i \in DOMAIN rows : rows[i].id # id /\ rows[i].step <= step
  /\ rows' = Append(rows, [id |-> id, step |-> step])
  /\ classes' = IF class = 0 THEN classes ELSE classes \cup {[id |-> id, class |-> class]}
  /\ UNCHANGED <<part, dbvars, contract, code, edges, samples>>

\* An edge may be to a transaction the features file lacks.
AddEdge(from, to) ==
  /\ part = "elliptic" /\ Cardinality(edges) < MaxEdges
  /\ edges' = edges \cup {<<from, to>>}
  /\ UNCHANGED <<part, dbvars, contract, code, rows, classes, samples>>

AddSample(score, label) ==
  /\ part = "batch" /\ Len(samples) < MaxSamples
  /\ samples' = Append(samples, [score |-> score, label |-> label])
  /\ UNCHANGED <<part, dbvars, contract, code, rows, classes, edges>>

Next ==
  \/ \E line \in Lines : AddLine(line)
  \/ \E byte \in Bytes : AddByte(byte)
  \/ \E id \in Ids, step \in 1..LastTestStep, class \in 0..2 : AddRow(id, step, class)
  \/ \E from, to \in Ids : AddEdge(from, to)
  \/ \E score \in RawScores, label \in {0, 1} : AddSample(score, label)
  \/ part = "database" /\ NextDatabase /\ UNCHANGED <<part, inputs>>

Spec == Init /\ [][Next]_vars

-----------------------------------------------------------------------------
\* A contract whose worst finding is of a higher severity scores above every
\* contract whose worst is of a lower one, however many findings dilute the
\* mean, and above its worst finding only if its bytecode does
\* (contract_scanner.py:32, 86).
WorstDecides ==
  LET findings == Scan(contract)
      risk == CombinedRisk(contract, code) IN
  findings # {} =>
    /\ risk <= 100 * Worst(findings) \/ risk = BytecodeRisk(code)
    /\ \A lower \in {25, 50, 75} : lower < Worst(findings) => risk > 100 * lower

\* A line at the end of a source takes no finding away and makes none milder,
\* but for the two that look at the rest of the source: a protection clears a
\* function above it, and SafeMath the overflows (rule_engine.py:176, 253, 300).
FindingsOutlive ==
  [][\A f \in Scan(contract) : f.type \notin {"ACCESS_CONTROL", "INTEGER_OVERFLOW"} =>
       \E g \in Scan(contract') :
         /\ [g EXCEPT !.confidence = f.confidence] = f
         /\ g.confidence >= f.confidence]_contract

\* An opcode is counted when the bytes up to it are whole instructions, and
\* no byte of a PUSH's data is (ml_classifier.py:111).
CountsInstructions ==
  LET Starts[i \in 1..Len(code)] ==
        i = 1 \/ \E j \in 1..(i - 1) : Starts[j] /\ j + PushSize(code[j]) + 1 = i IN
  \A opcode \in Range(code) :
    Count(code, opcode) = Cardinality({i \in DOMAIN code : Starts[i] /\ code[i] = opcode})

\* With a features file in the order of its time steps, as published, the two
\* numberings agree: the graph holds exactly the raw edges between known
\* transactions, every label is on the node of its transaction, unknown nodes
\* are in no mask, and what is tested on is later than what is trained on
\* (elliptic_processor.py:332, trainer.py:52).
EdgesJoinTheirTransactions ==
  LET data == Data(rows, classes, edges)
      n == Len(data.ids)
      class(id) == {c.class : c \in {x \in classes : x.id = id}} IN
  /\ \A e \in data.edges : e[1] \in 1..n /\ e[2] \in 1..n
  /\ {<<data.ids[e[1]], data.ids[e[2]]>> : e \in data.edges} =
       {e \in edges : \A i \in 1..2 : \E j \in DOMAIN rows : rows[j].id = e[i]}
  /\ \A i \in data.train \cup data.test :
       class(data.ids[i]) = {IF data.y[i] = 1 THEN 1 ELSE 2}
  /\ \A i \in data.train, j \in data.test : data.steps[i] < data.steps[j]

Raw == [i \in DOMAIN samples |-> samples[i].score]
Labels == [i \in DOMAIN samples |-> samples[i].label]
Licit == Kept(Raw, {i \in DOMAIN samples : Labels[i] = 0})

\* On the licit samples the threshold was set from, the autoencoder flags all
\* whose error is above the percentile and none whose error is below it
\* (autoencoder.py:309).
FlagsAbovePercentile ==
  Licit # <<>> =>
    LET flagged == Predict(Licit, SetThreshold(Licit)) IN
    \A i \in DOMAIN Licit :
      /\ 100 * Licit[i] > RawThreshold(Licit) => i \in flagged
      /\ i \in flagged => 100 * Licit[i] >= RawThreshold(Licit)

\* The tuned isolation forest finds as many of the illicit samples it was
\* tuned on as any cut of the raw scores that is precise enough, and is
\* itself precise enough when there is such a cut (isolation_forest.py:135).
TunedFindsMost ==
  samples # <<>> =>
    LET flagged == Predict(Raw, TuneThreshold(Raw, Labels)) IN
    \A cut \in Range(Raw) :
      LET above == {i \in DOMAIN Raw : Raw[i] >= cut} IN
      Precise(above, Labels) =>
        Precise(flagged, Labels) /\ Hits(above, Labels) <= Hits(flagged, Labels)

\* Of two transactions that come one after the other, as they do in the
\* pipeline and the API, the more anomalous one has the higher score
\* (autoencoder.py:294, inference_engine.py:178).
HigherIsMoreAnomalous ==
  \A i, j \in DOMAIN Raw :
    Raw[i] > Raw[j] => ~AtLeast(ScoreFeatures(Raw[j]), ScoreFeatures(Raw[i]))

\* An alert whose id save_alert returned is in the table for good, and in the
\* history a reader is shown unless that is full of alerts no older, whatever
\* failed or restarted since (alert_repository.py:32, session.py:58).
ReturnedIsShown ==
  \A id \in returned :
    \E r \in alerts :
      /\ r.id = id
      /\ \A shown \in Recent(alerts) :
           r \in shown \/ (Cardinality(shown) = HistoryLimit /\ \A o \in shown : o.created >= r.created)

\* The recommended operating point is never worse than the production one,
\* which has to be on the grid of the sweep for that, and of all points as
\* good it is the one that misses the fewest (backtester.py:86, 176).
BestBeatsProduction ==
  LET sweep == Sweep(samples)
      best == Best(sweep)
      production == Evaluated(samples, ProductionThreshold) IN
  /\ best.f1 >= production.f1
  /\ \A m \in sweep : m.f1 = best.f1 => m.confusion.fn >= best.confusion.fn
=============================================================================
