------------------------------- MODULE ModelFiles -------------------------------
(***************************************************************************)
(* The files of data/processed and data/models.  Scripts that are run by   *)
(* hand write them one after the other and may be stopped in between; a    *)
(* process that scores reads them once, when it starts, in an order of its *)
(* own, and nothing tells it which files belong together.                  *)
(*                                                                         *)
(* A file is known by the run that wrote it.  The reports that no program  *)
(* reads back (metrics, histories, metadata, gnn_final.pt) are left out.   *)
(***************************************************************************)
EXTENDS Integers, Sequences, FiniteSets

CONSTANTS
  Scripts,    \* the scripts that are run
  Programs,   \* the programs that load: "pipeline", "api", "backtest"
  Sizes,      \* sizes of the raw data
  F1s,        \* F1 of an epoch on the held-out nodes
  MaxRuns, MaxEpochs   \* bounds

ASSUME F1Assumption == F1s \subseteq Nat
ASSUME SizeAssumption == Sizes \subseteq Nat
ASSUME RunsAssumption == MaxRuns \in Nat /\ MaxEpochs \in Nat

Absent == 0
Torn == -1

Arrays == <<"X_train", "X_test", "y_train", "y_test", "train_mask", "test_mask", "edge_index">>
Tables == SubSeq(Arrays, 1, 6)

\* A script: the files it reads, and those it writes, in this order.
Elliptic == [reads |-> <<>>, writes |-> Arrays \o <<"scaler">>]
TrainGnn == [reads |-> Arrays, writes |-> <<"gnn_best">>]
TrainAutoencoder == [reads |-> Tables, writes |-> <<"autoencoder">>]
TrainIsolationForest == [reads |-> Tables, writes |-> <<"isolation_forest">>]
BuildDataset == [reads |-> <<>>, writes |-> <<"live_X", "live_y">>]
BuildDatasetV2 == [reads |-> <<>>, writes |-> <<"live_X_v2", "live_y_v2">>]
TrainLiveModel ==
  [reads |-> BuildDataset.writes, writes |-> <<"live_model", "live_scaler">>]

\* Mutant: the second trainer leaves the scaler of the first.
TrainLiveModelV2NoScaler ==
  [reads |-> BuildDatasetV2.writes, writes |-> <<"live_model", "live_model_features">>]
TrainLiveModelV2 ==
  [reads |-> BuildDatasetV2.writes,
   writes |-> <<"live_model", "live_scaler", "live_model_features">>]
GenerateBaseline == [reads |-> <<"gnn_best">> \o Arrays, writes |-> <<"drift_baseline">>]
CollectBaseline == [reads |-> <<>>, writes |-> <<"drift_baseline">>]

Script ==
  [elliptic |-> Elliptic, gnn |-> TrainGnn, autoencoder |-> TrainAutoencoder,
   isolation_forest |-> TrainIsolationForest, dataset_v1 |-> BuildDataset,
   live_v1 |-> TrainLiveModel, dataset_v2 |-> BuildDatasetV2, live_v2 |-> TrainLiveModelV2,
   baseline |-> GenerateBaseline, live_baseline |-> CollectBaseline]

\* What a program reads, in sections that fail apart.
EngineSections ==
  << <<"scaler">>, <<"isolation_forest">>, <<"autoencoder">>, <<"gnn_best">> \o Arrays,
     <<"live_model", "live_scaler", "live_model_features">>, <<"drift_baseline">> >>
RegistrySections == << <<"isolation_forest">>, <<"autoencoder">>, <<"scaler">>, <<"gnn_best">> >>
BacktesterSections == << <<"gnn_best">> \o Arrays >>
Sections ==
  [pipeline |-> EngineSections, api |-> RegistrySections, backtest |-> BacktesterSections]

Files == UNION {{Script[s].writes[i] : i \in DOMAIN Script[s].writes} : s \in DOMAIN Script}

ASSUME NamesAssumption == Scripts \subseteq DOMAIN Script /\ Programs \subseteq DOMAIN Sections

VARIABLES
  files,       \* files[f]: the run that wrote f, Absent or Torn
  runs,        \* what each run was: its script and the size of its data
  job,         \* the script that is running
  checkpoint,  \* what gnn_best.pt holds: its F1 and its history
  engine,      \* what the program holds: [file -> run]
  loading,     \* the program, the section and the file it reads next
  cut,         \* history: groups of files whose last run was cut short
  mixed        \* history: groups cut short, or written while they were read

fileVars == <<files, runs, job, checkpoint, engine, loading, cut, mixed>>

NoJob == [script |-> "none", written |-> 0, history |-> <<>>]
NotLoading == [program |-> "none", section |-> 0, file |-> 0]
Nothing == [f \in Files |-> Absent]
Run == Len(runs)

\* The repository ships two of the files without the models they go with.
Shipped == {"live_model_features", "drift_baseline"}

InitFiles ==
  /\ files = [f \in Files |-> IF f \in Shipped THEN 1 ELSE Absent]
  /\ runs = << [script |-> "shipped", size |-> 0] >>
  /\ job = NoJob
  /\ checkpoint = [f1 |-> -1, history |-> <<>>]
  /\ engine = Nothing
  /\ loading = NotLoading
  /\ cut = {} /\ mixed = {}

-----------------------------------------------------------------------------
(* The scripts *)

Group(s) ==
  CASE s = "elliptic" -> "graph" [] s \in {"live_v1", "live_v2"} -> "live" [] OTHER -> s

SizeOf(f) == runs[files[f]].size
SameSize(fs) == \A f, g \in fs : SizeOf(f) = SizeOf(g)

\* Arrays of other sizes, or a class with a single row, make a script raise.
Usable(s) ==
  /\ \A i \in DOMAIN Script[s].reads : files[Script[s].reads[i]] > 0
  /\ Script[s].reads # <<>> /\ s \notin {"live_v1", "live_v2"} =>
       /\ SameSize({"X_train", "y_train", "train_mask"})
       /\ SameSize({"X_test", "y_test", "test_mask"})
  /\ s = "live_v1" => SameSize({"live_X", "live_y"}) /\ SizeOf("live_X") > 1
  /\ s = "live_v2" => SameSize({"live_X_v2", "live_y_v2"})

\* The second data set is only saved with twenty rows of each class.
Start(s) ==
  /\ job = NoJob /\ Run < MaxRuns
  /\ Usable(s)
  /\ \E n \in Sizes :
       /\ s = "dataset_v2" => n > 1
       /\ runs' = Append(runs, [script |-> s, size |-> IF Script[s].reads = <<>> THEN n ELSE 0])
  /\ job' = [NoJob EXCEPT !.script = s]
  /\ mixed' = IF loading = NotLoading THEN mixed ELSE mixed \cup {Group(s)}
  /\ UNCHANGED <<files, checkpoint, engine, loading, cut>>

NextOutput == Script[job.script].writes[job.written + 1]

Write ==
  /\ job # NoJob /\ job.script # "gnn"
  /\ files' = [files EXCEPT ![NextOutput] = Run]
  /\ IF job.written + 1 = Len(Script[job.script].writes)
     THEN job' = NoJob /\ cut' = cut \ {Group(job.script)}
     ELSE job' = [job EXCEPT !.written = @ + 1] /\ UNCHANGED cut
  /\ UNCHANGED <<runs, checkpoint, engine, loading, mixed>>

BestF1(history) == CHOOSE f \in {-1} \cup {history[i] : i \in DOMAIN history} :
                     \A i \in DOMAIN history : f >= history[i]

\* Mutant: the best F1 is that of the file, whichever run it is from.
EpochBeatsFile(f1) ==
  /\ job.script = "gnn" /\ Len(job.history) < MaxEpochs
  /\ job' = [job EXCEPT !.history = Append(@, f1)]
  /\ IF f1 > checkpoint.f1
     THEN /\ files' = [files EXCEPT !["gnn_best"] = Run]
          /\ checkpoint' = [f1 |-> f1, history |-> job'.history]
     ELSE UNCHANGED <<files, checkpoint>>
  /\ UNCHANGED <<runs, engine, loading, cut, mixed>>

\* An epoch in which some batch had a labelled node; it is saved if it is the
\* best of this run.
Epoch(f1) ==
  /\ job.script = "gnn" /\ Len(job.history) < MaxEpochs
  /\ job' = [job EXCEPT !.history = Append(@, f1)]
  /\ IF f1 > BestF1(job.history)
     THEN /\ files' = [files EXCEPT !["gnn_best"] = Run]
          /\ checkpoint' = [f1 |-> f1, history |-> job'.history]
     ELSE UNCHANGED <<files, checkpoint>>
  /\ UNCHANGED <<runs, engine, loading, cut, mixed>>

\* The last epoch; without a labelled node in any the script raises here.
TrainingEnds ==
  /\ job.script = "gnn"
  /\ job' = NoJob
  /\ UNCHANGED <<files, runs, checkpoint, engine, loading, cut, mixed>>

\* A script is stopped, at the worst in the middle of a file.
Crash ==
  /\ job # NoJob
  /\ LET f == IF job.script = "gnn" THEN "gnn_best" ELSE NextOutput IN
     files' \in {files, [files EXCEPT ![f] = Torn]}
  /\ cut' = IF job.written > 0 \/ files' # files THEN cut \cup {Group(job.script)} ELSE cut
  /\ job' = NoJob
  /\ UNCHANGED <<runs, checkpoint, engine, loading, mixed>>

-----------------------------------------------------------------------------
(* The programs *)

\* A file that is being written may be read half.
Seen(f) ==
  {files[f]} \cup
  (IF job # NoJob /\ f = (IF job.script = "gnn" THEN "gnn_best" ELSE NextOutput) THEN {Torn} ELSE {})

\* A new process; the models of the old one are gone with it.
Begin(p) ==
  /\ loading = NotLoading
  /\ loading' = [program |-> p, section |-> 1, file |-> 1]
  /\ engine' = Nothing
  /\ mixed' = cut \cup (IF job = NoJob THEN {} ELSE {Group(job.script)})
  /\ UNCHANGED <<files, runs, job, checkpoint, cut>>

Current == Sections[loading.program][loading.section]

NextSection ==
  IF loading.section = Len(Sections[loading.program]) THEN NotLoading
  ELSE [program |-> loading.program, section |-> loading.section + 1, file |-> 1]

NextFile == IF loading.file = Len(Current) THEN NextSection ELSE [loading EXCEPT !.file = @ + 1]

\* A section whose first file (both, of the live model) is missing is skipped.
Missing ==
  /\ loading.file = 1
  /\ \/ files[Current[1]] = Absent
     \/ Current[1] = "live_model" /\ files["live_scaler"] = Absent

\* build_pyg_data, with the arrays read and the last one still to come.
Builds ==
  /\ runs[engine["train_mask"]].size = runs[engine["X_train"]].size
  /\ runs[engine["test_mask"]].size = runs[engine["X_test"]].size

\* The next file of the section: read, missing though it may be (the kept
\* features of the live model), or the end of its section by an exception.
Load ==
  /\ loading # NotLoading
  /\ LET f == Current[loading.file] IN
     IF Missing THEN loading' = NextSection /\ UNCHANGED engine
     ELSE \E v \in Seen(f) :
       \/ /\ v > 0 /\ (f = "edge_index" => Builds)
          /\ engine' = [engine EXCEPT ![f] = v]
          /\ loading' = NextFile
       \/ /\ v = Absent /\ f = "live_model_features"
          /\ loading' = NextFile /\ UNCHANGED engine
       \/ /\ v = Torn \/ (v = Absent /\ f # "live_model_features") \/ (v > 0 /\ f = "edge_index" /\ ~Builds)
          /\ loading' = NextSection /\ UNCHANGED engine
  /\ UNCHANGED <<files, runs, job, checkpoint, cut, mixed>>

NextFiles ==
  \/ \E s \in Scripts : Start(s)
  \/ Write \/ TrainingEnds \/ Crash
  \/ \E f1 \in F1s : Epoch(f1)
  \/ \E p \in Programs : Begin(p)
  \/ Load

FilesSpec == InitFiles /\ [][NextFiles]_fileVars

-----------------------------------------------------------------------------
(* What the models answer *)

Width(run) == IF runs[run].script = "live_v1" THEN 16 ELSE 13

\* Mutant: the vector is not cut down to the features the model was trained on.
LiveAnswersUncut ==
  /\ engine["live_model"] # Absent /\ engine["live_scaler"] # Absent
  /\ Width(engine["live_scaler"]) = 16 /\ Width(engine["live_model"]) = 16

\* score_live: a vector, a scaler and a model of different widths raise, -1.
LiveAnswers ==
  /\ engine["live_model"] # Absent /\ engine["live_scaler"] # Absent
  /\ LET width == IF engine["live_model_features"] = Absent THEN 16 ELSE 13 IN
     Width(engine["live_scaler"]) = width /\ Width(engine["live_model"]) = width

\* score_with_gnn: the graph is there only when all of it was read.
GraphAnswers == engine["gnn_best"] # Absent /\ engine["edge_index"] # Absent

-----------------------------------------------------------------------------
\* A program that was not started over half a save, or during one, scores
\* with files that belong together: one preprocessing run for the graph and
\* the scaler, one training run for the live model and its scaler
\* (inference_engine.py:46, elliptic_processor.py:287, train_live_model_v2.py:94).
LoadedTogether ==
  loading = NotLoading =>
    /\ "graph" \notin mixed /\ GraphAnswers =>
         \A i \in DOMAIN Arrays : engine[Arrays[i]] = engine["X_train"]
    /\ "graph" \notin mixed /\ engine["scaler"] # Absent /\ GraphAnswers =>
         engine["scaler"] = engine["X_train"]
    /\ "live" \notin mixed =>
         /\ engine["live_model"] = engine["live_scaler"]
         /\ engine["live_model_features"] <= engine["live_model"]

\* The live model such a program loaded answers, but in one case: it is from
\* the first trainer, and the list of features of the second (or the one that
\* is shipped) lies beside it.  Then every score is -1 while load() reports
\* the model as there
\* (train_live_model.py:78, inference_engine.py:142, 214).
LiveModelAnswers ==
  loading = NotLoading /\ "live" \notin mixed /\ engine["live_model"] # Absent =>
    (LiveAnswers <=> ~(/\ runs[engine["live_model"]].script = "live_v1"
                       /\ engine["live_model_features"] # Absent))

\* From the first epoch of a run on, gnn_best.pt is the first of its epochs
\* with the highest F1, whatever an older run had reached (trainer.py:249).
CheckpointIsBest ==
  /\ job.script = "gnn" /\ job.history # <<>> =>
       files["gnn_best"] = Run /\ checkpoint.f1 = BestF1(job.history)
  /\ files["gnn_best"] > 0 =>
       LET h == checkpoint.history IN
       checkpoint.f1 = h[Len(h)] /\ \A i \in 1..Len(h) - 1 : h[i] < checkpoint.f1
=============================================================================
